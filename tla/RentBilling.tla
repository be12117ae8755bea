---------------------------- MODULE RentBilling ----------------------------
(***************************************************************************)
(* The recurring rent worker and the operators who issue and void charges  *)
(* of the same contract by hand.                                           *)
(*                                                                         *)
(*   application/recurring_rent.py            RecurringRentWorker          *)
(*   adapters/postgres/recurring_rent.py      PostgresRecurringBilling     *)
(*   application/handlers/rent.py             RentService                  *)
(*   adapters/postgres/rent_repository.py     run_command, lookup          *)
(*   V109-V111                                ledger scope, command rows   *)
(*                                                                         *)
(* A ledger transaction is two steps: the client runs it up to COMMIT,     *)
(* holding the ledger scope's row lock, and the server commits or aborts   *)
(* it later, whether or not the client is still there to hear.             *)
(*                                                                         *)
(* One contract.  A charge's fingerprint (calculation_sha256) covers the   *)
(* contract's version, and is that version here; amounts are left to the   *)
(* flag payable.  A transaction that holds the lock has read what the last *)
(* one left: SERIALIZABLE makes a stale one RETRYABLE_TRANSACTION.         *)
(***************************************************************************)
EXTENDS Naturals, Sequences

CONSTANTS
    Workers,      \* incarnations of the billing worker
    Operators,    \* users of the rent API
    Periods,      \* period_id values; cycle_command_key is one to one with them
    Keys,         \* idempotency keys the operators' clients generate
    Nobody,       \* "no transaction holds the scope lock", outside the processes
    MaxAttempts,  \* WorkerConfig.max_attempts
    MaxVersion,   \* bound: contract revisions stop at this version
    MaxRevision   \* bound: writes to the rest of the ledger stop at this revision

Procs == Workers \cup Operators

ASSUME ProcsAssumption ==
    /\ Workers \cap Operators = {}
    /\ Nobody \notin Procs
ASSUME KeysAssumption == Periods \cap Keys = {}
ASSUME BoundsAssumption ==
    /\ MaxAttempts \in 1..3
    /\ MaxVersion \in Nat \ {0}
    /\ MaxRevision \in Nat

VARIABLES
    contract,  \* rent_contract: version, readiness, and whether a period costs anything
    due,       \* periods whose issue date has come
    revision,  \* finance_ledger_scope.revision
    charges,   \* the RENT finance_receivable rows of a period, oldest first
    receipts,  \* finance_command rows with their receipts
    txn,       \* the transaction that holds the scope lock and waits for COMMIT
    spent,     \* operators' keys in use
    pc,        \* where a process is
    cmd,       \* the command it sends
    reply,     \* its last answer, or the exception it is handling
    target,    \* the period a worker evaluates
    attempt,   \* its attempt
    dueSeen,   \* whether the period was due at the run's one instant
    sent       \* history: what became of the command of this evaluation

ledger == <<contract, due, revision, charges, receipts>>
locals == <<cmd, attempt, dueSeen>>
procVars == <<pc, reply, locals, target, sent>>
vars == <<ledger, txn, spent, procVars>>

Positions == {"idle", "lookup", "preview", "compose", "run", "commit", "reconcile"}
Conflicts == {"VERSION_CONFLICT", "RETRYABLE_TRANSACTION", "IDEMPOTENCY_CONFLICT"}
Refusals == Conflicts \cup {"CONTRACT_NOT_READY", "BILLING_NOT_YET_DUE",
                            "CHARGE_CORRECTION_REQUIRED", "INTERNAL_ERROR"}
Outcomes == {"CREATED", "EXISTING", "NO_CHARGE", "UPDATED"}
Dispositions == {"SKIPPED_NOT_READY", "SKIPPED_NOT_DUE", "SKIPPED_NO_CHARGE", "ALREADY_ISSUED",
                 "WOULD_CREATE", "CREATED", "ERROR", "UNKNOWN_EFFECT"}
Replies == {"NONE", "COMMIT_RESULT_UNKNOWN"} \cup Refusals \cup Outcomes \cup Dispositions

\* receivable: the charge to void, or the predecessor of the charge to issue (0: none).
Commands == [key : Periods \cup Keys, op : {"issue", "void"}, period : Periods,
             receivable : Nat, version : Nat, revision : Nat]
NoCommand == [key |-> Nobody]
NoTxn == [by |-> Nobody]

Charges == [voided : BOOLEAN, calc : Nat, replaces : Nat, key : Periods \cup Keys]
Live(p) == {i \in DOMAIN charges[p] : ~charges[p][i].voided}
Latest(p) == Len(charges[p])
Issued(c, i) == [voided |-> FALSE, calc |-> c.version, replaces |-> i, key |-> c.key]

----------------------------------------------------------------------------
(* The ledger                                                              *)

\* rent_lock_scope: SELECT ... FOR UPDATE on the scope row, waiting or failing
\* (lock_timeout) while another transaction holds it.
ScopeFree == txn = NoTxn

\* finance_command is unique on the command's type and key.
ReceiptsOf(c) == {r \in receipts : r.cmd.op = c.op /\ r.cmd.key = c.key}

\* Mutant: only the same calculation again counts as issued.
SameBillStands(p) ==
    \E i \in {Latest(p)} \ {0} : ~charges[p][i].voided /\ charges[p][i].calc = contract.version

\* Mutant: a voided charge counts as none at all.
FollowsLoosely(c) == c.receivable \in {0, Latest(c.period)}

\* The latest charge of the period is not voided.
Stands(p) == \E i \in {Latest(p)} \ {0} : ~charges[p][i].voided

\* A successor names the latest charge, a first charge names none.
Follows(c) == c.receivable = Latest(c.period)

\* RentService._issue_rent, in the order of its checks.
IssuePlan(c, isDue) ==
    IF ~contract.ready THEN "CONTRACT_NOT_READY"
    ELSE IF ~isDue THEN "BILLING_NOT_YET_DUE"
    ELSE IF c.version # contract.version THEN "VERSION_CONFLICT"
    ELSE IF Stands(c.period)
         THEN IF c.receivable = 0 /\ charges[c.period][Latest(c.period)].calc = c.version
              THEN "EXISTING" ELSE "CHARGE_CORRECTION_REQUIRED"
    ELSE IF ~Follows(c) THEN "CHARGE_CORRECTION_REQUIRED"
    ELSE IF contract.payable THEN "CREATED" ELSE "NO_CHARGE"

\* RentService._void_receivable; the charge's own row version stands for its flag.
VoidPlan(c) ==
    IF charges[c.period][c.receivable].voided THEN "VERSION_CONFLICT" ELSE "UPDATED"

Plan(c, isDue) == IF c.op = "issue" THEN IssuePlan(c, isDue) ELSE VoidPlan(c)

\* preview_charge, read under the scope lock and rolled back.
PreviewStatus(p) ==
    CASE ~contract.ready -> "NEEDS_REVIEW"
      [] contract.ready /\ Live(p) # {} -> "ALREADY_ISSUED"
      [] contract.ready /\ Live(p) = {} /\ ~contract.payable -> "NO_CHARGE"
      [] OTHER -> "READY"

----------------------------------------------------------------------------
(* Where a process goes                                                    *)

Goto(p, position) ==
    /\ pc' = [pc EXCEPT ![p] = position]
    /\ UNCHANGED <<reply, locals>>

\* The frame that held a worker's command is gone; an operator's client keeps its
\* request, to send it again.
Dropped(p) == IF p \in Workers THEN [cmd EXCEPT ![p] = NoCommand] ELSE cmd

\* An exception: the worker reconciles it, the API answers it.
Raise(p, code) ==
    /\ pc' = [pc EXCEPT ![p] = IF p \in Workers THEN "reconcile" ELSE "idle"]
    /\ reply' = [reply EXCEPT ![p] = code]
    /\ cmd' = Dropped(p)
    /\ UNCHANGED <<attempt, dueSeen>>

\* The evaluation, or the request, is over, and its locals with it.
Report(p, answer) ==
    /\ pc' = [pc EXCEPT ![p] = "idle"]
    /\ reply' = [reply EXCEPT ![p] = answer]
    /\ cmd' = Dropped(p)
    /\ attempt' = IF p \in Workers THEN [attempt EXCEPT ![p] = 1] ELSE attempt
    /\ dueSeen' = IF p \in Workers THEN [dueSeen EXCEPT ![p] = FALSE] ELSE dueSeen

\* _completed for a worker; an operator gets the outcome as it is.
Disposition(outcome, replayed) ==
    CASE outcome = "NO_CHARGE" -> "SKIPPED_NO_CHARGE"
      [] outcome = "CREATED" /\ ~replayed -> "CREATED"
      [] OTHER -> "ALREADY_ISSUED"

Complete(p, outcome, replayed) ==
    Report(p, IF p \in Workers THEN Disposition(outcome, replayed) ELSE outcome)

----------------------------------------------------------------------------
(* A transaction: RentPostgresRepository.run_command                       *)

Replay(p) ==
    /\ pc[p] = "run"
    /\ ScopeFree
    /\ \E r \in ReceiptsOf(cmd[p]) :
          IF r.cmd = cmd[p] THEN Complete(p, r.outcome, TRUE)
                            ELSE Raise(p, "IDEMPOTENCY_CONFLICT")
    /\ UNCHANGED <<ledger, txn, spent, target, sent>>

\* The plan's verdict; the revision the command was composed at comes first.
Verdict(p) ==
    IF cmd[p].revision # revision THEN "VERSION_CONFLICT"
    ELSE Plan(cmd[p], IF p \in Workers THEN dueSeen[p] ELSE cmd[p].period \in due)

Refuse(p) ==
    /\ pc[p] = "run"
    /\ ScopeFree
    /\ ReceiptsOf(cmd[p]) = {}
    /\ Verdict(p) \notin Outcomes
    /\ Raise(p, Verdict(p))
    /\ UNCHANGED <<ledger, txn, spent, target, sent>>

\* Writes, seals the command and sends COMMIT.
SendCommit(p) ==
    /\ pc[p] = "run"
    /\ ScopeFree
    /\ ReceiptsOf(cmd[p]) = {}
    /\ Verdict(p) \in Outcomes
    /\ txn' = [by |-> p, cmd |-> cmd[p], outcome |-> Verdict(p)]
    /\ Goto(p, "commit")
    /\ sent' = IF p \in Workers THEN [sent EXCEPT ![p] = "pending"] ELSE sent
    /\ UNCHANGED <<ledger, spent, target>>

\* Serialization failures and lock timeouts that outlast the three tries, or any
\* other failure before COMMIT: rolled back, and the client knows it.  The worker's
\* second preview may fail in the same ways.
FailToRun(p) ==
    /\ pc[p] \in {"compose", "run"}
    /\ \E code \in {"RETRYABLE_TRANSACTION", "INTERNAL_ERROR"} : Raise(p, code)
    /\ UNCHANGED <<ledger, txn, spent, target, sent>>

\* The fate of the transaction, for the worker whose evaluation sent it.
Settle(fate) ==
    sent' = IF txn.by \in Workers THEN [sent EXCEPT ![txn.by] = fate] ELSE sent

\* Still connected: by has not given up waiting.
Waiting(p) == p \in Procs /\ pc[p] = "commit"

ServerCommit ==
    LET c == txn.cmd
    IN  /\ txn # NoTxn
        /\ receipts' = receipts \cup {[cmd |-> c, outcome |-> txn.outcome]}
        /\ charges' =
             CASE txn.outcome = "CREATED" ->
                    [charges EXCEPT ![c.period] = Append(@, Issued(c, c.receivable))]
               [] txn.outcome = "UPDATED" ->
                    [charges EXCEPT ![c.period][c.receivable].voided = TRUE]
               [] OTHER -> charges
        /\ revision' = IF txn.outcome \in {"CREATED", "UPDATED"} THEN revision + 1 ELSE revision
        /\ IF Waiting(txn.by)
           THEN \/ Complete(txn.by, txn.outcome, FALSE)
                \/ Raise(txn.by, "COMMIT_RESULT_UNKNOWN")
           ELSE UNCHANGED <<pc, reply, locals>>
        /\ Settle("done")
        /\ txn' = NoTxn
        /\ UNCHANGED <<contract, due, spent, target>>

\* A serialization failure at COMMIT, or a COMMIT that never arrived.
ServerAbort ==
    /\ txn # NoTxn
    /\ IF Waiting(txn.by) THEN Raise(txn.by, "COMMIT_RESULT_UNKNOWN")
                          ELSE UNCHANGED <<pc, reply, locals>>
    /\ Settle("nothing")
    /\ txn' = NoTxn
    /\ UNCHANGED <<ledger, spent, target>>

\* The client stops waiting while the server still has the transaction.
LoseConnection(p) ==
    /\ pc[p] = "commit"
    /\ Raise(p, "COMMIT_RESULT_UNKNOWN")
    /\ UNCHANGED <<ledger, txn, spent, target, sent>>

----------------------------------------------------------------------------
(* The worker: RecurringRentWorker._evaluate                               *)

\* Takes a candidate that the page showed to be ready, at the run's one instant.
Start(w) ==
    /\ pc[w] = "idle"
    /\ contract.ready
    /\ \E p \in Periods :
          /\ target' = [target EXCEPT ![w] = p]
          /\ dueSeen' = [dueSeen EXCEPT ![w] = p \in due]
    /\ sent' = [sent EXCEPT ![w] = "nothing"]
    /\ txn' = IF txn.by = w THEN [txn EXCEPT !.by = Nobody] ELSE txn
    /\ pc' = [pc EXCEPT ![w] = "lookup"]
    /\ reply' = [reply EXCEPT ![w] = "NONE"]
    /\ UNCHANGED <<ledger, spent, cmd, attempt>>

\* The receipt of the cycle's key, read without the scope lock.
CycleReceipts(w) == {r \in receipts : r.cmd.op = "issue" /\ r.cmd.key = target[w]}

Lookup(w) ==
    /\ pc[w] = "lookup"
    /\ IF CycleReceipts(w) = {}
       THEN Goto(w, "preview")
       ELSE \E r \in CycleReceipts(w) : Complete(w, r.outcome, TRUE)
    /\ UNCHANGED <<ledger, txn, spent, target, sent>>

Preview(w) ==
    /\ pc[w] = "preview"
    /\ ScopeFree
    /\ CASE PreviewStatus(target[w]) = "ALREADY_ISSUED" -> Report(w, "ALREADY_ISSUED")
         [] PreviewStatus(target[w]) = "NO_CHARGE" -> Report(w, "SKIPPED_NO_CHARGE")
         [] PreviewStatus(target[w]) = "NEEDS_REVIEW" -> Report(w, "SKIPPED_NOT_READY")
         [] PreviewStatus(target[w]) = "READY" ->
              IF ~dueSeen[w] THEN Report(w, "SKIPPED_NOT_DUE")
              ELSE \/ Goto(w, "compose")
                   \/ attempt[w] = 1 /\ Report(w, "WOULD_CREATE")  \* a dry run
    /\ UNCHANGED <<ledger, txn, spent, target, sent>>

\* Neither read is inside the dispatch's try: run_once reports the exception.
FailToRead(w) ==
    /\ pc[w] \in {"lookup", "preview"}
    /\ Report(w, "ERROR")
    /\ UNCHANGED <<ledger, txn, spent, target, sent>>

\* RentService.issue_from_scheduler: a second preview, whose versions the command pins.
Compose(w) ==
    /\ pc[w] = "compose"
    /\ ScopeFree
    /\ IF PreviewStatus(target[w]) \in {"READY", "ALREADY_ISSUED"}
       THEN /\ cmd' = [cmd EXCEPT ![w] =
                   [key |-> target[w], op |-> "issue", period |-> target[w], receivable |-> 0,
                    version |-> contract.version, revision |-> revision]]
            /\ pc' = [pc EXCEPT ![w] = "run"]
            /\ UNCHANGED <<reply, attempt, dueSeen>>
       ELSE Raise(w, "CONTRACT_NOT_READY")
    /\ UNCHANGED <<ledger, txn, spent, target, sent>>

\* Mutant: an exception is an error.
AfterAnyException(code) == IF code = "BILLING_NOT_YET_DUE" THEN "SKIPPED_NOT_DUE" ELSE "ERROR"

\* A dispatch that raised: the receipt first, then what the exception says.
AfterRefusal(code) ==
    CASE code = "CONTRACT_NOT_READY" -> "SKIPPED_NOT_READY"
      [] code = "BILLING_NOT_YET_DUE" -> "SKIPPED_NOT_DUE"
      [] code = "COMMIT_RESULT_UNKNOWN" -> "UNKNOWN_EFFECT"
      [] OTHER -> "ERROR"

\* Mutant: attempts are not counted.
RetriesForEver(w) == reply[w] \in Conflicts

\* A rollback known as such, with attempts left.
Retries(w) == reply[w] \in Conflicts /\ attempt[w] < MaxAttempts

Reconcile(w) ==
    /\ pc[w] = "reconcile"
    /\ \/ \E r \in CycleReceipts(w) : Complete(w, r.outcome, TRUE)
       \/ CycleReceipts(w) = {} /\ ~Retries(w) /\ Report(w, AfterRefusal(reply[w]))
       \/ Report(w, "UNKNOWN_EFFECT")  \* the lookup failed
    /\ UNCHANGED <<ledger, txn, spent, target, sent>>

Retry(w) ==
    /\ pc[w] = "reconcile"
    /\ CycleReceipts(w) = {}
    /\ Retries(w)
    /\ attempt' = [attempt EXCEPT ![w] = @ + 1]
    /\ pc' = [pc EXCEPT ![w] = "lookup"]
    /\ reply' = [reply EXCEPT ![w] = "NONE"]
    /\ UNCHANGED <<ledger, txn, spent, cmd, dueSeen, target, sent>>

\* The process dies; its next incarnation starts from the candidates again.
Crash(w) ==
    /\ pc[w] # "idle"
    /\ Report(w, "NONE")
    /\ UNCHANGED <<ledger, txn, spent, target, sent>>

----------------------------------------------------------------------------
(* Operators and the rest of the ledger                                    *)

\* The body an operator's page builds from what it shows: a charge to issue, after
\* any predecessor it names, or a live charge to void.
Drafts(p) ==
    {[op |-> "issue", receivable |-> i] : i \in 0..Latest(p)}
        \cup {[op |-> "void", receivable |-> i] : i \in Live(p)}

Draft(o) ==
    /\ pc[o] = "idle"
    /\ ScopeFree
    /\ \E k \in Keys \ spent, p \in Periods : \E d \in Drafts(p) :
          /\ spent' = spent \cup {k}
          /\ cmd' = [cmd EXCEPT ![o] =
                [key |-> k, op |-> d.op, period |-> p, receivable |-> d.receivable,
                 version |-> contract.version, revision |-> revision]]
    /\ pc' = [pc EXCEPT ![o] = "run"]
    /\ reply' = [reply EXCEPT ![o] = "NONE"]
    /\ UNCHANGED <<ledger, txn, attempt, dueSeen, target, sent>>

\* The same request again, under the same key.
Resend(o) ==
    /\ pc[o] = "idle"
    /\ cmd[o] # NoCommand
    /\ pc' = [pc EXCEPT ![o] = "run"]
    /\ reply' = [reply EXCEPT ![o] = "NONE"]
    /\ UNCHANGED <<ledger, txn, spent, locals, target, sent>>

\* _revise_contract, in one step: version, readiness and terms.
ReviseContract ==
    /\ ScopeFree
    /\ contract.version < MaxVersion
    /\ \E ready, payable \in BOOLEAN :
          contract' = [version |-> contract.version + 1, ready |-> ready, payable |-> payable]
    /\ revision' = revision + 1
    /\ UNCHANGED <<due, charges, receipts, txn, spent, procVars>>

\* Any other command of the organization: rent_guard_write bumps the scope's revision.
OtherWrite ==
    /\ ScopeFree
    /\ revision < MaxRevision
    /\ revision' = revision + 1
    /\ UNCHANGED <<contract, due, charges, receipts, txn, spent, procVars>>

\* The calendar reaches a period's issue date (D-7).
DayComes ==
    /\ \E p \in Periods \ due : due' = due \cup {p}
    /\ UNCHANGED <<contract, revision, charges, receipts, txn, spent, procVars>>

----------------------------------------------------------------------------
Init ==
    /\ contract = [version |-> 1, ready |-> TRUE, payable |-> TRUE]
    /\ due = {}
    /\ revision = 0
    /\ charges = [p \in Periods |-> <<>>]
    /\ receipts = {}
    /\ txn = NoTxn
    /\ spent = {}
    /\ pc = [p \in Procs |-> "idle"]
    /\ cmd = [p \in Procs |-> NoCommand]
    /\ reply = [p \in Procs |-> "NONE"]
    /\ target \in [Workers -> Periods]
    /\ attempt = [w \in Workers |-> 1]
    /\ dueSeen = [w \in Workers |-> FALSE]
    /\ sent = [w \in Workers |-> "nothing"]

Next ==
    \/ \E p \in Procs :
          Replay(p) \/ Refuse(p) \/ SendCommit(p) \/ FailToRun(p) \/ LoseConnection(p)
    \/ ServerCommit \/ ServerAbort
    \/ \E w \in Workers :
          \/ Start(w) \/ Lookup(w) \/ Preview(w) \/ FailToRead(w) \/ Compose(w)
          \/ Reconcile(w) \/ Retry(w) \/ Crash(w)
    \/ \E o \in Operators : Draft(o) \/ Resend(o)
    \/ ReviseContract \/ OtherWrite \/ DayComes

Spec == Init /\ [][Next]_vars

----------------------------------------------------------------------------
(* Properties                                                              *)

Transactions == [by : Procs \cup {Nobody}, cmd : Commands, outcome : Outcomes]

\* Every variable has the values its column or local variable can hold.
TypeOK ==
    /\ contract \in [version : Nat \ {0}, ready : BOOLEAN, payable : BOOLEAN]
    /\ due \subseteq Periods
    /\ revision \in Nat
    /\ charges \in [Periods -> Seq(Charges)]
    /\ receipts \subseteq [cmd : Commands, outcome : Outcomes]
    /\ txn \in Transactions \cup {NoTxn}
    /\ spent \subseteq Keys
    /\ pc \in [Procs -> Positions]
    /\ cmd \in [Procs -> Commands \cup {NoCommand}]
    /\ reply \in [Procs -> Replies]
    /\ target \in [Workers -> Periods]
    /\ attempt \in [Workers -> 1..MaxAttempts]
    /\ dueSeen \in [Workers -> BOOLEAN]
    /\ sent \in [Workers -> {"nothing", "pending", "done"}]

\* No period is billed twice at a time, whatever is retried, resent or raced: the
\* checks of _issue_rent under the scope lock keep to what uq_rent_active_period
\* and uq_rent_root_period demand, so neither index ever has to refuse a row.
BilledOnce ==
    \A p \in Periods :
        /\ \A i, j \in Live(p) : i = j
        /\ \A i, j \in DOMAIN charges[p] :
              charges[p][i].replaces = 0 /\ charges[p][j].replaces = 0 => i = j

\* A voided charge stays an operator's decision: what follows it names it, and is an
\* operator's command, whatever the worker retries ("manually voided historical issuance is never
\* automatically replaced", docs/rent/recurring_billing_worker_v1.md:69).
VoidsStand ==
    \A p \in Periods : \A i \in DOMAIN charges[p] \ {1} :
        charges[p][i].replaces = i - 1 /\ charges[p][i].key \in Keys

\* An error or a skip means the run's command had no effect and never will, CREATED
\* that it has, and ALREADY_ISSUED that the period was billed; the rest is UNKNOWN_EFFECT.
ReportsAreTrue ==
    \A w \in Workers : pc[w] = "idle" =>
        /\ reply[w] \in {"ERROR", "SKIPPED_NOT_READY", "SKIPPED_NOT_DUE", "SKIPPED_NO_CHARGE"}
              => sent[w] = "nothing"
        /\ reply[w] = "CREATED" => sent[w] = "done"
        /\ reply[w] = "ALREADY_ISSUED" => charges[target[w]] # <<>>

\* A refused request is neither recorded nor still on its way, even when an earlier
\* sending of it ended in COMMIT_RESULT_UNKNOWN (INTERNAL_ERROR speaks of one sending only).
RefusalsAreFinal ==
    \A o \in Operators : reply[o] \in Refusals \ {"RETRYABLE_TRANSACTION", "INTERNAL_ERROR"} =>
        /\ \A r \in receipts : r.cmd # cmd[o]
        /\ txn = NoTxn \/ txn.cmd # cmd[o]

\* What the ledger tells its callers is true and stays true, whatever answers to COMMIT
\* are lost or late: a run's report of its own command, and an operator's refusal.
AnswersAreTrue == ReportsAreTrue /\ RefusalsAreFinal

\* A charge comes into being only against the ledger and the contract its command
\* was composed from: nothing slips in between the preview and the commit.
CommitsWhatWasPreviewed ==
    [][\A p \in Periods : Len(charges'[p]) > Len(charges[p]) =>
          /\ txn.cmd.revision = revision
          /\ txn.cmd.version = contract.version
          /\ contract.ready]_vars
=============================================================================
