------------------------- MODULE RentBillingProofs -------------------------
(***************************************************************************)
(* For any number of workers, operators, periods and keys: no period is    *)
(* billed twice, voids stand, a charge is committed only against what it   *)
(* was composed from, and nobody is told what is not so.                   *)
(*                                                                         *)
(* None of it is inductive by itself.  What makes it so is the scope lock: *)
(* while a transaction waits for COMMIT, everything its plan was decided   *)
(* on is still what it was (TxnHolds).  What the callers are told rests on *)
(* a second invariant (Known): receipts are one to a key, a command is     *)
(* settled once, and the ledger's revision betrays every change.           *)
(***************************************************************************)
EXTENDS RentBilling, SequenceTheorems, TLAPS

USE ProcsAssumption, KeysAssumption, BoundsAssumption
    DEF ProcsAssumption, KeysAssumption, BoundsAssumption

\* A command names a charge there is, and a cycle's command issues and replaces nothing.
Fits(c) ==
    /\ c \in Commands
    /\ c.op = "void" => c.receivable \in DOMAIN charges[c.period]
    /\ c.key \in Periods => c.op = "issue" /\ c.receivable = 0

\* A period's charges replace one another in order, and all but the last are void.
InLine(p) ==
    \A i \in DOMAIN charges[p] :
        /\ charges[p][i].replaces = i - 1
        /\ i < Latest(p) => charges[p][i].voided
        /\ i > 1 => charges[p][i].key \in Keys

\* The verdict a waiting transaction was sealed with still holds.
TxnHolds ==
    txn # NoTxn =>
        /\ Fits(txn.cmd)
        /\ txn.cmd.revision = revision
        /\ txn.outcome = "CREATED" =>
              /\ contract.ready
              /\ txn.cmd.version = contract.version
              /\ ~Stands(txn.cmd.period)
              /\ Follows(txn.cmd)
        /\ txn.outcome = "UPDATED" => txn.cmd.op = "void"

Carries(p) ==
    /\ cmd[p] = NoCommand \/ Fits(cmd[p])
    /\ pc[p] = "run" => Fits(cmd[p])

IInv ==
    /\ TypeOK
    /\ \A p \in Periods : InLine(p)
    /\ TxnHolds
    /\ \A p \in Procs : Carries(p)

\* The body of CommitsWhatWasPreviewed.
Previewed ==
    \A p \in Periods : Len(charges'[p]) > Len(charges[p]) =>
        /\ txn.cmd.revision = revision
        /\ txn.cmd.version = contract.version
        /\ contract.ready

-----------------------------------------------------------------------------
\* What every step but the composing ones does to the processes: their variables
\* keep their types, and nobody comes by a command.
NobodyComposes ==
    /\ pc' \in [Procs -> Positions]
    /\ reply' \in [Procs -> Replies]
    /\ cmd' \in [Procs -> Commands \cup {NoCommand}]
    /\ attempt' \in [Workers -> 1..MaxAttempts]
    /\ dueSeen' \in [Workers -> BOOLEAN]
    /\ \A p \in Procs :
          /\ cmd'[p] = cmd[p] \/ cmd'[p] = NoCommand
          /\ pc'[p] = "run" => pc[p] = "run" /\ cmd'[p] = cmd[p]

LEMMA RaiseComposesNothing ==
  ASSUME TypeOK, NEW p \in Procs, NEW code \in Replies, Raise(p, code)
  PROVE  NobodyComposes
  BY DEF TypeOK, Raise, Dropped, NobodyComposes, Positions, Procs

LEMMA ReportComposesNothing ==
  ASSUME TypeOK, NEW p \in Procs, NEW answer \in Replies, Report(p, answer)
  PROVE  NobodyComposes
<1>1. 1 \in 1..MaxAttempts
  OBVIOUS
<1> QED
  BY <1>1 DEF TypeOK, Report, Dropped, NobodyComposes, Positions, Procs

LEMMA GotoComposesNothing ==
  ASSUME TypeOK, NEW p \in Procs, NEW position \in Positions \ {"run"}, Goto(p, position)
  PROVE  NobodyComposes
  BY DEF TypeOK, Goto, locals, NobodyComposes, Positions

LEMMA CompleteComposesNothing ==
  ASSUME TypeOK, NEW p \in Procs, NEW outcome \in Outcomes, NEW replayed \in BOOLEAN,
         Complete(p, outcome, replayed)
  PROVE  NobodyComposes
<1>1. /\ Disposition(outcome, replayed) \in Replies
      /\ outcome \in Replies
  BY DEF Disposition, Replies, Outcomes, Dispositions
<1> QED
  BY <1>1, ReportComposesNothing DEF Complete

\* Steps that leave the ledger and the waiting transaction's claims alone.
LEMMA QuietStep ==
  ASSUME IInv, NobodyComposes,
         UNCHANGED <<contract, revision, charges, receipts, spent>>,
         due' \subseteq Periods,
         target' \in [Workers -> Periods],
         sent' \in [Workers -> {"nothing", "pending", "done"}],
         \/ txn' = NoTxn
         \/ txn' = txn
         \/ txn # NoTxn /\ txn' = [txn EXCEPT !.by = Nobody]
  PROVE  IInv' /\ Previewed
<1>1. TypeOK'
  <2>1. txn' \in Transactions \cup {NoTxn}
    BY ZenonT(30) DEF IInv, TypeOK, Transactions
  <2> QED
    BY <2>1 DEF IInv, TypeOK, NobodyComposes
<1>2. \A p \in Periods : InLine(p)'
  BY DEF IInv, InLine, Latest
<1>3. \A c : Fits(c)' <=> Fits(c)
  BY DEF Fits, Commands
<1>4. TxnHolds'
  <2>1. txn' # NoTxn => txn # NoTxn /\ txn'.cmd = txn.cmd /\ txn'.outcome = txn.outcome
    BY DEF IInv, TypeOK, Transactions
  <2> QED
    BY <1>3, <2>1 DEF IInv, TxnHolds, Stands, Follows, Latest
<1>5. \A p \in Procs : Carries(p)'
  BY <1>3 DEF IInv, Carries, NobodyComposes
<1>6. Previewed
  BY DEF Previewed, IInv, TypeOK
<1> QED
  BY <1>1, <1>2, <1>4, <1>5, <1>6 DEF IInv

-----------------------------------------------------------------------------
\* The plans answer with a refusal or an outcome, and what an outcome vouches for
\* holds of the ledger they read.
LEMMA PlanFacts ==
  ASSUME NEW c, NEW isDue \in BOOLEAN
  PROVE  /\ Plan(c, isDue) \in Replies
         /\ Plan(c, isDue) = "CREATED" =>
              /\ c.op = "issue"
              /\ contract.ready
              /\ c.version = contract.version
              /\ ~Stands(c.period)
              /\ Follows(c)
         /\ Plan(c, isDue) = "UPDATED" => c.op # "issue"
<1>1. CASE c.op = "issue"
  BY <1>1 DEF Plan, IssuePlan, Replies, Refusals, Conflicts, Outcomes
<1>2. CASE c.op # "issue"
  BY <1>2 DEF Plan, VoidPlan, Replies, Refusals, Conflicts, Outcomes
<1> QED
  BY <1>1, <1>2

LEMMA VerdictFacts ==
  ASSUME IInv, NEW p \in Procs, pc[p] = "run"
  PROVE  /\ Verdict(p) \in Replies
         /\ Fits(cmd[p])
         /\ Verdict(p) \in Outcomes =>
              /\ cmd[p].revision = revision
              /\ Verdict(p) = "CREATED" =>
                    /\ contract.ready
                    /\ cmd[p].version = contract.version
                    /\ ~Stands(cmd[p].period)
                    /\ Follows(cmd[p])
              /\ Verdict(p) = "UPDATED" => cmd[p].op = "void"
<1>1. Fits(cmd[p])
  BY DEF IInv, Carries
<1> DEFINE isDue == IF p \in Workers THEN dueSeen[p] ELSE cmd[p].period \in due
<1>2. isDue \in BOOLEAN
  <2>1. p \in Workers => dueSeen[p] \in BOOLEAN
    BY DEF IInv, TypeOK
  <2>2. (cmd[p].period \in due) \in BOOLEAN
    OBVIOUS
  <2> QED
    BY <2>1, <2>2, Zenon
<1>3. CASE cmd[p].revision # revision
  BY <1>1, <1>3 DEF Verdict, Replies, Refusals, Conflicts, Outcomes
<1>4. CASE cmd[p].revision = revision
  <2>1. Verdict(p) = Plan(cmd[p], isDue)
    BY <1>4 DEF Verdict
  <2>2. cmd[p].op \in {"issue", "void"}
    BY <1>1 DEF Fits, Commands
  <2> HIDE DEF isDue
  <2> QED
    BY <1>1, <1>2, <1>4, <2>1, <2>2, PlanFacts
<1> QED
  BY <1>3, <1>4

LEMMA ReplayStep ==
  ASSUME IInv, NEW p \in Procs, Replay(p)
  PROVE  IInv' /\ Previewed
<1>1. PICK r \in ReceiptsOf(cmd[p]) : IF r.cmd = cmd[p] THEN Complete(p, r.outcome, TRUE)
                                      ELSE Raise(p, "IDEMPOTENCY_CONFLICT")
  BY DEF Replay
<1>2. r.outcome \in Outcomes
  BY DEF ReceiptsOf, IInv, TypeOK
<1>3. "IDEMPOTENCY_CONFLICT" \in Replies
  BY DEF Replies, Refusals, Conflicts
<1>4. TypeOK
  BY DEF IInv
<1>5. NobodyComposes
  BY <1>1, <1>2, <1>3, <1>4, RaiseComposesNothing, CompleteComposesNothing
<1> QED
  BY <1>5, QuietStep DEF Replay, ledger, IInv, TypeOK

LEMMA RefuseStep ==
  ASSUME IInv, NEW p \in Procs, Refuse(p)
  PROVE  IInv' /\ Previewed
<1>1. Verdict(p) \in Replies /\ Raise(p, Verdict(p)) /\ TypeOK
  BY VerdictFacts DEF Refuse, IInv
<1>2. NobodyComposes
  BY <1>1, RaiseComposesNothing
<1> QED
  BY <1>2, QuietStep DEF Refuse, ledger, IInv, TypeOK

LEMMA FailToRunStep ==
  ASSUME IInv, NEW p \in Procs, FailToRun(p)
  PROVE  IInv' /\ Previewed
<1>1. PICK code \in {"RETRYABLE_TRANSACTION", "INTERNAL_ERROR"} : Raise(p, code)
  BY DEF FailToRun
<1>2. code \in Replies /\ TypeOK
  BY DEF Replies, Refusals, Conflicts, IInv
<1>3. NobodyComposes
  BY <1>1, <1>2, RaiseComposesNothing
<1> QED
  BY <1>3, QuietStep DEF FailToRun, ledger, IInv, TypeOK

LEMMA LoseConnectionStep ==
  ASSUME IInv, NEW p \in Procs, LoseConnection(p)
  PROVE  IInv' /\ Previewed
<1>1. "COMMIT_RESULT_UNKNOWN" \in Replies /\ TypeOK
  BY DEF Replies, IInv
<1>2. NobodyComposes
  BY <1>1, RaiseComposesNothing DEF LoseConnection
<1> QED
  BY <1>2, QuietStep DEF LoseConnection, ledger, IInv, TypeOK

\* Whether or not anybody hears it, a settled transaction composes nothing.
LEMMA HeardOrNot ==
  ASSUME IInv, txn # NoTxn,
         IF Waiting(txn.by)
         THEN \/ Complete(txn.by, txn.outcome, FALSE)
              \/ Raise(txn.by, "COMMIT_RESULT_UNKNOWN")
         ELSE UNCHANGED <<pc, reply, locals>>
  PROVE  NobodyComposes
<1>1. "COMMIT_RESULT_UNKNOWN" \in Replies /\ TypeOK
  BY DEF Replies, IInv
<1>2. txn.outcome \in Outcomes
  BY DEF IInv, TypeOK, Transactions
<1>3. CASE Waiting(txn.by)
  <2>1. txn.by \in Procs
    BY <1>3 DEF Waiting
  <2>2. CASE Complete(txn.by, txn.outcome, FALSE)
    BY <1>1, <1>2, <2>1, <2>2, CompleteComposesNothing
  <2>3. CASE Raise(txn.by, "COMMIT_RESULT_UNKNOWN")
    BY <1>1, <2>1, <2>3, RaiseComposesNothing
  <2> QED
    BY <1>3, <2>2, <2>3
<1>4. CASE ~Waiting(txn.by)
  <2>1. UNCHANGED <<pc, reply, locals>>
    BY <1>4
  <2> QED
    BY <1>1, <2>1 DEF TypeOK, NobodyComposes, locals
<1> QED
  BY <1>3, <1>4

\* A history variable's type.
LEMMA SettleType ==
  ASSUME TypeOK, NEW fate \in {"nothing", "done"}, Settle(fate)
  PROVE  sent' \in [Workers -> {"nothing", "pending", "done"}]
  BY DEF TypeOK, Settle

LEMMA ServerAbortStep ==
  ASSUME IInv, ServerAbort
  PROVE  IInv' /\ Previewed
<1>1. NobodyComposes
  BY HeardOrNot DEF ServerAbort
<1>2. sent' \in [Workers -> {"nothing", "pending", "done"}]
  BY SettleType DEF ServerAbort, IInv
<1> QED
  BY <1>1, <1>2, QuietStep DEF ServerAbort, ledger, IInv, TypeOK

-----------------------------------------------------------------------------
(* The worker                                                              *)

LEMMA StartStep ==
  ASSUME IInv, NEW w \in Workers, Start(w)
  PROVE  IInv' /\ Previewed
<1>1. NobodyComposes
  BY DEF Start, IInv, TypeOK, NobodyComposes, Positions, Replies, Procs
<1>2. txn' = txn \/ (txn # NoTxn /\ txn' = [txn EXCEPT !.by = Nobody])
  BY DEF Start, NoTxn, Procs
<1> QED
  BY <1>1, <1>2, QuietStep DEF Start, ledger, IInv, TypeOK

\* A worker that reports leaves the ledger alone.
LEMMA ReportStep ==
  ASSUME IInv, NEW w \in Workers, NEW answer \in Replies, Report(w, answer),
         UNCHANGED <<ledger, txn, spent, target, sent>>
  PROVE  IInv' /\ Previewed
<1>1. NobodyComposes
  BY ReportComposesNothing DEF IInv, Procs
<1> QED
  BY <1>1, QuietStep DEF ledger, IInv, TypeOK

\* So does one that goes on, or reports what a receipt says.
LEMMA GotoStep ==
  ASSUME IInv, NEW w \in Workers, NEW position \in Positions \ {"run"}, Goto(w, position),
         UNCHANGED <<ledger, txn, spent, target, sent>>
  PROVE  IInv' /\ Previewed
<1>1. NobodyComposes
  BY GotoComposesNothing DEF IInv, Procs
<1> QED
  BY <1>1, QuietStep DEF ledger, IInv, TypeOK

LEMMA CompleteStep ==
  ASSUME IInv, NEW w \in Workers, NEW r \in receipts, Complete(w, r.outcome, TRUE),
         UNCHANGED <<ledger, txn, spent, target, sent>>
  PROVE  IInv' /\ Previewed
<1>1. r.outcome \in Outcomes /\ TypeOK
  BY DEF IInv, TypeOK
<1>2. NobodyComposes
  BY <1>1, CompleteComposesNothing DEF Procs
<1> QED
  BY <1>2, QuietStep DEF ledger, IInv, TypeOK

LEMMA LookupStep ==
  ASSUME IInv, NEW w \in Workers, Lookup(w)
  PROVE  IInv' /\ Previewed
<1>1. CASE CycleReceipts(w) = {}
  BY <1>1, GotoStep DEF Lookup, Positions
<1>2. CASE CycleReceipts(w) # {}
  <2>1. PICK r \in CycleReceipts(w) : Complete(w, r.outcome, TRUE)
    BY <1>2 DEF Lookup
  <2> QED
    BY <2>1, CompleteStep DEF Lookup, CycleReceipts
<1> QED
  BY <1>1, <1>2

LEMMA PreviewStep ==
  ASSUME IInv, NEW w \in Workers, Preview(w)
  PROVE  IInv' /\ Previewed
<1>1. UNCHANGED <<ledger, txn, spent, target, sent>>
  BY DEF Preview
<1>2. \/ Goto(w, "compose")
      \/ \E answer \in Dispositions : Report(w, answer)
  <2>1. PreviewStatus(target[w]) \in {"ALREADY_ISSUED", "NO_CHARGE", "NEEDS_REVIEW", "READY"}
    BY DEF PreviewStatus
  <2> QED
    BY <2>1, Zenon DEF Preview, Dispositions
<1> QED
  BY <1>1, <1>2, GotoStep, ReportStep DEF Positions, Replies

LEMMA FailToReadStep ==
  ASSUME IInv, NEW w \in Workers, FailToRead(w)
  PROVE  IInv' /\ Previewed
  BY ReportStep DEF FailToRead, Replies, Dispositions

LEMMA CrashStep ==
  ASSUME IInv, NEW w \in Workers, Crash(w)
  PROVE  IInv' /\ Previewed
  BY ReportStep DEF Crash, Replies

LEMMA ReconcileStep ==
  ASSUME IInv, NEW w \in Workers, Reconcile(w)
  PROVE  IInv' /\ Previewed
<1>1. UNCHANGED <<ledger, txn, spent, target, sent>>
  BY DEF Reconcile
<1>2. \A code : AfterRefusal(code) \in Replies
  BY DEF AfterRefusal, Replies, Dispositions
<1>3. "UNKNOWN_EFFECT" \in Replies
  BY DEF Replies, Dispositions
<1>4. CASE \E r \in CycleReceipts(w) : Complete(w, r.outcome, TRUE)
  BY <1>1, <1>4, CompleteStep DEF CycleReceipts
<1>5. CASE Report(w, AfterRefusal(reply[w]))
  BY <1>1, <1>2, <1>5, ReportStep
<1>6. CASE Report(w, "UNKNOWN_EFFECT")
  BY <1>1, <1>3, <1>6, ReportStep
<1> QED
  BY <1>4, <1>5, <1>6 DEF Reconcile

LEMMA RetryStep ==
  ASSUME IInv, NEW w \in Workers, Retry(w)
  PROVE  IInv' /\ Previewed
<1>1. attempt'[w] \in 1..MaxAttempts
  BY DEF Retry, Retries, IInv, TypeOK
<1>2. NobodyComposes
  BY <1>1 DEF Retry, IInv, TypeOK, NobodyComposes, Positions, Replies, Procs
<1> QED
  BY <1>2, QuietStep DEF Retry, ledger, IInv, TypeOK

-----------------------------------------------------------------------------
(* The steps that compose a command or take the scope lock                 *)

\* Nobody holds the lock and a command is composed; the ledger stays as it is.
LEMMA ComposedStep ==
  ASSUME IInv, NEW p \in Procs, NEW c, Fits(c),
         UNCHANGED <<ledger, txn, target, sent, attempt, dueSeen>>,
         cmd' = [cmd EXCEPT ![p] = c],
         pc' = [pc EXCEPT ![p] = "run"],
         reply' \in [Procs -> Replies],
         spent' \subseteq Keys
  PROVE  IInv' /\ Previewed
<1>1. TypeOK'
  BY DEF IInv, TypeOK, ledger, Fits, Positions
<1>2. \A d : Fits(d)' <=> Fits(d)
  BY DEF Fits, Commands, ledger
<1>3. \A q \in Procs : Carries(q)'
  BY <1>2 DEF IInv, TypeOK, Carries
<1>4. \A q \in Periods : InLine(q)'
  BY DEF IInv, InLine, Latest, ledger
<1>5. TxnHolds'
  BY <1>2 DEF IInv, TxnHolds, Stands, Follows, Latest, ledger
<1>6. Previewed
  BY DEF Previewed, IInv, TypeOK, ledger
<1> QED
  BY <1>1, <1>3, <1>4, <1>5, <1>6 DEF IInv

LEMMA ComposeStep ==
  ASSUME IInv, NEW w \in Workers, Compose(w)
  PROVE  IInv' /\ Previewed
<1>1. CASE PreviewStatus(target[w]) \in {"READY", "ALREADY_ISSUED"}
  <2> DEFINE c == [key |-> target[w], op |-> "issue", period |-> target[w], receivable |-> 0,
                   version |-> contract.version, revision |-> revision]
  <2>1. Fits(c)
    BY DEF IInv, TypeOK, Fits, Commands
  <2>2. /\ cmd' = [cmd EXCEPT ![w] = c]
        /\ pc' = [pc EXCEPT ![w] = "run"]
        /\ UNCHANGED <<reply, attempt, dueSeen, ledger, txn, spent, target, sent>>
    BY <1>1 DEF Compose
  <2> HIDE DEF c
  <2> QED
    BY <2>1, <2>2, ComposedStep DEF IInv, TypeOK, Procs
<1>2. CASE Raise(w, "CONTRACT_NOT_READY")
  <2>1. "CONTRACT_NOT_READY" \in Replies /\ TypeOK
    BY DEF Replies, Refusals, IInv
  <2>2. NobodyComposes
    BY <1>2, <2>1, RaiseComposesNothing DEF Procs
  <2> QED
    BY <2>2, QuietStep DEF Compose, ledger, IInv, TypeOK
<1> QED
  BY <1>1, <1>2 DEF Compose

LEMMA DraftStep ==
  ASSUME IInv, NEW o \in Operators, Draft(o)
  PROVE  IInv' /\ Previewed
<1>1. PICK k \in Keys \ spent, p \in Periods : \E d \in Drafts(p) :
        /\ spent' = spent \cup {k}
        /\ cmd' = [cmd EXCEPT ![o] =
              [key |-> k, op |-> d.op, period |-> p, receivable |-> d.receivable,
               version |-> contract.version, revision |-> revision]]
  BY DEF Draft
<1>2. PICK d \in Drafts(p) :
        /\ spent' = spent \cup {k}
        /\ cmd' = [cmd EXCEPT ![o] =
              [key |-> k, op |-> d.op, period |-> p, receivable |-> d.receivable,
               version |-> contract.version, revision |-> revision]]
  BY <1>1
<1> DEFINE c == [key |-> k, op |-> d.op, period |-> p, receivable |-> d.receivable,
                 version |-> contract.version, revision |-> revision]
<1>3. Len(charges[p]) \in Nat /\ DOMAIN charges[p] = 1..Len(charges[p])
  BY DEF IInv, TypeOK
<1>4. /\ d.op \in {"issue", "void"}
      /\ d.receivable \in Nat
      /\ d.op = "void" => d.receivable \in DOMAIN charges[p]
  BY <1>3 DEF Drafts, Live, Latest
<1>5. Fits(c)
  BY <1>4 DEF Fits, Commands, IInv, TypeOK
<1>6. reply' \in [Procs -> Replies]
  BY DEF Draft, IInv, TypeOK, Replies
<1>7. cmd' = [cmd EXCEPT ![o] = c] /\ spent' \subseteq Keys
  BY <1>2 DEF IInv, TypeOK
<1>8. /\ pc' = [pc EXCEPT ![o] = "run"]
      /\ UNCHANGED <<ledger, txn, target, sent, attempt, dueSeen>>
      /\ o \in Procs
  BY DEF Draft, Procs
<1> HIDE DEF c
<1> QED
  BY <1>5, <1>6, <1>7, <1>8, ComposedStep

LEMMA ResendStep ==
  ASSUME IInv, NEW o \in Operators, Resend(o)
  PROVE  IInv' /\ Previewed
<1>1. o \in Procs /\ Fits(cmd[o])
  BY DEF Resend, IInv, Carries, Procs
<1>2. cmd' = [cmd EXCEPT ![o] = cmd[o]]
  BY DEF Resend, locals, IInv, TypeOK
<1>3. reply' \in [Procs -> Replies]
  BY DEF Resend, IInv, TypeOK, Replies
<1> QED
  BY <1>1, <1>2, <1>3, ComposedStep DEF Resend, locals, IInv, TypeOK

LEMMA SendCommitStep ==
  ASSUME IInv, NEW p \in Procs, SendCommit(p)
  PROVE  IInv' /\ Previewed
<1>1. /\ Fits(cmd[p])
      /\ Verdict(p) \in Outcomes
      /\ cmd[p].revision = revision
      /\ Verdict(p) = "CREATED" =>
            /\ contract.ready
            /\ cmd[p].version = contract.version
            /\ ~Stands(cmd[p].period)
            /\ Follows(cmd[p])
      /\ Verdict(p) = "UPDATED" => cmd[p].op = "void"
  BY VerdictFacts DEF SendCommit
<1>2. txn' = [by |-> p, cmd |-> cmd[p], outcome |-> Verdict(p)]
  BY DEF SendCommit
<1>3. NobodyComposes
  BY GotoComposesNothing DEF SendCommit, IInv, Positions
<1>4. UNCHANGED <<contract, due, revision, charges, receipts, spent, target>>
  BY DEF SendCommit, ledger
<1>5. TypeOK'
  <2>1. txn' \in Transactions
    BY <1>1, <1>2 DEF Transactions, Fits
  <2>2. sent' \in [Workers -> {"nothing", "pending", "done"}]
    BY DEF SendCommit, IInv, TypeOK
  <2> QED
    BY <1>3, <1>4, <2>1, <2>2 DEF IInv, TypeOK, NobodyComposes
<1>6. \A d : Fits(d)' <=> Fits(d)
  BY <1>4 DEF Fits, Commands
<1>7. TxnHolds'
  <2> HIDE DEF Verdict
  <2>1. txn'.cmd = cmd[p] /\ txn'.outcome = Verdict(p)
    BY <1>2
  <2>2. Fits(txn.cmd)'
    BY <1>1, <1>4, <2>1 DEF Fits, Commands
  <2> QED
    BY <1>1, <1>4, <2>1, <2>2 DEF TxnHolds, Stands, Follows, Latest
<1>8. \A q \in Procs : Carries(q)'
  BY <1>3, <1>6 DEF IInv, Carries, NobodyComposes
<1>9. \A q \in Periods : InLine(q)'
  BY <1>4 DEF IInv, InLine, Latest
<1>10. Previewed
  BY <1>4 DEF Previewed, IInv, TypeOK
<1> QED
  BY <1>5, <1>7, <1>8, <1>9, <1>10 DEF IInv

-----------------------------------------------------------------------------
(* The server, and the rest of the organization                            *)

\* A transaction that creates a charge puts it after a void one, or first.
LEMMA CreatedInLine ==
  ASSUME IInv, txn # NoTxn, txn.outcome = "CREATED",
         charges' = [charges EXCEPT ![txn.cmd.period] =
                        Append(@, Issued(txn.cmd, txn.cmd.receivable))]
  PROVE  /\ charges' \in [Periods -> Seq(Charges)]
         /\ \A q \in Periods : InLine(q)'
         /\ \A q \in Periods : DOMAIN charges[q] \subseteq DOMAIN charges'[q]
<1>0. PICK p \in Periods : p = txn.cmd.period
  BY DEF IInv, TxnHolds, Fits, Commands
<1> DEFINE new == Issued(txn.cmd, txn.cmd.receivable)
<1>1. /\ txn.cmd \in Commands
      /\ ~Stands(p)
      /\ txn.cmd.receivable = Len(charges[p])
      /\ txn.cmd.key \in Periods => txn.cmd.receivable = 0
  BY <1>0 DEF IInv, TxnHolds, Fits, Commands, Follows, Latest
<1>2. new \in Charges
  BY <1>1 DEF Charges, Issued, Commands
<1>3. charges \in [Periods -> Seq(Charges)] /\ charges[p] \in Seq(Charges)
  BY <1>1 DEF IInv, TypeOK
<1>4. /\ new.replaces = Len(charges[p])
      /\ Len(charges[p]) > 0 => new.key \in Keys
  BY <1>1, <1>3 DEF Issued, Commands
<1>5. Len(charges[p]) > 0 => charges[p][Len(charges[p])].voided
  BY <1>1, <1>3 DEF Stands, Latest
<1> HIDE DEF new
<1>6. charges'[p] = Append(charges[p], new)
  BY <1>0, <1>3 DEF new
<1>7. /\ Len(charges'[p]) = Len(charges[p]) + 1
      /\ charges'[p][Len(charges[p]) + 1] = new
      /\ \A i \in 1..Len(charges[p]) : charges'[p][i] = charges[p][i]
      /\ charges'[p] \in Seq(Charges)
  BY <1>2, <1>3, <1>6
<1>8. InLine(p)'
  <2> SUFFICES ASSUME NEW i \in DOMAIN charges'[p]
               PROVE  /\ charges'[p][i].replaces = i - 1
                      /\ i < Len(charges'[p]) => charges'[p][i].voided
                      /\ i > 1 => charges'[p][i].key \in Keys
    BY DEF InLine, Latest
  <2>1. InLine(p) /\ Len(charges[p]) \in Nat /\ i \in 1..(Len(charges[p]) + 1)
    BY <1>1, <1>3, <1>7 DEF IInv
  <2>2. CASE i = Len(charges[p]) + 1
    BY <1>4, <1>7, <2>1, <2>2
  <2>3. CASE i < Len(charges[p]) + 1
    <3>1. i \in DOMAIN charges[p] /\ charges'[p][i] = charges[p][i]
      BY <1>3, <1>7, <2>1, <2>3
    <3> QED
      BY <1>3, <1>5, <1>7, <2>1, <2>3, <3>1 DEF InLine, Latest
  <2> QED
    BY <2>1, <2>2, <2>3
<1>9. \A q \in Periods \ {p} : charges'[q] = charges[q]
  BY <1>0, <1>3
<1>10. \A q \in Periods : InLine(q)'
  <2> SUFFICES ASSUME NEW q \in Periods, q # p PROVE InLine(q)'
    BY <1>8
  <2>1. InLine(q) /\ charges'[q] = charges[q]
    BY <1>9 DEF IInv
  <2> QED
    BY <2>1 DEF InLine, Latest
<1>11. \A q \in Periods : DOMAIN charges[q] \subseteq DOMAIN charges'[q]
  <2>1. DOMAIN charges[p] \subseteq DOMAIN charges'[p]
    BY <1>3, <1>7
  <2> QED
    BY <1>9, <2>1
<1> QED
  BY <1>1, <1>3, <1>7, <1>10, <1>11

\* A transaction that voids a charge leaves it where it is.
LEMMA VoidedInLine ==
  ASSUME IInv, txn # NoTxn, txn.outcome = "UPDATED",
         charges' = [charges EXCEPT ![txn.cmd.period][txn.cmd.receivable].voided = TRUE]
  PROVE  /\ charges' \in [Periods -> Seq(Charges)]
         /\ \A q \in Periods : InLine(q)' /\ Len(charges'[q]) = Len(charges[q])
         /\ \A q \in Periods : DOMAIN charges[q] \subseteq DOMAIN charges'[q]
<1>0. PICK p \in Periods, n \in Nat : p = txn.cmd.period /\ n = txn.cmd.receivable
  BY DEF IInv, TxnHolds, Fits, Commands
<1> DEFINE void == [charges[p][n] EXCEPT !.voided = TRUE]
<1>1. n \in DOMAIN charges[p]
  BY <1>0 DEF IInv, TxnHolds, Fits, Commands
<1>2. charges \in [Periods -> Seq(Charges)] /\ charges[p] \in Seq(Charges)
  BY <1>1 DEF IInv, TypeOK
<1>3. charges' = [charges EXCEPT ![p] = [charges[p] EXCEPT ![n] = void]]
  BY <1>0, <1>2
<1>4. charges[p][n] \in Charges
  BY <1>1, <1>2
<1>5. /\ void \in Charges
      /\ void.replaces = charges[p][n].replaces
      /\ void.key = charges[p][n].key
      /\ void.voided
  BY <1>4 DEF Charges
<1> HIDE DEF void
<1>6. /\ charges'[p] \in Seq(Charges)
      /\ Len(charges'[p]) = Len(charges[p])
      /\ DOMAIN charges'[p] = DOMAIN charges[p]
      /\ \A i \in DOMAIN charges[p] : charges'[p][i] = IF i = n THEN void ELSE charges[p][i]
  <2>1. charges'[p] = [charges[p] EXCEPT ![n] = void]
    BY <1>2, <1>3
  <2>2. /\ DOMAIN charges'[p] = DOMAIN charges[p]
        /\ \A i \in DOMAIN charges[p] : charges'[p][i] = IF i = n THEN void ELSE charges[p][i]
    BY <2>1
  <2>3. n \in 1..Len(charges[p]) /\ charges[p] \in Seq(Charges) /\ void \in Charges
    BY <1>1, <1>2, <1>5
  <2>4. /\ [charges[p] EXCEPT ![n] = void] \in Seq(Charges)
        /\ Len([charges[p] EXCEPT ![n] = void]) = Len(charges[p])
    BY ONLY <2>3, ExceptSeq
  <2> QED
    BY <2>1, <2>2, <2>4
<1>7. InLine(p)'
  <2> SUFFICES ASSUME NEW i \in DOMAIN charges'[p]
               PROVE  /\ charges'[p][i].replaces = i - 1
                      /\ i < Len(charges'[p]) => charges'[p][i].voided
                      /\ i > 1 => charges'[p][i].key \in Keys
    BY DEF InLine, Latest
  <2>1. /\ i \in DOMAIN charges[p]
        /\ charges[p][i].replaces = i - 1
        /\ i < Len(charges[p]) => charges[p][i].voided
        /\ i > 1 => charges[p][i].key \in Keys
    BY <1>6 DEF IInv, InLine, Latest
  <2>2. CASE i = n
    BY <1>5, <1>6, <2>1, <2>2
  <2>3. CASE i # n
    BY <1>6, <2>1, <2>3
  <2> QED
    BY <2>2, <2>3
<1>8. \A q \in Periods \ {p} : charges'[q] = charges[q]
  BY <1>2, <1>3
<1>9. \A q \in Periods : InLine(q)' /\ Len(charges'[q]) = Len(charges[q])
  <2> SUFFICES ASSUME NEW q \in Periods, q # p
               PROVE  InLine(q)' /\ Len(charges'[q]) = Len(charges[q])
    BY <1>6, <1>7
  <2>1. InLine(q) /\ charges'[q] = charges[q]
    BY <1>8 DEF IInv
  <2> QED
    BY <2>1 DEF InLine, Latest
<1> QED
  BY <1>1, <1>2, <1>6, <1>8, <1>9

LEMMA ServerCommitStep ==
  ASSUME IInv, ServerCommit
  PROVE  IInv' /\ Previewed
<1>1. txn # NoTxn /\ txn' = NoTxn /\ UNCHANGED <<contract, due, spent, target>>
  BY DEF ServerCommit
<1>2. NobodyComposes
  BY HeardOrNot DEF ServerCommit
<1>3. sent' \in [Workers -> {"nothing", "pending", "done"}]
  BY SettleType DEF ServerCommit, IInv
<1>4. receipts' \subseteq [cmd : Commands, outcome : Outcomes]
  <2>1. txn.cmd \in Commands /\ txn.outcome \in Outcomes
    BY <1>1 DEF IInv, TypeOK, Transactions
  <2>2. receipts' = receipts \cup {[cmd |-> txn.cmd, outcome |-> txn.outcome]}
    BY DEF ServerCommit
  <2> QED
    BY <2>1, <2>2 DEF IInv, TypeOK
<1>5. revision' \in Nat
  BY DEF ServerCommit, IInv, TypeOK
<1>6. /\ charges' \in [Periods -> Seq(Charges)]
      /\ \A q \in Periods : InLine(q)'
      /\ \A q \in Periods : DOMAIN charges[q] \subseteq DOMAIN charges'[q]
      /\ Previewed
  <2>1. CASE txn.outcome = "CREATED"
    <3>1. charges' = [charges EXCEPT ![txn.cmd.period] =
                        Append(@, Issued(txn.cmd, txn.cmd.receivable))]
      BY <2>1 DEF ServerCommit
    <3>2. Previewed
      BY <1>1, <2>1 DEF Previewed, IInv, TxnHolds
    <3> QED
      BY <1>1, <2>1, <3>1, <3>2, CreatedInLine
  <2>2. CASE txn.outcome = "UPDATED"
    <3>1. charges' = [charges EXCEPT ![txn.cmd.period][txn.cmd.receivable].voided = TRUE]
      BY <2>2 DEF ServerCommit
    <3>2. /\ charges' \in [Periods -> Seq(Charges)]
          /\ \A q \in Periods : InLine(q)' /\ Len(charges'[q]) = Len(charges[q])
          /\ \A q \in Periods : DOMAIN charges[q] \subseteq DOMAIN charges'[q]
      BY <1>1, <2>2, <3>1, VoidedInLine
    <3>3. Previewed
      BY <3>2 DEF Previewed, IInv, TypeOK
    <3> QED
      BY <3>2, <3>3
  <2>3. CASE txn.outcome \notin {"CREATED", "UPDATED"}
    <3>1. charges' = charges
      BY <2>3 DEF ServerCommit
    <3> QED
      BY <3>1 DEF IInv, TypeOK, InLine, Latest, Previewed
  <2> QED
    BY <2>1, <2>2, <2>3
<1>7. TypeOK'
  BY <1>1, <1>2, <1>3, <1>4, <1>5, <1>6 DEF IInv, TypeOK, NobodyComposes
<1>8. TxnHolds'
  BY <1>1 DEF TxnHolds
<1>9. \A d : Fits(d) => Fits(d)'
  BY <1>6 DEF Fits, Commands
<1>10. \A q \in Procs : Carries(q)'
  BY <1>2, <1>9 DEF IInv, Carries, NobodyComposes
<1> QED
  BY <1>6, <1>7, <1>8, <1>10 DEF IInv

\* Other writers need the scope lock, so no transaction waits when they write.
LEMMA OtherWritesStep ==
  ASSUME IInv, ReviseContract \/ OtherWrite
  PROVE  IInv' /\ Previewed
<1>1. /\ txn = NoTxn
      /\ UNCHANGED <<due, charges, receipts, txn, spent, procVars>>
  BY DEF ReviseContract, OtherWrite, ScopeFree
<1>2. /\ contract' \in [version : Nat \ {0}, ready : BOOLEAN, payable : BOOLEAN]
      /\ revision' \in Nat
  BY DEF ReviseContract, OtherWrite, IInv, TypeOK
<1>3. TypeOK'
  BY <1>1, <1>2 DEF IInv, TypeOK, procVars, locals
<1>4. \A d : Fits(d)' <=> Fits(d)
  BY <1>1 DEF Fits, Commands
<1>5. \A q \in Procs : Carries(q)'
  BY <1>1, <1>4 DEF IInv, Carries, procVars, locals
<1>6. /\ \A q \in Periods : InLine(q)'
      /\ TxnHolds'
      /\ Previewed
  BY <1>1 DEF IInv, TypeOK, InLine, Latest, TxnHolds, Previewed
<1> QED
  BY <1>3, <1>5, <1>6 DEF IInv

LEMMA DayComesStep ==
  ASSUME IInv, DayComes
  PROVE  IInv' /\ Previewed
<1>1. NobodyComposes
  BY DEF DayComes, procVars, locals, IInv, TypeOK, NobodyComposes
<1> QED
  BY <1>1, QuietStep DEF DayComes, procVars, locals, IInv, TypeOK

LEMMA StutterStep ==
  ASSUME IInv, UNCHANGED vars
  PROVE  IInv' /\ Previewed
<1>1. NobodyComposes
  BY DEF vars, procVars, locals, IInv, TypeOK, NobodyComposes
<1> QED
  BY <1>1, QuietStep DEF vars, ledger, procVars, locals, IInv, TypeOK

-----------------------------------------------------------------------------
(* The theorems                                                            *)

LEMMA InitIInv == Init => IInv
<1> SUFFICES ASSUME Init PROVE IInv
  OBVIOUS
<1>1. TypeOK
  BY DEF Init, TypeOK, Positions, Replies, Transactions
<1>2. \A p \in Periods : InLine(p)
  BY DEF Init, InLine
<1>3. TxnHolds
  BY DEF Init, TxnHolds
<1>4. \A p \in Procs : Carries(p)
  BY DEF Init, Carries
<1> QED
  BY <1>1, <1>2, <1>3, <1>4 DEF IInv

LEMMA NextIInv == IInv /\ [Next]_vars => IInv' /\ Previewed
<1> SUFFICES ASSUME IInv, [Next]_vars PROVE IInv' /\ Previewed
  OBVIOUS
<1>1. ASSUME NEW p \in Procs,
             Replay(p) \/ Refuse(p) \/ SendCommit(p) \/ FailToRun(p) \/ LoseConnection(p)
      PROVE  IInv' /\ Previewed
  BY <1>1, ReplayStep, RefuseStep, SendCommitStep, FailToRunStep, LoseConnectionStep
<1>2. CASE ServerCommit \/ ServerAbort
  BY <1>2, ServerCommitStep, ServerAbortStep
<1>3. ASSUME NEW w \in Workers,
             \/ Start(w) \/ Lookup(w) \/ Preview(w) \/ FailToRead(w) \/ Compose(w)
             \/ Reconcile(w) \/ Retry(w) \/ Crash(w)
      PROVE  IInv' /\ Previewed
  BY <1>3, StartStep, LookupStep, PreviewStep, FailToReadStep, ComposeStep, ReconcileStep,
     RetryStep, CrashStep
<1>4. ASSUME NEW o \in Operators, Draft(o) \/ Resend(o)
      PROVE  IInv' /\ Previewed
  BY <1>4, DraftStep, ResendStep
<1>5. CASE ReviseContract \/ OtherWrite \/ DayComes
  BY <1>5, OtherWritesStep, DayComesStep
<1>6. CASE UNCHANGED vars
  BY <1>6, StutterStep
<1> QED
  BY <1>1, <1>2, <1>3, <1>4, <1>5, <1>6 DEF Next

\* The inductive invariant holds in every behaviour of the billing code.
THEOREM Invariant == Spec => []IInv
  BY InitIInv, NextIInv, PTL DEF Spec

\* Every variable keeps its type.
THEOREM TypeCorrect == Spec => []TypeOK
<1>1. IInv => TypeOK
  BY DEF IInv
<1> QED
  BY <1>1, Invariant, PTL

\* No period ever has two live charges or two first ones, whatever is retried, resent
\* or raced: the handler's own checks under the scope lock are enough.
THEOREM NobodyIsBilledTwice == Spec => []BilledOnce
<1>1. IInv => BilledOnce
  <2> SUFFICES ASSUME IInv, NEW p \in Periods
               PROVE  /\ \A i, j \in Live(p) : i = j
                      /\ \A i, j \in DOMAIN charges[p] :
                            charges[p][i].replaces = 0 /\ charges[p][j].replaces = 0 => i = j
    BY DEF BilledOnce
  <2>1. InLine(p) /\ Len(charges[p]) \in Nat /\ DOMAIN charges[p] = 1..Len(charges[p])
    BY DEF IInv, TypeOK
  <2> QED
    BY <2>1, SMTT(30) DEF InLine, Live, Latest
<1> QED
  BY <1>1, Invariant, PTL

\* A voided charge is only ever followed up by an operator's command that names it.
THEOREM VoidsAreFinal == Spec => []VoidsStand
<1>1. IInv => VoidsStand
  <2> SUFFICES ASSUME IInv, NEW p \in Periods, NEW i \in DOMAIN charges[p] \ {1}
               PROVE  charges[p][i].replaces = i - 1 /\ charges[p][i].key \in Keys
    BY DEF VoidsStand
  <2>1. InLine(p) /\ DOMAIN charges[p] = 1..Len(charges[p])
    BY DEF IInv, TypeOK
  <2> QED
    BY <2>1 DEF InLine
<1> QED
  BY <1>1, Invariant, PTL

\* A charge is committed only against the ledger and contract it was composed from.
THEOREM NothingSlipsIn == Spec => CommitsWhatWasPreviewed
<1>1. IInv /\ [Next]_vars => [Previewed]_vars
  BY NextIInv
<1> QED
  BY <1>1, Invariant, PTL DEF Spec, CommitsWhatWasPreviewed, Previewed

-----------------------------------------------------------------------------
(* What the callers are told.                                              *)

FinalRefusals == Refusals \ {"RETRYABLE_TRANSACTION", "INTERNAL_ERROR"}

\* A cycle's command bills its period, or finds it billed.
Billed(c, outcome) ==
    c.key \in Periods => c.key = c.period /\ outcome \in {"CREATED", "EXISTING"}

\* Receipts are one to a key, and tell of charges there are.
ReceiptsKnown ==
    /\ \A r \in receipts :
          /\ Billed(r.cmd, r.outcome)
          /\ r.outcome \in {"CREATED", "EXISTING"} => charges[r.cmd.period] # <<>>
    /\ \A r, s \in receipts : r.cmd.op = s.cmd.op /\ r.cmd.key = s.cmd.key => r = s

\* So will the waiting transaction's receipt.
TxnKnown ==
    txn # NoTxn =>
        /\ txn.by \in Workers => sent[txn.by] = "pending" /\ txn.cmd.key = target[txn.by]
        /\ Billed(txn.cmd, txn.outcome)
        /\ txn.outcome = "EXISTING" => charges[txn.cmd.period] # <<>>
        /\ ReceiptsOf(txn.cmd) = {}

\* Idle, with a report that is true.
Reported(w) ==
    /\ sent[w] # "nothing" =>
          reply[w] \in {"NONE", "UNKNOWN_EFFECT", "CREATED", "ALREADY_ISSUED"}
    /\ reply[w] = "CREATED" => sent[w] = "done"
    /\ reply[w] = "ALREADY_ISSUED" => charges[target[w]] # <<>>

\* Once its command may have an effect a worker waits for the answer, or handles the missing
\* one, or has reported; and what the command was composed from still holds, unless the
\* ledger's revision has moved on.
WorkerKnows(w) ==
    /\ pc[w] = "idle" => Reported(w)
    /\ pc[w] # "idle" /\ sent[w] # "nothing" =>
          pc[w] = "commit" \/ (pc[w] = "reconcile" /\ reply[w] = "COMMIT_RESULT_UNKNOWN")
    /\ cmd[w] # NoCommand =>
          /\ pc[w] \in {"run", "commit"}
          /\ cmd[w].key = target[w] /\ cmd[w].period = target[w] /\ cmd[w].op = "issue"
          /\ cmd[w].revision <= revision
          /\ cmd[w].revision = revision =>
               contract.ready /\ (Live(target[w]) # {} \/ contract.payable)

\* An operator's request has a key of its own, and no answer while it is under way.
OperatorKnows(o) ==
    /\ cmd[o] # NoCommand => cmd[o].key \in spent
    /\ pc[o] \in {"run", "commit"} => reply[o] = "NONE"

KeysApart ==
    \A o, q \in Operators :
        cmd[o] # NoCommand /\ cmd[q] # NoCommand /\ cmd[o].key = cmd[q].key => o = q

\* RefusalsAreFinal, of one operator.
RefusalStands(o) ==
    reply[o] \in FinalRefusals =>
        /\ \A r \in receipts : r.cmd # cmd[o]
        /\ txn = NoTxn \/ txn.cmd # cmd[o]

\* What everybody knows of the ledger is true.
Known ==
    /\ ReceiptsKnown
    /\ TxnKnown
    /\ \A w \in Workers : WorkerKnows(w)
    /\ \A o \in Operators : OperatorKnows(o) /\ RefusalStands(o)
    /\ KeysApart

\* Nobody but p is touched.
Untouched(p) ==
    /\ \A q \in Procs \ {p} : pc'[q] = pc[q] /\ reply'[q] = reply[q] /\ cmd'[q] = cmd[q]
    /\ \A w \in Workers \ {p} : target'[w] = target[w] /\ sent'[w] = sent[w]

\* The ledger never loses a charge, and its revision moves with every change.
LedgerGrows ==
    /\ revision' >= revision
    /\ revision' = revision => UNCHANGED <<contract, charges>>
    /\ \A p \in Periods : charges[p] # <<>> => charges'[p] # <<>>

LEMMA RaiseTouchesOne ==
  ASSUME TypeOK, NEW p \in Procs, NEW code, Raise(p, code)
  PROVE  /\ \A q \in Procs \ {p} : pc'[q] = pc[q] /\ reply'[q] = reply[q] /\ cmd'[q] = cmd[q]
         /\ reply'[p] = code
         /\ p \in Workers => pc'[p] = "reconcile" /\ cmd'[p] = NoCommand
         /\ p \in Operators => pc'[p] = "idle" /\ cmd'[p] = cmd[p]
  BY DEF TypeOK, Raise, Dropped, Procs

LEMMA ReportTouchesOne ==
  ASSUME TypeOK, NEW p \in Procs, NEW answer, Report(p, answer)
  PROVE  /\ \A q \in Procs \ {p} : pc'[q] = pc[q] /\ reply'[q] = reply[q] /\ cmd'[q] = cmd[q]
         /\ reply'[p] = answer
         /\ pc'[p] = "idle"
         /\ p \in Workers => cmd'[p] = NoCommand
         /\ p \in Operators => cmd'[p] = cmd[p]
  BY DEF TypeOK, Report, Dropped, Procs

\* A worker that is not touched knows what it knew.
LEMMA WorkerStays ==
  ASSUME TypeOK, TypeOK', NEW w \in Workers, WorkerKnows(w), LedgerGrows,
         pc'[w] = pc[w], reply'[w] = reply[w], cmd'[w] = cmd[w],
         target'[w] = target[w], sent'[w] = sent[w]
  PROVE  WorkerKnows(w)'
<1>1. target[w] \in Periods /\ revision \in Nat /\ revision' \in Nat
  BY DEF TypeOK
<1>2. pc'[w] = "idle" => Reported(w)'
  BY <1>1 DEF WorkerKnows, Reported, LedgerGrows
<1>3. cmd'[w] # NoCommand =>
        /\ cmd'[w].revision <= revision'
        /\ cmd'[w].revision = revision' => cmd[w].revision = revision /\ revision' = revision
  <2>1. cmd[w] # NoCommand => cmd[w].revision \in Nat
    BY DEF TypeOK, Commands, Procs
  <2> QED
    BY <1>1, <2>1 DEF WorkerKnows, LedgerGrows
<1>4. revision' = revision => contract' = contract /\ Live(target[w])' = Live(target[w])
  BY DEF LedgerGrows, Live
<1> QED
  BY <1>2, <1>3, <1>4 DEF WorkerKnows, NoCommand, Live

\* A worker that reports knows, if the report is true.
LEMMA WorkerReports ==
  ASSUME TypeOK, NEW w \in Workers, NEW answer, Report(w, answer), Reported(w)'
  PROVE  WorkerKnows(w)'
<1>1. pc'[w] = "idle" /\ cmd'[w] = NoCommand
  BY ReportTouchesOne DEF Procs
<1> QED
  BY <1>1 DEF WorkerKnows, NoCommand

\* So does a worker that handles an exception: either nothing was sent, or that is what the
\* exception is about.
LEMMA WorkerRaises ==
  ASSUME TypeOK, NEW w \in Workers, NEW code, Raise(w, code),
         sent'[w] = "nothing" \/ code = "COMMIT_RESULT_UNKNOWN"
  PROVE  WorkerKnows(w)'
<1>1. pc'[w] = "reconcile" /\ reply'[w] = code /\ cmd'[w] = NoCommand
  BY RaiseTouchesOne DEF Procs
<1> QED
  BY <1>1 DEF WorkerKnows, NoCommand

\* The waiting transaction is the one there was, or none, or the one p has just sealed.
TxnOf(p) ==
    \/ txn' = NoTxn
    \/ txn # NoTxn /\ txn' # NoTxn /\ txn'.cmd = txn.cmd
    \/ pc[p] = "run" /\ txn' # NoTxn /\ txn'.cmd = cmd[p]

\* A refusal of another operator than p stands: p's command is not his.
LEMMA OthersRefusal ==
  ASSUME IInv, Known, NEW p \in Procs, NEW o \in Operators \ {p},
         reply'[o] = reply[o], cmd'[o] = cmd[o], UNCHANGED receipts, TxnOf(p)
  PROVE  RefusalStands(o)'
<1>1. RefusalStands(o) /\ KeysApart /\ OperatorKnows(o) /\ TypeOK
  BY DEF Known, IInv
<1>2. pc[p] = "run" => cmd[p] # cmd[o]
  <2> SUFFICES ASSUME pc[p] = "run", cmd[p] = cmd[o]
               PROVE  FALSE
    OBVIOUS
  <2>1. cmd[p] \in Commands
    BY DEF IInv, Carries, Fits
  <2>2. cmd[p] # NoCommand
    BY <2>1 DEF Commands, NoCommand
  <2>3. p \notin Operators
    BY <1>1, <2>2 DEF KeysApart
  <2>4. cmd[p].key \in Periods
    BY <1>1, <2>2, <2>3 DEF Known, WorkerKnows, TypeOK, Procs
  <2>5. cmd[o].key \in Keys
    BY <1>1, <2>2 DEF OperatorKnows, TypeOK
  <2> QED
    BY <2>4, <2>5
<1> QED
  BY <1>1, <1>2 DEF RefusalStands, TxnOf, NoTxn

\* A step of p that writes nothing to the ledger keeps what is known, if p, and the
\* transaction it may have sealed, keep their part.
LEMMA OwnCommand ==
  ASSUME IInv, IInv', Known, NEW p \in Procs, Untouched(p),
         UNCHANGED <<contract, revision, charges, receipts>>, spent \subseteq spent',
         TxnOf(p), TxnKnown',
         p \in Workers => WorkerKnows(p)',
         p \in Operators => OperatorKnows(p)' /\ RefusalStands(p)',
         KeysApart'
  PROVE  Known'
<1>1. TypeOK /\ TypeOK'
  BY DEF IInv
<1>2. LedgerGrows
  BY <1>1 DEF LedgerGrows, TypeOK
<1>3. \A w \in Workers : WorkerKnows(w)'
  <2> SUFFICES ASSUME NEW w \in Workers \ {p}
               PROVE  WorkerKnows(w)'
    OBVIOUS
  <2>1. WorkerKnows(w)
    BY DEF Known
  <2> QED
    BY <1>1, <1>2, <2>1, WorkerStays DEF Untouched, Procs
<1>4. \A o \in Operators : OperatorKnows(o)' /\ RefusalStands(o)'
  <2> SUFFICES ASSUME NEW o \in Operators \ {p}
               PROVE  OperatorKnows(o)' /\ RefusalStands(o)'
    OBVIOUS
  <2>1. pc'[o] = pc[o] /\ reply'[o] = reply[o] /\ cmd'[o] = cmd[o]
    BY DEF Untouched, Procs
  <2>2. OperatorKnows(o)
    BY DEF Known
  <2>3. OperatorKnows(o)'
    BY <2>1, <2>2 DEF OperatorKnows, NoCommand
  <2> QED
    BY <2>1, <2>3, OthersRefusal
<1>5. ReceiptsKnown'
  BY DEF Known, ReceiptsKnown, Billed
<1> QED
  BY <1>3, <1>4, <1>5 DEF Known

\* In particular a step in which no operator comes by a new command.
LEMMA OwnStep ==
  ASSUME IInv, IInv', Known, NEW p \in Procs, Untouched(p),
         UNCHANGED <<contract, revision, charges, receipts, spent>>,
         TxnOf(p), TxnKnown',
         p \in Workers => WorkerKnows(p)',
         p \in Operators => cmd'[p] = cmd[p] /\ OperatorKnows(p)' /\ RefusalStands(p)'
  PROVE  Known'
<1>1. \A o \in Operators : cmd'[o] = cmd[o]
  BY DEF Untouched, Procs
<1>2. KeysApart'
  BY <1>1 DEF Known, KeysApart, NoCommand
<1> QED
  BY <1>2, OwnCommand

\* The waiting transaction is left alone.
LEMMA TxnStays ==
  ASSUME IInv, Known, NEW p \in Procs, UNCHANGED <<txn, charges, receipts, target, sent>>
  PROVE  TxnKnown' /\ TxnOf(p)
<1>1. TxnKnown
  BY DEF Known
<1>2. txn' = txn
  OBVIOUS
<1>3. TxnKnown'
  BY <1>1 DEF TxnKnown, Billed, ReceiptsOf, NoTxn
<1> QED
  BY <1>2, <1>3 DEF TxnOf

\* A report of a worker's.
LEMMA ReportKnown ==
  ASSUME IInv, IInv', Known, NEW w \in Workers, NEW answer, Report(w, answer),
         UNCHANGED <<ledger, txn, spent, target, sent>>,
         sent[w] # "nothing" => answer \in {"NONE", "UNKNOWN_EFFECT", "ALREADY_ISSUED"},
         answer # "CREATED",
         answer = "ALREADY_ISSUED" => charges[target[w]] # <<>>
  PROVE  Known'
<1>1. TypeOK /\ w \in Procs /\ w \notin Operators
  BY DEF IInv, Procs
<1>2. /\ \A q \in Procs \ {w} : pc'[q] = pc[q] /\ reply'[q] = reply[q] /\ cmd'[q] = cmd[q]
      /\ reply'[w] = answer
  BY <1>1, ReportTouchesOne
<1>3. Untouched(w)
  BY <1>2 DEF Untouched
<1>4. Reported(w)'
  BY <1>2 DEF Reported, ledger
<1>5. WorkerKnows(w)'
  BY <1>1, <1>4, WorkerReports
<1>6. UNCHANGED <<contract, revision, charges, receipts, spent>>
  BY DEF ledger
<1>7. TxnKnown' /\ TxnOf(w)
  BY <1>1, <1>6, TxnStays
<1> QED
  BY <1>1, <1>3, <1>5, <1>6, <1>7, OwnStep

\* An exception in anybody's step.
LEMMA RaiseKnown ==
  ASSUME IInv, IInv', Known, NEW p \in Procs, NEW code, Raise(p, code),
         UNCHANGED <<ledger, txn, spent, target, sent>>,
         p \in Workers => sent[p] = "nothing" \/ code = "COMMIT_RESULT_UNKNOWN",
         p \in Operators /\ code \in FinalRefusals =>
             /\ \A r \in receipts : r.cmd # cmd[p]
             /\ txn = NoTxn
  PROVE  Known'
<1>1. TypeOK
  BY DEF IInv
<1>2. /\ \A q \in Procs \ {p} : pc'[q] = pc[q] /\ reply'[q] = reply[q] /\ cmd'[q] = cmd[q]
      /\ reply'[p] = code
      /\ p \in Operators => pc'[p] = "idle" /\ cmd'[p] = cmd[p]
  BY <1>1, RaiseTouchesOne
<1>3. Untouched(p)
  BY <1>2 DEF Untouched
<1>4. p \in Workers => WorkerKnows(p)'
  BY <1>1, WorkerRaises
<1>5. UNCHANGED <<contract, revision, charges, receipts, spent>>
  BY DEF ledger
<1>6. ASSUME p \in Operators
      PROVE  OperatorKnows(p)' /\ RefusalStands(p)'
  BY <1>2, <1>5, <1>6 DEF Known, OperatorKnows, RefusalStands, NoCommand, NoTxn
<1>7. TxnKnown' /\ TxnOf(p)
  BY <1>5, TxnStays
<1> QED
  BY <1>2, <1>3, <1>4, <1>5, <1>6, <1>7, OwnStep

\* A receipt of a cycle's key says that the period was billed.
LEMMA CycleReceiptKnown ==
  ASSUME IInv, Known, NEW w \in Workers, NEW r \in receipts, r.cmd.key = target[w]
  PROVE  /\ Disposition(r.outcome, TRUE) = "ALREADY_ISSUED"
         /\ charges[target[w]] # <<>>
<1>1. target[w] \in Periods
  BY DEF IInv, TypeOK
<1>2. r.outcome \in {"CREATED", "EXISTING"} /\ r.cmd.period = target[w]
  BY <1>1 DEF Known, ReceiptsKnown, Billed
<1> QED
  BY <1>2 DEF Known, ReceiptsKnown, Disposition

\* A worker that finds its cycle's receipt.
LEMMA FoundKnown ==
  ASSUME IInv, IInv', Known, NEW w \in Workers, NEW r \in receipts, r.cmd.key = target[w],
         Complete(w, r.outcome, TRUE), UNCHANGED <<ledger, txn, spent, target, sent>>
  PROVE  Known'
<1>1. Report(w, "ALREADY_ISSUED") /\ charges[target[w]] # <<>>
  BY CycleReceiptKnown DEF Complete
<1> QED
  BY <1>1, ReportKnown

\* What a process about to run its command has.
LEMMA RunKnown ==
  ASSUME IInv, Known, NEW p \in Procs, pc[p] = "run"
  PROVE  /\ cmd[p] \in Commands /\ cmd[p] # NoCommand
         /\ p \in Workers => /\ sent[p] = "nothing"
                             /\ cmd[p].key = target[p]
                             /\ cmd[p].period = target[p]
                             /\ cmd[p].op = "issue"
                             /\ target[p] \in Periods
         /\ p \in Operators => cmd[p].key \in Keys /\ reply[p] = "NONE"
<1>1. cmd[p] \in Commands
  BY DEF IInv, Carries, Fits
<1>2. cmd[p] # NoCommand
  BY <1>1 DEF Commands, NoCommand
<1>3. p \in Workers => WorkerKnows(p)
  BY DEF Known
<1>4. p \in Operators => OperatorKnows(p)
  BY DEF Known
<1> QED
  BY <1>1, <1>2, <1>3, <1>4 DEF WorkerKnows, OperatorKnows, IInv, TypeOK

LEMMA ReplayKnown ==
  ASSUME IInv, IInv', Known, NEW p \in Procs, Replay(p)
  PROVE  Known'
<1>1. PICK r \in ReceiptsOf(cmd[p]) : IF r.cmd = cmd[p] THEN Complete(p, r.outcome, TRUE)
                                      ELSE Raise(p, "IDEMPOTENCY_CONFLICT")
  BY DEF Replay
<1>2. r \in receipts /\ r.cmd.op = cmd[p].op /\ r.cmd.key = cmd[p].key /\ TypeOK
  BY DEF ReceiptsOf, IInv
<1>3. pc[p] = "run" /\ txn = NoTxn /\ UNCHANGED <<ledger, txn, spent, target, sent>>
  BY DEF Replay, ScopeFree
<1>4. CASE r.cmd = cmd[p] /\ p \in Workers
  BY <1>1, <1>2, <1>3, <1>4, RunKnown, FoundKnown
<1>5. CASE r.cmd = cmd[p] /\ p \in Operators
  <2>1. Report(p, r.outcome) /\ r.outcome \in Outcomes
    BY <1>1, <1>2, <1>5 DEF Complete, TypeOK
  <2>2. /\ \A q \in Procs \ {p} : pc'[q] = pc[q] /\ reply'[q] = reply[q] /\ cmd'[q] = cmd[q]
        /\ reply'[p] = r.outcome /\ pc'[p] = "idle" /\ cmd'[p] = cmd[p]
    BY <1>2, <1>5, <2>1, ReportTouchesOne
  <2>3. Untouched(p)
    BY <1>3, <2>2 DEF Untouched
  <2>4. UNCHANGED <<contract, revision, charges, receipts, spent>>
    BY <1>3 DEF ledger
  <2>5. r.outcome \notin FinalRefusals
    BY <2>1 DEF Outcomes, FinalRefusals, Refusals, Conflicts
  <2>6. OperatorKnows(p)' /\ RefusalStands(p)'
    BY <1>5, <2>2, <2>4, <2>5 DEF Known, OperatorKnows, RefusalStands, NoCommand
  <2>7. TxnKnown' /\ TxnOf(p)
    BY <1>3, <2>4, TxnStays
  <2> QED
    BY <1>5, <2>2, <2>3, <2>4, <2>6, <2>7, OwnStep
<1>6. CASE r.cmd # cmd[p]
  <2>1. \A s \in receipts : s.cmd # cmd[p]
    BY <1>2, <1>6 DEF Known, ReceiptsKnown
  <2> QED
    BY <1>1, <1>3, <1>6, <2>1, RunKnown, RaiseKnown
<1> QED
  BY <1>4, <1>5, <1>6 DEF Procs

LEMMA RefuseKnown ==
  ASSUME IInv, IInv', Known, NEW p \in Procs, Refuse(p)
  PROVE  Known'
<1>1. /\ pc[p] = "run" /\ txn = NoTxn /\ ReceiptsOf(cmd[p]) = {} /\ Raise(p, Verdict(p))
      /\ UNCHANGED <<ledger, txn, spent, target, sent>>
  BY DEF Refuse, ScopeFree
<1>2. \A r \in receipts : r.cmd # cmd[p]
  BY <1>1 DEF ReceiptsOf
<1> QED
  BY <1>1, <1>2, RunKnown, RaiseKnown

LEMMA FailToRunKnown ==
  ASSUME IInv, IInv', Known, NEW p \in Procs, FailToRun(p)
  PROVE  Known'
<1>1. PICK code \in {"RETRYABLE_TRANSACTION", "INTERNAL_ERROR"} : Raise(p, code)
  BY DEF FailToRun
<1>2. pc[p] \in {"compose", "run"} /\ UNCHANGED <<ledger, txn, spent, target, sent>>
  BY DEF FailToRun
<1>3. p \in Workers => sent[p] = "nothing"
  BY <1>2 DEF Known, WorkerKnows
<1>4. code \notin FinalRefusals
  BY DEF FinalRefusals
<1> QED
  BY <1>1, <1>2, <1>3, <1>4, RaiseKnown

LEMMA LoseConnectionKnown ==
  ASSUME IInv, IInv', Known, NEW p \in Procs, LoseConnection(p)
  PROVE  Known'
<1>1. "COMMIT_RESULT_UNKNOWN" \notin FinalRefusals
  BY DEF FinalRefusals, Refusals, Conflicts
<1> QED
  BY <1>1, RaiseKnown DEF LoseConnection

\* What a cycle's command is sealed with: the ledger has not moved since the worker saw the
\* period payable or billed, so it bills the period or finds it billed.
LEMMA SealedKnown ==
  ASSUME IInv, Known, NEW p \in Procs, pc[p] = "run", Verdict(p) \in Outcomes
  PROVE  /\ Billed(cmd[p], Verdict(p))
         /\ Verdict(p) = "EXISTING" => charges[cmd[p].period] # <<>>
<1> DEFINE c == cmd[p]
           isDue == IF p \in Workers THEN dueSeen[p] ELSE c.period \in due
<1>1. /\ Verdict(p) = Plan(c, isDue)
      /\ c.revision = revision
  BY DEF Verdict, Outcomes
<1>2. c \in Commands /\ c # NoCommand
  BY RunKnown
<1>3. c.period \in Periods /\ charges[c.period] \in Seq(Charges) /\ c.op \in {"issue", "void"}
  BY <1>2 DEF Commands, IInv, TypeOK
<1>4. Stands(c.period) => charges[c.period] # <<>>
  BY DEF Stands, Latest
<1>5. Plan(c, isDue) = "EXISTING" => Stands(c.period)
  BY <1>3 DEF Plan, IssuePlan, VoidPlan
<1>6. ASSUME c.key \in Periods
      PROVE  c.key = c.period /\ Plan(c, isDue) \in {"CREATED", "EXISTING"}
  <2>1. p \in Workers
    BY <1>6, RunKnown DEF Procs
  <2>2. c.key = c.period /\ c.op = "issue" /\ c.period = target[p]
    BY <2>1, RunKnown
  <2>3. contract.ready /\ (Live(c.period) # {} \/ contract.payable)
    BY <1>1, <1>2, <2>1, <2>2 DEF Known, WorkerKnows
  <2>4. Live(c.period) # {} => Stands(c.period)
    BY <1>3 DEF IInv, InLine, Live, Stands, Latest
  <2>5. Plan(c, isDue) = IssuePlan(c, isDue) /\ Plan(c, isDue) \in Outcomes
    BY <1>1, <2>2 DEF Plan
  <2> HIDE DEF c, isDue
  <2>6. IssuePlan(c, isDue) \in {"CREATED", "EXISTING"}
    BY <2>3, <2>4, <2>5 DEF IssuePlan, Outcomes
  <2> QED
    BY <2>2, <2>5, <2>6
<1> QED
  BY <1>1, <1>4, <1>5, <1>6 DEF Billed

LEMMA SendCommitKnown ==
  ASSUME IInv, IInv', Known, NEW p \in Procs, SendCommit(p)
  PROVE  Known'
<1>1. TypeOK
  BY DEF IInv
<1>2. /\ pc[p] = "run"
      /\ ReceiptsOf(cmd[p]) = {}
      /\ Verdict(p) \in Outcomes
      /\ txn' = [by |-> p, cmd |-> cmd[p], outcome |-> Verdict(p)]
      /\ UNCHANGED <<contract, revision, charges, receipts, spent, target, cmd, reply>>
      /\ pc' = [pc EXCEPT ![p] = "commit"]
      /\ sent' = IF p \in Workers THEN [sent EXCEPT ![p] = "pending"] ELSE sent
  BY DEF SendCommit, Goto, ledger, locals
<1>3. Untouched(p)
  BY <1>1, <1>2 DEF Untouched, TypeOK
<1>4. pc'[p] = "commit" /\ (p \in Workers => sent'[p] = "pending")
  BY <1>1, <1>2 DEF TypeOK
<1>5. txn' # NoTxn /\ txn'.by = p /\ txn'.cmd = cmd[p] /\ txn'.outcome = Verdict(p)
  BY <1>2 DEF NoTxn
<1>6. TxnOf(p)
  BY <1>2, <1>5 DEF TxnOf
<1>7. TxnKnown'
  <2>1. p \in Workers => cmd[p].key = target[p]
    BY <1>2, RunKnown
  <2>2. /\ Billed(cmd[p], Verdict(p))
        /\ Verdict(p) = "EXISTING" => charges[cmd[p].period] # <<>>
    BY <1>2, SealedKnown
  <2>3. \A r \in receipts : ~(r.cmd.op = cmd[p].op /\ r.cmd.key = cmd[p].key)
    BY <1>2 DEF ReceiptsOf
  <2>4. ReceiptsOf(txn.cmd)' = {}
    BY <1>2, <1>5, <2>3 DEF ReceiptsOf
  <2> QED
    BY <1>2, <1>4, <1>5, <2>1, <2>2, <2>4 DEF TxnKnown, Billed
<1>8. ASSUME p \in Workers
      PROVE  WorkerKnows(p)'
  <2>1. WorkerKnows(p)
    BY <1>8 DEF Known
  <2> QED
    BY <1>2, <1>4, <2>1 DEF WorkerKnows, NoCommand, Live
<1>9. ASSUME p \in Operators
      PROVE  OperatorKnows(p)' /\ RefusalStands(p)'
  <2>1. reply'[p] = "NONE" /\ "NONE" \notin FinalRefusals
    BY <1>2, <1>9, RunKnown DEF FinalRefusals, Refusals, Conflicts
  <2>2. OperatorKnows(p)
    BY <1>9 DEF Known
  <2> QED
    BY <1>2, <2>1, <2>2 DEF OperatorKnows, RefusalStands, NoCommand
<1> QED
  BY <1>2, <1>3, <1>6, <1>7, <1>8, <1>9, OwnStep

-----------------------------------------------------------------------------
(* The server's answers.                                                   *)

\* What happens to the process whose transaction is settled: nothing, if it is not waiting.
SettledFor(p) ==
    \/ pc'[p] = pc[p] /\ reply'[p] = reply[p] /\ cmd'[p] = cmd[p]
    \/ pc[p] = "commit" /\ Complete(p, txn.outcome, FALSE)
    \/ pc[p] = "commit" /\ Raise(p, "COMMIT_RESULT_UNKNOWN")

\* The waiting transaction is settled, and its receipt kept if it was committed.
Settles(fate) ==
    /\ txn # NoTxn /\ txn' = NoTxn
    /\ Settle(fate)
    /\ UNCHANGED <<spent, target>>
    /\ \A q \in Procs \ {txn.by} : pc'[q] = pc[q] /\ reply'[q] = reply[q] /\ cmd'[q] = cmd[q]
    /\ txn.by \in Procs => SettledFor(txn.by)
    /\ receipts' = IF fate = "done" THEN receipts \cup {[cmd |-> txn.cmd, outcome |-> txn.outcome]}
                                    ELSE receipts

\* A worker whose transaction is settled knows, whether it is told or not.
LEMMA WorkerIsTold ==
  ASSUME IInv, IInv', Known, LedgerGrows, NEW fate \in {"done", "nothing"}, Settles(fate),
         NEW w \in Workers, txn.by = w,
         fate = "nothing" => ~(pc[w] = "commit" /\ Complete(w, txn.outcome, FALSE)),
         fate = "done" => charges'[target[w]] # <<>>
  PROVE  WorkerKnows(w)'
<1>1. TypeOK /\ TypeOK' /\ w \in Procs /\ txn # NoTxn
  BY DEF IInv, Procs, Settles
<1>2. /\ sent[w] = "pending"
      /\ txn.cmd.key = target[w]
      /\ Billed(txn.cmd, txn.outcome)
      /\ target[w] \in Periods
  BY <1>1 DEF Known, TxnKnown, TypeOK
<1>3. sent'[w] = fate /\ target'[w] = target[w]
  BY <1>1 DEF Settles, Settle, TypeOK
<1>4. WorkerKnows(w)
  BY DEF Known
<1>5. CASE pc'[w] = pc[w] /\ reply'[w] = reply[w] /\ cmd'[w] = cmd[w]
  <2>1. pc'[w] = "idle" => Reported(w)'
    <3>1. pc[w] = "idle" => reply[w] \in {"NONE", "UNKNOWN_EFFECT", "ALREADY_ISSUED"}
      BY <1>2, <1>4 DEF WorkerKnows, Reported
    <3>2. pc[w] = "idle" /\ reply[w] = "ALREADY_ISSUED" => charges'[target[w]] # <<>>
      BY <1>2, <1>4 DEF WorkerKnows, Reported, LedgerGrows
    <3> QED
      BY <1>3, <1>5, <3>1, <3>2 DEF Reported
  <2>2. pc'[w] # "idle" =>
          pc'[w] = "commit" \/ (pc'[w] = "reconcile" /\ reply'[w] = "COMMIT_RESULT_UNKNOWN")
    BY <1>2, <1>4, <1>5 DEF WorkerKnows
  <2>3. ASSUME cmd[w] # NoCommand
        PROVE  /\ cmd[w].revision <= revision'
               /\ cmd[w].revision = revision' => cmd[w].revision = revision /\ revision' = revision
    <3>1. cmd[w].revision \in Nat /\ revision \in Nat /\ revision' \in Nat
      BY <1>1, <2>3 DEF TypeOK, Commands
    <3> QED
      BY <1>4, <2>3, <3>1 DEF WorkerKnows, LedgerGrows
  <2>4. revision' = revision => contract' = contract /\ Live(target[w])' = Live(target[w])
    BY <1>3 DEF LedgerGrows, Live
  <2> QED
    BY <1>3, <1>4, <1>5, <2>1, <2>2, <2>3, <2>4 DEF WorkerKnows, NoCommand, Live
<1>6. CASE Complete(w, txn.outcome, FALSE) /\ fate = "done"
  <2>1. PICK answer \in {"CREATED", "ALREADY_ISSUED"} : Report(w, answer)
    BY <1>2, <1>6 DEF Complete, Disposition, Billed
  <2>2. reply'[w] = answer
    BY <1>1, <2>1, ReportTouchesOne
  <2>3. Reported(w)'
    BY <1>3, <1>6, <2>2 DEF Reported
  <2> QED
    BY <1>1, <2>1, <2>3, WorkerReports
<1>7. CASE Raise(w, "COMMIT_RESULT_UNKNOWN")
  BY <1>1, <1>7, WorkerRaises
<1> QED
  BY <1>1, <1>5, <1>6, <1>7 DEF Settles, SettledFor

\* An operator whose request is settled is not refused.
LEMMA OperatorIsTold ==
  ASSUME IInv, Known, NEW fate \in {"done", "nothing"}, Settles(fate),
         NEW o \in Operators
  PROVE  OperatorKnows(o)' /\ RefusalStands(o)' /\ cmd'[o] = cmd[o]
<1>1. TypeOK /\ o \in Procs /\ txn # NoTxn /\ txn' = NoTxn /\ OperatorKnows(o) /\ RefusalStands(o)
  BY DEF IInv, Procs, Settles, Known
<1>2. receipts' = receipts \/ receipts' = receipts \cup {[cmd |-> txn.cmd, outcome |-> txn.outcome]}
  BY DEF Settles
<1>3. CASE pc'[o] = pc[o] /\ reply'[o] = reply[o] /\ cmd'[o] = cmd[o]
  BY <1>1, <1>2, <1>3 DEF Settles, OperatorKnows, RefusalStands, NoCommand
<1>4. CASE pc[o] = "commit" /\ Complete(o, txn.outcome, FALSE)
  <2>1. Report(o, txn.outcome) /\ txn.outcome \in Outcomes
    BY <1>1, <1>4 DEF Complete, TypeOK, Transactions
  <2>2. reply'[o] = txn.outcome /\ pc'[o] = "idle" /\ cmd'[o] = cmd[o]
    BY <1>1, <2>1, ReportTouchesOne
  <2>3. txn.outcome \notin FinalRefusals
    BY <2>1 DEF Outcomes, FinalRefusals, Refusals, Conflicts
  <2> QED
    BY <1>1, <2>2, <2>3 DEF Settles, OperatorKnows, RefusalStands, NoCommand
<1>5. CASE Raise(o, "COMMIT_RESULT_UNKNOWN")
  <2>1. reply'[o] = "COMMIT_RESULT_UNKNOWN" /\ pc'[o] = "idle" /\ cmd'[o] = cmd[o]
    BY <1>1, <1>5, RaiseTouchesOne
  <2>2. "COMMIT_RESULT_UNKNOWN" \notin FinalRefusals
    BY DEF FinalRefusals, Refusals, Conflicts
  <2> QED
    BY <1>1, <2>1, <2>2 DEF Settles, OperatorKnows, RefusalStands, NoCommand
<1> QED
  BY <1>1, <1>3, <1>4, <1>5 DEF Settles, SettledFor

\* A settled transaction keeps what is known, if the ledger only grew.
LEMMA SettledKnown ==
  ASSUME IInv, IInv', Known, LedgerGrows, NEW fate \in {"done", "nothing"}, Settles(fate),
         fate = "nothing" /\ txn.by \in Procs =>
             ~(pc[txn.by] = "commit" /\ Complete(txn.by, txn.outcome, FALSE)),
         fate = "done" /\ txn.outcome \in {"CREATED", "EXISTING"} =>
             charges'[txn.cmd.period] # <<>>
  PROVE  Known'
<1>1. TypeOK /\ TypeOK' /\ txn # NoTxn /\ txn' = NoTxn /\ TxnKnown
  BY DEF IInv, Settles, Known
<1>2. txn \in Transactions
  BY <1>1 DEF TypeOK
<1>3. ASSUME NEW w \in Workers
      PROVE  WorkerKnows(w)'
  <2>1. CASE txn.by = w
    <3>1. fate = "done" => charges'[target[w]] # <<>>
      BY <1>1, <2>1 DEF TxnKnown, Billed, TypeOK
    <3>2. txn.by \in Procs
      BY <2>1 DEF Procs
    <3> QED
      BY <2>1, <3>1, <3>2, WorkerIsTold
  <2>2. CASE txn.by # w
    <3>1. WorkerKnows(w) /\ w \in Procs
      BY DEF Known, Procs
    <3>2. pc'[w] = pc[w] /\ reply'[w] = reply[w] /\ cmd'[w] = cmd[w] /\ target'[w] = target[w]
      BY <2>2, <3>1 DEF Settles
    <3>3. sent'[w] = sent[w]
      BY <1>1, <2>2 DEF Settles, Settle, TypeOK
    <3> QED
      BY <1>1, <3>1, <3>2, <3>3, WorkerStays
  <2> QED
    BY <2>1, <2>2
<1>4. \A o \in Operators : OperatorKnows(o)' /\ RefusalStands(o)' /\ cmd'[o] = cmd[o]
  BY OperatorIsTold
<1>5. KeysApart'
  BY <1>4 DEF Known, KeysApart, NoCommand
<1>6. TxnKnown'
  BY <1>1 DEF TxnKnown, NoTxn
<1>7. ReceiptsKnown'
  <2>1. \A r \in receipts : r.cmd.period \in Periods
    BY <1>1 DEF TypeOK, Commands
  <2>2. \A r \in receipts :
          /\ Billed(r.cmd, r.outcome)
          /\ r.outcome \in {"CREATED", "EXISTING"} => charges'[r.cmd.period] # <<>>
    BY <2>1 DEF Known, ReceiptsKnown, LedgerGrows
  <2>3. \A r, s \in receipts : r.cmd.op = s.cmd.op /\ r.cmd.key = s.cmd.key => r = s
    BY DEF Known, ReceiptsKnown
  <2>4. CASE fate = "nothing"
    BY <2>2, <2>3, <2>4 DEF Settles, ReceiptsKnown, Billed
  <2>5. CASE fate = "done"
    <3> DEFINE new == [cmd |-> txn.cmd, outcome |-> txn.outcome]
    <3>1. receipts' = receipts \cup {new}
      BY <2>5 DEF Settles
    <3>2. \A r \in receipts : ~(r.cmd.op = txn.cmd.op /\ r.cmd.key = txn.cmd.key)
      BY <1>1 DEF TxnKnown, ReceiptsOf
    <3>3. Billed(txn.cmd, txn.outcome)
      BY <1>1 DEF TxnKnown
    <3> QED
      BY <2>2, <2>3, <2>5, <3>1, <3>2, <3>3 DEF ReceiptsKnown, Billed
  <2> QED
    BY <2>4, <2>5
<1> QED
  BY <1>3, <1>4, <1>5, <1>6, <1>7 DEF Known

LEMMA ServerCommitKnown ==
  ASSUME IInv, IInv', Known, ServerCommit
  PROVE  Known'
<1>1. TypeOK /\ txn # NoTxn /\ txn' = NoTxn /\ UNCHANGED <<contract, spent, target>>
  BY DEF IInv, ServerCommit
<1>2. txn.cmd.period \in Periods /\ charges \in [Periods -> Seq(Charges)]
  BY <1>1 DEF TypeOK, Transactions, Commands
<1>3. \A q \in Periods : DOMAIN charges[q] \subseteq DOMAIN charges'[q]
  <2>1. CASE txn.outcome = "CREATED"
    BY <1>1, <2>1, CreatedInLine DEF ServerCommit
  <2>2. CASE txn.outcome = "UPDATED"
    BY <1>1, <2>2, VoidedInLine DEF ServerCommit
  <2>3. CASE txn.outcome \notin {"CREATED", "UPDATED"}
    BY <2>3 DEF ServerCommit
  <2> QED
    BY <2>1, <2>2, <2>3
<1>4. charges' \in [Periods -> Seq(Charges)]
  BY DEF IInv, TypeOK
<1>5. \A q \in Periods : charges[q] # <<>> => charges'[q] # <<>>
  <2> SUFFICES ASSUME NEW q \in Periods, charges[q] # <<>>
               PROVE  charges'[q] # <<>>
    OBVIOUS
  <2>1. Len(charges[q]) \in DOMAIN charges[q]
    BY <1>2, EmptySeq
  <2> QED
    BY <1>3, <2>1
<1>6. LedgerGrows
  <2>1. revision \in Nat
    BY <1>1 DEF TypeOK
  <2>2. CASE txn.outcome \in {"CREATED", "UPDATED"}
    <3>1. revision' = revision + 1
      BY <2>2 DEF ServerCommit
    <3> QED
      BY <1>5, <2>1, <3>1 DEF LedgerGrows
  <2>3. CASE txn.outcome \notin {"CREATED", "UPDATED"}
    <3>1. revision' = revision /\ charges' = charges
      BY <2>3 DEF ServerCommit
    <3> QED
      BY <1>1, <2>1, <3>1 DEF LedgerGrows
  <2> QED
    BY <2>2, <2>3
<1>7. txn.outcome \in {"CREATED", "EXISTING"} => charges'[txn.cmd.period] # <<>>
  <2>1. CASE txn.outcome = "CREATED"
    <3> DEFINE row == Issued(txn.cmd, txn.cmd.receivable)
               old == charges[txn.cmd.period]
    <3>1. charges'[txn.cmd.period] = Append(old, row)
      BY <1>2, <2>1 DEF ServerCommit
    <3> HIDE DEF row
    <3>2. Append(old, row) # <<>>
      BY <1>2
    <3> QED
      BY <3>1, <3>2
  <2>2. CASE txn.outcome = "EXISTING"
    BY <1>1, <1>2, <1>5, <2>2 DEF Known, TxnKnown
  <2> QED
    BY <2>1, <2>2
<1>8. txn.by \in Procs => SettledFor(txn.by)
  BY <1>1 DEF ServerCommit, Waiting, SettledFor, locals
<1>9. \A q \in Procs \ {txn.by} : pc'[q] = pc[q] /\ reply'[q] = reply[q] /\ cmd'[q] = cmd[q]
  <2>1. CASE Waiting(txn.by)
    <3>1. txn.by \in Procs
      BY <2>1 DEF Waiting
    <3>2. CASE Complete(txn.by, txn.outcome, FALSE)
      BY <1>1, <3>1, <3>2, ReportTouchesOne DEF Complete
    <3>3. CASE Raise(txn.by, "COMMIT_RESULT_UNKNOWN")
      BY <1>1, <3>1, <3>3, RaiseTouchesOne
    <3> QED
      BY <2>1, <3>2, <3>3 DEF ServerCommit
  <2>2. CASE ~Waiting(txn.by)
    BY <2>2 DEF ServerCommit, locals
  <2> QED
    BY <2>1, <2>2
<1>10. Settles("done")
  BY <1>1, <1>8, <1>9 DEF Settles, ServerCommit
<1> QED
  BY <1>6, <1>7, <1>10, SettledKnown

LEMMA ServerAbortKnown ==
  ASSUME IInv, IInv', Known, ServerAbort
  PROVE  Known'
<1>1. /\ TypeOK /\ txn # NoTxn /\ txn' = NoTxn
      /\ UNCHANGED <<contract, revision, charges, receipts, spent, target>>
  BY DEF IInv, ServerAbort, ledger
<1>2. LedgerGrows
  BY <1>1 DEF LedgerGrows, TypeOK
<1>3. txn.by \in Procs => SettledFor(txn.by)
  BY <1>1 DEF ServerAbort, Waiting, SettledFor, locals
<1>4. \A q \in Procs \ {txn.by} : pc'[q] = pc[q] /\ reply'[q] = reply[q] /\ cmd'[q] = cmd[q]
  <2>1. CASE Waiting(txn.by)
    BY <1>1, <2>1, RaiseTouchesOne DEF ServerAbort, Waiting
  <2>2. CASE ~Waiting(txn.by)
    BY <2>2 DEF ServerAbort, locals
  <2> QED
    BY <2>1, <2>2
<1>5. Settles("nothing")
  BY <1>1, <1>3, <1>4 DEF Settles, ServerAbort
<1>6. txn.by \in Procs => ~(pc[txn.by] = "commit" /\ Complete(txn.by, txn.outcome, FALSE))
  <2> SUFFICES ASSUME txn.by \in Procs, pc[txn.by] = "commit",
                      Complete(txn.by, txn.outcome, FALSE)
               PROVE  FALSE
    OBVIOUS
  <2>1. Raise(txn.by, "COMMIT_RESULT_UNKNOWN")
    BY DEF ServerAbort, Waiting
  <2>2. reply'[txn.by] = "COMMIT_RESULT_UNKNOWN"
    BY <1>1, <2>1, RaiseTouchesOne
  <2>3. reply'[txn.by] \in Outcomes \cup {"CREATED", "ALREADY_ISSUED", "SKIPPED_NO_CHARGE"}
    BY <1>1, ReportTouchesOne DEF Complete, Disposition, TypeOK, Transactions
  <2> QED
    BY <2>2, <2>3 DEF Outcomes
<1> QED
  BY <1>2, <1>5, <1>6, SettledKnown

-----------------------------------------------------------------------------
(* The worker's steps.                                                     *)

\* A new evaluation forgets the transaction of the last one.
LEMMA StartKnown ==
  ASSUME IInv, IInv', Known, NEW w \in Workers, Start(w)
  PROVE  Known'
<1>1. TypeOK /\ w \in Procs /\ w \notin Operators /\ Nobody \notin Procs
  BY DEF IInv, Procs
<1>2. /\ pc' = [pc EXCEPT ![w] = "lookup"]
      /\ reply' = [reply EXCEPT ![w] = "NONE"]
      /\ sent' = [sent EXCEPT ![w] = "nothing"]
      /\ \E p \in Periods : target' = [target EXCEPT ![w] = p]
      /\ txn' = IF txn.by = w THEN [txn EXCEPT !.by = Nobody] ELSE txn
      /\ UNCHANGED <<contract, revision, charges, receipts, spent, cmd>>
      /\ pc[w] = "idle"
  BY DEF Start, ledger
<1>3. Untouched(w)
  BY <1>1, <1>2 DEF Untouched, TypeOK
<1>4. /\ pc'[w] = "lookup"
      /\ sent'[w] = "nothing"
      /\ cmd'[w] = cmd[w]
  BY <1>1, <1>2 DEF TypeOK
<1>5. cmd[w] = NoCommand
  BY <1>2 DEF Known, WorkerKnows
<1>6. WorkerKnows(w)'
  BY <1>4, <1>5 DEF WorkerKnows, NoCommand
<1>7. CASE txn = NoTxn
  <2>1. txn' = NoTxn
    BY <1>1, <1>2, <1>7 DEF NoTxn
  <2>2. TxnKnown' /\ TxnOf(w)
    BY <2>1 DEF TxnKnown, TxnOf, NoTxn
  <2> QED
    BY <1>1, <1>2, <1>3, <1>6, <2>2, OwnStep
<1>8. CASE txn # NoTxn
  <2>1. txn \in Transactions
    BY <1>1, <1>8 DEF TypeOK
  <2>2. /\ txn'.cmd = txn.cmd /\ txn'.outcome = txn.outcome
        /\ txn'.by = IF txn.by = w THEN Nobody ELSE txn.by
        /\ txn' \in Transactions
    BY <1>1, <1>2, <2>1 DEF Transactions
  <2>3. txn' # NoTxn
    <3>1. DOMAIN txn' = {"by", "cmd", "outcome"}
      BY <2>2 DEF Transactions
    <3>2. DOMAIN NoTxn = {"by"}
      BY DEF NoTxn
    <3> QED
      BY <3>1, <3>2
  <2>4. txn'.by \in Workers => txn'.by = txn.by /\ txn.by # w
    BY <1>1, <2>2 DEF Procs
  <2>5. txn'.by \in Workers => sent'[txn'.by] = sent[txn.by] /\ target'[txn'.by] = target[txn.by]
    BY <1>1, <1>2, <2>4 DEF TypeOK
  <2>6. TxnKnown'
    BY <1>2, <1>8, <2>2, <2>4, <2>5 DEF Known, TxnKnown, Billed, ReceiptsOf
  <2>7. TxnOf(w)
    BY <1>8, <2>2, <2>3 DEF TxnOf
  <2> QED
    BY <1>1, <1>2, <1>3, <1>6, <2>6, <2>7, OwnStep
<1> QED
  BY <1>7, <1>8

\* A worker that goes on, with nothing sent.
LEMMA GoesOnKnown ==
  ASSUME IInv, IInv', Known, NEW w \in Workers,
         NEW l \in {"lookup", "preview", "compose"},
         pc' = [pc EXCEPT ![w] = l], cmd' = cmd,
         \A q \in Procs \ {w} : reply'[q] = reply[q],
         sent[w] = "nothing", pc[w] \notin {"run", "commit"},
         UNCHANGED <<ledger, txn, spent, target, sent>>
  PROVE  Known'
<1>1. TypeOK /\ w \in Procs /\ w \notin Operators
  BY DEF IInv, Procs
<1>2. Untouched(w) /\ pc'[w] = l
  BY <1>1 DEF Untouched, TypeOK
<1>3. UNCHANGED <<contract, revision, charges, receipts, spent>>
  BY DEF ledger
<1>4. WorkerKnows(w)
  BY DEF Known
<1>5. WorkerKnows(w)'
  BY <1>2, <1>3, <1>4 DEF WorkerKnows, NoCommand, Live
<1>6. TxnKnown' /\ TxnOf(w)
  BY <1>1, <1>3, TxnStays
<1> QED
  BY <1>1, <1>2, <1>3, <1>5, <1>6, OwnStep

LEMMA LookupKnown ==
  ASSUME IInv, IInv', Known, NEW w \in Workers, Lookup(w)
  PROVE  Known'
<1>1. pc[w] = "lookup" /\ UNCHANGED <<ledger, txn, spent, target, sent>>
  BY DEF Lookup
<1>2. CASE Goto(w, "preview")
  <2>1. sent[w] = "nothing"
    BY <1>1 DEF Known, WorkerKnows
  <2> QED
    BY <1>1, <1>2, <2>1, GoesOnKnown DEF Goto, locals
<1>3. CASE \E r \in CycleReceipts(w) : Complete(w, r.outcome, TRUE)
  BY <1>1, <1>3, FoundKnown DEF CycleReceipts
<1> QED
  BY <1>2, <1>3 DEF Lookup

LEMMA PreviewKnown ==
  ASSUME IInv, IInv', Known, NEW w \in Workers, Preview(w)
  PROVE  Known'
<1>1. pc[w] = "preview" /\ UNCHANGED <<ledger, txn, spent, target, sent>>
  BY DEF Preview
<1>2. sent[w] = "nothing"
  BY <1>1 DEF Known, WorkerKnows
<1>3. CASE PreviewStatus(target[w]) = "ALREADY_ISSUED" /\ Report(w, "ALREADY_ISSUED")
  <2>1. Live(target[w]) # {}
    BY <1>3 DEF PreviewStatus
  <2>2. charges[target[w]] # <<>>
    BY <2>1 DEF Live
  <2> QED
    BY <1>1, <1>2, <1>3, <2>2, ReportKnown
<1>4. CASE \E answer \in {"SKIPPED_NO_CHARGE", "SKIPPED_NOT_READY", "SKIPPED_NOT_DUE",
                          "WOULD_CREATE"} : Report(w, answer)
  BY <1>1, <1>2, <1>4, ReportKnown
<1>5. CASE Goto(w, "compose")
  BY <1>1, <1>2, <1>5, GoesOnKnown DEF Goto, locals
<1>6. PreviewStatus(target[w]) \in {"ALREADY_ISSUED", "NO_CHARGE", "NEEDS_REVIEW", "READY"}
  BY DEF PreviewStatus
<1> QED
  BY <1>3, <1>4, <1>5, <1>6 DEF Preview

LEMMA ErrorKnown ==
  ASSUME IInv, IInv', Known, NEW w \in Workers, FailToRead(w) \/ Crash(w)
  PROVE  Known'
<1>1. UNCHANGED <<ledger, txn, spent, target, sent>>
  BY DEF FailToRead, Crash
<1>2. CASE FailToRead(w)
  <2>1. sent[w] = "nothing"
    BY <1>2 DEF FailToRead, Known, WorkerKnows
  <2> QED
    BY <1>1, <1>2, <2>1, ReportKnown DEF FailToRead
<1>3. CASE Crash(w)
  BY <1>1, <1>3, ReportKnown DEF Crash
<1> QED
  BY <1>2, <1>3

\* What a command is composed from, it names.
LEMMA ComposeKnown ==
  ASSUME IInv, IInv', Known, NEW w \in Workers, Compose(w)
  PROVE  Known'
<1>1. /\ TypeOK /\ w \in Procs /\ w \notin Operators
      /\ pc[w] = "compose" /\ UNCHANGED <<ledger, txn, spent, target, sent>>
  BY DEF IInv, Procs, Compose
<1>2. sent[w] = "nothing" /\ target[w] \in Periods
  BY <1>1 DEF Known, WorkerKnows, TypeOK
<1>3. CASE Raise(w, "CONTRACT_NOT_READY")
  BY <1>1, <1>2, <1>3, RaiseKnown
<1>4. CASE PreviewStatus(target[w]) \in {"READY", "ALREADY_ISSUED"}
  <2> DEFINE c == [key |-> target[w], op |-> "issue", period |-> target[w], receivable |-> 0,
                   version |-> contract.version, revision |-> revision]
  <2>1. /\ cmd' = [cmd EXCEPT ![w] = c]
        /\ pc' = [pc EXCEPT ![w] = "run"]
        /\ reply' = reply
    BY <1>4 DEF Compose
  <2>2. cmd'[w] = c /\ pc'[w] = "run" /\ Untouched(w)
    BY <1>1, <2>1 DEF TypeOK, Untouched
  <2>3. UNCHANGED <<contract, revision, charges, receipts, spent>> /\ revision \in Nat
    BY <1>1 DEF ledger, TypeOK
  <2>4. contract.ready /\ (Live(target[w]) # {} \/ contract.payable)
    BY <1>4 DEF PreviewStatus
  <2>5. Live(target[w])' = Live(target[w])
    BY <1>1, <2>3 DEF Live
  <2>6. WorkerKnows(w)'
    BY <1>1, <1>2, <2>2, <2>3, <2>4, <2>5 DEF WorkerKnows, NoCommand
  <2>7. TxnKnown' /\ TxnOf(w)
    BY <1>1, <2>3, TxnStays
  <2> QED
    BY <1>1, <2>2, <2>3, <2>6, <2>7, OwnStep
<1> QED
  BY <1>3, <1>4 DEF Compose

\* The receipt speaks first; without one an exception's report is of a command that had no
\* effect, or says that it does not know.
LEMMA ReconcileKnown ==
  ASSUME IInv, IInv', Known, NEW w \in Workers, Reconcile(w)
  PROVE  Known'
<1>1. pc[w] = "reconcile" /\ UNCHANGED <<ledger, txn, spent, target, sent>>
  BY DEF Reconcile
<1>2. sent[w] # "nothing" => reply[w] = "COMMIT_RESULT_UNKNOWN"
  BY <1>1 DEF Known, WorkerKnows
<1>3. CASE \E r \in CycleReceipts(w) : Complete(w, r.outcome, TRUE)
  BY <1>1, <1>3, FoundKnown DEF CycleReceipts
<1>4. CASE Report(w, AfterRefusal(reply[w]))
  <2>1. AfterRefusal(reply[w]) \in {"SKIPPED_NOT_READY", "SKIPPED_NOT_DUE", "UNKNOWN_EFFECT", "ERROR"}
    BY DEF AfterRefusal
  <2>2. sent[w] # "nothing" => AfterRefusal(reply[w]) = "UNKNOWN_EFFECT"
    BY <1>2 DEF AfterRefusal
  <2> QED
    BY <1>1, <1>4, <2>1, <2>2, ReportKnown
<1>5. CASE Report(w, "UNKNOWN_EFFECT")
  BY <1>1, <1>5, ReportKnown
<1> QED
  BY <1>3, <1>4, <1>5 DEF Reconcile

LEMMA RetryKnown ==
  ASSUME IInv, IInv', Known, NEW w \in Workers, Retry(w)
  PROVE  Known'
<1>1. /\ pc[w] = "reconcile" /\ Retries(w)
      /\ pc' = [pc EXCEPT ![w] = "lookup"]
      /\ reply' = [reply EXCEPT ![w] = "NONE"]
      /\ UNCHANGED <<ledger, txn, spent, cmd, target, sent>>
  BY DEF Retry
<1>2. sent[w] = "nothing"
  BY <1>1 DEF Known, WorkerKnows, Retries, Conflicts
<1>3. \A q \in Procs \ {w} : reply'[q] = reply[q]
  BY <1>1 DEF IInv, TypeOK
<1> QED
  BY <1>1, <1>2, <1>3, GoesOnKnown

-----------------------------------------------------------------------------
(* Operators and the rest.                                                 *)

\* A new request has a key nobody has used.
LEMMA DraftKnown ==
  ASSUME IInv, IInv', Known, NEW o \in Operators, Draft(o)
  PROVE  Known'
<1>1. TypeOK /\ o \in Procs /\ o \notin Workers
  BY DEF IInv, Procs
<1>2. PICK k \in Keys \ spent :
        /\ spent' = spent \cup {k}
        /\ \E c \in Commands : c.key = k /\ cmd' = [cmd EXCEPT ![o] = c]
  <2>1. PICK k \in Keys \ spent, p \in Periods : \E d \in Drafts(p) :
          /\ spent' = spent \cup {k}
          /\ cmd' = [cmd EXCEPT ![o] =
                [key |-> k, op |-> d.op, period |-> p, receivable |-> d.receivable,
                 version |-> contract.version, revision |-> revision]]
    BY DEF Draft
  <2>2. PICK d \in Drafts(p) :
          /\ spent' = spent \cup {k}
          /\ cmd' = [cmd EXCEPT ![o] =
                [key |-> k, op |-> d.op, period |-> p, receivable |-> d.receivable,
                 version |-> contract.version, revision |-> revision]]
    BY <2>1
  <2> DEFINE c == [key |-> k, op |-> d.op, period |-> p, receivable |-> d.receivable,
                   version |-> contract.version, revision |-> revision]
  <2>3. cmd'[o] = c
    BY <1>1, <2>2 DEF TypeOK
  <2>4. c # NoCommand
    BY DEF NoCommand
  <2>5. c \in Commands
    BY <1>1, <2>3, <2>4 DEF IInv, TypeOK
  <2> QED
    BY <2>2, <2>5
<1>3. /\ pc' = [pc EXCEPT ![o] = "run"]
      /\ reply' = [reply EXCEPT ![o] = "NONE"]
      /\ UNCHANGED <<ledger, txn, target, sent>>
  BY DEF Draft
<1>4. pc'[o] = "run" /\ reply'[o] = "NONE" /\ Untouched(o)
  BY <1>1, <1>2, <1>3 DEF TypeOK, Untouched
<1>5. UNCHANGED <<contract, revision, charges, receipts>>
  BY <1>3 DEF ledger
<1>6. cmd'[o].key = k /\ \A q \in Operators \ {o} : cmd'[q] = cmd[q]
  BY <1>1, <1>2, <1>4 DEF TypeOK, Untouched, Procs
<1>7. KeysApart'
  <2>1. \A q \in Operators \ {o} : cmd[q] # NoCommand => cmd[q].key # k
    BY DEF Known, OperatorKnows
  <2> QED
    BY <1>6, <2>1 DEF Known, KeysApart, NoCommand
<1>8. OperatorKnows(o)' /\ RefusalStands(o)'
  BY <1>2, <1>4, <1>6 DEF OperatorKnows, RefusalStands, NoCommand, FinalRefusals, Refusals, Conflicts
<1>9. TxnKnown' /\ TxnOf(o)
  BY <1>1, <1>3, <1>5, TxnStays
<1> QED
  BY <1>1, <1>2, <1>4, <1>5, <1>7, <1>8, <1>9, OwnCommand

LEMMA ResendKnown ==
  ASSUME IInv, IInv', Known, NEW o \in Operators, Resend(o)
  PROVE  Known'
<1>1. TypeOK /\ o \in Procs /\ o \notin Workers
  BY DEF IInv, Procs
<1>2. /\ pc' = [pc EXCEPT ![o] = "run"]
      /\ reply' = [reply EXCEPT ![o] = "NONE"]
      /\ UNCHANGED <<ledger, txn, spent, cmd, target, sent>>
  BY DEF Resend, locals
<1>3. pc'[o] = "run" /\ reply'[o] = "NONE" /\ Untouched(o)
  BY <1>1, <1>2 DEF TypeOK, Untouched
<1>4. UNCHANGED <<contract, revision, charges, receipts>>
  BY <1>2 DEF ledger
<1>5. OperatorKnows(o)' /\ RefusalStands(o)'
  BY <1>2, <1>3
  DEF Known, OperatorKnows, RefusalStands, NoCommand, FinalRefusals, Refusals, Conflicts
<1>6. TxnKnown' /\ TxnOf(o)
  BY <1>1, <1>2, <1>4, TxnStays
<1> QED
  BY <1>1, <1>2, <1>3, <1>4, <1>5, <1>6, OwnStep

\* A step in which the ledger may move under everybody, but nobody moves.
LEMMA LedgerMoves ==
  ASSUME IInv, IInv', Known, LedgerGrows, UNCHANGED <<charges, receipts, txn, spent, procVars>>
  PROVE  Known'
<1>1. TypeOK /\ TypeOK' /\ UNCHANGED <<pc, reply, cmd, target, sent>>
  BY DEF IInv, procVars, locals
<1>2. \A w \in Workers : WorkerKnows(w)'
  <2> SUFFICES ASSUME NEW w \in Workers
               PROVE  WorkerKnows(w)'
    OBVIOUS
  <2>1. WorkerKnows(w)
    BY DEF Known
  <2> QED
    BY <1>1, <2>1, WorkerStays
<1>3. \A o \in Operators : OperatorKnows(o)' /\ RefusalStands(o)'
  BY <1>1 DEF Known, OperatorKnows, RefusalStands, NoCommand, NoTxn
<1>4. KeysApart'
  BY <1>1 DEF Known, KeysApart, NoCommand
<1>5. ReceiptsKnown' /\ TxnKnown'
  BY <1>1 DEF Known, ReceiptsKnown, TxnKnown, Billed, ReceiptsOf, NoTxn
<1> QED
  BY <1>2, <1>3, <1>4, <1>5 DEF Known

LEMMA OthersKnown ==
  ASSUME IInv, IInv', Known, ReviseContract \/ OtherWrite \/ DayComes \/ UNCHANGED vars
  PROVE  Known'
<1>1. UNCHANGED <<charges, receipts, txn, spent, procVars>>
  BY DEF ReviseContract, OtherWrite, DayComes, vars, ledger
<1>2. revision \in Nat
  BY DEF IInv, TypeOK
<1>3. LedgerGrows
  BY <1>1, <1>2 DEF ReviseContract, OtherWrite, DayComes, vars, ledger, LedgerGrows
<1> QED
  BY <1>1, <1>3, LedgerMoves

LEMMA InitKnown == Init => Known
<1> SUFFICES ASSUME Init
             PROVE  Known
  OBVIOUS
<1>1. ReceiptsKnown /\ TxnKnown
  BY DEF Init, ReceiptsKnown, TxnKnown, NoTxn
<1>2. \A w \in Workers : WorkerKnows(w)
  BY DEF Init, WorkerKnows, Reported, NoCommand, Procs
<1>3. \A o \in Operators : OperatorKnows(o) /\ RefusalStands(o)
  BY DEF Init, OperatorKnows, RefusalStands, NoCommand, Procs
<1>4. KeysApart
  BY DEF Init, KeysApart, NoCommand, Procs
<1> QED
  BY <1>1, <1>2, <1>3, <1>4 DEF Known

LEMMA NextKnown == IInv /\ IInv' /\ Known /\ [Next]_vars => Known'
<1> SUFFICES ASSUME IInv, IInv', Known, [Next]_vars
             PROVE  Known'
  OBVIOUS
<1>1. ASSUME NEW p \in Procs,
             Replay(p) \/ Refuse(p) \/ SendCommit(p) \/ FailToRun(p) \/ LoseConnection(p)
      PROVE  Known'
  BY <1>1, ReplayKnown, RefuseKnown, SendCommitKnown, FailToRunKnown, LoseConnectionKnown
<1>2. ASSUME NEW w \in Workers,
             Start(w) \/ Lookup(w) \/ Preview(w) \/ FailToRead(w) \/ Compose(w)
               \/ Reconcile(w) \/ Retry(w) \/ Crash(w)
      PROVE  Known'
  BY <1>2, StartKnown, LookupKnown, PreviewKnown, ErrorKnown, ComposeKnown, ReconcileKnown,
     RetryKnown
<1>3. CASE ServerCommit \/ ServerAbort
  BY <1>3, ServerCommitKnown, ServerAbortKnown
<1>4. ASSUME NEW o \in Operators, Draft(o) \/ Resend(o)
      PROVE  Known'
  BY <1>4, DraftKnown, ResendKnown
<1>5. CASE ReviseContract \/ OtherWrite \/ DayComes \/ UNCHANGED vars
  BY <1>5, OthersKnown
<1> QED
  BY <1>1, <1>2, <1>3, <1>4, <1>5 DEF Next

\* What everybody knows of the ledger is true, always.
THEOREM Knowledge == Spec => []Known
  BY InitKnown, NextKnown, Invariant, PTL DEF Spec

\* A run's report of its command, and an operator's refusal, are true and stay true.
THEOREM NobodyIsMisled == Spec => []AnswersAreTrue
<1>1. Known => AnswersAreTrue
  <2> SUFFICES ASSUME Known
               PROVE  AnswersAreTrue
    OBVIOUS
  <2>1. ReportsAreTrue
    BY DEF Known, WorkerKnows, Reported, ReportsAreTrue
  <2>2. RefusalsAreFinal
    BY DEF Known, RefusalStands, FinalRefusals, RefusalsAreFinal
  <2> QED
    BY <2>1, <2>2 DEF AnswersAreTrue
<1> QED
  BY <1>1, Knowledge, PTL
=============================================================================
