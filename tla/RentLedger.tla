----------------------------- MODULE RentLedger -----------------------------
(***************************************************************************)
(* The rent ledger's money commands: receipts, allocations, adjustments,   *)
(* voids, refunds and their corrections.                                   *)
(*                                                                         *)
(*   application/handlers/rent.py   RentService, the finance commands      *)
(*   domain/finance.py              adjusted_obligation, balance checks    *)
(*   V110                           the append-only tables                 *)
(*   V111                           amount views, rent_check_ledger        *)
(*                                                                         *)
(* A command is one SERIALIZABLE transaction under the organization's      *)
(* scope lock and names the ledger revision it was composed from (see      *)
(* RentBilling), so commands are atomic here and a stale one is a refusal: *)
(* no step.  A command works on staged ledgers, one per statement that     *)
(* later checks read back, and rent_check_ledger decides over the last one *)
(* when it commits.  caught remembers which of its checks ever had to      *)
(* refuse a command the service had let through.                           *)
(*                                                                         *)
(* Every row is append-only but for a charge's voided flag, a source's     *)
(* attribution and a movement's current revision; ids are row numbers.  A  *)
(* receipt's movement and its funding source are one row.  Accounts,       *)
(* payers, dates and reasons are left out.                                 *)
(***************************************************************************)
EXTENDS Integers, Sequences

CONSTANTS
    Contracts,       \* rent_contract
    Properties,      \* property_id values
    PropertyOf,      \* the property of a contract
    Start,           \* the ledger so far: charges _issue_rent made (see RentBilling), payments
    BigintMax,       \* BIGINT_MAX: the largest amount a column or a command takes
    MaxReceipts,     \* bounds: rows of each table,
    MaxAdjustments,
    MaxAllocations,
    MaxRefunds,
    MaxReturns,
    MaxRevisions,    \* revisions of a movement,
    MaxReversed,     \* allocations a command reverses,
    MaxItems,        \* and allocations or returns it applies
    MaxCommands      \* bound: commands committed, finance_ledger_scope.revision

ASSUME ContractsAssumption == PropertyOf \in [Contracts -> Properties]
ASSUME BigintAssumption == BigintMax \in Nat \ {0}

VARIABLES
    ledger,    \* the rows of the finance tables
    revision,  \* commands committed
    caught     \* history: the checks of rent_check_ledger that refused a command

vars == <<ledger, revision, caught>>

Money == 1..BigintMax
Unmatched == [status |-> "UNMATCHED"]
Attributions ==
    {Unmatched} \cup [status : {"PROPERTY_CONFIRMED"}, property : Properties]
                \cup [status : {"CONTRACT_CONFIRMED"}, contract : Contracts]

Charges == [contract : Contracts, original : Money, voided : BOOLEAN]
Adjustments == [charge : Nat \ {0}, delta : Int, reverses : Nat]
Revisions == [amount : Money, status : {"RECORDED", "REVERSED"}]
Receipts == [revisions : Seq(Revisions), replaces : Nat, attribution : Attributions]
Refunds == [revisions : Seq(Revisions)]
Allocations == [source : Nat \ {0}, charge : Nat \ {0}, amount : Money, override : BOOLEAN, reverses : Nat]
Returns == [source : Nat \ {0}, refund : Nat \ {0}, amount : Money, reverses : Nat]

Ledgers == [charges : Seq(Charges), adjustments : Seq(Adjustments), receipts : Seq(Receipts),
            allocations : Seq(Allocations), refunds : Seq(Refunds), returns : Seq(Returns)]

Init ==
    /\ ledger = Start
    /\ revision = 0
    /\ caught = {}

----------------------------------------------------------------------------
(* v_rent_receivable_amounts and v_rent_source_amounts                     *)

Signed(row) == IF row.reverses = 0 THEN row.amount ELSE -row.amount
Sum(amounts) ==
    LET S[i \in 0..Len(amounts)] == IF i = 0 THEN 0 ELSE S[i-1] + amounts[i]
    IN S[Len(amounts)]

\* The rows of a table that name this row of another one, added up.
Total(rows, column, id) ==
    Sum([i \in DOMAIN rows |-> IF rows[i][column] = id THEN Signed(rows[i]) ELSE 0])

Adjusted(L, c) ==
    L.charges[c].original
    + Sum([i \in DOMAIN L.adjustments |->
             IF L.adjustments[i].charge = c THEN L.adjustments[i].delta ELSE 0])
Effective(L, c) == IF L.charges[c].voided THEN 0 ELSE Adjusted(L, c)
Paid(L, c) == Total(L.allocations, "charge", c)
Balance(L, c) == Effective(L, c) - Paid(L, c)

Current(m) == m.revisions[Len(m.revisions)]
Worth(m) == IF Current(m).status = "REVERSED" THEN 0 ELSE Current(m).amount
Used(L, s) == Total(L.allocations, "source", s)
Returned(L, s) == Total(L.returns, "source", s)

\* Mutant: the view forgets what was paid back.
AvailableBeforeReturns(L, s) == Worth(L.receipts[s]) - Used(L, s)

Available(L, s) == Worth(L.receipts[s]) - Used(L, s) - Returned(L, s)

----------------------------------------------------------------------------
(* rent_check_ledger, deferred to COMMIT                                   *)

\* UNIQUE(reverse_of), and what is reversed is not a reversal itself.
ReversedOnce(rows) ==
    \A i, j \in DOMAIN rows : rows[i].reverses # 0 =>
        /\ rows[rows[i].reverses].reverses = 0
        /\ j # i => rows[j].reverses # rows[i].reverses

AdjustmentsReversedOnce(L) ==
    /\ ReversedOnce(L.adjustments)
    /\ \A i \in DOMAIN L.adjustments : L.adjustments[i].reverses # 0 =>
        L.adjustments[i].delta = -L.adjustments[L.adjustments[i].reverses].delta

\* Does the attribution of the source speak for the charge?
Speaks(L, s, c) ==
    LET a == L.receipts[s].attribution
        k == L.charges[c].contract
    IN \/ a.status = "PROPERTY_CONFIRMED" /\ a.property = PropertyOf[k]
       \/ a.status = "CONTRACT_CONFIRMED" /\ a.contract = k

LiveRow(rows, i) == /\ rows[i].reverses = 0
                    /\ \A j \in DOMAIN rows : rows[j].reverses # i

\* Mutant: attribution is the service's business alone.
UnattributedPasses(L) == TRUE

\* Every allocation that stands is of the charge's property, and of its
\* contract if the source names one.
Attributed(L) ==
    \A i \in DOMAIN L.allocations :
        LET row == L.allocations[i]
            a == L.receipts[row.source].attribution
            k == L.charges[row.charge].contract
        IN LiveRow(L.allocations, i) /\ ~row.override =>
              /\ a # Unmatched
              /\ a.status = "PROPERTY_CONFIRMED" => a.property = PropertyOf[k]
              /\ a.status = "CONTRACT_CONFIRMED" =>
                    PropertyOf[a.contract] = PropertyOf[k] /\ a.contract = k

Balanced(L) ==
    /\ \A c \in DOMAIN L.charges :
          /\ Adjusted(L, c) >= 0
          /\ Effective(L, c) <= BigintMax
          /\ Paid(L, c) >= 0
          /\ Balance(L, c) >= 0
    /\ \A s \in DOMAIN L.receipts :
          Used(L, s) >= 0 /\ Returned(L, s) >= 0 /\ Available(L, s) >= 0

RefundTotal(L, r) == Total(L.returns, "refund", r)

RevisionsFollow(m) ==
    \A i \in 2..Len(m.revisions) :
        /\ m.revisions[i-1].status = "RECORDED"
        /\ m.revisions[i].status = "REVERSED" => m.revisions[i].amount = m.revisions[i-1].amount

\* What a row is replaced by may only replace a reversed receipt.
ReplacesReversed(L) ==
    \A m \in DOMAIN L.receipts : L.receipts[m].replaces # 0 =>
        Current(L.receipts[L.receipts[m].replaces]).status = "REVERSED"

Checks == {"RENT_REPLACEMENT_REQUIRES_REVERSED_IN", "RENT_ADJUSTMENT_REVERSAL_MISMATCH",
           "RENT_REVERSAL_TARGET_INVALID", "RENT_MOVEMENT_REVERSAL_MISMATCH",
           "RENT_ATTRIBUTION_CONFIRMATION_REQUIRED", "RENT_BALANCE_INVARIANT",
           "RENT_RETURN_OUT_TOTAL_MISMATCH"}

Holds(L, check) ==
    CASE check = "RENT_REPLACEMENT_REQUIRES_REVERSED_IN" -> ReplacesReversed(L)
      [] check = "RENT_ADJUSTMENT_REVERSAL_MISMATCH" -> AdjustmentsReversedOnce(L)
      [] check = "RENT_REVERSAL_TARGET_INVALID" ->
            ReversedOnce(L.allocations) /\ ReversedOnce(L.returns)
      [] check = "RENT_MOVEMENT_REVERSAL_MISMATCH" ->
            /\ \A m \in DOMAIN L.receipts : RevisionsFollow(L.receipts[m])
            /\ \A r \in DOMAIN L.refunds : RevisionsFollow(L.refunds[r])
      [] check = "RENT_ATTRIBUTION_CONFIRMATION_REQUIRED" -> Attributed(L)
      [] check = "RENT_BALANCE_INVARIANT" -> Balanced(L)
      [] check = "RENT_RETURN_OUT_TOTAL_MISMATCH" ->
            \A r \in DOMAIN L.refunds : RefundTotal(L, r) = Worth(L.refunds[r])

Broken(L) == {check \in Checks : ~Holds(L, check)}

\* What a row names is there, and a reversal, written after the row it takes
\* back, has its two keys and its amount.
Linked(rows, key, there, other, present) ==
    \A i \in DOMAIN rows :
        LET row == rows[i]
            original == rows[row.reverses]
        IN /\ row[key] \in there /\ row[other] \in present
           /\ row.reverses # 0 =>
                 /\ row.reverses \in 1..(i-1)
                 /\ original[key] = row[key] /\ original[other] = row[other]
                 /\ original.amount = row.amount

\* The foreign keys of the tables.
Keyed(L) ==
    /\ \A m \in DOMAIN L.receipts :
          L.receipts[m].revisions # <<>> /\ L.receipts[m].replaces \in {0} \cup DOMAIN L.receipts
    /\ \A r \in DOMAIN L.refunds : L.refunds[r].revisions # <<>>
    /\ \A i \in DOMAIN L.adjustments :
          LET row == L.adjustments[i]
          IN /\ row.charge \in DOMAIN L.charges
             /\ row.reverses # 0 =>
                   row.reverses \in 1..(i-1) /\ L.adjustments[row.reverses].charge = row.charge
    /\ Linked(L.allocations, "source", DOMAIN L.receipts, "charge", DOMAIN L.charges)
    /\ Linked(L.returns, "source", DOMAIN L.receipts, "refund", DOMAIN L.refunds)

ASSUME StartAssumption == Start \in Ledgers /\ Keyed(Start) /\ Broken(Start) = {}

----------------------------------------------------------------------------
(* What the commands are made of                                           *)

\* A sealed command: rent_deferred_check has the last word at COMMIT.
Commit(staged) ==
    /\ IF Broken(staged) = {}
       THEN ledger' = staged /\ revision' = revision + 1
       ELSE UNCHANGED <<ledger, revision>>
    /\ caught' = caught \cup Broken(staged)

Room(L) ==
    /\ Len(L.adjustments) <= MaxAdjustments
    /\ Len(L.receipts) <= MaxReceipts
    /\ Len(L.allocations) <= MaxAllocations
    /\ Len(L.refunds) <= MaxRefunds
    /\ Len(L.returns) <= MaxReturns
    /\ \A m \in DOMAIN L.receipts : Len(L.receipts[m].revisions) <= MaxRevisions
    /\ \A r \in DOMAIN L.refunds : Len(L.refunds[r].revisions) <= MaxRevisions

\* The bounds leave the ledger so far where it is.
ASSUME BoundsAssumption ==
    /\ {MaxReceipts, MaxAdjustments, MaxAllocations, MaxRefunds, MaxReturns,
        MaxRevisions, MaxReversed, MaxItems, MaxCommands} \subseteq Nat
    /\ Room(Start)

SeqsUpTo(S, n) == UNION {[1..k -> S] : k \in 0..n}
Distinct(s) == \A i, j \in DOMAIN s : s[i] = s[j] => i = j
Entries(s) == {s[i] : i \in DOMAIN s}
Amounts(items, column, id) ==
    Sum([k \in DOMAIN items |-> IF items[k][column] = id THEN items[k].amount ELSE 0])

\* An APPLY row that no REVERSE row names.
LiveReversible(rows, i) == LiveRow(rows, i)

\* The items of a command: allocations of some sources to charges.  A reason to
\* override the attribution is given only where one is asked for.
Items(L, sources) ==
    {item \in [source : sources, charge : DOMAIN L.charges, amount : Money, override : BOOLEAN] :
        item.override => ~Speaks(L, item.source, item.charge)}

\* Source by source, against the balances the earlier items left: what one
\* charge gets and what one source gives must fit altogether.
Allocatable(L, items) ==
    /\ \A k \in DOMAIN items :
          /\ ~L.charges[items[k].charge].voided
          /\ items[k].override \/ Speaks(L, items[k].source, items[k].charge)
    /\ \A k \in DOMAIN items :
          Amounts(items, "charge", items[k].charge) <= Balance(L, items[k].charge)
    /\ \A k \in DOMAIN items :
          Amounts(items, "source", items[k].source) <= Available(L, items[k].source)

Applied(L, items) ==
    [L EXCEPT !.allocations = @ \o [k \in DOMAIN items |->
        [source |-> items[k].source, charge |-> items[k].charge, amount |-> items[k].amount,
         override |-> items[k].override, reverses |-> 0]]]

\* Mutant: a reversal carries the amount with its sign changed.
NegativeReversal(rows, i) == [rows[i] EXCEPT !.reverses = i, !.amount = -@]

Reversal(rows, i) == [rows[i] EXCEPT !.reverses = i]
Reversed(L, ids) ==
    [L EXCEPT !.allocations = @ \o [k \in DOMAIN ids |-> Reversal(L.allocations, ids[k])]]

\* What a correction reverses, and what it applies in its place.
Corrections(L) ==
    [reverse : {ids \in SeqsUpTo(DOMAIN L.allocations, MaxReversed) :
                   /\ Distinct(ids)
                   /\ \A k \in DOMAIN ids : LiveReversible(L.allocations, ids[k])},
     apply : {items \in SeqsUpTo(Items(L, DOMAIN L.receipts), MaxItems) :
                 Distinct([k \in DOMAIN items |-> <<items[k].source, items[k].charge>>])}]
Originals(L, plan) == {L.allocations[i] : i \in Entries(plan.reverse)}
ChargesOf(L, plan) == {row.charge : row \in Originals(L, plan) \cup Entries(plan.apply)}
SourcesOf(L, plan) == {row.source : row \in Originals(L, plan) \cup Entries(plan.apply)}

\* The balances after the command, of everything it touched.
Finished(L, charges, sources) ==
    /\ \A c \in charges : Paid(L, c) \in 0..Effective(L, c)
    /\ \A s \in sources :
          Used(L, s) >= 0 /\ Returned(L, s) >= 0 /\ Used(L, s) + Returned(L, s) <= Worth(L.receipts[s])

Revised(m, amount, status) ==
    [m EXCEPT !.revisions = Append(@, [amount |-> amount, status |-> status])]
Recorded(amount) == <<[amount |-> amount, status |-> "RECORDED"]>>
Standing(m) == Current(m).status = "RECORDED"

----------------------------------------------------------------------------
(* Receipts and allocations                                                *)

\* The receipt's own allocations may take all of it.
WithReceipt(L, amount, attribution, replaces) ==
    [L EXCEPT !.receipts = Append(@, [revisions |-> Recorded(amount), replaces |-> replaces,
                                      attribution |-> attribution])]

RecordReceipt(amount, attribution) ==
    LET received == WithReceipt(ledger, amount, attribution, 0)
        s == Len(received.receipts)
    IN \E items \in SeqsUpTo(Items(received, {s}), MaxItems) :
        /\ Distinct([k \in DOMAIN items |-> items[k].charge])
        /\ Allocatable(received, items)
        /\ Room(Applied(received, items))
        /\ Commit(Applied(received, items))

\* The command may say anew whose money it is.
Allocate(s, attribution) ==
    LET attributed == [ledger EXCEPT !.receipts[s].attribution = attribution]
    IN \E items \in SeqsUpTo(Items(attributed, {s}), MaxItems) :
        /\ Distinct([k \in DOMAIN items |-> items[k].charge])
        /\ Allocatable(attributed, items)
        /\ Room(Applied(attributed, items))
        /\ Commit(Applied(attributed, items))

CorrectAllocations ==
    \E plan \in Corrections(ledger) :
        /\ plan.reverse # <<>> \/ plan.apply # <<>>
        /\ LET reversed == Reversed(ledger, plan.reverse)
               staged == Applied(reversed, plan.apply)
           IN /\ Allocatable(reversed, plan.apply)
              /\ Finished(staged, ChargesOf(ledger, plan), SourcesOf(ledger, plan))
              /\ Room(staged)
              /\ Commit(staged)

----------------------------------------------------------------------------
(* Charges                                                                 *)

\* Mutant: an adjustment is taken back by any amount.
PartlyReversible(L, c, delta, reverses) ==
    /\ L.adjustments[reverses].charge = c
    /\ L.adjustments[reverses].reverses = 0
    /\ \A i \in DOMAIN L.adjustments : L.adjustments[i].reverses # reverses

\* An adjustment is taken back whole, once, and is not itself a taking back.
Reversible(L, c, delta, reverses) ==
    /\ L.adjustments[reverses].charge = c
    /\ L.adjustments[reverses].reverses = 0
    /\ L.adjustments[reverses].delta = -delta
    /\ \A i \in DOMAIN L.adjustments : L.adjustments[i].reverses # reverses

AdjustReceivable(c, delta, reverses) ==
    /\ ~ledger.charges[c].voided
    /\ Effective(ledger, c) + delta \in 0..BigintMax
    /\ reverses # 0 => Reversible(ledger, c, delta, reverses)
    /\ \E plan \in Corrections(ledger) :
        LET adjusted == [Reversed(ledger, plan.reverse) EXCEPT !.adjustments =
                               Append(@, [charge |-> c, delta |-> delta, reverses |-> reverses])]
               staged == Applied(adjusted, plan.apply)
           IN /\ Allocatable(adjusted, plan.apply)
              /\ Finished(staged, ChargesOf(ledger, plan) \cup {c}, SourcesOf(ledger, plan))
              /\ Room(staged)
              /\ Commit(staged)

VoidReceivable(c) ==
    /\ ~ledger.charges[c].voided
    /\ \E plan \in Corrections(ledger) :
        LET voided == [Reversed(ledger, plan.reverse) EXCEPT !.charges[c].voided = TRUE]
               staged == Applied(voided, plan.apply)
           IN /\ Allocatable(voided, plan.apply)
              /\ Finished(staged, ChargesOf(ledger, plan) \cup {c}, SourcesOf(ledger, plan))
              /\ Room(staged)
              /\ Commit(staged)

----------------------------------------------------------------------------
(* Movements                                                               *)

\* APPEND_CORRECTED_REVISION, or REVERSE_RECORD of a receipt nothing was
\* paid back from.
CorrectMovement(m, amount, status) ==
    /\ Standing(ledger.receipts[m])
    /\ status = "REVERSED" => amount = Current(ledger.receipts[m]).amount /\ Returned(ledger, m) = 0
    /\ \E plan \in Corrections(ledger) :
        LET reversed == Reversed(ledger, plan.reverse)
               revised == [reversed EXCEPT !.receipts[m] = Revised(@, amount, status)]
               staged == Applied(revised, plan.apply)
           IN /\ Allocatable(revised, plan.apply)
              /\ Finished(staged, ChargesOf(ledger, plan), SourcesOf(ledger, plan) \cup {m})
              /\ Room(staged)
              /\ Commit(staged)

\* REVERSE_AND_REPLACE: the receipt that takes its place comes last.
ReplaceMovement(m, amount, attribution) ==
    /\ Standing(ledger.receipts[m])
    /\ Returned(ledger, m) = 0
    /\ Room(WithReceipt(ledger, amount, attribution, m))
    /\ \E plan \in Corrections(ledger) :
        LET reversed == Reversed(ledger, plan.reverse)
               revised == [reversed EXCEPT !.receipts[m] = Revised(@, Current(@).amount, "REVERSED")]
               replaced == Applied(revised, plan.apply)
               received == WithReceipt(replaced, amount, attribution, m)
               s == Len(received.receipts)
           IN /\ Allocatable(revised, plan.apply)
              /\ \E items \in SeqsUpTo(Items(received, {s}), MaxItems - Len(plan.apply)) :
                    LET staged == Applied(received, items) IN
                    /\ Distinct([k \in DOMAIN items |-> items[k].charge])
                    /\ Allocatable(received, items)
                    /\ Finished(staged, ChargesOf(ledger, plan) \cup {it.charge : it \in Entries(items)},
                                SourcesOf(ledger, plan) \cup {m, s})
                    /\ Room(staged)
                    /\ Commit(staged)

----------------------------------------------------------------------------
(* Refunds: an OUT movement and the returns that account for it            *)

ReturnRow(s, r, amount) == [source |-> s, refund |-> r, amount |-> amount, reverses |-> 0]

RecordRefund(s, amount) ==
    LET r == Len(ledger.refunds) + 1
        staged == [ledger EXCEPT !.refunds = Append(@, [revisions |-> Recorded(amount)]),
                                 !.returns = Append(@, ReturnRow(s, r, amount))]
    IN /\ amount <= Available(ledger, s)
       /\ Finished(staged, {}, {s})
       /\ Room(staged)
       /\ Commit(staged)

\* What the transfer was, less what is taken back, plus what takes its place.
NetMatches(L, r, ids, parts, worth) ==
    Current(L.refunds[r]).amount - Sum([k \in DOMAIN ids |-> L.returns[ids[k]].amount])
        + Sum([k \in DOMAIN parts |-> parts[k].amount]) = worth

CorrectRefund(r, amount, status) ==
    \E ids \in SeqsUpTo(DOMAIN ledger.returns, MaxReturns),
       parts \in SeqsUpTo([source : DOMAIN ledger.receipts, amount : Money], MaxItems) :
        /\ ids # <<>> /\ Distinct(ids)
        /\ Standing(ledger.refunds[r])
        /\ status = "REVERSED" => amount = Current(ledger.refunds[r]).amount
        /\ \A i \in Entries(ids) : LiveReversible(ledger.returns, i) /\ ledger.returns[i].refund = r
        /\ NetMatches(ledger, r, ids, parts, IF status = "RECORDED" THEN amount ELSE 0)
        /\ LET reversed == [ledger EXCEPT !.returns = @ \o [k \in DOMAIN ids |-> Reversal(@, ids[k])]]
               revised == [reversed EXCEPT !.refunds[r] = Revised(@, amount, status)]
               staged == [revised EXCEPT !.returns =
                             @ \o [k \in DOMAIN parts |-> ReturnRow(parts[k].source, r, parts[k].amount)]]
           IN /\ \A k \in DOMAIN parts :
                    Amounts(parts, "source", parts[k].source) <= Available(revised, parts[k].source)
              /\ Finished(staged, {}, {ledger.returns[i].source : i \in Entries(ids)}
                                       \cup {p.source : p \in Entries(parts)})
              /\ Room(staged)
              /\ Commit(staged)

Command ==
    \/ \E amount \in Money, a \in Attributions : RecordReceipt(amount, a)
    \/ \E s \in DOMAIN ledger.receipts, a \in Attributions : Allocate(s, a)
    \/ CorrectAllocations
    \/ \E c \in DOMAIN ledger.charges, delta \in ((-BigintMax)..BigintMax) \ {0},
          reverses \in {0} \cup DOMAIN ledger.adjustments : AdjustReceivable(c, delta, reverses)
    \/ \E c \in DOMAIN ledger.charges : VoidReceivable(c)
    \/ \E m \in DOMAIN ledger.receipts, amount \in Money, status \in {"RECORDED", "REVERSED"} :
          CorrectMovement(m, amount, status)
    \/ \E m \in DOMAIN ledger.receipts, amount \in Money, a \in Attributions :
          ReplaceMovement(m, amount, a)
    \/ \E s \in DOMAIN ledger.receipts, amount \in Money : RecordRefund(s, amount)
    \/ \E r \in DOMAIN ledger.refunds, amount \in Money, status \in {"RECORDED", "REVERSED"} :
          CorrectRefund(r, amount, status)

Next == revision < MaxCommands /\ Command

Spec == Init /\ [][Next]_vars

----------------------------------------------------------------------------

TypeOK ==
    /\ ledger \in Ledgers
    /\ revision \in 0..MaxCommands
    /\ caught \subseteq Checks
    /\ Room(ledger)

\* Added up from the live rows alone: no source gives more than the transfer
\* it came from was worth, no charge holds more than is owed (a voided one
\* nothing), and every transfer out is accounted for by live returns.
MoneyIsConserved ==
    LET Live(rows, column, id) ==
            Sum([i \in DOMAIN rows |->
                   IF rows[i][column] = id /\ LiveRow(rows, i) THEN rows[i].amount ELSE 0])
    IN /\ \A s \in DOMAIN ledger.receipts :
             Live(ledger.allocations, "source", s) + Live(ledger.returns, "source", s)
                <= Worth(ledger.receipts[s])
       /\ \A c \in DOMAIN ledger.charges :
             Live(ledger.allocations, "charge", c) <= Effective(ledger, c)
       /\ \A r \in DOMAIN ledger.refunds :
             Live(ledger.returns, "refund", r) = Worth(ledger.refunds[r])

\* A charge is paid from money attributed to its contract or its property, or
\* an operator said why not: also after the money has been attributed anew.
AttributionHonoured ==
    \A i \in DOMAIN ledger.allocations : LiveRow(ledger.allocations, i) =>
        LET row == ledger.allocations[i]
        IN row.override \/ Speaks(ledger, row.source, row.charge)

\* The service refuses every command the database would: what is left to the
\* deferred check is a new attribution under allocations that stand.
ServiceRefusesFirst == caught \subseteq {"RENT_ATTRIBUTION_CONFIRMATION_REQUIRED"}
=============================================================================
