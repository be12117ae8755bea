--------------------------- MODULE StageBBackfill ---------------------------
(***************************************************************************)
(* Stage B, the backfill of PostgreSQL from the legacy stores: a converged  *)
(* capture of every source is frozen as a manifest in a chain, and a run    *)
(* loads it row by row, each row in a transaction of its own, after a new   *)
(* extraction proved the sources unchanged.  Legacy writers edit the        *)
(* sources at every moment, a run may die between two rows, and somebody    *)
(* outside the migration may write to the target tables.                    *)
(*                                                                          *)
(* One reservation page, one cleaning page and the assignment pages         *)
(* 1..Assignments of that cleaning, numbered in the order they were offered *)
(* and accepted.  A semantic hash is the observation it is the hash of.     *)
(***************************************************************************)
EXTENDS Integers, Sequences, FiniteSets, SequencesExt

CONSTANTS Assignments,   \* how many assignment pages there may be
          Windows,       \* service windows of the cleaning (strings)
          IdRank,        \* the order of the assignment pages' row identities
          Starts,        \* what the legacy sources may hold at first
          MaxUpsets,     \* bound on edits of the sources and writes to the tables
          MaxSnapshots, MaxScans

ASSUME BoundsAssumption ==
  /\ Assignments \in Nat /\ "none" \notin Windows
  /\ IdRank \in [1..Assignments -> 1..Assignments]
  /\ \A a, b \in 1..Assignments : IdRank[a] = IdRank[b] => a = b
  /\ {MaxUpsets, MaxSnapshots, MaxScans} \subseteq Nat /\ MaxScans >= 2

ASSUME StartsAssumption ==
  Starts \subseteq
    {s \in [reservation : {"CONFIRMED", "CANCELLED"}, window : Windows \cup {"none"},
            stage : [1..Assignments -> {"none", "accepting", "booked", "ending",
                                        "released", "decided"}]] :
       s.window = "none" => \A a \in 1..Assignments : s.stage[a] = "none"}

VARIABLES log,         \* the states of the legacy sources while a scan may see them
          edits,       \* how often they were edited
          manifests,   \* the frozen captures: rows and predecessor
          run,         \* the process at work, lost when it dies
          target,      \* target tables: row identity -> row
          binding,     \* integration_resource_binding: source key -> evidence
          receipts,    \* command_receipt: <<snapshot, source key>>
          foreign      \* rows written outside the migration, as written

sources == <<log, edits>>
loadVars == <<log, edits, manifests, run, target, binding, receipts, foreign>>

AssignmentPages == 1..Assignments
ReservationStatuses == {"CONFIRMED", "CANCELLED"}
Stages == {"none", "accepting", "booked", "ending", "released", "decided"}
Types == <<"reservation", "cleaning_job", "cleaning_schedule_revision",
           "cleaning_offer_campaign",
           "cleaning_assignment", "cleaner_unavailability_case",
           "cleaner_reassignment_request">>
Rank(type) == CHOOSE n \in DOMAIN Types : Types[n] = type
NoWindow == "none"
Source == Last(log)

\* A table with one row inserted or replaced.
Put(table, id, row) ==
  [x \in DOMAIN table \cup {id} |-> IF x = id THEN row ELSE table[x]]

-----------------------------------------------------------------------------
(* What the source adapters read.                                          *)

Row(type, page, fixed, free) ==
  [type |-> type, page |-> page, fixed |-> fixed, free |-> free, no |-> 0]
Key(row) == <<row.type, row.page>>

Reservations(s) == {Row("reservation", 0, "-", s.reservation)}

\* One page gives the job and its one revision: the revision's identity is
\* derived from the window, its source key from the page.
Cleanings(s) ==
  IF s.window = NoWindow THEN {}
  ELSE {Row("cleaning_job", 0, "-", s.window),
        Row("cleaning_schedule_revision", 0, s.window, "-")}

Hold(stage) == IF stage = "booked" THEN "HARD_BOOKED" ELSE "RELEASED"

\* The ancestry of an accepted page is rebuilt with the window its cleaning
\* has now; a campaign stands for itself and the one candidate it is given.
Ancestry(s, a) ==
  {Row("cleaning_offer_campaign", a, s.window, "CLOSED"),
   Row("cleaning_assignment", a, s.window, Hold(s.stage[a]))}
AssignmentRows(s) ==
  UNION {Ancestry(s, a) : a \in {b \in AssignmentPages : s.stage[b] \notin {"none", "accepting"}}}

CaseRows(s) ==
  {Row("cleaner_unavailability_case", a, s.window, "CONFIRMED") :
     a \in {b \in AssignmentPages : s.stage[b] \in {"released", "decided"}}}
RequestRows(s) ==
  {Row("cleaner_reassignment_request", a, s.window, "DECIDED") :
     a \in {b \in AssignmentPages : s.stage[b] = "decided"}}

\* Unavailability and reassignment are read from the same pages and files.
Sources == <<"reservations", "cleanings", "assignments", "endings">>
Observe(name, s) ==
  CASE name = "reservations" -> Reservations(s)
    [] name = "cleanings"    -> Cleanings(s)
    [] name = "assignments"  -> AssignmentRows(s)
    [] name = "endings"      -> CaseRows(s) \cup RequestRows(s)
Everything(s) == UNION {Observe(Sources[n], s) : n \in DOMAIN Sources}

\* An accepted page without its execution receipt, and a released one without
\* the evidence of its end, stop the extraction.
Unreadable(name, s) ==
  \/ name = "assignments" /\ \E a \in AssignmentPages : s.stage[a] = "accepting"
  \/ name = "endings" /\ \E a \in AssignmentPages : s.stage[a] = "ending"

-----------------------------------------------------------------------------
(* The records of a manifest.                                              *)

Numbered == {"cleaning_offer_campaign", "cleaning_assignment"}
Number(rows, row) ==
  IF row.type \in Numbered
  THEN Cardinality({r \in rows : r.type = row.type /\ r.page <= row.page})
  ELSE 0
Population(rows) == {[row EXCEPT !.no = Number(rows, row)] : row \in rows}
Hash(record) == [record EXCEPT !.no = 0]

Id(record) ==
  <<record.type, record.page,
    IF record.type = "cleaning_schedule_revision" THEN record.fixed ELSE "-">>
RowId(type, page) == <<type, page, "-">>
RevisionId(window) == <<"cleaning_schedule_revision", 0, window>>

\* The rows a record's foreign keys name.
Dependencies(record) ==
  LET a == record.page
      revision == {RevisionId(record.fixed), RowId("cleaning_job", 0)}
  IN CASE record.type = "reservation" -> {}
       [] record.type = "cleaning_job" -> {}
       [] record.type = "cleaning_schedule_revision" -> {RowId("cleaning_job", 0)}
       [] record.type = "cleaning_offer_campaign" -> revision
       [] record.type = "cleaning_assignment" ->
            revision \cup {RowId("cleaning_offer_campaign", a)}
       [] record.type = "cleaner_unavailability_case" ->
            revision \cup {RowId("cleaning_assignment", a)}
       [] record.type = "cleaner_reassignment_request" ->
            revision \cup {RowId("cleaner_unavailability_case", a),
                           RowId("cleaning_assignment", a)}

\* The layers of the dependency order are the ranks of the types; inside a
\* layer rows go by their identity.
Before(r, q) ==
  \/ Rank(r.type) < Rank(q.type)
  \/ r.type = q.type /\ r.page # 0 /\ IdRank[r.page] < IdRank[q.page]
InOrder(records) ==
  [n \in 1..Cardinality(records) |->
     CHOOSE r \in records : Cardinality({q \in records : Before(q, r)}) = n - 1]

\* A cleaning job is loaded first without its schedule pointer and again, as
\* the last row, with it.
Todo(records) ==
  InOrder(records) \o InOrder({r \in records : r.type = "cleaning_job"})
Bootstrap(record) ==
  IF record.type = "cleaning_job" THEN [record EXCEPT !.free = NoWindow] ELSE record

-----------------------------------------------------------------------------
(* Legacy writers and writers outside the migration.                       *)

Freezing == run.at = "scan" /\ run.purpose = "freeze"
Edit(s) ==
  /\ edits + Cardinality(DOMAIN foreign) < MaxUpsets
  /\ s # Source
  /\ edits' = edits + 1
  /\ log' = IF Freezing THEN Append(log, s) ELSE <<s>>
  /\ UNCHANGED <<manifests, run, target, binding, receipts, foreign>>

EditReservation ==
  \E v \in ReservationStatuses : Edit([Source EXCEPT !.reservation = v])
EditCleaning == \E w \in Windows : Edit([Source EXCEPT !.window = w])

\* An offer is accepted, booked, ended with its evidence and decided on; a page
\* may be removed.
NextStage(stage) ==
  CASE stage = "none" -> {"accepting"}
    [] stage = "accepting" -> {"booked"}
    [] stage = "booked" -> {"ending", "none"}
    [] stage = "ending" -> {"released"}
    [] stage = "released" -> {"decided", "none"}
    [] stage = "decided" -> {}
EditAssignment ==
  \E a \in AssignmentPages : \E stage \in NextStage(Source.stage[a]) :
    /\ Source.window # NoWindow
    /\ stage = "accepting" =>
         \A b \in AssignmentPages : Source.stage[b] \notin {"accepting", "booked"}
    /\ Edit([Source EXCEPT !.stage[a] = stage])

Other(status) == CHOOSE v \in ReservationStatuses : v # status

\* Somebody changes the reservation's row or inserts one the migration did
\* not write. An extraction never looks at the tables, so a write during one
\* happens as well before it.
ForeignWrite ==
  /\ run.at # "scan"
  /\ edits + Cardinality(DOMAIN foreign) < MaxUpsets
  /\ LET id == RowId("reservation", 0)
         new == IF id \in DOMAIN target
                THEN [target[id] EXCEPT !.free = Other(@), !.version = @ + 1]
                ELSE [fixed |-> "-", free |-> "CONFIRMED", no |-> 0, version |-> 1]
     IN /\ id \notin DOMAIN foreign
        /\ target' = Put(target, id, new)
        /\ foreign' = Put(foreign, id, new)
  /\ UNCHANGED <<sources, manifests, run, binding, receipts>>

-----------------------------------------------------------------------------
(* Extraction: scans, source after source, until two consecutive ones agree. *)

Idle == [at |-> "idle"]
Scan(purpose, i) ==
  [at |-> "scan", purpose |-> purpose, manifest |-> i, next |-> 1, got |-> {},
   previous |-> {}, passes |-> 1, mark |-> 1]

\* A capture names the manifest it follows, 0 for none.
Capture ==
  /\ run = Idle
  /\ Len(manifests) < MaxSnapshots
  /\ \E pred \in 0..Len(manifests) : run' = Scan("freeze", pred)
  /\ UNCHANGED <<sources, manifests, target, binding, receipts, foreign>>

Reading == run.at = "scan"
Got == run.got \cup Observe(Sources[run.next], Source)
ScanStart == IF run.next = 1 THEN Len(log) ELSE run.mark   \* where this scan began
Readable == Reading /\ ~Unreadable(Sources[run.next], Source)
LastSource == run.next = Len(Sources)
Converged == run.previous = {Got}

ScanSource ==
  /\ Readable
  /\ ~LastSource
  /\ run' = [run EXCEPT !.next = @ + 1, !.got = Got, !.mark = ScanStart]
  /\ UNCHANGED <<sources, manifests, target, binding, receipts, foreign>>

ScanAgain ==
  /\ Readable
  /\ LastSource
  /\ ~Converged
  /\ run.passes < MaxScans
  /\ run' = [run EXCEPT !.next = 1, !.got = {}, !.previous = {Got},
                        !.passes = @ + 1, !.mark = 1]
  /\ log' = SubSeq(log, ScanStart, Len(log))
  /\ UNCHANGED <<edits, manifests, target, binding, receipts, foreign>>

\* The extraction is given up: a source is not readable, or it never settles.
ScanFails ==
  /\ Reading
  /\ \/ Unreadable(Sources[run.next], Source)
     \/ LastSource /\ ~Converged /\ run.passes = MaxScans
  /\ run' = Idle
  /\ log' = <<Source>>
  /\ UNCHANGED <<edits, manifests, target, binding, receipts, foreign>>

Extracted(purpose) ==
  Readable /\ LastSource /\ Converged /\ run.purpose = purpose

Freeze ==
  /\ Extracted("freeze")
  /\ manifests' = Append(manifests, [records |-> Population(Got), pred |-> run.manifest])
  /\ run' = Idle
  /\ log' = <<Source>>
  /\ UNCHANGED <<edits, target, binding, receipts, foreign>>

\* The backfill command extracts anew when the engine applies. It extracts
\* once before that too, while it builds its validator, which can only end it
\* sooner.
Backfill ==
  /\ run = Idle
  /\ \E i \in DOMAIN manifests : run' = Scan("apply", i)
  /\ UNCHANGED <<sources, manifests, target, binding, receipts, foreign>>

\* A delta that would renumber a campaign or an assignment already stored is
\* refused before anything is written.
SequencesStable(records) ==
  \A r \in records :
    r.type \in Numbered /\ Key(r) \in DOMAIN binding /\ Id(r) \in DOMAIN target
      => target[Id(r)].no = r.no

SnapshotReceipt(i) == <<i, <<"snapshot", 0>>>>
Authorise ==
  /\ Extracted("apply")
  /\ LET i == run.manifest
         records == manifests[i].records
     IN IF Population(Got) = records /\ SequencesStable(records)
        THEN /\ receipts' = receipts \cup {SnapshotReceipt(i)}
             /\ run' = [at |-> "apply", manifest |-> i, todo |-> Todo(records)]
        ELSE run' = Idle /\ UNCHANGED receipts
  /\ UNCHANGED <<sources, manifests, target, binding, foreign>>

-----------------------------------------------------------------------------
(* Loading one row.                                                        *)

Applying == run.at = "apply"
NextRow ==
  IF Len(run.todo) = 1 THEN Head(run.todo) ELSE Bootstrap(Head(run.todo))

\* The source row is read once more before its transaction: a page the adapter
\* cannot map, or whose evidence is gone, gives no row. The read says nothing
\* of the tables and the transaction nothing of the sources, so what happens
\* between the two happens as well before or after both.
Unchanged(record) ==
  /\ Hash(record) \in Everything(Source)
  /\ record.type \in {"cleaner_unavailability_case", "cleaner_reassignment_request"}
       => ~Unreadable("endings", Source)

SameTarget(record) ==
  Key(record) \in DOMAIN binding => Id(binding[Key(record)].hash) = Id(record)
FollowsOn(record, i) ==
  Key(record) \in DOMAIN binding =>
    binding[Key(record)].snapshot \in {i, manifests[i].pred}
\* Mutant: a row is replaced whoever wrote it last.
AnyWriter(record) == TRUE
Attributed(record) ==
  Id(record) \in DOMAIN target =>
    /\ Key(record) \in DOMAIN binding
    /\ binding[Key(record)].target = target[Id(record)]
FixedKept(record) ==
  Id(record) \in DOMAIN target =>
    target[Id(record)].fixed = record.fixed /\ target[Id(record)].no = record.no

\* What the schema refuses: a missing parent, a number taken, a second
\* standing assignment, a pointer cleared, a terminal row changed.
ParentsExist(record) ==
  /\ Dependencies(record) \subseteq DOMAIN target
  /\ record.type = "cleaning_job" /\ record.free # NoWindow =>
       RevisionId(record.free) \in DOMAIN target
NumberFree(record) ==
  record.type \in Numbered =>
    \A id \in DOMAIN target : id[1] = record.type /\ target[id].no = record.no
                                => id = Id(record)
OneStanding(record) ==
  record.type = "cleaning_assignment" /\ record.free = "HARD_BOOKED" =>
    \A id \in DOMAIN target : id[1] = record.type /\ target[id].free = "HARD_BOOKED"
                                => id = Id(record)
PointerMoves(record) ==
  record.type = "cleaning_job" /\ Id(record) \in DOMAIN target =>
    target[Id(record)].free \in {NoWindow, record.free}
TerminalKept(record) ==
  Id(record) \in DOMAIN target =>
    \/ target[Id(record)].free = record.free
    \/ record.type # "cleaning_assignment"
    \/ target[Id(record)].free = "HARD_BOOKED"
SchemaAllows(record) ==
  /\ ParentsExist(record) /\ NumberFree(record) /\ OneStanding(record)
  /\ PointerMoves(record) /\ TerminalKept(record)

Applicable(record, i) ==
  /\ SameTarget(record) /\ FollowsOn(record, i)
  /\ Attributed(record) /\ FixedKept(record) /\ SchemaAllows(record)

\* Mutant: versions start at zero.
VersionFromZero(record) ==
  IF Id(record) \notin DOMAIN target THEN 0 ELSE target[Id(record)].version
\* Mutant: every load of a reservation counts as a change.
EveryLoad(record) ==
  IF Id(record) \notin DOMAIN target THEN 1
  ELSE IF record.type = "reservation" THEN target[Id(record)].version + 1
  ELSE target[Id(record)].version
\* A reservation's version counts the changes of what it says.
NextVersion(record) ==
  IF Id(record) \notin DOMAIN target THEN 1
  ELSE LET old == target[Id(record)]
       IN IF record.type = "reservation" /\ old.free # record.free
          THEN old.version + 1 ELSE old.version

WriteRow(id, new) == target' = Put(target, id, new)
KeepReceipt(i, key) == receipts' = receipts \cup {<<i, key>>}

ApplyRow ==
  /\ Applying
  /\ run.todo # <<>>
  /\ Unchanged(Head(run.todo)) /\ Applicable(NextRow, run.manifest)
  /\ LET record == NextRow
         i == run.manifest
         new == [fixed |-> record.fixed, free |-> record.free, no |-> record.no,
                 version |-> NextVersion(record)]
     IN /\ KeepReceipt(i, Key(record))
        /\ WriteRow(Id(record), new)
        /\ binding' = Put(binding, Key(record),
                           [hash |-> Hash(Head(run.todo)), target |-> new, snapshot |-> i])
  /\ run' = [run EXCEPT !.todo = Tail(@)]
  /\ UNCHANGED <<sources, manifests, foreign>>

\* The row's transaction rolls back and the run ends; earlier rows stay.
RefuseRow ==
  /\ Applying
  /\ run.todo # <<>>
  /\ ~(Unchanged(Head(run.todo)) /\ Applicable(NextRow, run.manifest))
  /\ run' = Idle
  /\ UNCHANGED <<sources, manifests, target, binding, receipts, foreign>>

FinishApply ==
  /\ Applying
  /\ run.todo = <<>>
  /\ run' = [at |-> "report", manifest |-> run.manifest]
  /\ UNCHANGED <<sources, manifests, target, binding, receipts, foreign>>

RunDies ==
  /\ run # Idle
  /\ run' = Idle
  /\ log' = <<Source>>
  /\ UNCHANGED <<edits, manifests, target, binding, receipts, foreign>>

-----------------------------------------------------------------------------
(* Reconciliation.                                                         *)

\* R03..R11: every record stands in its table as the manifest says.
Equivalent(r) ==
  /\ Id(r) \in DOMAIN target
  /\ LET row == target[Id(r)]
     IN row.fixed = r.fixed /\ row.free = r.free /\ row.no = r.no
RelationsHold(records) ==
  \A r \in records : Dependencies(r) \subseteq {Id(q) : q \in records}

\* R10: the row's lineage is this snapshot's.
Lineage(r, i) ==
  /\ Key(r) \in DOMAIN binding
  /\ Id(binding[Key(r)].hash) = Id(r)
  /\ binding[Key(r)].snapshot = i
  /\ <<i, Key(r)>> \in receipts

\* R12: nothing but the migration wrote the row since.
UnwrittenSince(r) ==
  Key(r) \in DOMAIN binding /\ Id(r) \in DOMAIN target =>
    binding[Key(r)].target = target[Id(r)]

\* R14: no source row unapplied, no binding whose source row is gone.
\* Mutant: a row whose source page is gone is not reported.
NoneMissing(records) ==
  \A r \in records : Key(r) \in DOMAIN binding /\ binding[Key(r)].hash = Hash(r)
DeltaApplied(records) ==
  /\ \A r \in records : Key(r) \in DOMAIN binding /\ binding[Key(r)].hash = Hash(r)
  /\ DOMAIN binding \subseteq {Key(r) : r \in records}

Clean(i) ==
  LET records == manifests[i].records
  IN /\ SnapshotReceipt(i) \in receipts
     /\ \A r \in records : Equivalent(r) /\ Lineage(r, i) /\ UnwrittenSince(r)
     /\ RelationsHold(records)
     /\ DeltaApplied(records)

\* The backfill command ends with a report, a function of what is stored; the
\* reconcile command gives it at any time and stores nothing.
Reconcile ==
  /\ run.at = "report"
  /\ run' = Idle
  /\ UNCHANGED <<sources, manifests, target, binding, receipts, foreign>>

-----------------------------------------------------------------------------
LoadInit ==
  /\ log \in {<<s>> : s \in Starts}
  /\ edits = 0
  /\ manifests = <<>>
  /\ run = Idle
  /\ target = <<>> /\ binding = <<>> /\ receipts = {}
  /\ foreign = <<>>

LoadNext ==
  \/ EditReservation \/ EditCleaning \/ EditAssignment \/ ForeignWrite
  \/ Capture \/ ScanSource \/ ScanAgain \/ ScanFails \/ Freeze
  \/ Backfill \/ Authorise
  \/ ApplyRow \/ RefuseRow \/ FinishApply \/ Reconcile \/ RunDies

LoadSpec == LoadInit /\ [][LoadNext]_loadVars

-----------------------------------------------------------------------------
(* Properties.                                                             *)

StoredRow(row) == DOMAIN row = {"fixed", "free", "no", "version"} /\ row.version \in Nat \ {0}

\* Type invariant: the sources, the chain of manifests and the tables hold
\* what the adapters and the loader can put there.
LoadTypeOK ==
  /\ \A k \in DOMAIN log : log[k].reservation \in ReservationStatuses
  /\ \A i \in DOMAIN manifests : manifests[i].pred \in 0..(i - 1)
  /\ run.at \in {"idle", "scan", "apply", "report"}
  /\ \A id \in DOMAIN target : StoredRow(target[id])
  /\ \A key \in DOMAIN binding : Id(binding[key].hash) \in DOMAIN target
  /\ receipts \subseteq (DOMAIN manifests) \X UNION {DOMAIN binding, {<<"snapshot", 0>>}}

\* What a row is bound to is what its table holds: whatever runs were
\* interrupted, refused or replayed, every row only the migration wrote is the
\* record of the snapshot its binding names (a job's pointer may be missing),
\* and a reservation's version counts the changes applied to it, none twice.
Ancestors(i) ==
  LET S[n \in 0..Len(manifests)] == IF n = 0 THEN {} ELSE {n} \cup S[manifests[n].pred]
  IN S[i]
FreeAt(i, key) == (CHOOSE r \in manifests[i].records : Key(r) = key).free
Changes(key) ==
  {i \in Ancestors(binding[key].snapshot) :
     LET pred == manifests[i].pred
     IN /\ {<<i, key>>, <<pred, key>>} \subseteq receipts
        /\ FreeAt(i, key) # FreeAt(pred, key)}
BoundRowsMatch ==
  \A key \in DOMAIN binding :
    Id(binding[key].hash) \notin DOMAIN foreign =>
      LET row == target[Id(binding[key].hash)]
      IN \E r \in manifests[binding[key].snapshot].records :
           /\ Key(r) = key /\ Id(r) = Id(binding[key].hash)
           /\ row.fixed = r.fixed /\ row.no = r.no
           /\ row.free \in {r.free, Bootstrap(r).free}
           /\ key[1] = "reservation" => row.version = 1 + Cardinality(Changes(key))

\* A change made to a migrated table by anybody else is never overwritten by a
\* run, whichever snapshot it loads and however often it is retried.
ForeignChangeStands == \A id \in DOMAIN foreign : target[id] = foreign[id]

\* A clean report means the tables hold the manifest and nothing else the
\* migration ever loaded: no row is missing, left over from a source page
\* that is gone, half bootstrapped, or changed by somebody else.
CleanMeansMigrated ==
  \A i \in DOMAIN manifests : Clean(i) =>
    LET records == manifests[i].records
    IN /\ \A r \in records : Id(r) \in DOMAIN target \ DOMAIN foreign /\ Equivalent(r)
       /\ DOMAIN target \subseteq {Id(r) : r \in records} \cup DOMAIN foreign

\* Replaying a snapshot that is loaded in full, with the sources unchanged and
\* nobody else writing, is never refused (the engine keeps the receipts of a
\* snapshot as idempotency evidence for its later replays).
Loaded(i) ==
  \A r \in manifests[i].records : Equivalent(r) /\ Lineage(r, i)
ReplayIsHarmless ==
  [][~(RefuseRow /\ Unchanged(Head(run.todo)) /\ Loaded(run.manifest) /\ DOMAIN foreign = {})]_loadVars
=============================================================================
