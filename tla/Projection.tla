----------------------------- MODULE Projection -----------------------------
(***************************************************************************)
(* The outside copies of one reservation and its cleaning: a Notion page   *)
(* of each and an event of the cleaning calendar, brought up to the state  *)
(* in PostgreSQL one outbox row at a time.                                 *)
(*                                                                         *)
(*   cleaner_projection_adapters.py         what to find, write and check  *)
(*   cleaner_projection_clients.py          the Notion and calendar calls  *)
(*   cleaner_projection_reconciliation.py   the operator's repair          *)
(*   adapters/postgres/repository.py        current state and bindings     *)
(*   postgres_outbox_worker.py              the worker around an adapter   *)
(*                                                                         *)
(* Worker takes rows, Operator repairs the two rows of the first change;   *)
(* both hold the writer lease while they do.  CleanerOutbox has the life   *)
(* of a row in full: here it is "pending" from the moment it is taken, and *)
(* "done" when its delivery was confirmed.                                 *)
(*                                                                         *)
(* A state is named by the number of the change that made it.  A request   *)
(* that raises was applied, was not, or is applied later (late).  People   *)
(* may trash a page.  A query finds every page there is.                   *)
(***************************************************************************)
EXTENDS GlobalWriter, Sequences, FiniteSets, SequencesExt

CONSTANTS
    Worker, Operator,  \* the two writers
    MaxChanges,        \* bound: changes of the reservation or its cleaning
    MaxTroubles        \* bound: requests that raise, pages trashed by hand, crashes and
                       \* lapses together

ASSUME ProjectionAssumption ==
    /\ Writers = {Worker, Operator}
    /\ Worker # Operator
    /\ MaxChanges \in Nat \ {0}
    /\ MaxTroubles \in Nat

VARIABLES
    changes,  \* PostgreSQL: what happened to the reservation and its cleaning
    rows,     \* the outbox rows of the changes and their status
    binding,  \* the page a resource is bound to, 0 when none
    pages,    \* the pages there ever were of a resource
    best,     \* the latest state a resource has ever shown
    lost,     \* requests that raised and may yet be applied
    failures, \* how many raised
    landed,   \* whether one of them was applied late
    pc,       \* where a process is
    task,     \* its rows, the resource it is at and what it found
    upsets,
    crashes

outbox == <<changes, rows>>
remote == <<pages, best, lost, failures, landed>>
local == <<pc, task>>
vars == <<writerVars, outbox, binding, remote, local, upsets, crashes>>

MoreTrouble == failures + upsets + crashes + lapses < MaxTroubles

-----------------------------------------------------------------------------
(* PostgreSQL                                                              *)

Kinds == {"INGESTED", "OFFERED", "ACCEPTED", "CANCELLED"}
Resources == {"reservation", "cleaning", "event"}
States == 0..MaxChanges

\* The rows a change puts into the outbox.
RowsOf(n, kind) ==
    CASE kind \in {"INGESTED", "CANCELLED"} -> {<<n, "NOTION">>, <<n, "CALENDAR">>}
      [] kind = "ACCEPTED" -> {<<n, "NOTION">>}
      [] OTHER -> {}

\* The resources a row brings up to date, in order.
ResourcesOf(row) ==
    CASE row[2] = "CALENDAR" -> <<"event">>
      [] changes[row[1]] = "ACCEPTED" -> <<"cleaning">>
      [] OTHER -> <<"reservation", "cleaning">>

Touches(res, kind) == res # "reservation" \/ kind \in {"INGESTED", "CANCELLED"}

\* The state of a resource as its table has it.
InPostgres(res) == SelectLastInSeq(changes, LAMBDA kind : Touches(res, kind))

Cancelled(n) == n # 0 /\ changes[n] = "CANCELLED"

\* No later change has moved the cleaning's window.
FirstWindow(n) == \A i \in 2..n : changes[i] # "INGESTED"

-----------------------------------------------------------------------------
(* Notion and the calendar                                                 *)

\* A page carries the key of its resource unless an earlier program made it.
Page == [live : BOOLEAN, keyed : BOOLEAN, shows : States]
Legacy == [live |-> TRUE, keyed |-> FALSE, shows |-> 0]

Live(res) == {k \in DOMAIN pages[res] : pages[res][k].live}
Keyed(res) == {k \in Live(res) : pages[res][k].keyed}

\* What find() returns for a resource wanted in state n.
Found(res, n) ==
    CASE res = "event" -> Keyed(res)
      [] res = "reservation" -> Live(res)
      [] res = "cleaning" ->
            IF Keyed(res) # {} THEN Keyed(res)
            ELSE IF Cardinality(Live("reservation")) = 1 /\ FirstWindow(n) THEN Live(res)
            ELSE {}

\* read() finds the page in exactly the desired state.
Exact(res, k, n) == k \in Keyed(res) /\ pages[res][k].shows = n

\* Page 0 is a page yet to be created; state 0 is no state: the event is deleted.
Request == [res : Resources, page : Nat, n : States]

Apply(req) ==
    LET new == [live |-> req.n # 0, keyed |-> TRUE, shows |-> req.n]
        res == req.res
    IN  IF req.page = 0
        THEN /\ pages' = [pages EXCEPT ![res] = Append(@, new)]
             /\ best' = [best EXCEPT ![res] = IF req.n > @ THEN req.n ELSE @]
        ELSE IF req.page \in Live(res)
        THEN /\ pages' = [pages EXCEPT ![res][req.page] = new]
             /\ best' = [best EXCEPT ![res] = IF req.n > @ THEN req.n ELSE @]
        ELSE UNCHANGED <<pages, best>>

\* A page that is gone takes no write: the call raises.
Answered(req) ==
    /\ req.page = 0 \/ req.page \in Live(req.res)
    /\ Apply(req)
    /\ UNCHANGED <<lost, failures, landed>>

Raises(req) ==
    /\ UNCHANGED landed
    /\ \/ /\ req.page # 0 /\ req.page \notin Live(req.res)
          /\ UNCHANGED <<pages, best, lost, failures>>
       \/ /\ MoreTrouble
          /\ failures' = failures + 1
          /\ \/ Apply(req) /\ lost' = lost
             \/ UNCHANGED <<pages, best>> /\ lost' = lost \cup {req}

Land ==
    \E req \in lost :
        /\ Apply(req)
        /\ lost' = lost \ {req}
        /\ landed' = TRUE
        /\ UNCHANGED <<writerVars, outbox, binding, failures, local, upsets, crashes>>

Trash ==
    \E res \in Resources : \E k \in Live(res) :
        /\ MoreTrouble
        /\ upsets' = upsets + 1
        /\ pages' = [pages EXCEPT ![res][k].live = FALSE]
        /\ UNCHANGED <<writerVars, outbox, binding, best, lost, failures, landed, local, crashes>>

-----------------------------------------------------------------------------
(* One delivery                                                            *)

\* todo: the rows of the run; at: which resource of the row in work; want: the desired
\* state read; bound: the binding read; page: the page to write, 0 to create one;
\* heard: the call returned.
TaskAt(todo, i) ==
    [todo |-> todo, at |-> i, want |-> 0, bound |-> 0, page |-> 0, heard |-> FALSE]
NoTask == TaskAt({}, 1)

\* The row in work: a run takes the calendar's first.
InWork(todo) ==
    CHOOSE row \in todo : row[2] = "CALENDAR" \/ \A other \in todo : other[2] # "CALENDAR"

Row(p) == InWork(task[p].todo)
Res(p) == ResourcesOf(Row(p))[task[p].at]
Retiring(p) == Res(p) = "event" /\ Cancelled(task[p].want)

Goto(p, l) == pc' = [pc EXCEPT ![p] = l] /\ UNCHANGED task
GotoWith(p, l, page) ==
    /\ pc' = [pc EXCEPT ![p] = l]
    /\ task' = [task EXCEPT ![p].page = page]

Begin(p, todo) ==
    /\ pc' = [pc EXCEPT ![p] = "read"]
    /\ task' = [task EXCEPT ![p] = TaskAt(todo, 1)]

Idle(p) ==
    /\ pc' = [pc EXCEPT ![p] = "idle"]
    /\ task' = [task EXCEPT ![p] = NoTask]

\* Mutant: the error is swallowed and the delivery goes on to its receipt.
SwallowFailure(p) == Exit(p) /\ Goto(p, "finish")

\* The delivery raises: the row stays pending and the scope is left.
Fail(p) == Exit(p) /\ Idle(p)

\* run_once() up to the adapter: the oldest row is claimed and its intent recorded.
Take ==
    /\ pc[Worker] = "idle"
    /\ \E row \in DOMAIN rows :
          /\ rows[row] = "ready"
          /\ \A other \in DOMAIN rows : rows[other] = "ready" => row[1] <= other[1]
          /\ rows' = [rows EXCEPT ![row] = "pending"]
          /\ Begin(Worker, {row})
    /\ Enter(Worker)
    /\ UNCHANGED <<changes, binding, remote, upsets, crashes>>

\* Mutant: the state is the one the row's own change made.
ReadEvent(p) ==
    /\ pc[p] = "read"
    /\ pc' = [pc EXCEPT ![p] = "look"]
    /\ task' = [task EXCEPT ![p].want = Row(p)[1], ![p].bound = binding[Res(p)]]
    /\ Proceed(p)
    /\ UNCHANGED <<outbox, binding, remote, upsets, crashes>>

\* The current state and the binding of the resource.
Read(p) ==
    /\ pc[p] = "read"
    /\ pc' = [pc EXCEPT ![p] = "look"]
    /\ task' = [task EXCEPT ![p].want = InPostgres(Res(p)), ![p].bound = binding[Res(p)]]
    /\ Proceed(p)
    /\ UNCHANGED <<outbox, binding, remote, upsets, crashes>>

\* Mutant: only the bound page is looked for.
SeenIfBound(p) == {task[p].bound} \cap Live(Res(p))

\* The bound page, or whatever carries the identity when it cannot be read.
Seen(p) ==
    IF task[p].bound \in Live(Res(p)) THEN {task[p].bound} ELSE Found(Res(p), task[p].want)

\* The page is there or not, as wanted or not.
Look(p) ==
    /\ pc[p] = "look" /\ ~Retiring(p)
    /\ \/ /\ Seen(p) = {}
          /\ task[p].bound = 0 \/ Res(p) = "event"
          /\ GotoWith(p, "send", 0) /\ Proceed(p)
       \/ /\ Cardinality(Seen(p)) = 1
          /\ \E k \in Seen(p) :
                GotoWith(p, IF Exact(Res(p), k, task[p].want) THEN "bind" ELSE "send", k)
          /\ Proceed(p)
       \/ /\ \/ Cardinality(Seen(p)) > 1
             \/ Seen(p) = {} /\ task[p].bound # 0 /\ Res(p) # "event"
          /\ Fail(p)
    /\ UNCHANGED <<outbox, binding, remote, upsets, crashes>>

\* A cancelled cleaning has no event: the bound one is deleted, an unbound one stops the row.
LookRetired(p) ==
    /\ pc[p] = "look" /\ Retiring(p)
    /\ \/ /\ task[p].bound = 0 /\ Keyed("event") = {}
          /\ Goto(p, "finish") /\ Proceed(p)
       \/ /\ task[p].bound # 0 /\ task[p].bound \notin Live("event")
          /\ Goto(p, "finish") /\ Proceed(p)
       \/ /\ task[p].bound \in Live("event") /\ Cancelled(Row(p)[1])
          /\ GotoWith(p, "send", task[p].bound) /\ Proceed(p)
       \/ /\ \/ task[p].bound = 0 /\ Keyed("event") # {}
             \/ task[p].bound \in Live("event") /\ ~Cancelled(Row(p)[1])
          /\ Fail(p)
    /\ UNCHANGED <<outbox, binding, remote, upsets, crashes>>

Heard(p, heard) ==
    /\ pc' = [pc EXCEPT ![p] = "check"]
    /\ task' = [task EXCEPT ![p].heard = heard]

\* A cleaning page names its reservation's page, which must be the only one.
Sendable(p) ==
    Res(p) = "cleaning" /\ task[p].page = 0 => Cardinality(Live("reservation")) = 1

\* create(), update() or retire(), with the writer asserted first; whatever raises,
\* the outcome is looked up.
Send(p) ==
    /\ pc[p] = "send"
    /\ LET req == [res |-> Res(p), page |-> task[p].page,
                   n |-> IF Retiring(p) THEN 0 ELSE task[p].want]
       IN  IF Cleared(p) /\ Sendable(p)
           THEN \/ Answered(req) /\ Heard(p, TRUE)
                \/ Raises(req) /\ Heard(p, FALSE)
           ELSE UNCHANGED remote /\ Heard(p, FALSE)
    /\ Proceed(p)
    /\ UNCHANGED <<outbox, binding, upsets, crashes>>

\* A created page is known from the answer, or found as the one page in the desired state.
CheckCreated(p) ==
    /\ pc[p] = "check" /\ task[p].page = 0
    /\ LET found == Found(Res(p), task[p].want)
           proven == Cardinality(found) = 1 /\ \A k \in found : Exact(Res(p), k, task[p].want)
       IN  \/ /\ task[p].heard
              /\ GotoWith(p, "bind", Len(pages[Res(p)])) /\ Proceed(p)
           \/ /\ ~task[p].heard \/ ~Current(p)
              /\ IF proven
                 THEN \E k \in found : GotoWith(p, "bind", k) /\ Proceed(p)
                 ELSE Fail(p)
    /\ UNCHANGED <<outbox, binding, remote, upsets, crashes>>

\* Mutant: an update that was answered or not is taken as done.
CheckNothing(p) ==
    /\ pc[p] = "check" /\ task[p].page # 0
    /\ Goto(p, "bind") /\ Proceed(p)
    /\ UNCHANGED <<outbox, binding, remote, upsets, crashes>>

\* An updated page must read back exactly, a retired event not at all.
CheckWritten(p) ==
    /\ pc[p] = "check" /\ task[p].page # 0
    /\ IF IF Retiring(p) THEN task[p].page \notin Live("event")
          ELSE Exact(Res(p), task[p].page, task[p].want)
       THEN Goto(p, "bind") /\ Proceed(p)
       ELSE Fail(p)
    /\ UNCHANGED <<outbox, binding, remote, upsets, crashes>>

\* Mutant: a binding is replaced whatever it is by now.
ReplaceableAnyhow(p) == TRUE

\* bind_resource() takes no other page's place, rebind_resource() only the one it read.
Replaceable(p) ==
    IF task[p].bound \in {0, task[p].page}
    THEN binding[Res(p)] \in {0, task[p].page}
    ELSE binding[Res(p)] = task[p].bound

Bind(p) ==
    /\ pc[p] = "bind"
    /\ IF Replaceable(p)
       THEN /\ binding' = [binding EXCEPT ![Res(p)] = task[p].page]
            /\ Proceed(p)
            /\ IF task[p].at < Len(ResourcesOf(Row(p)))
               THEN /\ pc' = [pc EXCEPT ![p] = "read"]
                    /\ task' = [task EXCEPT ![p] = TaskAt(task[p].todo, task[p].at + 1)]
               ELSE Goto(p, "finish")
       ELSE Fail(p) /\ UNCHANGED binding
    /\ UNCHANGED <<outbox, remote, upsets, crashes>>

\* The receipt: the writer is asserted and the row resolved, from pending only.
Finish(p) ==
    /\ pc[p] = "finish"
    /\ IF Cleared(p) /\ rows[Row(p)] = "pending"
       THEN /\ rows' = [rows EXCEPT ![Row(p)] = "done"]
            /\ LET rest == {row \in task[p].todo \ {Row(p)} : rows[row] = "pending"}
               IN  IF rest = {}
                   THEN Exit(p) /\ Idle(p)
                   ELSE Begin(p, rest) /\ Proceed(p)
       ELSE Fail(p) /\ UNCHANGED rows
    /\ UNCHANGED <<changes, binding, remote, upsets, crashes>>

-----------------------------------------------------------------------------
(* The operator's repair of the first change's two rows                    *)

First == {<<1, "CALENDAR">>, <<1, "NOTION">>}

\* What the plan reads of a resource, bound or by identity.
Planned(res) ==
    IF binding[res] # 0 /\ (res # "event" \/ binding[res] \in Live(res))
    THEN {binding[res]} \cap Live(res)
    ELSE Found(res, InPostgres(res))

Ambiguous(res) ==
    \/ Cardinality(Planned(res)) > 1
    \/ res # "event" /\ binding[res] # 0 /\ Planned(res) = {}

Applied(row) ==
    \A i \in DOMAIN ResourcesOf(row) :
        LET res == ResourcesOf(row)[i]
        IN  \E k \in Planned(res) : Exact(res, k, InPostgres(res))

\* apply(): nothing may be ambiguous, nothing done may have drifted.
Reconcile ==
    /\ pc[Operator] = "idle"
    /\ \A row \in First : rows[row] # "ready"
    /\ \A res \in Resources : ~Ambiguous(res)
    /\ \A row \in First : rows[row] = "done" => Applied(row)
    /\ LET todo == {row \in First : rows[row] = "pending"}
       IN  todo # {} /\ Begin(Operator, todo)
    /\ Enter(Operator)
    /\ UNCHANGED <<outbox, binding, remote, upsets, crashes>>

-----------------------------------------------------------------------------

\* A reservation command commits a change and its rows.
Change ==
    /\ Len(changes) < MaxChanges
    /\ ~Cancelled(Len(changes))
    /\ \E kind \in Kinds :
          LET n == Len(changes) + 1
              new == RowsOf(n, kind)
          IN  /\ changes' = Append(changes, kind)
              /\ rows' = [row \in DOMAIN rows \cup new |->
                             IF row \in new THEN "ready" ELSE rows[row]]
    /\ UNCHANGED <<writerVars, binding, remote, local, upsets, crashes>>

Crash(p) ==
    /\ pc[p] # "idle"
    /\ MoreTrouble
    /\ crashes' = crashes + 1
    /\ Die(p)
    /\ Idle(p)
    /\ UNCHANGED <<outbox, binding, remote, upsets>>

LeaseLapse ==
    /\ Lapse
    /\ lease \in inside => MoreTrouble
    /\ UNCHANGED <<outbox, binding, remote, local, upsets, crashes>>

\* An earlier program may have left pages, without an event.
Init ==
    /\ WriterInit
    /\ changes = <<"INGESTED">>
    /\ rows = [row \in RowsOf(1, "INGESTED") |-> "ready"]
    /\ binding = [res \in Resources |-> 0]
    /\ pages \in {[reservation |-> r, cleaning |-> c, event |-> << >>] :
                     r \in {<< >>, <<Legacy>>}, c \in {<< >>, <<Legacy>>}}
    /\ pages.cleaning # << >> => pages.reservation # << >>
    /\ best = [res \in Resources |-> 0]
    /\ lost = {}
    /\ failures = 0
    /\ landed = FALSE
    /\ pc = [p \in Writers |-> "idle"]
    /\ task = [p \in Writers |-> NoTask]
    /\ upsets = 0
    /\ crashes = 0

Deliver(p) ==
    \/ Read(p) \/ Look(p) \/ LookRetired(p) \/ Send(p)
    \/ CheckCreated(p) \/ CheckWritten(p) \/ Bind(p) \/ Finish(p)

Next ==
    \/ Take
    \/ Reconcile
    \/ \E p \in Writers : Deliver(p) \/ Crash(p)
    \/ Change
    \/ Land
    \/ Trash
    \/ LeaseLapse

Spec == Init /\ [][Next]_vars

-----------------------------------------------------------------------------

Positions == {"idle", "read", "look", "send", "check", "bind", "finish"}

TypeOK ==
    /\ WriterTypeOK
    /\ changes \in Seq(Kinds) /\ Len(changes) \in 1..MaxChanges
    /\ DOMAIN rows = UNION {RowsOf(n, changes[n]) : n \in DOMAIN changes}
    /\ \A row \in DOMAIN rows : rows[row] \in {"ready", "pending", "done"}
    /\ \A res \in Resources : pages[res] \in Seq(Page)
    /\ binding \in [Resources -> Nat]
    /\ \A res \in Resources : binding[res] \in {0} \cup DOMAIN pages[res]
    /\ best \in [Resources -> States]
    /\ lost \subseteq Request
    /\ failures \in 0..MaxTroubles
    /\ landed \in BOOLEAN
    /\ pc \in [Writers -> Positions]
    /\ \A p \in Writers : pc[p] # "idle" => p \in inside /\ task[p].todo # {}
    /\ upsets \in 0..MaxTroubles
    /\ crashes \in 0..MaxTroubles

\* A row is done only if what it announces was really shown: each of its resources has
\* been seen in the state of the row's change or a later one, whatever was lost, late,
\* crashed or trashed (a cancelled cleaning's event excepted, which need never have been).
ReceiptIsTrue ==
    \A row \in DOMAIN rows : rows[row] = "done" =>
        \A i \in DOMAIN ResourcesOf(row) :
            LET res == ResourcesOf(row)[i]
            IN  best[res] >= row[1] \/ (res = "event" /\ Cancelled(Len(changes)))

\* No lease ran out under its holder, nothing landed late, nobody trashed a page.
Calm == lapses = 0 /\ ~landed /\ upsets = 0

\* The last change that put a row of this resource into the outbox.
LastAnnounced(res) ==
    SelectLastInSeq(changes, LAMBDA kind :
        CASE res = "cleaning" -> kind # "OFFERED"
          [] OTHER -> kind \in {"INGESTED", "CANCELLED"})

\* When every row is done, in whatever order the rows were delivered and repaired, the
\* bound pages show the last announced state or a later one, and a cancelled cleaning
\* has no event left.
Settled ==
    Calm /\ (\A row \in DOMAIN rows : rows[row] = "done") =>
        \A res \in Resources :
            IF res = "event" /\ Cancelled(Len(changes))
            THEN Live(res) = {}
            ELSE /\ binding[res] \in Keyed(res)
                 /\ pages[res][binding[res]].shows >= LastAnnounced(res)

\* Crashes after a page is created, answers that are lost and repairs never give a
\* resource a second live page of its key.
OneLivePage == Calm => \A res \in Resources : Cardinality(Keyed(res)) <= 1

\* A binding once made goes to another page only when its page is gone, even while a
\* process whose lease ran out still works with what it read.
BindingOutlivesStaleWriters ==
    [][\A res \in Resources :
          binding[res] # 0 /\ binding'[res] # binding[res] =>
              ~pages[res][binding[res]].live]_vars
=============================================================================
