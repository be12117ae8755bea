-------------------------- MODULE ProjectionProofs --------------------------
(***************************************************************************)
(* What is proved of Projection for any number of changes, pages and       *)
(* troubles.                                                               *)
(*                                                                         *)
(* IInv says what a process may rely on at each place of its delivery      *)
(* although another one whose lease it took over, or a late request, may   *)
(* still write: pages only die, best only grows, a state once wanted is at *)
(* least the one its row announces.  ReceiptIsTrue and                     *)
(* BindingOutlivesStaleWriters follow.                                     *)
(*                                                                         *)
(* Quiet says what holds besides as long as no lease ran out under its     *)
(* holder, nothing landed late and nobody trashed a page: one process at a *)
(* time, and what a resource shows is what that process last read.         *)
(* OneLivePage and Settled follow.                                         *)
(***************************************************************************)
EXTENDS Projection, TLAPS, SequenceTheorems, FiniteSetTheorems, WellFoundedInduction

Statuses == {"ready", "pending", "done"}
RowIds == (1..MaxChanges) \X {"NOTION", "CALENDAR"}
Tasks == [todo : SUBSET RowIds, at : 1..2, want : States, bound : Nat, page : Nat, heard : BOOLEAN]

\* The values of the variables.
Typed ==
    /\ WriterTypeOK
    /\ changes \in Seq(Kinds) /\ Len(changes) \in 1..MaxChanges
    /\ rows \in [DOMAIN rows -> Statuses]
    /\ binding \in [Resources -> Nat]
    /\ pages \in [Resources -> Seq(Page)]
    /\ best \in [Resources -> States]
    /\ lost \subseteq Request
    /\ failures \in 0..MaxTroubles
    /\ landed \in BOOLEAN
    /\ pc \in [Writers -> Positions]
    /\ task \in [Writers -> Tasks]
    /\ upsets \in 0..MaxTroubles
    /\ crashes \in 0..MaxTroubles

\* A reservation begins with its booking, and nothing follows its cancellation.
History ==
    /\ changes[1] = "INGESTED"
    /\ \A i \in 1..Len(changes) : changes[i] = "CANCELLED" => i = Len(changes)

\* Every change has put its rows into the outbox.
RowsKnown == DOMAIN rows = UNION {RowsOf(n, changes[n]) : n \in DOMAIN changes}

\* A binding names a page that carries the key.
BoundIsKeyed ==
    \A res \in Resources : binding[res] # 0 =>
        binding[res] \in DOMAIN pages[res] /\ pages[res][binding[res]].keyed

\* Nothing is shown that best does not know of; every event has been made with a key.
PagesKnown ==
    /\ \A res \in Resources : \A k \in DOMAIN pages[res] : pages[res][k].shows <= best[res]
    /\ \A k \in DOMAIN pages["event"] : pages["event"][k].keyed

\* What a row announces of a resource has been shown.
Announced(row, res) == best[res] >= row[1] \/ (res = "event" /\ Cancelled(Len(changes)))

ReceiptsKnown ==
    \A row \in DOMAIN rows : rows[row] = "done" =>
        \A i \in DOMAIN ResourcesOf(row) : Announced(row, ResourcesOf(row)[i])

\* A process at work is in its scope, at a resource of a row, with the earlier ones shown.
AtWork(p) ==
    pc[p] # "idle" =>
        /\ p \in inside
        /\ task[p].todo # {} /\ task[p].todo \subseteq DOMAIN rows
        /\ task[p].at \in DOMAIN ResourcesOf(Row(p))
        /\ \A i \in 1..(task[p].at - 1) : Announced(Row(p), ResourcesOf(Row(p))[i])

\* The state it read is at least the one its row is about.
HasRead(p) ==
    pc[p] \in {"look", "send", "check", "bind", "finish"} =>
        /\ task[p].want \in Row(p)[1]..Len(changes)
        /\ Touches(Res(p), changes[task[p].want])
        /\ task[p].bound \in {0} \cup DOMAIN pages[Res(p)]

\* The page it works on takes the place of the bound one only when that is dead.
HasPage(p) ==
    pc[p] \in {"send", "check", "bind"} =>
        /\ task[p].page \in {0} \cup DOMAIN pages[Res(p)]
        /\ task[p].bound \in {0, task[p].page} \/ task[p].bound \notin Live(Res(p))

LastIsKeyed(res) == Len(pages[res]) # 0 /\ pages[res][Len(pages[res])].keyed

\* A call that returned has shown the state.
HasHeard(p) ==
    pc[p] = "check" /\ task[p].heard =>
        /\ ~Retiring(p) => best[Res(p)] >= task[p].want
        /\ task[p].page = 0 => LastIsKeyed(Res(p))

HasWritten(p) ==
    pc[p] = "bind" =>
        /\ task[p].page # 0 /\ pages[Res(p)][task[p].page].keyed
        /\ ~Retiring(p) => best[Res(p)] >= task[p].want

HasAll(p) ==
    pc[p] = "finish" =>
        \A i \in DOMAIN ResourcesOf(Row(p)) : Announced(Row(p), ResourcesOf(Row(p))[i])

Knows(p) == AtWork(p) /\ HasRead(p) /\ HasPage(p) /\ HasHeard(p) /\ HasWritten(p) /\ HasAll(p)

Facts == History /\ RowsKnown /\ BoundIsKeyed /\ PagesKnown /\ ReceiptsKnown

IInv == Typed /\ Facts /\ \A p \in Writers : Knows(p)

-----------------------------------------------------------------------------
(* Undisturbed                                                             *)

Dead(res) == DOMAIN pages[res] \ Live(res)

\* A row that is done, or a resource that is done with, is as it should be outside.
Delivered(row, res) ==
    IF res = "event" /\ Cancelled(Len(changes))
    THEN row[1] = Len(changes) => Live("event") = {}
    ELSE binding[res] \in Keyed(res) /\ pages[res][binding[res]].shows >= row[1]

\* One page at most carries the key, only the event of a cancelled cleaning is dead, and
\* no resource has shown a state that was not its own.
PagesInOrder ==
    \A res \in Resources :
        /\ \A k, l \in Keyed(res) : k = l
        /\ Dead(res) # {} => res = "event" /\ Cancelled(Len(changes)) /\ Live(res) = {}
        /\ best[res] # 0 => best[res] <= Len(changes) /\ Touches(res, changes[best[res]])

RowsInOrder ==
    \A row \in DOMAIN rows : rows[row] = "done" =>
        \A i \in DOMAIN ResourcesOf(row) : Delivered(row, ResourcesOf(row)[i])

\* The end of the cleaning is dealt with: its event is gone, or the row says so.
EventIsOver ==
    /\ Cancelled(Len(changes))
    /\ \/ Dead("event") # {}
       \/ /\ <<Len(changes), "CALENDAR">> \in DOMAIN rows
          /\ rows[<<Len(changes), "CALENDAR">>] = "done"

\* What was read is the last state shown or a later one; of an event that is over, the
\* cancellation was read.
ReadsLatest(p) ==
    pc[p] \in {"look", "send", "check", "bind"} =>
        /\ best[Res(p)] <= task[p].want
        /\ Res(p) = "event" /\ EventIsOver => Cancelled(task[p].want)

\* The page it works on is the only one of its key.
PageInOrder(p) ==
    /\ pc[p] = "look" /\ task[p].bound # 0 => pages[Res(p)][task[p].bound].keyed
    /\ pc[p] \in {"send", "check"} /\ Retiring(p) => task[p].page # 0
    /\ pc[p] = "send" => Keyed(Res(p)) \subseteq {task[p].page}
    /\ pc[p] = "check" /\ task[p].heard /\ task[p].page = 0 /\ ~Retiring(p) =>
          /\ Len(pages[Res(p)]) \in Keyed(Res(p))
          /\ pages[Res(p)][Len(pages[Res(p)])].shows = task[p].want
    /\ pc[p] = "bind" =>
          IF Retiring(p) THEN Live("event") = {}
          ELSE Exact(Res(p), task[p].page, task[p].want)

DoneInOrder(p) ==
    /\ pc[p] # "idle" =>
          \A i \in 1..(task[p].at - 1) : Delivered(Row(p), ResourcesOf(Row(p))[i])
    /\ pc[p] = "finish" =>
          \A i \in DOMAIN ResourcesOf(Row(p)) : Delivered(Row(p), ResourcesOf(Row(p))[i])

InOrder(p) == ReadsLatest(p) /\ PageInOrder(p) /\ DoneInOrder(p)

\* Who is inside has the lease.
Held == \A p \in inside : lease = p

Undisturbed ==
    /\ Held
    /\ PagesInOrder
    /\ RowsInOrder
    /\ \A p \in Writers : InOrder(p)

Quiet == Calm => Undisturbed

-----------------------------------------------------------------------------
(* Numbers, rows and resources                                             *)

\* A set of natural numbers that is not empty has a least element.
LEMMA Least ==
    ASSUME NEW S \in SUBSET Nat, S # {}
    PROVE  \E x \in S : \A y \in S : x <= y
<1> DEFINE R == OpToRel(<, Nat)
<1>1. IsWellFoundedOn(R, Nat)  BY NatLessThanWellFounded
<1>2. \A x, y \in Nat : <<x, y>> \in R <=> x < y  BY DEF OpToRel
<1> HIDE DEF R
<1>3. PICK x \in S : \A y \in S : ~ (<<y, x>> \in R)  BY <1>1, WFMin
<1>4. ASSUME NEW y \in S PROVE x <= y
  <2>1. x \in Nat /\ y \in Nat  OBVIOUS
  <2>2. ~ (y < x)  BY <1>2, <1>3, <2>1
  <2> QED  BY <2>1, <2>2
<1> QED  BY <1>4

\* One that is bounded has a greatest.
LEMMA Greatest ==
    ASSUME NEW n \in Nat, NEW S \in SUBSET (1..n), S # {}
    PROVE  Max(S) \in S /\ \A y \in S : y <= Max(S)
<1> DEFINE T == {k \in 0..n : n - k \in S}
<1>1. PICK x \in S : TRUE  OBVIOUS
<1>2. n - x \in 0..n /\ n - (n - x) = x  BY <1>1
<1>3. n - x \in T  BY <1>2
<1>4. T \in SUBSET Nat  OBVIOUS
<1>5. PICK k \in T : \A y \in T : k <= y  BY <1>3, <1>4, Least
<1>6. n - k \in S /\ k \in 0..n  OBVIOUS
<1>7. ASSUME NEW y \in S PROVE n - k >= y
  <2>1. n - y \in 0..n /\ n - (n - y) = y  OBVIOUS
  <2>2. k <= n - y  BY <1>5, <2>1
  <2> QED  BY <1>6, <2>1, <2>2
<1>8. \E m \in S : \A y \in S : m >= y  BY <1>6, <1>7
<1>9. Max(S) \in S /\ \A y \in S : Max(S) >= y  BY <1>8 DEF Max
<1> QED  BY <1>9

\* InPostgres() is the number of the last change that touches the resource.
LEMMA LastTouch ==
    ASSUME Typed, NEW res \in Resources
    PROVE  /\ InPostgres(res) \in 0..Len(changes)
           /\ InPostgres(res) # 0 => Touches(res, changes[InPostgres(res)])
           /\ \A i \in 1..Len(changes) : Touches(res, changes[i]) => i <= InPostgres(res)
<1> DEFINE I == {i \in 1..Len(changes) : Touches(res, changes[i])}
<1>1. InPostgres(res) = IF I # {} THEN Max(I) ELSE 0  BY DEF InPostgres, SelectLastInSeq
<1>2. Len(changes) \in Nat  BY DEF Typed
<1>3. CASE I = {}  BY <1>1, <1>2, <1>3
<1>4. CASE I # {}
  <2>1. Max(I) \in I /\ \A y \in I : y <= Max(I)  BY <1>2, <1>4, Greatest
  <2> QED  BY <1>1, <1>2, <1>4, <2>1
<1> QED  BY <1>3, <1>4

\* The same of the last change announced.
LEMMA LastAnnouncement ==
    ASSUME Typed, History, NEW res \in Resources
    PROVE  /\ LastAnnounced(res) \in 1..Len(changes)
           /\ IF res = "cleaning" THEN changes[LastAnnounced(res)] # "OFFERED"
              ELSE changes[LastAnnounced(res)] \in {"INGESTED", "CANCELLED"}
<1> DEFINE A(kind) == CASE res = "cleaning" -> kind # "OFFERED"
                        [] OTHER -> kind \in {"INGESTED", "CANCELLED"}
           I == {i \in 1..Len(changes) : A(changes[i])}
<1>1. LastAnnounced(res) = IF I # {} THEN Max(I) ELSE 0  BY DEF LastAnnounced, SelectLastInSeq
<1>2. Len(changes) \in Nat /\ 1 \in 1..Len(changes)  BY DEF Typed
<1>3. 1 \in I  BY <1>2 DEF History
<1>4. Max(I) \in I  BY <1>2, <1>3, Greatest
<1> QED  BY <1>1, <1>3, <1>4

LEMMA RowForm ==
    ASSUME Typed, RowsKnown, NEW row \in DOMAIN rows
    PROVE  /\ row[1] \in 1..Len(changes) /\ row[2] \in {"NOTION", "CALENDAR"}
           /\ row = <<row[1], row[2]>> /\ row \in RowIds
           /\ changes[row[1]] \in {"INGESTED", "CANCELLED", "ACCEPTED"}
           /\ row[2] = "CALENDAR" => changes[row[1]] # "ACCEPTED"
<1>1. DOMAIN changes = 1..Len(changes) /\ Len(changes) <= MaxChanges  BY DEF Typed
<1>2. PICK n \in DOMAIN changes : row \in RowsOf(n, changes[n])  BY DEF RowsKnown
<1>3. changes[n] \in Kinds  BY <1>2 DEF Typed
<1>4. n \in 1..Len(changes) /\ MaxChanges \in Nat /\ Len(changes) \in Nat
  BY <1>1, <1>2, ProjectionAssumption DEF Typed
<1>5. CASE changes[n] \in {"INGESTED", "CANCELLED"}
  <2>1. row = <<n, "NOTION">> \/ row = <<n, "CALENDAR">>  BY <1>2, <1>5 DEF RowsOf
  <2> QED  BY <1>1, <1>4, <1>5, <2>1 DEF RowIds
<1>6. CASE changes[n] = "ACCEPTED"
  <2>1. row = <<n, "NOTION">>  BY <1>2, <1>6 DEF RowsOf
  <2> QED  BY <1>1, <1>4, <1>6, <2>1 DEF RowIds
<1>7. CASE changes[n] = "OFFERED"  BY <1>2, <1>7 DEF RowsOf
<1> QED  BY <1>3, <1>5, <1>6, <1>7 DEF Kinds

LEMMA RowsAre ==
    ASSUME Typed, RowsKnown, NEW n \in 1..Len(changes)
    PROVE  /\ changes[n] \in {"INGESTED", "CANCELLED"} =>
                  <<n, "NOTION">> \in DOMAIN rows /\ <<n, "CALENDAR">> \in DOMAIN rows
           /\ changes[n] = "ACCEPTED" => <<n, "NOTION">> \in DOMAIN rows
<1>1. n \in DOMAIN changes  BY DEF Typed
<1>2. RowsOf(n, changes[n]) \subseteq DOMAIN rows  BY <1>1 DEF RowsKnown
<1> QED  BY <1>2 DEF RowsOf

\* The resources of a row are one or two, and its change touches them.
LEMMA ResourcesForm ==
    ASSUME Typed, RowsKnown, NEW row \in DOMAIN rows
    PROVE  /\ Len(ResourcesOf(row)) \in 1..2
           /\ DOMAIN ResourcesOf(row) = 1..Len(ResourcesOf(row))
           /\ \A i \in DOMAIN ResourcesOf(row) :
                 /\ ResourcesOf(row)[i] \in Resources
                 /\ Touches(ResourcesOf(row)[i], changes[row[1]])
                 /\ ResourcesOf(row)[i] = "event" => row[2] = "CALENDAR" /\ i = 1 /\ Len(ResourcesOf(row)) = 1
           /\ \A i, j \in DOMAIN ResourcesOf(row) : ResourcesOf(row)[i] = ResourcesOf(row)[j] => i = j
<1>1. /\ row[2] \in {"NOTION", "CALENDAR"}
      /\ changes[row[1]] \in {"INGESTED", "CANCELLED", "ACCEPTED"}
      /\ row[2] = "CALENDAR" => changes[row[1]] # "ACCEPTED"
  BY RowForm
<1>2. CASE row[2] = "CALENDAR"
  <2>1. ResourcesOf(row) = <<"event">>  BY <1>1, <1>2 DEF ResourcesOf
  <2> QED  BY <1>2, <2>1 DEF Resources, Touches
<1>3. CASE row[2] = "NOTION" /\ changes[row[1]] = "ACCEPTED"
  <2>1. ResourcesOf(row) = <<"cleaning">>  BY <1>3 DEF ResourcesOf
  <2> QED  BY <2>1 DEF Resources, Touches
<1>4. CASE row[2] = "NOTION" /\ changes[row[1]] \in {"INGESTED", "CANCELLED"}
  <2>1. ResourcesOf(row) = <<"reservation", "cleaning">>  BY <1>4 DEF ResourcesOf
  <2> QED  BY <1>4, <2>1 DEF Resources, Touches
<1> QED  BY <1>1, <1>2, <1>3, <1>4

\* The row in work is one of the run's.
LEMMA RowInWork ==
    ASSUME NEW todo, todo # {}, \A row \in todo : row[2] \in {"NOTION", "CALENDAR"}
    PROVE  InWork(todo) \in todo
<1>1. \E row \in todo : row[2] = "CALENDAR" \/ \A other \in todo : other[2] # "CALENDAR"
  OBVIOUS
<1> QED  BY <1>1 DEF InWork

LEMMA RowOf ==
    ASSUME Typed, RowsKnown, NEW p \in Writers, AtWork(p), pc[p] # "idle"
    PROVE  /\ Row(p) \in task[p].todo /\ Row(p) \in DOMAIN rows
           /\ Res(p) \in Resources /\ Touches(Res(p), changes[Row(p)[1]])
           /\ Row(p)[1] \in 1..Len(changes)
           /\ task[p].at \in 1..2 /\ DOMAIN ResourcesOf(Row(p)) = 1..Len(ResourcesOf(Row(p)))
           /\ Len(ResourcesOf(Row(p))) \in 1..2 /\ task[p].at \in DOMAIN ResourcesOf(Row(p))
<1>1. task[p].todo # {} /\ task[p].todo \subseteq DOMAIN rows /\ task[p].at \in DOMAIN ResourcesOf(Row(p))
  BY DEF AtWork
<1>2. \A row \in task[p].todo : row[2] \in {"NOTION", "CALENDAR"}  BY <1>1, RowForm
<1>3. Row(p) \in task[p].todo  BY <1>1, <1>2, RowInWork DEF Row
<1>4. Row(p) \in DOMAIN rows  BY <1>1, <1>3
<1>5. Row(p)[1] \in 1..Len(changes)  BY <1>4, RowForm
<1>6. task[p].at \in 1..2  BY DEF Typed, Tasks
<1> QED  BY <1>1, <1>3, <1>4, <1>5, <1>6, ResourcesForm DEF Res

-----------------------------------------------------------------------------
(* What every step leaves as it was                                        *)

PagesGrow(res) ==
    /\ Len(pages[res]) <= Len(pages'[res])
    /\ \A k \in 1..Len(pages[res]) :
          /\ pages'[res][k].live => pages[res][k].live
          /\ pages[res][k].keyed => pages'[res][k].keyed
    /\ LastIsKeyed(res) => LastIsKeyed(res)'

\* Changes and rows are added, pages are added or die, best grows.
Grows ==
    /\ Len(changes) <= Len(changes') /\ \A i \in 1..Len(changes) : changes'[i] = changes[i]
    /\ Cancelled(Len(changes)) => changes' = changes
    /\ DOMAIN rows \subseteq DOMAIN rows'
    /\ \A res \in Resources : best[res] <= best'[res] /\ PagesGrow(res)

LEMMA CancelledStays ==
    ASSUME Typed, Typed', Grows, NEW n \in 0..Len(changes)
    PROVE  Cancelled(n)' <=> Cancelled(n)
<1>1. CASE n = 0  BY <1>1 DEF Cancelled
<1>2. CASE n \in 1..Len(changes)  BY <1>2 DEF Cancelled, Grows
<1> QED  BY <1>1, <1>2 DEF Typed

LEMMA AnnouncedStays ==
    ASSUME Typed, Typed', RowsKnown, Grows, NEW row \in DOMAIN rows, NEW res \in Resources,
           Announced(row, res)
    PROVE  Announced(row, res)'
<1>1. row[1] \in Nat  BY RowForm
<1>2. best[res] \in Nat /\ best'[res] \in Nat /\ best[res] <= best'[res]
  BY ProjectionAssumption DEF Grows, Typed, States
<1>3. CASE best[res] >= row[1]  BY <1>1, <1>2, <1>3 DEF Announced
<1>4. CASE res = "event" /\ Cancelled(Len(changes))
  <2>1. changes' = changes  BY <1>4 DEF Grows
  <2> QED  BY <1>4, <2>1 DEF Announced, Cancelled
<1> QED  BY <1>3, <1>4 DEF Announced

LEMMA ResourcesStay ==
    ASSUME Typed, RowsKnown, Grows, NEW row \in DOMAIN rows
    PROVE  ResourcesOf(row)' = ResourcesOf(row) /\ changes'[row[1]] = changes[row[1]]
<1>1. changes'[row[1]] = changes[row[1]]  BY RowForm DEF Grows
<1> QED  BY <1>1 DEF ResourcesOf

\* A page that is not live does not come back.
LEMMA DeadStays ==
    ASSUME Typed, Typed', Grows, NEW res \in Resources, NEW k \in {0} \cup DOMAIN pages[res]
    PROVE  /\ k \in {0} \cup DOMAIN pages'[res]
           /\ k \notin Live(res) => k \notin Live(res)'
           /\ k # 0 /\ pages[res][k].keyed => pages'[res][k].keyed
<1>1. pages[res] \in Seq(Page) /\ pages'[res] \in Seq(Page)  BY DEF Typed
<1>2. DOMAIN pages[res] = 1..Len(pages[res]) /\ DOMAIN pages'[res] = 1..Len(pages'[res])
      /\ Len(pages[res]) \in Nat /\ Len(pages'[res]) \in Nat
  BY <1>1
<1>3. PagesGrow(res)  BY DEF Grows
<1>4. CASE k = 0  BY <1>2, <1>4 DEF Live
<1>5. CASE k \in 1..Len(pages[res])
  <2>1. k \in 1..Len(pages'[res])  BY <1>2, <1>3, <1>5 DEF PagesGrow
  <2> QED  BY <1>2, <1>3, <1>5, <2>1 DEF PagesGrow, Live
<1> QED  BY <1>2, <1>4, <1>5

\* The resource at hand and what was read of it hold while the world goes on.
LEMMA PlaceStays ==
    ASSUME Typed, Typed', RowsKnown, Grows, NEW p \in Writers, AtWork(p), HasRead(p), HasPage(p),
           pc[p] # "idle", p \in inside',
           pc'[p] \in {"look", "send", "check", "bind", "finish"} =>
              pc[p] \in {"look", "send", "check", "bind", "finish"},
           pc'[p] \in {"send", "check", "bind"} => pc[p] \in {"send", "check", "bind"},
           task'[p].todo = task[p].todo, task'[p].at = task[p].at, task'[p].want = task[p].want,
           task'[p].bound = task[p].bound, task'[p].page = task[p].page
    PROVE  /\ AtWork(p)' /\ HasRead(p)' /\ HasPage(p)'
           /\ Row(p)' = Row(p) /\ Res(p)' = Res(p)
           /\ ResourcesOf(Row(p))' = ResourcesOf(Row(p))
           /\ pc[p] \in {"look", "send", "check", "bind", "finish"} => Retiring(p)' = Retiring(p)
           /\ \A i \in DOMAIN ResourcesOf(Row(p)) :
                 Announced(Row(p), ResourcesOf(Row(p))[i]) => Announced(Row(p), ResourcesOf(Row(p))[i])'
<1>1. /\ Row(p) \in DOMAIN rows /\ Res(p) \in Resources
      /\ Row(p)[1] \in 1..Len(changes) /\ Len(changes) \in Nat /\ Len(changes') \in Nat
      /\ task[p].at \in 1..2 /\ DOMAIN ResourcesOf(Row(p)) = 1..Len(ResourcesOf(Row(p)))
      /\ Len(ResourcesOf(Row(p))) \in 1..2 /\ task[p].at \in DOMAIN ResourcesOf(Row(p))
  BY RowOf, SMTT(30) DEF Typed
<1>2. Row(p)' = Row(p)  BY DEF Row
<1>3. ResourcesOf(Row(p))' = ResourcesOf(Row(p))  BY <1>1, <1>2, ResourcesStay DEF ResourcesOf
<1>4. Res(p)' = Res(p)  BY <1>3 DEF Res
<1>5. \A i \in DOMAIN ResourcesOf(Row(p)) :
         Announced(Row(p), ResourcesOf(Row(p))[i]) => Announced(Row(p), ResourcesOf(Row(p))[i])'
  <2> TAKE i \in DOMAIN ResourcesOf(Row(p))
  <2>1. ResourcesOf(Row(p))[i] \in Resources  BY <1>1, ResourcesForm
  <2>2. \A row \in DOMAIN rows : \A res \in Resources : Announced(row, res) => Announced(row, res)'
    BY AnnouncedStays
  <2>3. Announced(Row(p), ResourcesOf(Row(p))[i])' =
        (best'[ResourcesOf(Row(p))[i]] >= Row(p)[1]
           \/ (ResourcesOf(Row(p))[i] = "event" /\ Cancelled(Len(changes))'))
    BY <1>2, <1>3 DEF Announced
  <2> QED  BY <1>1, <2>1, <2>2, <2>3 DEF Announced
<1>6. AtWork(p)'
  <2>1. task[p].todo \subseteq DOMAIN rows'  BY DEF AtWork, Grows
  <2>2. \A i \in 1..(task[p].at - 1) : i \in DOMAIN ResourcesOf(Row(p))  BY <1>1
  <2> QED  BY <1>1, <1>2, <1>3, <1>5, <2>1, <2>2 DEF AtWork
<1>7. HasRead(p)'
  <2> SUFFICES ASSUME pc[p] \in {"look", "send", "check", "bind", "finish"}  PROVE  HasRead(p)'
    BY DEF HasRead
  <2>1. /\ task[p].want \in Row(p)[1]..Len(changes) /\ Touches(Res(p), changes[task[p].want])
        /\ task[p].bound \in {0} \cup DOMAIN pages[Res(p)]
    BY DEF HasRead
  <2>2. changes'[task[p].want] = changes[task[p].want] /\ task[p].want \in Row(p)[1]..Len(changes')
    BY <1>1, <2>1 DEF Grows
  <2>3. task[p].bound \in {0} \cup DOMAIN pages'[Res(p)]  BY <1>1, <2>1, DeadStays
  <2> QED  BY <1>2, <1>4, <2>1, <2>2, <2>3 DEF HasRead, Touches
<1>8. pc[p] \in {"look", "send", "check", "bind", "finish"} => Retiring(p)' = Retiring(p)
  <2>1. pc[p] \in {"look", "send", "check", "bind", "finish"} => task[p].want \in 0..Len(changes)
    BY <1>1 DEF HasRead
  <2>2. \A n \in 0..Len(changes) : Cancelled(n)' <=> Cancelled(n)  BY CancelledStays
  <2>3. Cancelled(task[p].want)' = (task'[p].want # 0 /\ changes'[task'[p].want] = "CANCELLED")
    BY DEF Cancelled
  <2> QED  BY <1>4, <2>1, <2>2, <2>3 DEF Retiring, Cancelled
<1>9. HasPage(p)'
  <2>1. pc[p] \in {"send", "check", "bind"} => task[p].bound \in {0} \cup DOMAIN pages[Res(p)]
    BY DEF HasRead
  <2>2. pc[p] \in {"send", "check", "bind"} => task[p].page \in {0} \cup DOMAIN pages'[Res(p)]
    BY <1>1, DeadStays DEF HasPage
  <2>3. pc[p] \in {"send", "check", "bind"} /\ task[p].bound \notin Live(Res(p))
           => task[p].bound \notin Live(Res(p))'
    <3>1. Live(Res(p))' = {k \in DOMAIN pages'[Res(p)] : pages'[Res(p)][k].live}
      BY <1>4 DEF Live
    <3>2. \A res \in Resources : \A k \in {0} \cup DOMAIN pages[res] :
             k \notin Live(res) => ~(k \in DOMAIN pages'[res] /\ pages'[res][k].live)
      BY DeadStays DEF Live
    <3> QED  BY <1>1, <2>1, <3>1, <3>2
  <2> QED  BY <1>4, <2>2, <2>3 DEF HasPage
<1> QED  BY <1>2, <1>3, <1>4, <1>5, <1>6, <1>7, <1>8, <1>9

\* A process that does nothing goes on knowing what it knew.
LEMMA KnowsStays ==
    ASSUME Typed, Typed', RowsKnown, Grows, NEW p \in Writers, Knows(p),
           pc'[p] = pc[p], task'[p] = task[p], p \in inside => p \in inside'
    PROVE  Knows(p)'
<1>1. CASE pc[p] = "idle"
  BY <1>1 DEF Knows, AtWork, HasRead, HasPage, HasHeard, HasWritten, HasAll
<1>2. CASE pc[p] # "idle"
  <2>1. AtWork(p) /\ HasRead(p) /\ HasPage(p)  BY DEF Knows
  <2>2. p \in inside'  BY <1>2, <2>1 DEF AtWork
  <2>3. /\ AtWork(p)' /\ HasRead(p)' /\ HasPage(p)'
        /\ Row(p)' = Row(p) /\ Res(p)' = Res(p)
        /\ ResourcesOf(Row(p))' = ResourcesOf(Row(p))
        /\ pc[p] \in {"look", "send", "check", "bind", "finish"} => Retiring(p)' = Retiring(p)
        /\ \A i \in DOMAIN ResourcesOf(Row(p)) :
              Announced(Row(p), ResourcesOf(Row(p))[i]) => Announced(Row(p), ResourcesOf(Row(p))[i])'
    BY <1>2, <2>1, <2>2, PlaceStays
  <2>4. Res(p) \in Resources  BY <1>2, <2>1, RowOf
  <2>5. best'[Res(p)] >= best[Res(p)] /\ best[Res(p)] \in Nat /\ best'[Res(p)] \in Nat
        /\ task[p].want \in Nat
    <3>1. States \subseteq Nat /\ best \in [Resources -> States] /\ best' \in [Resources -> States]
      BY ProjectionAssumption DEF Typed, States
    <3>2. task[p].want \in States  BY DEF Typed, Tasks
    <3>3. best[Res(p)] <= best'[Res(p)]  BY <2>4 DEF Grows
    <3> QED  BY <2>4, <3>1, <3>2, <3>3
  <2>6. HasHeard(p)'
    <3>1. LastIsKeyed(Res(p)) => LastIsKeyed(Res(p))'
      <4>1. \A res \in Resources : LastIsKeyed(res) => (Len(pages'[res]) # 0 /\ pages'[res][Len(pages'[res])].keyed)
        BY DEF Grows, PagesGrow, LastIsKeyed
      <4> QED  BY <2>3, <2>4, <4>1 DEF LastIsKeyed
    <3> QED  BY <2>3, <2>5, <3>1 DEF Knows, HasHeard
  <2>7. HasWritten(p)'
    <3>1. pc[p] = "bind" => pages'[Res(p)][task[p].page].keyed
      BY <2>4, DeadStays DEF Knows, HasPage, HasWritten
    <3> QED  BY <2>3, <2>5, <3>1 DEF Knows, HasWritten
  <2>8. HasAll(p)'  BY <2>3 DEF Knows, HasAll
  <2> QED  BY <2>3, <2>6, <2>7, <2>8 DEF Knows
<1> QED  BY <1>1, <1>2

\* A step that changes at most p's own place and does not take the scope from another.
Own(p) ==
    \A q \in Writers \ {p} :
        pc'[q] = pc[q] /\ task'[q] = task[q] /\ (q \in inside => q \in inside')

LEMMA OwnStep ==
    ASSUME IInv, Typed', Facts', Grows, NEW p \in Writers, Own(p), Knows(p)'
    PROVE  IInv'
<1>1. ASSUME NEW q \in Writers, q # p PROVE Knows(q)'
  <2>1. pc'[q] = pc[q] /\ task'[q] = task[q] /\ (q \in inside => q \in inside')  BY <1>1 DEF Own
  <2> QED  BY <2>1, KnowsStays DEF IInv, Facts
<1>2. \A q \in Writers : Knows(q)'  BY <1>1
<1> QED  BY <1>2 DEF IInv

\* A step of the world around the processes.
LEMMA WorldStep ==
    ASSUME IInv, Typed', Facts', Grows, UNCHANGED <<pc, task, inside>>
    PROVE  IInv'
<1>1. ASSUME NEW q \in Writers PROVE Knows(q)'  BY KnowsStays DEF IInv, Facts
<1> QED  BY <1>1 DEF IInv

LEMMA IdleKnows ==
    ASSUME NEW p \in Writers, pc'[p] = "idle"
    PROVE  Knows(p)'
BY DEF Knows, AtWork, HasRead, HasPage, HasHeard, HasWritten, HasAll

\* Nothing happens to the pages.
LEMMA StillGrows ==
    ASSUME Typed, UNCHANGED <<changes, pages, best>>, DOMAIN rows \subseteq DOMAIN rows'
    PROVE  Grows
<1>1. \A res \in Resources : best[res] \in Nat  BY ProjectionAssumption DEF Typed, States
<1>2. \A res \in Resources : Len(pages[res]) \in Nat  BY DEF Typed
<1>3. Len(changes) \in Nat  BY DEF Typed
<1>4. \A res \in Resources : PagesGrow(res)  BY <1>2 DEF PagesGrow, LastIsKeyed
<1> QED  BY <1>1, <1>3, <1>4 DEF Grows

\* What the receipts say stays true.
LEMMA ReceiptsStay ==
    ASSUME Typed, Typed', RowsKnown, ReceiptsKnown, Grows,
           NEW row \in DOMAIN rows, rows[row] = "done"
    PROVE  \A i \in DOMAIN ResourcesOf(row)' : Announced(row, ResourcesOf(row)[i])'
<1>1. ResourcesOf(row)' = ResourcesOf(row)  BY ResourcesStay
<1>2. ASSUME NEW i \in DOMAIN ResourcesOf(row)
      PROVE  best'[ResourcesOf(row)[i]] >= row[1]
             \/ (ResourcesOf(row)[i] = "event" /\ Cancelled(Len(changes))')
  <2>1. ResourcesOf(row)[i] \in Resources  BY ResourcesForm
  <2>2. Announced(row, ResourcesOf(row)[i])  BY DEF ReceiptsKnown
  <2>3. \A res \in Resources : Announced(row, res) =>
           (best'[res] >= row[1] \/ (res = "event" /\ Cancelled(Len(changes))'))
    BY AnnouncedStays DEF Announced
  <2> QED  BY <2>1, <2>2, <2>3
<1> QED  BY <1>1, <1>2 DEF Announced

LEMMA FactsStay ==
    ASSUME Typed, Typed', Facts, Grows, UNCHANGED <<changes, rows, binding>>, PagesKnown'
    PROVE  Facts'
<1>1. History' /\ RowsKnown'  BY DEF Facts, History, RowsKnown
<1>2. BoundIsKeyed'
  <2>1. ASSUME NEW res \in Resources, binding'[res] # 0
        PROVE  binding'[res] \in DOMAIN pages'[res] /\ pages'[res][binding'[res]].keyed
    BY <2>1, DeadStays DEF Facts, BoundIsKeyed
  <2> QED  BY <2>1 DEF BoundIsKeyed
<1>3. ReceiptsKnown'
  <2>1. ASSUME NEW row \in DOMAIN rows', rows'[row] = "done"
        PROVE  \A i \in DOMAIN ResourcesOf(row)' : Announced(row, ResourcesOf(row)[i])'
    BY <2>1, ReceiptsStay DEF Facts
  <2> QED  BY <2>1 DEF ReceiptsKnown
<1> QED  BY <1>1, <1>2, <1>3 DEF Facts

-----------------------------------------------------------------------------
(* Requests                                                                *)

NewPage(req) == [live |-> req.n # 0, keyed |-> TRUE, shows |-> req.n]

\* What a request does to the pages of its resource.
LEMMA ApplyCreate ==
    ASSUME Typed, NEW req \in Request, Apply(req), req.page = 0
    PROVE  /\ pages' = [pages EXCEPT ![req.res] = Append(pages[req.res], NewPage(req))]
           /\ pages' \in [Resources -> Seq(Page)]
           /\ Len(pages'[req.res]) = Len(pages[req.res]) + 1
           /\ \A k \in 1..Len(pages[req.res]) : pages'[req.res][k] = pages[req.res][k]
           /\ pages'[req.res][Len(pages[req.res]) + 1] = NewPage(req)
<1>1. req.res \in Resources /\ req.n \in States  BY DEF Request
<1>2. pages' = [pages EXCEPT ![req.res] = Append(pages[req.res], NewPage(req))]
  BY <1>1 DEF Apply, NewPage, Typed
<1>3. NewPage(req) \in Page /\ pages[req.res] \in Seq(Page)  BY <1>1 DEF NewPage, Page, Typed
<1>4. pages'[req.res] = Append(pages[req.res], NewPage(req))  BY <1>1, <1>2 DEF Typed
<1>5. Append(pages[req.res], NewPage(req)) \in Seq(Page)  BY <1>3, AppendProperties
<1>6. pages' \in [Resources -> Seq(Page)]  BY <1>1, <1>2, <1>5 DEF Typed
<1> QED  BY <1>2, <1>3, <1>4, <1>6, AppendProperties

LEMMA ApplyUpdate ==
    ASSUME Typed, NEW req \in Request, Apply(req), req.page # 0, req.page \in Live(req.res)
    PROVE  /\ pages' = [pages EXCEPT ![req.res] = [pages[req.res] EXCEPT ![req.page] = NewPage(req)]]
           /\ pages' \in [Resources -> Seq(Page)]
           /\ Len(pages'[req.res]) = Len(pages[req.res])
           /\ \A k \in 1..Len(pages[req.res]) :
                 pages'[req.res][k] = IF k = req.page THEN NewPage(req) ELSE pages[req.res][k]
<1>1. req.res \in Resources /\ req.n \in States  BY DEF Request
<1>2. pages' = [pages EXCEPT ![req.res] = [pages[req.res] EXCEPT ![req.page] = NewPage(req)]]
  BY <1>1 DEF Apply, NewPage, Typed
<1>3. NewPage(req) \in Page /\ pages[req.res] \in Seq(Page)  BY <1>1 DEF NewPage, Page, Typed
<1>4. req.page \in 1..Len(pages[req.res])  BY <1>3 DEF Live
<1>5. pages'[req.res] = [pages[req.res] EXCEPT ![req.page] = NewPage(req)]  BY <1>1, <1>2 DEF Typed
<1>6. /\ [pages[req.res] EXCEPT ![req.page] = NewPage(req)] \in Seq(Page)
      /\ Len([pages[req.res] EXCEPT ![req.page] = NewPage(req)]) = Len(pages[req.res])
      /\ \A k \in 1..Len(pages[req.res]) :
            [pages[req.res] EXCEPT ![req.page] = NewPage(req)][k]
               = IF k = req.page THEN NewPage(req) ELSE pages[req.res][k]
  BY <1>3, <1>4, ExceptSeq
<1>7. pages' \in [Resources -> Seq(Page)]  BY <1>1, <1>2, <1>6 DEF Typed
<1> QED  BY <1>2, <1>5, <1>6, <1>7

LEMMA ApplyBest ==
    ASSUME Typed, NEW req \in Request, Apply(req)
    PROVE  /\ best' \in [Resources -> States]
           /\ \A res \in Resources : best[res] <= best'[res]
           /\ req.page = 0 \/ req.page \in Live(req.res) =>
                 \A res \in Resources :
                    best'[res] = IF res = req.res /\ req.n > best[res] THEN req.n ELSE best[res]
           /\ req.page # 0 /\ req.page \notin Live(req.res) => UNCHANGED <<pages, best>>
<1>1. req.res \in Resources /\ req.n \in States  BY DEF Request
<1>2. best \in [Resources -> States] /\ States \subseteq Nat  BY ProjectionAssumption DEF Typed, States
<1>3. CASE req.page = 0 \/ req.page \in Live(req.res)
  <2>1. best' = [best EXCEPT ![req.res] = IF req.n > best[req.res] THEN req.n ELSE best[req.res]]
    BY <1>2, <1>3 DEF Apply
  <2>2. best' \in [Resources -> States]  BY <1>1, <1>2, <2>1
  <2>3. \A res \in Resources :
           best'[res] = IF res = req.res /\ req.n > best[res] THEN req.n ELSE best[res]
    BY <1>1, <1>2, <2>1
  <2>4. ASSUME NEW res \in Resources PROVE best[res] <= best'[res]
    <3>1. best[res] \in Nat /\ req.n \in Nat  BY <1>1, <1>2
    <3> QED  BY <2>3, <3>1
  <2> QED  BY <1>3, <2>2, <2>3, <2>4
<1>4. CASE req.page # 0 /\ req.page \notin Live(req.res)
  <2>1. UNCHANGED <<pages, best>>  BY <1>4 DEF Apply
  <2>2. \A res \in Resources : best[res] \in Nat  BY <1>2
  <2>3. \A res \in Resources : best[res] <= best'[res]  BY <2>1, <2>2
  <2> QED  BY <1>2, <1>4, <2>1, <2>3
<1> QED  BY <1>3, <1>4

\* A request adds a page, or writes a live one, which it may kill; it never revives one.
LEMMA ApplyGrows ==
    ASSUME Typed, PagesKnown, NEW req \in Request, Apply(req)
    PROVE  /\ pages' \in [Resources -> Seq(Page)] /\ best' \in [Resources -> States]
           /\ \A res \in Resources : best[res] <= best'[res] /\ PagesGrow(res)
           /\ PagesKnown'
<1>1. req.res \in Resources /\ req.n \in States /\ req.n \in Nat
  BY ProjectionAssumption DEF Request, States
<1>2. /\ best' \in [Resources -> States] /\ \A res \in Resources : best[res] <= best'[res]
      /\ \A res \in Resources : best[res] \in Nat /\ best'[res] \in Nat
  BY ApplyBest, ProjectionAssumption DEF Typed, States
<1>3. \A res \in Resources :
         /\ pages[res] \in Seq(Page) /\ Len(pages[res]) \in Nat
         /\ DOMAIN pages[res] = 1..Len(pages[res])
         /\ \A k \in 1..Len(pages[res]) : pages[res][k].shows \in Nat /\ pages[res][k].shows <= best[res]
  <2> TAKE res \in Resources
  <2>1. pages[res] \in Seq(Page)  BY DEF Typed
  <2>2. \A k \in 1..Len(pages[res]) : pages[res][k] \in Page  BY <2>1, ElementOfSeq
  <2>3. \A page \in Page : page.shows \in Nat  BY ProjectionAssumption DEF States, Page
  <2>4. DOMAIN pages[res] = 1..Len(pages[res]) /\ Len(pages[res]) \in Nat  BY <2>1
  <2>5. \A k \in 1..Len(pages[res]) : pages[res][k].shows <= best[res]  BY <2>4 DEF PagesKnown
  <2> QED  BY <2>1, <2>2, <2>3, <2>4, <2>5
<1>4. CASE req.page = 0
  <2>1. /\ pages' = [pages EXCEPT ![req.res] = Append(pages[req.res], NewPage(req))]
        /\ pages' \in [Resources -> Seq(Page)]
        /\ Len(pages'[req.res]) = Len(pages[req.res]) + 1
        /\ \A k \in 1..Len(pages[req.res]) : pages'[req.res][k] = pages[req.res][k]
        /\ pages'[req.res][Len(pages[req.res]) + 1] = NewPage(req)
    BY <1>4, ApplyCreate
  <2>2. \A res \in Resources \ {req.res} : pages'[res] = pages[res]  BY <2>1 DEF Typed
  <2>3. \A res \in Resources : PagesGrow(res)
    <3>1. PagesGrow(req.res)  BY <1>1, <1>3, <2>1 DEF PagesGrow, LastIsKeyed, NewPage
    <3>2. ASSUME NEW res \in Resources, res # req.res PROVE PagesGrow(res)
      BY <1>3, <2>2, <3>2 DEF PagesGrow, LastIsKeyed
    <3> QED  BY <3>1, <3>2
  <2>4. best'[req.res] >= req.n  BY <1>1, <1>2, <1>4, ApplyBest
  <2>5. ASSUME NEW res \in Resources, NEW k \in DOMAIN pages'[res]
        PROVE  pages'[res][k].shows <= best'[res] /\ (res = "event" => pages'[res][k].keyed)
    <3>1. CASE res # req.res
      <4>1. pages'[res] = pages[res]  BY <2>2, <3>1
      <4> QED  BY <1>2, <1>3, <4>1 DEF PagesKnown
    <3>2. CASE res = req.res /\ k \in 1..Len(pages[req.res])
      <4>1. pages'[res][k] = pages[res][k] /\ k \in DOMAIN pages[res]  BY <1>3, <2>1, <3>2
      <4>2. pages[res][k].shows \in Nat /\ pages[res][k].shows <= best[res]  BY <1>3, <3>2
      <4>3. pages[res][k].shows <= best'[res]  BY <1>2, <4>2
      <4>4. res = "event" => pages[res][k].keyed  BY <4>1 DEF PagesKnown
      <4> QED  BY <4>1, <4>3, <4>4
    <3>3. CASE res = req.res /\ k = Len(pages[req.res]) + 1  BY <1>1, <1>2, <2>1, <2>4, <3>3 DEF NewPage
    <3>4. pages'[res] \in Seq(Page)  BY <2>1
    <3>5. k \in 1..Len(pages'[res])  BY <3>4
    <3> QED  BY <1>1, <1>3, <2>1, <3>1, <3>2, <3>3, <3>5
  <2>6. "event" \in Resources  BY DEF Resources
  <2>7. PagesKnown'  BY <2>5, <2>6 DEF PagesKnown
  <2> QED  BY <1>2, <2>1, <2>3, <2>7
<1>5. CASE req.page # 0 /\ req.page \in Live(req.res)
  <2>1. /\ pages' = [pages EXCEPT ![req.res] = [pages[req.res] EXCEPT ![req.page] = NewPage(req)]]
        /\ pages' \in [Resources -> Seq(Page)]
        /\ Len(pages'[req.res]) = Len(pages[req.res])
        /\ \A k \in 1..Len(pages[req.res]) :
              pages'[req.res][k] = IF k = req.page THEN NewPage(req) ELSE pages[req.res][k]
    BY <1>5, ApplyUpdate
  <2>2. \A res \in Resources \ {req.res} : pages'[res] = pages[res]  BY <2>1 DEF Typed
  <2>3. \A res \in Resources : PagesGrow(res)
    <3>1. PagesGrow(req.res)
      <4>1. pages[req.res][req.page].live  BY <1>5 DEF Live
      <4> QED  BY <1>1, <1>3, <2>1, <4>1 DEF PagesGrow, LastIsKeyed, NewPage
    <3>2. ASSUME NEW res \in Resources, res # req.res PROVE PagesGrow(res)
      BY <1>3, <2>2, <3>2 DEF PagesGrow, LastIsKeyed
    <3> QED  BY <3>1, <3>2
  <2>4. best'[req.res] >= req.n  BY <1>1, <1>2, <1>5, ApplyBest
  <2>5. ASSUME NEW res \in Resources, NEW k \in DOMAIN pages'[res]
        PROVE  pages'[res][k].shows <= best'[res] /\ (res = "event" => pages'[res][k].keyed)
    <3>1. CASE res # req.res
      <4>1. pages'[res] = pages[res]  BY <2>2, <3>1
      <4> QED  BY <1>2, <1>3, <4>1 DEF PagesKnown
    <3>2. pages'[res] \in Seq(Page)  BY <2>1
    <3>3. k \in 1..Len(pages'[res])  BY <3>2
    <3>4. CASE res = req.res /\ k # req.page  BY <1>2, <1>3, <2>1, <3>3, <3>4 DEF PagesKnown
    <3>5. CASE res = req.res /\ k = req.page  BY <1>1, <1>2, <2>1, <2>4, <3>3, <3>5 DEF NewPage
    <3> QED  BY <3>1, <3>4, <3>5
  <2>6. "event" \in Resources  BY DEF Resources
  <2>7. PagesKnown'  BY <2>5, <2>6 DEF PagesKnown
  <2> QED  BY <1>2, <2>1, <2>3, <2>7
<1>6. CASE req.page # 0 /\ req.page \notin Live(req.res)
  <2>1. UNCHANGED <<pages, best>>  BY <1>6, ApplyBest
  <2>2. PagesKnown'  BY <2>1 DEF PagesKnown
  <2>3. \A res \in Resources : PagesGrow(res)  BY <1>3, <2>1 DEF PagesGrow, LastIsKeyed
  <2> QED  BY <1>2, <2>1, <2>2, <2>3 DEF Typed
<1> QED  BY <1>4, <1>5, <1>6

-----------------------------------------------------------------------------
(* Steps of the world                                                      *)

LEMMA LandStep == IInv /\ Land => IInv'
<1> SUFFICES ASSUME IInv, Land PROVE IInv'  OBVIOUS
<1>1. PICK req \in lost :
         /\ Apply(req) /\ lost' = lost \ {req} /\ landed' = TRUE
         /\ UNCHANGED <<writerVars, outbox, binding, failures, local, upsets, crashes>>
  BY DEF Land
<1>2. Typed /\ Facts  BY DEF IInv
<1>3. req \in Request  BY <1>2 DEF Typed
<1>4. /\ pages' \in [Resources -> Seq(Page)] /\ best' \in [Resources -> States]
      /\ \A res \in Resources : best[res] <= best'[res] /\ PagesGrow(res)
      /\ PagesKnown'
  BY <1>1, <1>2, <1>3, ApplyGrows DEF Facts
<1>5. Typed'  BY <1>1, <1>2, <1>4 DEF Typed, WriterTypeOK, writerVars, outbox, local
<1>6. Len(changes) \in Nat /\ UNCHANGED <<changes, rows, binding, pc, task, inside>>
  BY <1>1, <1>2 DEF Typed, outbox, local, writerVars
<1>7. Grows  BY <1>4, <1>6 DEF Grows
<1>8. Facts'  BY <1>2, <1>4, <1>5, <1>6, <1>7, FactsStay
<1> QED  BY <1>5, <1>6, <1>7, <1>8, WorldStep

\* Page k is not live any more and otherwise the pages are what they were.
Trashed(res, k) ==
    /\ pages' \in [Resources -> Seq(Page)]
    /\ \A other \in Resources \ {res} : pages'[other] = pages[other]
    /\ Len(pages'[res]) = Len(pages[res])
    /\ \A l \in 1..Len(pages[res]) : l # k => pages'[res][l] = pages[res][l]
    /\ k \in 1..Len(pages[res])
    /\ ~pages'[res][k].live
    /\ pages'[res][k].keyed = pages[res][k].keyed
    /\ pages'[res][k].shows = pages[res][k].shows

LEMMA TrashForm ==
    ASSUME Typed, NEW res \in Resources, NEW k \in Live(res),
           pages' = [pages EXCEPT ![res][k].live = FALSE]
    PROVE  Trashed(res, k)
<1> DEFINE new == [pages[res][k] EXCEPT !.live = FALSE]
<1>1. pages[res] \in Seq(Page)  BY DEF Typed
<1>2. k \in 1..Len(pages[res])  BY <1>1 DEF Live
<1>3. pages[res][k] \in Page  BY <1>1, <1>2, ElementOfSeq
<1>4. /\ new \in Page /\ ~new.live
      /\ new.keyed = pages[res][k].keyed /\ new.shows = pages[res][k].shows
  BY <1>3 DEF Page
<1>5. pages' = [pages EXCEPT ![res] = [pages[res] EXCEPT ![k] = new]]
  OBVIOUS
<1> HIDE DEF new
<1>6. pages'[res] = [pages[res] EXCEPT ![k] = new]  BY <1>5 DEF Typed
<1>7. /\ [pages[res] EXCEPT ![k] = new] \in Seq(Page)
      /\ Len([pages[res] EXCEPT ![k] = new]) = Len(pages[res])
      /\ \A l \in 1..Len(pages[res]) :
            [pages[res] EXCEPT ![k] = new][l] = IF l = k THEN new ELSE pages[res][l]
  BY <1>1, <1>2, <1>4, ExceptSeq
<1>8. pages' \in [Resources -> Seq(Page)] /\ \A other \in Resources \ {res} : pages'[other] = pages[other]
  BY <1>5, <1>7 DEF Typed
<1> QED  BY <1>2, <1>4, <1>6, <1>7, <1>8 DEF Trashed

LEMMA TrashStep == IInv /\ Trash => IInv'
<1> SUFFICES ASSUME IInv, Trash PROVE IInv'  OBVIOUS
<1>0. PICK res \in Resources : \E k \in Live(res) :
         /\ MoreTrouble /\ upsets' = upsets + 1
         /\ pages' = [pages EXCEPT ![res][k].live = FALSE]
         /\ UNCHANGED <<writerVars, outbox, binding, best, lost, failures, landed, local, crashes>>
  BY DEF Trash
<1>1. PICK k \in Live(res) :
         /\ MoreTrouble /\ upsets' = upsets + 1
         /\ pages' = [pages EXCEPT ![res][k].live = FALSE]
         /\ UNCHANGED <<writerVars, outbox, binding, best, lost, failures, landed, local, crashes>>
  BY <1>0
<1>2. Typed /\ Facts  BY DEF IInv
<1>trashed. Trashed(res, k)
  <2>1. pages' = [pages EXCEPT ![res][k].live = FALSE]  BY <1>1
  <2> QED  BY <1>2, <2>1, TrashForm
<1>3. /\ pages' \in [Resources -> Seq(Page)]
      /\ \A other \in Resources \ {res} : pages'[other] = pages[other]
      /\ Len(pages'[res]) = Len(pages[res])
      /\ \A l \in 1..Len(pages[res]) : l # k => pages'[res][l] = pages[res][l]
      /\ k \in 1..Len(pages[res])
      /\ ~pages'[res][k].live /\ pages'[res][k].keyed = pages[res][k].keyed
      /\ pages'[res][k].shows = pages[res][k].shows
  BY <1>trashed DEF Trashed
<1>4. upsets' \in 0..MaxTroubles
  <2>1. failures \in Nat /\ upsets \in Nat /\ crashes \in Nat /\ lapses \in Nat /\ MaxTroubles \in Nat
    BY <1>2, ProjectionAssumption, WritersAssumption DEF Typed, WriterTypeOK
  <2> QED  BY <1>1, <2>1 DEF MoreTrouble
<1>5. Typed'  BY <1>1, <1>2, <1>3, <1>4 DEF Typed, WriterTypeOK, writerVars, outbox, local
<1>6. Len(changes) \in Nat /\ UNCHANGED <<changes, rows, binding, best, pc, task, inside>>
      /\ \A r \in Resources : Len(pages[r]) \in Nat /\ best[r] \in Nat
  BY <1>1, <1>2, ProjectionAssumption DEF Typed, outbox, local, writerVars, States
<1>7. ASSUME NEW r \in Resources PROVE PagesGrow(r)
  <2>1. CASE r # res  BY <1>3, <1>6, <2>1 DEF PagesGrow, LastIsKeyed
  <2>2. CASE r = res  BY <1>3, <1>6, <2>2 DEF PagesGrow, LastIsKeyed
  <2> QED  BY <2>1, <2>2
<1>8. Grows  BY <1>6, <1>7 DEF Grows
<1>9. PagesKnown'
  <2>1. ASSUME NEW r \in Resources, NEW l \in DOMAIN pages'[r]
        PROVE  /\ l \in DOMAIN pages[r] /\ pages'[r][l].shows = pages[r][l].shows
               /\ pages'[r][l].keyed = pages[r][l].keyed
    <3>1. pages'[r] \in Seq(Page) /\ pages[r] \in Seq(Page)  BY <1>2, <1>3 DEF Typed
    <3>2. CASE r # res  BY <1>3, <3>2
    <3>3. CASE r = res  BY <1>3, <3>1, <3>3
    <3> QED  BY <3>2, <3>3
  <2>2. "event" \in Resources  BY DEF Resources
  <2> QED  BY <1>2, <1>6, <2>1, <2>2 DEF Facts, PagesKnown
<1>10. Facts'  BY <1>2, <1>5, <1>6, <1>8, <1>9, FactsStay
<1> QED  BY <1>5, <1>6, <1>8, <1>10, WorldStep

LEMMA ChangeStep == IInv /\ Change => IInv'
<1> SUFFICES ASSUME IInv, Change PROVE IInv'  OBVIOUS
<1> DEFINE n == Len(changes) + 1
<1>1. PICK kind \in Kinds :
         /\ changes' = Append(changes, kind)
         /\ rows' = [row \in DOMAIN rows \cup RowsOf(n, kind) |->
                        IF row \in RowsOf(n, kind) THEN "ready" ELSE rows[row]]
  BY DEF Change
<1>2. /\ Len(changes) < MaxChanges /\ ~Cancelled(Len(changes))
      /\ UNCHANGED <<writerVars, binding, remote, local, upsets, crashes>>
  BY DEF Change
<1>3. Typed /\ Facts  BY DEF IInv
<1>4. /\ changes' \in Seq(Kinds) /\ Len(changes') = n
      /\ \A i \in 1..Len(changes) : changes'[i] = changes[i]
      /\ changes'[n] = kind /\ Len(changes) \in Nat \ {0}
  <2>1. changes \in Seq(Kinds) /\ Len(changes) \in 1..MaxChanges  BY <1>3 DEF Typed
  <2> QED  BY <1>1, <2>1, AppendProperties
<1>5. rows' \in [DOMAIN rows' -> Statuses]
  <2>1. \A row \in DOMAIN rows : rows[row] \in Statuses  BY <1>3 DEF Typed
  <2> QED  BY <1>1, <2>1 DEF Statuses
<1>6. Typed'
  <2>1. n \in 1..MaxChanges  BY <1>2, <1>4, ProjectionAssumption
  <2> QED  BY <1>2, <1>3, <1>4, <1>5, <2>1 DEF Typed, WriterTypeOK, writerVars, remote, local
<1>7. UNCHANGED <<binding, pages, best, pc, task, inside>>
      /\ \A r \in Resources : Len(pages[r]) \in Nat /\ best[r] \in Nat
  BY <1>2, <1>3, ProjectionAssumption DEF Typed, remote, local, writerVars, States
<1>8. Grows
  <2>1. \A r \in Resources : best[r] <= best'[r] /\ PagesGrow(r)  BY <1>7 DEF PagesGrow, LastIsKeyed
  <2>2. DOMAIN rows \subseteq DOMAIN rows'  BY <1>1
  <2> QED  BY <1>2, <1>4, <2>1, <2>2 DEF Grows
<1>9. History'
  <2>1. changes[Len(changes)] # "CANCELLED"  BY <1>2, <1>4 DEF Cancelled
  <2>2. ASSUME NEW i \in 1..Len(changes'), changes'[i] = "CANCELLED" PROVE i = Len(changes')
    <3>1. CASE i \in 1..Len(changes)
      BY <1>3, <1>4, <2>1, <2>2, <3>1 DEF Facts, History
    <3>2. CASE i = n  BY <1>4, <3>2
    <3> QED  BY <1>4, <3>1, <3>2
  <2>3. changes'[1] = "INGESTED"  BY <1>3, <1>4 DEF Facts, History
  <2> QED  BY <2>2, <2>3 DEF History
<1>10. RowsKnown'
  <2>1. DOMAIN changes = 1..Len(changes) /\ DOMAIN changes' = 1..n
    BY <1>3, <1>4 DEF Typed
  <2>2. DOMAIN changes' = DOMAIN changes \cup {n}  BY <1>4, <2>1
  <2>3. \A i \in DOMAIN changes : RowsOf(i, changes'[i]) = RowsOf(i, changes[i])  BY <1>4, <2>1
  <2>4. UNION {RowsOf(i, changes'[i]) : i \in DOMAIN changes'}
          = (UNION {RowsOf(i, changes[i]) : i \in DOMAIN changes}) \cup RowsOf(n, kind)
    BY <1>4, <2>2, <2>3
  <2>5. DOMAIN rows' = DOMAIN rows \cup RowsOf(n, kind)  BY <1>1
  <2> QED  BY <1>3, <2>4, <2>5 DEF Facts, RowsKnown
<1>11. BoundIsKeyed' /\ PagesKnown'  BY <1>3, <1>7 DEF Facts, BoundIsKeyed, PagesKnown
<1>12. ReceiptsKnown'
  <2>1. ASSUME NEW row \in DOMAIN rows', rows'[row] = "done"
        PROVE  row \in DOMAIN rows /\ rows[row] = "done"
    BY <1>1, <2>1
  <2>2. ASSUME NEW row \in DOMAIN rows', rows'[row] = "done"
        PROVE  \A i \in DOMAIN ResourcesOf(row)' : Announced(row, ResourcesOf(row)[i])'
    BY <1>3, <1>6, <1>8, <2>1, <2>2, ReceiptsStay DEF Facts
  <2> QED  BY <2>2 DEF ReceiptsKnown
<1>13. Facts'  BY <1>9, <1>10, <1>11, <1>12 DEF Facts
<1> QED  BY <1>6, <1>7, <1>8, <1>13, WorldStep

LEMMA LapseStep == IInv /\ LeaseLapse => IInv'
<1> SUFFICES ASSUME IInv, LeaseLapse PROVE IInv'  OBVIOUS
<1>1. Typed /\ Facts  BY DEF IInv
<1>2. Lapse /\ UNCHANGED <<outbox, binding, remote, local, upsets, crashes>>  BY DEF LeaseLapse
<1>3. UNCHANGED <<changes, rows, binding, pages, best, pc, task, inside>>
  BY <1>2 DEF Lapse, outbox, remote, local
<1>4. WriterTypeOK'  BY <1>1, <1>2, WritersAssumption DEF Lapse, Typed, WriterTypeOK
<1>5. Typed'  BY <1>1, <1>2, <1>4 DEF Typed, outbox, remote, local
<1>6. Grows  BY <1>1, <1>3, StillGrows
<1>7. PagesKnown'  BY <1>1, <1>3 DEF Facts, PagesKnown
<1>8. Facts'  BY <1>1, <1>3, <1>5, <1>6, <1>7, FactsStay
<1> QED  BY <1>3, <1>5, <1>6, <1>8, WorldStep

-----------------------------------------------------------------------------
(* Where a process is                                                      *)

Others(p) == \A q \in Writers \ {p} : pc'[q] = pc[q] /\ task'[q] = task[q]

LEMMA GotoForm ==
    ASSUME Typed, NEW p \in Writers, NEW l \in Positions, Goto(p, l)
    PROVE  /\ pc' \in [Writers -> Positions] /\ task' \in [Writers -> Tasks] /\ Others(p)
           /\ pc'[p] = l /\ task'[p] = task[p]
BY DEF Typed, Goto, Others

LEMMA GotoWithForm ==
    ASSUME Typed, NEW p \in Writers, NEW l \in Positions, NEW page \in Nat, GotoWith(p, l, page)
    PROVE  /\ pc' \in [Writers -> Positions] /\ task' \in [Writers -> Tasks] /\ Others(p)
           /\ pc'[p] = l
           /\ task'[p].todo = task[p].todo /\ task'[p].at = task[p].at
           /\ task'[p].want = task[p].want /\ task'[p].bound = task[p].bound
           /\ task'[p].page = page
<1>1. task[p] \in Tasks  BY DEF Typed
<1>2. /\ [task[p] EXCEPT !.page = page] \in Tasks
      /\ [task[p] EXCEPT !.page = page].todo = task[p].todo
      /\ [task[p] EXCEPT !.page = page].at = task[p].at
      /\ [task[p] EXCEPT !.page = page].want = task[p].want
      /\ [task[p] EXCEPT !.page = page].bound = task[p].bound
      /\ [task[p] EXCEPT !.page = page].page = page
  BY <1>1 DEF Tasks
<1>3. task' = [task EXCEPT ![p] = [task[p] EXCEPT !.page = page]]  BY DEF GotoWith
<1>4. task'[p] = [task[p] EXCEPT !.page = page] /\ task' \in [Writers -> Tasks]
  BY <1>2, <1>3 DEF Typed
<1> QED  BY <1>2, <1>3, <1>4 DEF Typed, GotoWith, Others

LEMMA HeardForm ==
    ASSUME Typed, NEW p \in Writers, NEW heard \in BOOLEAN, Heard(p, heard)
    PROVE  /\ pc' \in [Writers -> Positions] /\ task' \in [Writers -> Tasks] /\ Others(p)
           /\ pc'[p] = "check"
           /\ task'[p].todo = task[p].todo /\ task'[p].at = task[p].at
           /\ task'[p].want = task[p].want /\ task'[p].bound = task[p].bound
           /\ task'[p].page = task[p].page /\ task'[p].heard = heard
<1>1. task[p] \in Tasks  BY DEF Typed
<1>2. /\ [task[p] EXCEPT !.heard = heard] \in Tasks
      /\ [task[p] EXCEPT !.heard = heard].todo = task[p].todo
      /\ [task[p] EXCEPT !.heard = heard].at = task[p].at
      /\ [task[p] EXCEPT !.heard = heard].want = task[p].want
      /\ [task[p] EXCEPT !.heard = heard].bound = task[p].bound
      /\ [task[p] EXCEPT !.heard = heard].page = task[p].page
      /\ [task[p] EXCEPT !.heard = heard].heard = heard
  BY <1>1 DEF Tasks
<1>3. task' = [task EXCEPT ![p] = [task[p] EXCEPT !.heard = heard]]  BY DEF Heard
<1>4. task'[p] = [task[p] EXCEPT !.heard = heard] /\ task' \in [Writers -> Tasks]
  BY <1>2, <1>3 DEF Typed
<1>5. pc' = [pc EXCEPT ![p] = "check"] /\ "check" \in Positions  BY DEF Heard, Positions
<1> QED  BY <1>2, <1>3, <1>4, <1>5 DEF Typed, Others

ReadAs(p, want, bound) ==
    /\ task' = [task EXCEPT ![p].want = want, ![p].bound = bound]
    /\ pc' = [pc EXCEPT ![p] = "look"]

LEMMA ReadForm ==
    ASSUME Typed, NEW p \in Writers, NEW want \in States, NEW bound \in Nat, ReadAs(p, want, bound)
    PROVE  /\ pc' \in [Writers -> Positions] /\ task' \in [Writers -> Tasks] /\ Others(p)
           /\ pc'[p] = "look"
           /\ task'[p].todo = task[p].todo /\ task'[p].at = task[p].at
           /\ task'[p].want = want /\ task'[p].bound = bound
<1> DEFINE t == [[task[p] EXCEPT !.want = want] EXCEPT !.bound = bound]
<1>1. task[p] \in Tasks  BY DEF Typed
<1>2. /\ [task[p] EXCEPT !.want = want] \in Tasks
      /\ [task[p] EXCEPT !.want = want].todo = task[p].todo
      /\ [task[p] EXCEPT !.want = want].at = task[p].at
      /\ [task[p] EXCEPT !.want = want].want = want
  BY <1>1 DEF Tasks
<1>3. t \in Tasks /\ t.todo = task[p].todo /\ t.at = task[p].at /\ t.want = want /\ t.bound = bound
  BY <1>2 DEF Tasks
<1>4. task' = [task EXCEPT ![p] = t]
  <2>1. task' = [[task EXCEPT ![p] = [task[p] EXCEPT !.want = want]] EXCEPT ![p] =
                   [[task EXCEPT ![p] = [task[p] EXCEPT !.want = want]][p] EXCEPT !.bound = bound]]
    BY DEF ReadAs
  <2> QED  BY <2>1 DEF Typed
<1> HIDE DEF t
<1>5. task'[p] = t /\ task' \in [Writers -> Tasks]  BY <1>3, <1>4 DEF Typed
<1>6. "look" \in Positions /\ pc' = [pc EXCEPT ![p] = "look"]  BY DEF Positions, ReadAs
<1> QED  BY <1>3, <1>4, <1>5, <1>6 DEF Typed, Others

LEMMA TaskForm ==
    ASSUME NEW todo \in SUBSET RowIds, NEW i \in 1..2
    PROVE  TaskAt(todo, i) \in Tasks /\ TaskAt(todo, i).todo = todo /\ TaskAt(todo, i).at = i
BY ProjectionAssumption DEF TaskAt, Tasks, States

LEMMA BeginForm ==
    ASSUME Typed, NEW p \in Writers, NEW todo \in SUBSET RowIds, Begin(p, todo)
    PROVE  /\ pc' \in [Writers -> Positions] /\ task' \in [Writers -> Tasks] /\ Others(p)
           /\ pc'[p] = "read" /\ task'[p].todo = todo /\ task'[p].at = 1
<1>1. TaskAt(todo, 1) \in Tasks /\ TaskAt(todo, 1).todo = todo /\ TaskAt(todo, 1).at = 1
  BY TaskForm
<1>2. task' = [task EXCEPT ![p] = TaskAt(todo, 1)]  BY DEF Begin
<1>3. task'[p] = TaskAt(todo, 1) /\ task' \in [Writers -> Tasks]
  BY <1>1, <1>2 DEF Typed
<1>4. pc' = [pc EXCEPT ![p] = "read"] /\ "read" \in Positions  BY DEF Begin, Positions
<1> QED  BY <1>1, <1>2, <1>3, <1>4 DEF Typed, Others

LEMMA IdleForm ==
    ASSUME Typed, NEW p \in Writers, Idle(p)
    PROVE  /\ pc' \in [Writers -> Positions] /\ task' \in [Writers -> Tasks] /\ Others(p)
           /\ pc'[p] = "idle"
<1>1. NoTask \in Tasks  BY TaskForm DEF NoTask
<1>2. "idle" \in Positions  BY DEF Positions
<1> QED  BY <1>1, <1>2 DEF Typed, Idle, Others

LEMMA ScopeForm ==
    ASSUME WriterTypeOK, NEW p \in Writers, Exit(p) \/ Die(p) \/ Enter(p) \/ Proceed(p)
    PROVE  /\ WriterTypeOK' /\ \A q \in Writers \ {p} : q \in inside => q \in inside'
           /\ Enter(p) => p \in inside'
<1>1. CASE Exit(p)  BY <1>1 DEF WriterTypeOK, Exit, Enter
<1>2. CASE Die(p)  BY <1>2 DEF WriterTypeOK, Die, Enter
<1>3. CASE Enter(p)  BY <1>3 DEF WriterTypeOK, Enter
<1>4. CASE Proceed(p)  BY <1>4 DEF WriterTypeOK, Proceed, Enter
<1> QED  BY <1>1, <1>2, <1>3, <1>4

-----------------------------------------------------------------------------
(* Steps of a process that change nothing but its place                    *)

LEMMA LocalStep ==
    ASSUME IInv, NEW p \in Writers,
           pc' \in [Writers -> Positions], task' \in [Writers -> Tasks], Others(p),
           Exit(p) \/ Die(p) \/ Enter(p) \/ Proceed(p),
           UNCHANGED <<changes, binding, remote, upsets>>,
           crashes' \in 0..MaxTroubles,
           rows' = rows, Knows(p)'
    PROVE  IInv'
<1>1. Typed /\ Facts  BY DEF IInv
<1>2. WriterTypeOK' /\ \A q \in Writers \ {p} : q \in inside => q \in inside'
  BY <1>1, ScopeForm DEF Typed
<1>3. Typed'  BY <1>1, <1>2 DEF Typed, remote
<1>4. UNCHANGED <<changes, rows, binding, pages, best>>  BY DEF remote
<1>5. Grows  BY <1>1, <1>4, StillGrows
<1>6. PagesKnown'  BY <1>1, <1>4 DEF Facts, PagesKnown
<1>7. Facts'  BY <1>1, <1>3, <1>4, <1>5, <1>6, FactsStay
<1>8. Own(p)  BY <1>2 DEF Own, Others
<1> QED  BY <1>3, <1>5, <1>7, <1>8, OwnStep

LEMMA FailStep ==
    ASSUME IInv, NEW p \in Writers, Fail(p), UNCHANGED <<outbox, binding, remote, upsets, crashes>>
    PROVE  IInv'
<1>1. Typed  BY DEF IInv
<1>2. Exit(p) /\ Idle(p)  BY DEF Fail
<1>3. /\ pc' \in [Writers -> Positions] /\ task' \in [Writers -> Tasks] /\ Others(p)
      /\ pc'[p] = "idle"
  BY <1>1, <1>2, IdleForm
<1>4. Knows(p)'  BY <1>3, IdleKnows
<1> QED  BY <1>1, <1>2, <1>3, <1>4, LocalStep DEF Typed, outbox

LEMMA CrashStep == ASSUME IInv, NEW p \in Writers, Crash(p) PROVE IInv'
<1>1. Typed  BY DEF IInv
<1>2. Die(p) /\ Idle(p) /\ MoreTrouble /\ crashes' = crashes + 1
      /\ UNCHANGED <<outbox, binding, remote, upsets>>
  BY DEF Crash
<1>3. /\ pc' \in [Writers -> Positions] /\ task' \in [Writers -> Tasks] /\ Others(p)
      /\ pc'[p] = "idle"
  BY <1>1, <1>2, IdleForm
<1>4. crashes' \in 0..MaxTroubles
  <2>1. failures \in Nat /\ upsets \in Nat /\ crashes \in Nat /\ lapses \in Nat /\ MaxTroubles \in Nat
    BY <1>1, ProjectionAssumption, WritersAssumption DEF Typed, WriterTypeOK
  <2> QED  BY <1>2, <2>1 DEF MoreTrouble
<1>5. Knows(p)'  BY <1>3, IdleKnows
<1> QED  BY <1>2, <1>3, <1>4, <1>5, LocalStep DEF outbox

\* A process that begins a run knows where it is.
LEMMA BeginKnows ==
    ASSUME Typed, RowsKnown, NEW p \in Writers, NEW todo, todo # {}, todo \subseteq DOMAIN rows,
           pc'[p] = "read", task'[p].todo = todo, task'[p].at = 1, p \in inside',
           changes' = changes, DOMAIN rows' = DOMAIN rows
    PROVE  Knows(p)'
<1>1. \A row \in todo : row[2] \in {"NOTION", "CALENDAR"}  BY RowForm
<1>2. InWork(todo) \in todo  BY <1>1, RowInWork
<1>3. Row(p)' = InWork(todo)  BY DEF Row
<1>4. ResourcesOf(Row(p))' = ResourcesOf(InWork(todo))  BY <1>3 DEF ResourcesOf
<1>5. 1 \in DOMAIN ResourcesOf(InWork(todo))  BY <1>2, ResourcesForm
<1>6. AtWork(p)'  BY <1>4, <1>5 DEF AtWork
<1> QED  BY <1>6 DEF Knows, HasRead, HasPage, HasHeard, HasWritten, HasAll

\* A step to another place of the same resource.
LEMMA StillAtWork ==
    ASSUME Typed, RowsKnown, NEW p \in Writers, AtWork(p), pc[p] # "idle",
           UNCHANGED <<changes, rows, best>>, p \in inside',
           task'[p].todo = task[p].todo, task'[p].at = task[p].at
    PROVE  /\ AtWork(p)' /\ Row(p)' = Row(p) /\ Res(p)' = Res(p)
           /\ ResourcesOf(Row(p))' = ResourcesOf(Row(p))
<1>1. Row(p)' = Row(p)  BY DEF Row
<1>2. ResourcesOf(Row(p))' = ResourcesOf(Row(p))  BY <1>1 DEF ResourcesOf
<1>3. Res(p)' = Res(p)  BY <1>2 DEF Res
<1>4. AtWork(p)'  BY <1>1, <1>2 DEF AtWork, Announced, Cancelled
<1> QED  BY <1>1, <1>2, <1>3, <1>4

LEMMA StillRead ==
    ASSUME Typed, RowsKnown, NEW p \in Writers, AtWork(p), pc[p] # "idle",
           pc[p] \in {"look", "send", "check", "bind"}, HasRead(p),
           UNCHANGED <<changes, rows, best>>, p \in inside', pages' = pages,
           task'[p].todo = task[p].todo, task'[p].at = task[p].at,
           task'[p].want = task[p].want, task'[p].bound = task[p].bound
    PROVE  HasRead(p)' /\ Retiring(p)' = Retiring(p)
<1>1. Row(p)' = Row(p) /\ Res(p)' = Res(p)  BY StillAtWork
<1>2. HasRead(p)'  BY <1>1 DEF HasRead, Touches
<1>3. Retiring(p)' = Retiring(p)  BY <1>1 DEF Retiring, Cancelled
<1> QED  BY <1>2, <1>3

LEMMA FoundIsLive ==
    ASSUME NEW res \in Resources, NEW n
    PROVE  Found(res, n) \subseteq Live(res)
BY DEF Found, Keyed, Resources

-----------------------------------------------------------------------------
(* Runs begin                                                              *)

LEMMA RowsStep ==
    ASSUME IInv, NEW p \in Writers,
           pc' \in [Writers -> Positions], task' \in [Writers -> Tasks], Others(p),
           Exit(p) \/ Enter(p) \/ Proceed(p),
           UNCHANGED <<changes, binding, remote, upsets, crashes>>,
           rows' \in [DOMAIN rows -> Statuses],
           \A row \in DOMAIN rows : rows'[row] = "done" =>
               \/ rows[row] = "done"
               \/ \A i \in DOMAIN ResourcesOf(row) : Announced(row, ResourcesOf(row)[i]),
           Knows(p)'
    PROVE  IInv'
<1>1. Typed /\ Facts  BY DEF IInv
<1>2. WriterTypeOK' /\ \A q \in Writers \ {p} : q \in inside => q \in inside'
  BY <1>1, ScopeForm DEF Typed
<1>3. DOMAIN rows' = DOMAIN rows  OBVIOUS
<1>4. Typed'  BY <1>1, <1>2, <1>3 DEF Typed, remote
<1>5. UNCHANGED <<changes, binding, pages, best>>  BY DEF remote
<1>6. Grows  BY <1>1, <1>3, <1>5, StillGrows
<1>7. History' /\ RowsKnown' /\ BoundIsKeyed' /\ PagesKnown'
  BY <1>1, <1>3, <1>5 DEF Facts, History, RowsKnown, BoundIsKeyed, PagesKnown
<1>8. ReceiptsKnown'
  <2>1. ASSUME NEW row \in DOMAIN rows, rows'[row] = "done"
        PROVE  \A i \in DOMAIN ResourcesOf(row) : Announced(row, ResourcesOf(row)[i])
    BY <1>1, <2>1 DEF Facts, ReceiptsKnown
  <2>2. \A row \in DOMAIN rows : ResourcesOf(row)' = ResourcesOf(row)  BY <1>5 DEF ResourcesOf
  <2> QED  BY <1>3, <1>5, <2>1, <2>2 DEF ReceiptsKnown, Announced, Cancelled
<1>9. Facts'  BY <1>7, <1>8 DEF Facts
<1>10. Own(p)  BY <1>2 DEF Own, Others
<1> QED  BY <1>4, <1>6, <1>9, <1>10, OwnStep

LEMMA TakeStep == IInv /\ Take => IInv'
<1> SUFFICES ASSUME IInv, Take PROVE IInv'  OBVIOUS
<1>1. PICK row \in DOMAIN rows :
         /\ rows[row] = "ready" /\ rows' = [rows EXCEPT ![row] = "pending"]
         /\ Begin(Worker, {row})
  BY DEF Take
<1>2. Enter(Worker) /\ UNCHANGED <<changes, binding, remote, upsets, crashes>>  BY DEF Take
<1>3. Typed /\ Facts  BY DEF IInv
<1>4. Worker \in Writers  BY ProjectionAssumption
<1>5. {row} \in SUBSET RowIds  BY <1>3, RowForm DEF Facts
<1>6. /\ pc' \in [Writers -> Positions] /\ task' \in [Writers -> Tasks] /\ Others(Worker)
      /\ pc'[Worker] = "read" /\ task'[Worker].todo = {row} /\ task'[Worker].at = 1
  BY <1>1, <1>3, <1>4, <1>5, BeginForm
<1>7. rows' \in [DOMAIN rows -> Statuses] /\ \A r \in DOMAIN rows : rows'[r] = "done" => rows[r] = "done"
  BY <1>1, <1>3 DEF Typed, Statuses
<1>8. Worker \in inside'  BY <1>2 DEF Enter
<1>9. Knows(Worker)'
  <2>1. DOMAIN rows' = DOMAIN rows  BY <1>7
  <2> QED  BY <1>2, <1>3, <1>4, <1>6, <1>8, <2>1, BeginKnows DEF Facts
<1> QED  BY <1>2, <1>4, <1>6, <1>7, <1>9, RowsStep

LEMMA ReconcileStep == IInv /\ Reconcile => IInv'
<1> SUFFICES ASSUME IInv, Reconcile PROVE IInv'  OBVIOUS
<1> DEFINE todo == {row \in First : rows[row] = "pending"}
<1>1. /\ todo # {} /\ Begin(Operator, todo) /\ Enter(Operator)
      /\ UNCHANGED <<outbox, binding, remote, upsets, crashes>>
  BY DEF Reconcile
<1>2. Typed /\ Facts  BY DEF IInv
<1>3. Operator \in Writers  BY ProjectionAssumption
<1>4. First \subseteq DOMAIN rows
  <2>1. 1 \in 1..Len(changes)  BY <1>2 DEF Typed
  <2> QED  BY <1>2, <2>1, RowsAre DEF First, Facts, History
<1>5. todo \in SUBSET RowIds /\ todo \subseteq DOMAIN rows  BY <1>2, <1>4, RowForm DEF Facts
<1> HIDE DEF todo
<1>6. /\ pc' \in [Writers -> Positions] /\ task' \in [Writers -> Tasks] /\ Others(Operator)
      /\ pc'[Operator] = "read" /\ task'[Operator].todo = todo /\ task'[Operator].at = 1
  BY <1>1, <1>2, <1>3, <1>5, BeginForm
<1>7. Operator \in inside'  BY <1>1 DEF Enter
<1>8. Knows(Operator)'  BY <1>1, <1>2, <1>3, <1>5, <1>6, <1>7, BeginKnows DEF Facts, outbox
<1> QED  BY <1>1, <1>2, <1>3, <1>6, <1>8, LocalStep DEF outbox, Typed

-----------------------------------------------------------------------------
(* Reading and looking                                                     *)

LEMMA ReadStep == ASSUME IInv, NEW p \in Writers, Read(p) PROVE IInv'
<1>1. /\ pc[p] = "read" /\ pc' = [pc EXCEPT ![p] = "look"]
      /\ task' = [task EXCEPT ![p].want = InPostgres(Res(p)), ![p].bound = binding[Res(p)]]
      /\ Proceed(p) /\ UNCHANGED <<outbox, binding, remote, upsets, crashes>>
  BY DEF Read
<1>2. Typed /\ Facts /\ AtWork(p)  BY DEF IInv, Knows
<1>3. /\ Row(p) \in DOMAIN rows /\ Res(p) \in Resources
      /\ Touches(Res(p), changes[Row(p)[1]]) /\ Row(p)[1] \in 1..Len(changes)
  BY <1>1, <1>2, RowOf DEF Facts
<1>4. /\ InPostgres(Res(p)) \in 0..Len(changes) /\ Row(p)[1] <= InPostgres(Res(p))
      /\ InPostgres(Res(p)) # 0 => Touches(Res(p), changes[InPostgres(Res(p))])
  BY <1>2, <1>3, LastTouch
<1>5. binding[Res(p)] \in {0} \cup DOMAIN pages[Res(p)] /\ binding[Res(p)] \in Nat
  BY <1>2, <1>3 DEF Facts, BoundIsKeyed, Typed
<1>6. InPostgres(Res(p)) \in States  BY <1>2, <1>4, ProjectionAssumption DEF Typed, States
<1>7. /\ pc' \in [Writers -> Positions] /\ task' \in [Writers -> Tasks] /\ Others(p)
      /\ pc'[p] = "look"
      /\ task'[p].todo = task[p].todo /\ task'[p].at = task[p].at
      /\ task'[p].want = InPostgres(Res(p)) /\ task'[p].bound = binding[Res(p)]
  <2>1. ReadAs(p, InPostgres(Res(p)), binding[Res(p)])  BY <1>1 DEF ReadAs
  <2> QED  BY <1>2, <1>5, <1>6, <2>1, ReadForm
<1>8. p \in inside /\ UNCHANGED <<changes, rows, pages, best, inside>>
  BY <1>1, <1>2 DEF AtWork, Proceed, outbox, remote
<1>9. AtWork(p)' /\ Row(p)' = Row(p) /\ Res(p)' = Res(p)
  BY <1>1, <1>2, <1>7, <1>8, StillAtWork DEF Facts
<1>10. HasRead(p)'
  <2>1. InPostgres(Res(p)) \in Row(p)[1]..Len(changes) /\ InPostgres(Res(p)) # 0  BY <1>3, <1>4
  <2> QED  BY <1>4, <1>5, <1>7, <1>8, <1>9, <2>1 DEF HasRead, Touches
<1>11. Knows(p)'  BY <1>7, <1>9, <1>10 DEF Knows, HasPage, HasHeard, HasWritten, HasAll
<1> QED  BY <1>1, <1>2, <1>7, <1>11, LocalStep DEF outbox, Typed

\* On to a write of a page, or to the binding of one that is as wanted.
LEMMA ToPage ==
    ASSUME IInv, NEW p \in Writers, pc[p] \in {"look", "check"}, NEW l \in {"send", "bind"},
           NEW k \in {0} \cup DOMAIN pages[Res(p)], GotoWith(p, l, k), Proceed(p),
           UNCHANGED <<outbox, binding, remote, upsets, crashes>>,
           task[p].bound \in {0, k} \/ task[p].bound \notin Live(Res(p)),
           l = "bind" => /\ k # 0 /\ pages[Res(p)][k].keyed
                         /\ Retiring(p) \/ best[Res(p)] >= task[p].want
    PROVE  IInv'
<1>1. Typed /\ Facts /\ AtWork(p) /\ HasRead(p)  BY DEF IInv, Knows
<1>2. Res(p) \in Resources  BY <1>1, RowOf DEF Facts
<1>3. k \in Nat /\ l \in Positions
  <2>1. pages[Res(p)] \in Seq(Page)  BY <1>1, <1>2 DEF Typed
  <2> QED  BY <2>1 DEF Positions
<1>4. /\ pc' \in [Writers -> Positions] /\ task' \in [Writers -> Tasks] /\ Others(p)
      /\ pc'[p] = l
      /\ task'[p].todo = task[p].todo /\ task'[p].at = task[p].at
      /\ task'[p].want = task[p].want /\ task'[p].bound = task[p].bound
      /\ task'[p].page = k
  BY <1>1, <1>3, GotoWithForm
<1>5. p \in inside' /\ UNCHANGED <<changes, rows, pages, best>>
  BY <1>1 DEF AtWork, Proceed, outbox, remote
<1>6. AtWork(p)' /\ Row(p)' = Row(p) /\ Res(p)' = Res(p)
  BY <1>1, <1>4, <1>5, StillAtWork DEF Facts
<1>7. HasRead(p)' /\ Retiring(p)' = Retiring(p)  BY <1>1, <1>4, <1>5, StillRead DEF Facts
<1>8. HasPage(p)'  BY <1>4, <1>5, <1>6 DEF HasPage, Live
<1>9. HasWritten(p)'  BY <1>4, <1>5, <1>6, <1>7 DEF HasWritten
<1>10. Knows(p)'  BY <1>4, <1>6, <1>7, <1>8, <1>9 DEF Knows, HasHeard, HasAll
<1> QED  BY <1>1, <1>4, <1>10, LocalStep DEF outbox, Typed

\* A page in exactly the wanted state has shown it.
LEMMA ExactIsShown ==
    ASSUME Typed, PagesKnown, NEW res \in Resources, NEW k, NEW n \in Nat, Exact(res, k, n)
    PROVE  /\ k \in DOMAIN pages[res] /\ k # 0 /\ pages[res][k].keyed /\ best[res] >= n
           /\ k \in Live(res) /\ k \in Keyed(res) /\ pages[res][k].shows = n
<1>1. k \in DOMAIN pages[res] /\ pages[res][k].keyed /\ pages[res][k].shows = n
      /\ k \in Live(res) /\ k \in Keyed(res)
  BY DEF Exact, Keyed, Live
<1>2. pages[res] \in Seq(Page)  BY DEF Typed
<1>3. k # 0  BY <1>1, <1>2
<1>4. best[res] \in Nat /\ n <= best[res]
  BY <1>1, ProjectionAssumption DEF PagesKnown, Typed, States
<1> QED  BY <1>1, <1>3, <1>4

LEMMA SeenIsLive ==
    ASSUME NEW p \in Writers, Res(p) \in Resources
    PROVE  /\ Seen(p) \subseteq Live(Res(p))
           /\ \A k \in Seen(p) : task[p].bound = k \/ task[p].bound \notin Live(Res(p))
           /\ Seen(p) = {} => task[p].bound \notin Live(Res(p))
BY FoundIsLive DEF Seen

LEMMA LookStep == ASSUME IInv, NEW p \in Writers, Look(p) PROVE IInv'
<1>1. /\ pc[p] = "look" /\ ~Retiring(p)
      /\ UNCHANGED <<outbox, binding, remote, upsets, crashes>>
  BY DEF Look
<1>2. Typed /\ Facts /\ AtWork(p) /\ HasRead(p)  BY DEF IInv, Knows
<1>3. Res(p) \in Resources  BY <1>1, <1>2, RowOf DEF Facts
<1>4. task[p].want \in Nat  BY <1>2, ProjectionAssumption DEF Typed, Tasks, States
<1>5. CASE Seen(p) = {} /\ GotoWith(p, "send", 0) /\ Proceed(p)
  <2>1. task[p].bound \notin Live(Res(p))  BY <1>3, <1>5, SeenIsLive
  <2> QED  BY <1>1, <1>5, <2>1, ToPage
<1>6. CASE /\ \E k \in Seen(p) :
                 GotoWith(p, IF Exact(Res(p), k, task[p].want) THEN "bind" ELSE "send", k)
           /\ Proceed(p)
  <2>1. PICK k \in Seen(p) :
           GotoWith(p, IF Exact(Res(p), k, task[p].want) THEN "bind" ELSE "send", k)
    BY <1>6
  <2>2. k \in DOMAIN pages[Res(p)] /\ (task[p].bound = k \/ task[p].bound \notin Live(Res(p)))
    BY <1>3, SeenIsLive DEF Live
  <2>3. CASE Exact(Res(p), k, task[p].want)
    <3>1. k # 0 /\ pages[Res(p)][k].keyed /\ best[Res(p)] >= task[p].want
      BY <1>2, <1>3, <1>4, <2>3, ExactIsShown DEF Facts
    <3>2. GotoWith(p, "bind", k)  BY <2>1, <2>3
    <3> QED  BY <1>1, <1>6, <2>2, <3>1, <3>2, ToPage
  <2>4. CASE ~Exact(Res(p), k, task[p].want)
    <3>1. GotoWith(p, "send", k)  BY <2>1, <2>4
    <3> QED  BY <1>1, <1>6, <2>2, <3>1, ToPage
  <2> QED  BY <2>3, <2>4
<1>7. CASE Fail(p)  BY <1>1, <1>7, FailStep
<1> QED  BY <1>5, <1>6, <1>7 DEF Look

\* Nothing is left to write of the row.
LEMMA ToFinish ==
    ASSUME IInv, NEW p \in Writers, pc[p] \in {"look", "bind"}, Goto(p, "finish"), Proceed(p),
           UNCHANGED <<outbox, remote, upsets, crashes>>, binding' = binding,
           task[p].at = Len(ResourcesOf(Row(p))),
           Announced(Row(p), Res(p))
    PROVE  Knows(p)' /\ IInv'
<1>1. Typed /\ Facts /\ AtWork(p) /\ HasRead(p)  BY DEF IInv, Knows
<1>2. /\ Res(p) \in Resources /\ DOMAIN ResourcesOf(Row(p)) = 1..Len(ResourcesOf(Row(p)))
      /\ Len(ResourcesOf(Row(p))) \in 1..2
  BY <1>1, RowOf DEF Facts
<1>3. /\ pc' \in [Writers -> Positions] /\ task' \in [Writers -> Tasks] /\ Others(p)
      /\ pc'[p] = "finish" /\ task'[p] = task[p]
  BY <1>1, GotoForm DEF Positions
<1>4. p \in inside' /\ UNCHANGED <<changes, rows, pages, best>>
  BY <1>1 DEF AtWork, Proceed, outbox, remote
<1>5. /\ AtWork(p)' /\ Row(p)' = Row(p) /\ Res(p)' = Res(p)
      /\ ResourcesOf(Row(p))' = ResourcesOf(Row(p))
  BY <1>1, <1>3, <1>4, StillAtWork DEF Facts
<1>6. HasRead(p)'  BY <1>1, <1>3, <1>4, StillRead DEF Facts
<1>7. \A i \in DOMAIN ResourcesOf(Row(p)) : Announced(Row(p), ResourcesOf(Row(p))[i])
  <2>1. \A i \in 1..(task[p].at - 1) : Announced(Row(p), ResourcesOf(Row(p))[i])  BY <1>1 DEF AtWork
  <2>2. Res(p) = ResourcesOf(Row(p))[task[p].at]  BY DEF Res
  <2> QED  BY <1>2, <2>1, <2>2
<1>8. HasAll(p)'  BY <1>4, <1>5, <1>7 DEF HasAll, Announced, Cancelled
<1>9. Knows(p)'  BY <1>3, <1>5, <1>6, <1>8 DEF Knows, HasPage, HasHeard, HasWritten
<1> QED  BY <1>1, <1>3, <1>9, LocalStep DEF outbox, Typed

\* A cancellation that was read is the last change.
LEMMA CancelledIsLast ==
    ASSUME Typed, History, NEW n \in 0..Len(changes), Cancelled(n)
    PROVE  n = Len(changes)
BY DEF Cancelled, History, Typed

\* The row of an event has no other resource.
LEMMA EventIsAlone ==
    ASSUME Typed, RowsKnown, NEW p \in Writers, AtWork(p), pc[p] # "idle", Res(p) = "event"
    PROVE  task[p].at = 1 /\ Len(ResourcesOf(Row(p))) = 1 /\ Row(p)[2] = "CALENDAR"
<1>1. Row(p) \in DOMAIN rows /\ task[p].at \in DOMAIN ResourcesOf(Row(p))  BY RowOf
<1> QED  BY <1>1, ResourcesForm DEF Res

LEMMA LookRetiredStep == ASSUME IInv, NEW p \in Writers, LookRetired(p) PROVE IInv'
<1>1. /\ pc[p] = "look" /\ Retiring(p)
      /\ UNCHANGED <<outbox, binding, remote, upsets, crashes>>
  BY DEF LookRetired
<1>2. Typed /\ Facts /\ AtWork(p) /\ HasRead(p)  BY DEF IInv, Knows
<1>3. Res(p) = "event" /\ Cancelled(task[p].want)  BY <1>1 DEF Retiring
<1>4. task[p].want \in 0..Len(changes)
  <2>1. Row(p)[1] \in 1..Len(changes) /\ task[p].want \in Row(p)[1]..Len(changes)
    BY <1>1, <1>2, RowOf DEF Facts, HasRead
  <2> QED  BY <2>1
<1>5. Cancelled(Len(changes))  BY <1>2, <1>3, <1>4, CancelledIsLast DEF Facts
<1>6. CASE Goto(p, "finish") /\ Proceed(p)
  <2>1. task[p].at = Len(ResourcesOf(Row(p)))  BY <1>1, <1>2, <1>3, EventIsAlone DEF Facts
  <2> QED  BY <1>1, <1>3, <1>5, <1>6, <2>1, ToFinish DEF Announced
<1>7. CASE task[p].bound \in Live("event") /\ GotoWith(p, "send", task[p].bound) /\ Proceed(p)
  <2>1. task[p].bound \in DOMAIN pages[Res(p)]  BY <1>3, <1>7 DEF Live
  <2> QED  BY <1>1, <1>7, <2>1, ToPage
<1>8. CASE Fail(p)  BY <1>1, <1>8, FailStep
<1> QED  BY <1>6, <1>7, <1>8 DEF LookRetired

-----------------------------------------------------------------------------
(* The request and its check                                               *)

Wanted(p) == [res |-> Res(p), page |-> task[p].page, n |-> IF Retiring(p) THEN 0 ELSE task[p].want]

\* Whatever became of the request.
LEMMA SentStep ==
    ASSUME IInv, NEW p \in Writers, pc[p] = "send", NEW heard \in BOOLEAN, Heard(p, heard),
           Proceed(p), UNCHANGED <<outbox, binding, upsets, crashes>>,
           pages' \in [Resources -> Seq(Page)], best' \in [Resources -> States],
           lost' \subseteq Request, failures' \in 0..MaxTroubles, landed' \in BOOLEAN,
           \A res \in Resources : best[res] <= best'[res] /\ PagesGrow(res),
           PagesKnown',
           heard => /\ Retiring(p) \/ best'[Res(p)] >= task[p].want
                    /\ task[p].page = 0 => LastIsKeyed(Res(p))'
    PROVE  IInv'
<1>1. Typed /\ Facts /\ AtWork(p) /\ HasRead(p) /\ HasPage(p)  BY DEF IInv, Knows
<1>2. /\ pc' \in [Writers -> Positions] /\ task' \in [Writers -> Tasks] /\ Others(p)
      /\ pc'[p] = "check"
      /\ task'[p].todo = task[p].todo /\ task'[p].at = task[p].at
      /\ task'[p].want = task[p].want /\ task'[p].bound = task[p].bound
      /\ task'[p].page = task[p].page /\ task'[p].heard = heard
  BY <1>1, HeardForm
<1>3. Typed'  BY <1>1, <1>2 DEF Typed, WriterTypeOK, Proceed, outbox
<1>4. Len(changes) \in Nat /\ UNCHANGED <<changes, rows, binding, inside>>
  BY <1>1 DEF Typed, Proceed, outbox
<1>5. Grows  BY <1>4 DEF Grows
<1>6. Facts'  BY <1>1, <1>3, <1>4, <1>5, FactsStay
<1>7. p \in inside'  BY <1>1, <1>4 DEF AtWork
<1>8. /\ AtWork(p)' /\ HasRead(p)' /\ HasPage(p)'
      /\ Res(p)' = Res(p) /\ Retiring(p)' = Retiring(p)
  BY <1>1, <1>2, <1>3, <1>5, <1>7, PlaceStays DEF Facts
<1>9. HasHeard(p)'
  <2>1. LastIsKeyed(Res(p))' = (Len(pages'[Res(p)]) # 0 /\ pages'[Res(p)][Len(pages'[Res(p)])].keyed)
    BY <1>8 DEF LastIsKeyed
  <2> QED  BY <1>2, <1>8, <2>1 DEF HasHeard
<1>10. Knows(p)'  BY <1>2, <1>8, <1>9 DEF Knows, HasWritten, HasAll
<1>11. Own(p)  BY <1>2, <1>4 DEF Own, Others
<1> QED  BY <1>3, <1>5, <1>6, <1>10, <1>11, OwnStep

LEMMA SendStep == ASSUME IInv, NEW p \in Writers, Send(p) PROVE IInv'
<1>1. /\ pc[p] = "send"
      /\ Proceed(p) /\ UNCHANGED <<outbox, binding, upsets, crashes>>
      /\ \/ UNCHANGED remote /\ Heard(p, FALSE)
         \/ Answered(Wanted(p)) /\ Heard(p, TRUE)
         \/ Raises(Wanted(p)) /\ Heard(p, FALSE)
  BY DEF Send, Wanted
<1>2. Typed /\ Facts /\ AtWork(p) /\ HasRead(p) /\ HasPage(p)  BY DEF IInv, Knows
<1>3. Res(p) \in Resources  BY <1>1, <1>2, RowOf DEF Facts
<1>4. Wanted(p) \in Request
  <2>1. task[p].page \in Nat /\ task[p].want \in States /\ 0 \in States
    BY <1>2, ProjectionAssumption DEF Typed, Tasks, States
  <2> QED  BY <1>3, <2>1 DEF Wanted, Request
<1>5. Wanted(p).res = Res(p) /\ Wanted(p).page = task[p].page
      /\ (~Retiring(p) => Wanted(p).n = task[p].want)
  BY DEF Wanted
<1>6. ASSUME UNCHANGED <<pages, best>>
      PROVE  /\ pages' \in [Resources -> Seq(Page)] /\ best' \in [Resources -> States]
             /\ \A res \in Resources : best[res] <= best'[res] /\ PagesGrow(res)
             /\ PagesKnown'
  <2>1. \A res \in Resources : best[res] \in Nat /\ Len(pages[res]) \in Nat
    BY <1>2, ProjectionAssumption DEF Typed, States
  <2> QED  BY <1>2, <1>6, <2>1 DEF Typed, Facts, PagesGrow, LastIsKeyed, PagesKnown
<1>7. ASSUME Apply(Wanted(p))
      PROVE  /\ pages' \in [Resources -> Seq(Page)] /\ best' \in [Resources -> States]
             /\ \A res \in Resources : best[res] <= best'[res] /\ PagesGrow(res)
             /\ PagesKnown'
  BY <1>2, <1>4, <1>7, ApplyGrows DEF Facts
<1>8. CASE UNCHANGED remote /\ Heard(p, FALSE)
  <2>1. UNCHANGED <<pages, best, lost, failures, landed>>  BY <1>8 DEF remote
  <2>2. lost' \subseteq Request /\ failures' \in 0..MaxTroubles /\ landed' \in BOOLEAN
    BY <1>2, <2>1 DEF Typed
  <2> QED  BY <1>1, <1>6, <1>8, <2>1, <2>2, SentStep
<1>9. CASE Answered(Wanted(p)) /\ Heard(p, TRUE)
  <2>1. /\ Apply(Wanted(p)) /\ UNCHANGED <<lost, failures, landed>>
        /\ task[p].page = 0 \/ task[p].page \in Live(Res(p))
    BY <1>5, <1>9 DEF Answered
  <2>2. lost' \subseteq Request /\ failures' \in 0..MaxTroubles /\ landed' \in BOOLEAN
    BY <1>2, <2>1 DEF Typed
  <2>3. Retiring(p) \/ best'[Res(p)] >= task[p].want
    <3>1. ~Retiring(p) => best'[Res(p)] = IF task[p].want > best[Res(p)] THEN task[p].want ELSE best[Res(p)]
      BY <1>2, <1>3, <1>4, <1>5, <2>1, ApplyBest
    <3>2. task[p].want \in Nat /\ best[Res(p)] \in Nat
      BY <1>2, <1>3, ProjectionAssumption DEF Typed, Tasks, States
    <3> QED  BY <3>1, <3>2
  <2>4. task[p].page = 0 => LastIsKeyed(Res(p))'
    <3> SUFFICES ASSUME task[p].page = 0 PROVE LastIsKeyed(Res(p))'  OBVIOUS
    <3>1. /\ Len(pages'[Res(p)]) = Len(pages[Res(p)]) + 1
          /\ pages'[Res(p)][Len(pages[Res(p)]) + 1] = NewPage(Wanted(p))
      BY <1>2, <1>4, <1>5, <2>1, ApplyCreate
    <3>2. Len(pages[Res(p)]) \in Nat  BY <1>2, <1>3 DEF Typed
    <3>3. Res(p)' = Res(p)
      <4>1. task'[p].todo = task[p].todo /\ task'[p].at = task[p].at  BY <1>2, <1>9, HeardForm
      <4>2. Row(p)' = Row(p) /\ changes' = changes  BY <1>1, <4>1 DEF Row, outbox
      <4> QED  BY <4>1, <4>2 DEF Res, ResourcesOf
    <3> QED  BY <3>1, <3>2, <3>3 DEF LastIsKeyed, NewPage
  <2> QED  BY <1>1, <1>7, <1>9, <2>1, <2>2, <2>3, <2>4, SentStep
<1>10. CASE Raises(Wanted(p)) /\ Heard(p, FALSE)
  <2>1. landed' \in BOOLEAN /\ lost' \subseteq Request
    BY <1>2, <1>4, <1>10 DEF Raises, Typed
  <2>2. failures' \in 0..MaxTroubles
    <3>1. failures \in Nat /\ upsets \in Nat /\ crashes \in Nat /\ lapses \in Nat /\ MaxTroubles \in Nat
          /\ failures \in 0..MaxTroubles
      BY <1>2, ProjectionAssumption, WritersAssumption DEF Typed, WriterTypeOK
    <3> QED  BY <1>10, <3>1 DEF Raises, MoreTrouble
  <2>3. Apply(Wanted(p)) \/ UNCHANGED <<pages, best>>  BY <1>10 DEF Raises
  <2> QED  BY <1>1, <1>6, <1>7, <1>10, <2>1, <2>2, <2>3, SentStep
<1> QED  BY <1>1, <1>8, <1>9, <1>10

LEMMA CheckCreatedStep == ASSUME IInv, NEW p \in Writers, CheckCreated(p) PROVE IInv'
<1>1. /\ pc[p] = "check" /\ task[p].page = 0
      /\ UNCHANGED <<outbox, binding, remote, upsets, crashes>>
  BY DEF CheckCreated
<1>2. Typed /\ Facts /\ AtWork(p) /\ HasRead(p) /\ HasPage(p) /\ HasHeard(p)  BY DEF IInv, Knows
<1>3. Res(p) \in Resources  BY <1>1, <1>2, RowOf DEF Facts
<1>4. task[p].want \in Nat  BY <1>2, ProjectionAssumption DEF Typed, Tasks, States
<1>5. pages[Res(p)] \in Seq(Page)  BY <1>2, <1>3 DEF Typed
<1>6. task[p].bound = 0 \/ task[p].bound \notin Live(Res(p))  BY <1>1, <1>2 DEF HasPage
<1>7. CASE task[p].heard /\ GotoWith(p, "bind", Len(pages[Res(p)])) /\ Proceed(p)
  <2>1. LastIsKeyed(Res(p)) /\ (Retiring(p) \/ best[Res(p)] >= task[p].want)
    BY <1>1, <1>2, <1>7 DEF HasHeard
  <2>2. Len(pages[Res(p)]) \in DOMAIN pages[Res(p)]  BY <1>5, <2>1 DEF LastIsKeyed
  <2> QED  BY <1>1, <1>6, <1>7, <2>1, <2>2, ToPage DEF LastIsKeyed
<1>8. CASE /\ \E k \in Found(Res(p), task[p].want) :
                 Exact(Res(p), k, task[p].want) /\ GotoWith(p, "bind", k)
           /\ Proceed(p)
  <2>1. PICK k : Exact(Res(p), k, task[p].want) /\ GotoWith(p, "bind", k)  BY <1>8
  <2>2. k \in DOMAIN pages[Res(p)] /\ k # 0 /\ pages[Res(p)][k].keyed /\ best[Res(p)] >= task[p].want
    BY <1>2, <1>3, <1>4, <2>1, ExactIsShown DEF Facts
  <2> QED  BY <1>1, <1>6, <1>8, <2>1, <2>2, ToPage
<1>9. CASE Fail(p)  BY <1>1, <1>9, FailStep
<1> QED  BY <1>7, <1>8, <1>9 DEF CheckCreated

LEMMA GotoIsGotoWith ==
    ASSUME Typed, NEW p \in Writers, NEW l, Goto(p, l)
    PROVE  GotoWith(p, l, task[p].page)
<1>1. task[p] \in Tasks  BY DEF Typed
<1>2. [task[p] EXCEPT !.page = task[p].page] = task[p]  BY <1>1 DEF Tasks
<1>3. task = [task EXCEPT ![p] = task[p]]  BY DEF Typed
<1>4. task' = [task EXCEPT ![p] = [task[p] EXCEPT !.page = task[p].page]]  BY <1>2, <1>3 DEF Goto
<1> QED  BY <1>4 DEF GotoWith, Goto

LEMMA CheckWrittenStep == ASSUME IInv, NEW p \in Writers, CheckWritten(p) PROVE IInv'
<1>1. /\ pc[p] = "check" /\ task[p].page # 0
      /\ UNCHANGED <<outbox, binding, remote, upsets, crashes>>
  BY DEF CheckWritten
<1>2. Typed /\ Facts /\ AtWork(p) /\ HasRead(p) /\ HasPage(p)  BY DEF IInv, Knows
<1>3. Res(p) \in Resources  BY <1>1, <1>2, RowOf DEF Facts
<1>4. task[p].want \in Nat  BY <1>2, ProjectionAssumption DEF Typed, Tasks, States
<1>5. task[p].page \in DOMAIN pages[Res(p)]
      /\ (task[p].bound \in {0, task[p].page} \/ task[p].bound \notin Live(Res(p)))
  BY <1>1, <1>2 DEF HasPage
<1>6. CASE Goto(p, "bind") /\ Proceed(p) /\ (Retiring(p) \/ Exact(Res(p), task[p].page, task[p].want))
  <2>1. GotoWith(p, "bind", task[p].page)  BY <1>2, <1>6, GotoIsGotoWith
  <2>2. pages[Res(p)][task[p].page].keyed /\ (Retiring(p) \/ best[Res(p)] >= task[p].want)
    <3>1. CASE Retiring(p)  BY <1>2, <1>5, <3>1 DEF Retiring, Facts, PagesKnown
    <3>2. CASE Exact(Res(p), task[p].page, task[p].want)
      BY <1>2, <1>3, <1>4, <3>2, ExactIsShown DEF Facts
    <3> QED  BY <1>6, <3>1, <3>2
  <2> QED  BY <1>1, <1>5, <1>6, <2>1, <2>2, ToPage
<1>7. CASE Fail(p)  BY <1>1, <1>7, FailStep
<1> QED  BY <1>6, <1>7 DEF CheckWritten

-----------------------------------------------------------------------------
(* The binding and the receipt                                             *)

LEMMA BindStep == ASSUME IInv, NEW p \in Writers, Bind(p) PROVE IInv'
<1>1. pc[p] = "bind" /\ UNCHANGED <<outbox, remote, upsets, crashes>>  BY DEF Bind
<1>2. Typed /\ Facts /\ AtWork(p) /\ HasRead(p) /\ HasPage(p) /\ HasWritten(p)  BY DEF IInv, Knows
<1>3. /\ Res(p) \in Resources /\ Row(p) \in DOMAIN rows /\ Row(p)[1] \in 1..Len(changes)
      /\ DOMAIN ResourcesOf(Row(p)) = 1..Len(ResourcesOf(Row(p)))
      /\ Len(ResourcesOf(Row(p))) \in 1..2 /\ task[p].at \in DOMAIN ResourcesOf(Row(p))
      /\ task[p].at \in 1..2
  BY <1>1, <1>2, RowOf DEF Facts
<1>4. CASE Fail(p) /\ UNCHANGED binding  BY <1>1, <1>4, FailStep
<1> SUFFICES ASSUME /\ binding' = [binding EXCEPT ![Res(p)] = task[p].page]
                    /\ Proceed(p)
                    /\ IF task[p].at < Len(ResourcesOf(Row(p)))
                       THEN /\ pc' = [pc EXCEPT ![p] = "read"]
                            /\ task' = [task EXCEPT ![p] = TaskAt(task[p].todo, task[p].at + 1)]
                       ELSE Goto(p, "finish")
             PROVE  IInv'
  BY <1>4 DEF Bind
<1>5. UNCHANGED <<changes, rows, pages, best, inside>>  BY <1>1 DEF outbox, remote, Proceed
<1>6. task[p].page \in DOMAIN pages[Res(p)] /\ task[p].page \in Nat /\ pages[Res(p)][task[p].page].keyed
  BY <1>1, <1>2 DEF HasPage, HasWritten, Typed, Tasks
<1>7. binding' \in [Resources -> Nat]  BY <1>2, <1>6 DEF Typed
<1>8. BoundIsKeyed'
  <2>1. ASSUME NEW res \in Resources, binding'[res] # 0
        PROVE  binding'[res] \in DOMAIN pages[res] /\ pages[res][binding'[res]].keyed
    <3>1. CASE res = Res(p)
      <4>1. binding'[res] = task[p].page  BY <1>2, <1>3, <3>1 DEF Typed
      <4> QED  BY <1>6, <3>1, <4>1
    <3>2. CASE res # Res(p)
      <4>1. binding'[res] = binding[res]  BY <1>2, <3>2 DEF Typed
      <4> QED  BY <1>2, <2>1, <4>1 DEF Facts, BoundIsKeyed
    <3> QED  BY <3>1, <3>2
  <2> QED  BY <1>5, <2>1 DEF BoundIsKeyed
<1>9. Facts'
  <2>1. ReceiptsKnown'  BY <1>2, <1>5 DEF Facts, ReceiptsKnown, ResourcesOf, Announced, Cancelled
  <2>2. History' /\ RowsKnown' /\ PagesKnown'  BY <1>2, <1>5 DEF Facts, History, RowsKnown, PagesKnown
  <2> QED  BY <1>8, <2>1, <2>2 DEF Facts
<1>10. Grows  BY <1>2, <1>5, StillGrows
<1>11. Announced(Row(p), Res(p))
  <2>1. CASE Retiring(p)
    <3>1. task[p].want \in 0..Len(changes)  BY <1>1, <1>2, <1>3 DEF HasRead
    <3> QED  BY <1>2, <2>1, <3>1, CancelledIsLast DEF Retiring, Facts, Announced
  <2>2. CASE ~Retiring(p)
    <3>1. best[Res(p)] >= task[p].want /\ task[p].want \in Row(p)[1]..Len(changes)
      BY <1>1, <1>2, <2>2 DEF HasWritten, HasRead
    <3>2. best[Res(p)] \in Nat  BY <1>2, <1>3, ProjectionAssumption DEF Typed, States
    <3> QED  BY <1>3, <3>1, <3>2 DEF Announced
  <2> QED  BY <2>1, <2>2
<1>12. CASE /\ task[p].at < Len(ResourcesOf(Row(p)))
            /\ pc' = [pc EXCEPT ![p] = "read"]
            /\ task' = [task EXCEPT ![p] = TaskAt(task[p].todo, task[p].at + 1)]
  <2> DEFINE t == TaskAt(task[p].todo, task[p].at + 1)
  <2>1. task[p].at = 1
    <3>1. task[p].at \in 1..2 /\ Len(ResourcesOf(Row(p))) \in 1..2  BY <1>3
    <3>2. task[p].at < Len(ResourcesOf(Row(p)))  BY <1>12
    <3>3. \A a, b \in 1..2 : a < b => a = 1  OBVIOUS
    <3> QED  BY <3>1, <3>2, <3>3, Zenon
  <2>2. t \in Tasks /\ t.todo = task[p].todo /\ t.at = 2
    <3>1. task[p].todo \in SUBSET RowIds /\ task[p].at + 1 = 2  BY <1>2, <2>1 DEF Typed, Tasks
    <3> QED  BY <3>1, TaskForm
  <2> HIDE DEF t
  <2>3. task' = [task EXCEPT ![p] = t]  BY <1>12 DEF t
  <2>4. /\ pc' \in [Writers -> Positions] /\ task' \in [Writers -> Tasks] /\ Others(p)
        /\ pc'[p] = "read" /\ task'[p] = t
    BY <1>2, <1>12, <2>2, <2>3 DEF Typed, Positions, Others
  <2>5. Typed'  BY <1>1, <1>2, <1>7, <2>4 DEF Typed, WriterTypeOK, Proceed, outbox, remote
  <2>6. AtWork(p)'
    <3>1. Row(p)' = Row(p)  BY <2>2, <2>4 DEF Row
    <3>2. ResourcesOf(Row(p))' = ResourcesOf(Row(p))  BY <1>5, <3>1 DEF ResourcesOf
    <3>3. 2 \in DOMAIN ResourcesOf(Row(p))  BY <1>3, <1>12, <2>1
    <3>4. Announced(Row(p), ResourcesOf(Row(p))[1])  BY <1>11, <2>1 DEF Res
    <3>5. \A i \in 1..(2 - 1) : Announced(Row(p), ResourcesOf(Row(p))[i])  BY <3>4
    <3> QED  BY <1>1, <1>2, <1>5, <2>2, <2>4, <3>1, <3>2, <3>3, <3>5 DEF AtWork, Announced, Cancelled
  <2>7. Knows(p)'  BY <2>4, <2>6 DEF Knows, HasRead, HasPage, HasHeard, HasWritten, HasAll
  <2>8. Own(p)  BY <1>5, <2>4 DEF Own, Others
  <2> QED  BY <1>9, <1>10, <2>5, <2>7, <2>8, OwnStep
<1>13. CASE task[p].at >= Len(ResourcesOf(Row(p))) /\ Goto(p, "finish")
  <2>1. task[p].at = Len(ResourcesOf(Row(p)))  BY <1>3, <1>13
  <2>2. /\ pc' \in [Writers -> Positions] /\ task' \in [Writers -> Tasks] /\ Others(p)
        /\ pc'[p] = "finish" /\ task'[p] = task[p]
    BY <1>2, <1>13, GotoForm DEF Positions
  <2>3. Typed'  BY <1>1, <1>2, <1>7, <2>2 DEF Typed, WriterTypeOK, Proceed, outbox, remote
  <2>4. /\ AtWork(p)' /\ Row(p)' = Row(p) /\ Res(p)' = Res(p)
        /\ ResourcesOf(Row(p))' = ResourcesOf(Row(p))
    BY <1>1, <1>2, <1>5, <2>2, StillAtWork DEF Facts, AtWork
  <2>5. HasRead(p)'  BY <1>1, <1>2, <1>5, <2>2, StillRead DEF Facts, AtWork
  <2>6. \A i \in DOMAIN ResourcesOf(Row(p)) : Announced(Row(p), ResourcesOf(Row(p))[i])
    <3>1. \A i \in 1..(task[p].at - 1) : Announced(Row(p), ResourcesOf(Row(p))[i])
      BY <1>1, <1>2 DEF AtWork
    <3>2. Res(p) = ResourcesOf(Row(p))[task[p].at]  BY DEF Res
    <3> QED  BY <1>3, <1>11, <2>1, <3>1, <3>2
  <2>7. HasAll(p)'  BY <1>5, <2>4, <2>6 DEF HasAll, Announced, Cancelled
  <2>8. Knows(p)'  BY <2>2, <2>4, <2>5, <2>7 DEF Knows, HasPage, HasHeard, HasWritten
  <2>9. Own(p)  BY <1>5, <2>2 DEF Own, Others
  <2> QED  BY <1>9, <1>10, <2>3, <2>8, <2>9, OwnStep
<1> QED  BY <1>3, <1>12, <1>13

LEMMA FinishStep == ASSUME IInv, NEW p \in Writers, Finish(p) PROVE IInv'
<1>1. pc[p] = "finish" /\ UNCHANGED <<changes, binding, remote, upsets, crashes>>  BY DEF Finish
<1>2. Typed /\ Facts /\ AtWork(p) /\ HasAll(p)  BY DEF IInv, Knows
<1>3. Row(p) \in DOMAIN rows  BY <1>1, <1>2, RowOf DEF Facts
<1>4. CASE Fail(p) /\ UNCHANGED rows
  BY <1>1, <1>4, FailStep DEF outbox
<1> DEFINE rest == {row \in task[p].todo \ {Row(p)} : rows[row] = "pending"}
<1>5. CASE /\ rows' = [rows EXCEPT ![Row(p)] = "done"]
           /\ \/ rest = {} /\ Exit(p) /\ Idle(p)
              \/ rest # {} /\ Begin(p, rest) /\ Proceed(p)
  <2>1. rows' \in [DOMAIN rows -> Statuses]  BY <1>2, <1>5 DEF Typed, Statuses
  <2>2. \A row \in DOMAIN rows : rows'[row] = "done" =>
           \/ rows[row] = "done"
           \/ \A i \in DOMAIN ResourcesOf(row) : Announced(row, ResourcesOf(row)[i])
    BY <1>1, <1>2, <1>3, <1>5 DEF HasAll, Typed
  <2>3. CASE Exit(p) /\ Idle(p)
    <3>1. /\ pc' \in [Writers -> Positions] /\ task' \in [Writers -> Tasks] /\ Others(p)
          /\ pc'[p] = "idle"
      BY <1>2, <2>3, IdleForm
    <3>2. Knows(p)'  BY <3>1, IdleKnows
    <3> QED  BY <1>1, <2>1, <2>2, <2>3, <3>1, <3>2, RowsStep
  <2>4. CASE rest # {} /\ Begin(p, rest) /\ Proceed(p)
    <3>1. rest \subseteq DOMAIN rows /\ rest \in SUBSET RowIds
      BY <1>1, <1>2 DEF AtWork, Typed, Tasks
    <3> HIDE DEF rest
    <3>2. /\ pc' \in [Writers -> Positions] /\ task' \in [Writers -> Tasks] /\ Others(p)
          /\ pc'[p] = "read" /\ task'[p].todo = rest /\ task'[p].at = 1
      BY <1>2, <2>4, <3>1, BeginForm
    <3>3. p \in inside'  BY <1>1, <1>2, <2>4 DEF AtWork, Proceed
    <3>4. DOMAIN rows' = DOMAIN rows  BY <2>1
    <3>5. Knows(p)'  BY <1>1, <1>2, <2>4, <3>1, <3>2, <3>3, <3>4, BeginKnows DEF Facts
    <3> QED  BY <1>1, <2>1, <2>2, <2>4, <3>2, <3>5, RowsStep
  <2> QED  BY <1>5, <2>3, <2>4
<1> QED  BY <1>4, <1>5 DEF Finish

-----------------------------------------------------------------------------
(* The invariant                                                           *)

LEMMA InitIInv == Init => IInv
<1> SUFFICES ASSUME Init PROVE IInv  OBVIOUS
<1>1. 0 \in States /\ MaxChanges \in Nat \ {0} /\ MaxTroubles \in Nat /\ Worker \in Writers
  BY ProjectionAssumption DEF States
<1>2. WriterTypeOK  BY WritersAssumption DEF Init, WriterInit, WriterTypeOK
<1>3. changes = <<"INGESTED">> /\ changes \in Seq(Kinds) /\ Len(changes) = 1 /\ changes[1] = "INGESTED"
      /\ DOMAIN changes = {1}
  BY DEF Init, Kinds
<1>4. Legacy \in Page  BY <1>1 DEF Legacy, Page
<1>5. PICK r \in {<< >>, <<Legacy>>}, c \in {<< >>, <<Legacy>>} :
         pages = [reservation |-> r, cleaning |-> c, event |-> << >>]
  BY DEF Init
<1>6. r \in Seq(Page) /\ c \in Seq(Page) /\ << >> \in Seq(Page)
  <2>1. <<Legacy>> \in Seq(Page)  BY <1>4
  <2>2. << >> \in Seq(Page)  BY EmptySeq
  <2> QED  BY <2>1, <2>2
<1>7. pages \in [Resources -> Seq(Page)] /\ pages["reservation"] = r /\ pages["cleaning"] = c
      /\ pages["event"] = << >>
  <2>1. /\ pages["reservation"] = r /\ pages["cleaning"] = c /\ pages["event"] = << >>
        /\ pages = [res \in Resources |-> pages[res]]
    BY <1>5 DEF Resources
  <2>2. \A res \in Resources : pages[res] \in Seq(Page)  BY <1>6, <2>1 DEF Resources
  <2> QED  BY <2>1, <2>2
<1>8. NoTask \in Tasks  BY TaskForm DEF NoTask
<1>9. rows = [row \in RowsOf(1, "INGESTED") |-> "ready"]  BY DEF Init
<1>10. /\ binding = [res \in Resources |-> 0] /\ best = [res \in Resources |-> 0]
       /\ lost = {} /\ failures = 0 /\ landed = FALSE /\ upsets = 0 /\ crashes = 0
       /\ pc = [p \in Writers |-> "idle"] /\ task = [p \in Writers |-> NoTask]
  BY DEF Init
<1>11. Typed
  <2>1. rows \in [DOMAIN rows -> Statuses]  BY <1>9 DEF Statuses
  <2>2. "idle" \in Positions  BY DEF Positions
  <2>3. pc \in [Writers -> Positions] /\ task \in [Writers -> Tasks]  BY <1>8, <1>10, <2>2
  <2>4. binding \in [Resources -> Nat] /\ best \in [Resources -> States]  BY <1>1, <1>10
  <2>5. failures \in 0..MaxTroubles /\ upsets \in 0..MaxTroubles /\ crashes \in 0..MaxTroubles
        /\ Len(changes) \in 1..MaxChanges
    BY <1>1, <1>3, <1>10
  <2>6. lost \subseteq Request /\ landed \in BOOLEAN  BY <1>10
  <2> QED  BY <1>2, <1>3, <1>7, <2>1, <2>3, <2>4, <2>5, <2>6 DEF Typed
<1>12. History  BY <1>3 DEF History
<1>13. RowsKnown
  <2>1. DOMAIN rows = RowsOf(1, "INGESTED")  BY <1>9
  <2>2. UNION {RowsOf(n, changes[n]) : n \in {1}} = RowsOf(1, changes[1])  OBVIOUS
  <2> QED  BY <1>3, <2>1, <2>2 DEF RowsKnown
<1>14. BoundIsKeyed  BY <1>10 DEF BoundIsKeyed
<1>15. PagesKnown
  <2>1. \A res \in Resources : \A k \in DOMAIN pages[res] : pages[res][k] = Legacy
    BY <1>7 DEF Resources
  <2>2. DOMAIN pages["event"] = {}  BY <1>7
  <2> QED  BY <1>10, <2>1, <2>2 DEF PagesKnown, Legacy
<1>16. ReceiptsKnown  BY <1>9 DEF ReceiptsKnown
<1>17. \A p \in Writers : Knows(p)
  BY <1>10 DEF Knows, AtWork, HasRead, HasPage, HasHeard, HasWritten, HasAll
<1> QED  BY <1>11, <1>12, <1>13, <1>14, <1>15, <1>16, <1>17 DEF IInv, Facts

LEMMA StutterStep == IInv /\ UNCHANGED vars => IInv'
<1> SUFFICES ASSUME IInv, UNCHANGED vars PROVE IInv'  OBVIOUS
<1>1. Typed /\ Facts  BY DEF IInv
<1>2. /\ UNCHANGED <<changes, rows, binding, pages, best, pc, task, inside>>
      /\ UNCHANGED <<writerVars, outbox, remote, local, upsets, crashes>>
  BY DEF vars, outbox, remote, local, writerVars
<1>3. Typed'  BY <1>1, <1>2 DEF Typed, WriterTypeOK, writerVars, outbox, remote, local
<1>4. Grows  BY <1>1, <1>2, StillGrows
<1>5. PagesKnown'  BY <1>1, <1>2 DEF Facts, PagesKnown
<1>6. Facts'  BY <1>1, <1>2, <1>3, <1>4, <1>5, FactsStay
<1> QED  BY <1>2, <1>3, <1>4, <1>6, WorldStep

LEMMA NextIInv == IInv /\ [Next]_vars => IInv'
<1> SUFFICES ASSUME IInv, [Next]_vars PROVE IInv'  OBVIOUS
<1>1. ASSUME NEW p \in Writers, Deliver(p) PROVE IInv'
  BY <1>1, ReadStep, LookStep, LookRetiredStep, SendStep, CheckCreatedStep, CheckWrittenStep,
     BindStep, FinishStep
  DEF Deliver
<1>2. ASSUME NEW p \in Writers, Crash(p) PROVE IInv'  BY <1>2, CrashStep
<1> QED  BY <1>1, <1>2, TakeStep, ReconcileStep, ChangeStep, LandStep, TrashStep, LapseStep, StutterStep
         DEF Next

\* The invariant of the projections.
THEOREM Invariant == Spec => []IInv
BY InitIInv, NextIInv, PTL DEF Spec

\* Every state has the form the code gives it: a binding names a page there was, a row
\* belongs to a change, a process at work is in its mutation scope.
THEOREM TypeCorrect == Spec => []TypeOK
<1>1. IInv => TypeOK
  <2> SUFFICES ASSUME IInv PROVE TypeOK  OBVIOUS
  <2>1. Typed /\ Facts /\ \A p \in Writers : AtWork(p)  BY DEF IInv, Knows
  <2>2. \A row \in DOMAIN rows : rows[row] \in {"ready", "pending", "done"}
    BY <2>1 DEF Typed, Statuses
  <2>3. \A res \in Resources : binding[res] \in {0} \cup DOMAIN pages[res]
    BY <2>1 DEF Facts, BoundIsKeyed
  <2>4. \A p \in Writers : pc[p] # "idle" => p \in inside /\ task[p].todo # {}
    BY <2>1 DEF AtWork
  <2> QED  BY <2>1, <2>2, <2>3, <2>4 DEF Typed, TypeOK, Facts, RowsKnown
<1> QED  BY <1>1, Invariant, PTL

\* A receipt is true: what a done row announces was really shown.
THEOREM ReceiptsAreTrue == Spec => []ReceiptIsTrue
<1>1. IInv => ReceiptIsTrue  BY DEF IInv, Facts, ReceiptsKnown, ReceiptIsTrue, Announced
<1> QED  BY <1>1, Invariant, PTL

-----------------------------------------------------------------------------
(* Bindings                                                                *)

OnlyDeadAreReplaced ==
    \A res \in Resources :
        binding[res] # 0 /\ binding'[res] # binding[res] => ~pages[res][binding[res]].live

LEMMA BindReplaces == ASSUME IInv, NEW p \in Writers, Bind(p) PROVE OnlyDeadAreReplaced
<1> SUFFICES ASSUME NEW res \in Resources, binding[res] # 0, binding'[res] # binding[res]
             PROVE  ~pages[res][binding[res]].live
  BY DEF OnlyDeadAreReplaced
<1>1. Typed /\ Facts /\ HasPage(p) /\ AtWork(p)  BY DEF IInv, Knows
<1>2. pc[p] = "bind" /\ Replaceable(p) /\ binding' = [binding EXCEPT ![Res(p)] = task[p].page]
  BY DEF Bind
<1>3. res = Res(p) /\ binding'[res] = task[p].page  BY <1>1, <1>2 DEF Typed
<1>4. binding[res] = task[p].bound /\ task[p].bound \notin {0, task[p].page}
  BY <1>2, <1>3 DEF Replaceable
<1>5. task[p].bound \notin Live(res)  BY <1>1, <1>2, <1>3, <1>4 DEF HasPage
<1>6. binding[res] \in DOMAIN pages[res]  BY <1>1 DEF Facts, BoundIsKeyed
<1> QED  BY <1>4, <1>5, <1>6 DEF Live

\* A binding goes to another page only when its page is gone.
THEOREM BindingsOutlive == Spec => BindingOutlivesStaleWriters
<1>1. IInv /\ [Next]_vars => [OnlyDeadAreReplaced]_vars
  <2> SUFFICES ASSUME IInv, Next PROVE OnlyDeadAreReplaced  OBVIOUS
  <2>1. ASSUME NEW p \in Writers, Bind(p) PROVE OnlyDeadAreReplaced  BY <2>1, BindReplaces
  <2>2. CASE binding' = binding  BY <2>2 DEF OnlyDeadAreReplaced
  <2>3. ASSUME NEW p \in Writers, Deliver(p), ~Bind(p) PROVE binding' = binding
    BY <2>3 DEF Deliver, Read, Look, LookRetired, Send, CheckCreated, CheckWritten, Finish
  <2>4. ASSUME NEW p \in Writers, Crash(p) PROVE binding' = binding  BY <2>4 DEF Crash
  <2>5. Take \/ Reconcile \/ Change \/ Land \/ Trash \/ LeaseLapse => binding' = binding
    BY DEF Take, Reconcile, Change, Land, Trash, LeaseLapse
  <2> QED  BY <2>1, <2>2, <2>3, <2>4, <2>5 DEF Next
<1> QED  BY <1>1, Invariant, PTL DEF Spec, BindingOutlivesStaleWriters, OnlyDeadAreReplaced

-----------------------------------------------------------------------------
(* Undisturbed: what every step leaves as it was                           *)

LEMMA OnlyOne ==
    ASSUME IInv, Held, NEW p \in Writers, NEW q \in Writers, pc[p] # "idle", pc[q] # "idle"
    PROVE  p = q
<1>1. p \in inside /\ q \in inside  BY DEF IInv, Knows, AtWork
<1> QED  BY <1>1 DEF Held

LEMMA IdleInOrder ==
    ASSUME NEW p, pc'[p] = "idle"
    PROVE  InOrder(p)'
BY DEF InOrder, ReadsLatest, PageInOrder, DoneInOrder

\* A step of the one process at work.
LEMMA SoloStep ==
    ASSUME IInv, Undisturbed, NEW p \in Writers, pc[p] # "idle", Others(p),
           Exit(p) \/ Die(p) \/ Proceed(p),
           InOrder(p)', PagesInOrder', RowsInOrder'
    PROVE  Undisturbed'
<1>1. ASSUME NEW q \in Writers \ {p} PROVE InOrder(q)'
  <2>1. pc[q] = "idle"  BY <1>1, OnlyOne DEF Undisturbed
  <2>2. pc'[q] = "idle"  BY <2>1 DEF Others
  <2> QED  BY <2>2, IdleInOrder
<1>2. Held'
  <2>1. p \in inside  BY DEF IInv, Knows, AtWork
  <2>2. \A q \in inside : q = p /\ lease = p  BY <2>1 DEF Undisturbed, Held
  <2>3. CASE Exit(p) \/ Die(p)  BY <2>2, <2>3 DEF Exit, Die, Held
  <2>4. CASE Proceed(p)  BY <2>2, <2>4 DEF Proceed, Held
  <2> QED  BY <2>3, <2>4
<1> QED  BY <1>1, <1>2 DEF Undisturbed

\* A run begins: nobody else is at work.
LEMMA RunStep ==
    ASSUME IInv, IInv', Undisturbed, NEW p \in Writers, Others(p), Enter(p),
           pc'[p] = "read", task'[p].at = 1, PagesInOrder', RowsInOrder'
    PROVE  Undisturbed'
<1>1. inside = {}
  <2>1. lease = Nobody /\ Nobody \notin Writers /\ inside \subseteq Writers
    BY WritersAssumption DEF Enter, IInv, Typed, WriterTypeOK
  <2> QED  BY <2>1 DEF Undisturbed, Held
<1>2. \A q \in Writers : pc[q] = "idle"  BY <1>1 DEF IInv, Knows, AtWork
<1>3. ASSUME NEW q \in Writers \ {p} PROVE InOrder(q)'
  <2>1. pc'[q] = "idle"  BY <1>2 DEF Others
  <2> QED  BY <2>1, IdleInOrder
<1>4. InOrder(p)'
  <2>1. \A i \in 1..(1 - 1) : FALSE  OBVIOUS
  <2> QED  BY <2>1 DEF InOrder, ReadsLatest, PageInOrder, DoneInOrder
<1>5. Held'  BY <1>1 DEF Enter, Held
<1> QED  BY <1>3, <1>4, <1>5 DEF Undisturbed

LEMMA PagesStillInOrder ==
    ASSUME PagesInOrder, UNCHANGED <<changes, pages, best>>
    PROVE  PagesInOrder'
BY DEF PagesInOrder, Dead, Live, Keyed, Cancelled, Touches

LEMMA RowsStillInOrder ==
    ASSUME RowsInOrder, UNCHANGED <<changes, pages, binding>>,
           rows' \in [DOMAIN rows -> Statuses],
           \A row \in DOMAIN rows : rows'[row] = "done" =>
               \/ rows[row] = "done"
               \/ \A i \in DOMAIN ResourcesOf(row) : Delivered(row, ResourcesOf(row)[i])
    PROVE  RowsInOrder'
<1>1. DOMAIN rows' = DOMAIN rows  OBVIOUS
<1>2. \A row : ResourcesOf(row)' = ResourcesOf(row)  BY DEF ResourcesOf
<1>3. \A row \in DOMAIN rows : rows'[row] = "done" =>
         \A i \in DOMAIN ResourcesOf(row) : Delivered(row, ResourcesOf(row)[i])
  BY DEF RowsInOrder
<1>4. ASSUME NEW row \in DOMAIN rows', rows'[row] = "done", NEW i \in DOMAIN ResourcesOf(row)'
      PROVE  Delivered(row, ResourcesOf(row)[i])'
  <2>1. ResourcesOf(row)' = ResourcesOf(row)  BY <1>2
  <2>2. Delivered(row, ResourcesOf(row)[i])  BY <1>1, <1>3, <1>4, <2>1
  <2> QED  BY <2>1, <2>2 DEF Delivered, Live, Keyed, Cancelled
<1> QED  BY <1>4 DEF RowsInOrder

LEMMA StillInOrder ==
    ASSUME Typed, PagesInOrder, RowsInOrder, UNCHANGED <<changes, rows, binding, pages, best>>
    PROVE  PagesInOrder' /\ RowsInOrder'
<1>1. rows' \in [DOMAIN rows -> Statuses]  BY DEF Typed
<1> QED  BY <1>1, PagesStillInOrder, RowsStillInOrder

\* The earlier resources of the row stay delivered.
LEMMA EarlierStay ==
    ASSUME Typed, RowsKnown, NEW p \in Writers, AtWork(p), pc[p] # "idle", DoneInOrder(p),
           UNCHANGED <<changes, pages, binding>>,
           task'[p].todo = task[p].todo, task'[p].at = task[p].at
    PROVE  \A i \in 1..(task'[p].at - 1) : Delivered(Row(p), ResourcesOf(Row(p))[i])'
<1>1. Row(p)' = Row(p)  BY DEF Row
<1>2. ResourcesOf(Row(p))' = ResourcesOf(Row(p))  BY <1>1 DEF ResourcesOf
<1>3. \A i \in 1..(task[p].at - 1) : Delivered(Row(p), ResourcesOf(Row(p))[i])  BY DEF DoneInOrder
<1>4. ASSUME NEW i \in 1..(task[p].at - 1) PROVE Delivered(Row(p), ResourcesOf(Row(p))[i])'
  <2>1. Delivered(Row(p), ResourcesOf(Row(p))[i])  BY <1>3
  <2> QED  BY <1>1, <1>2, <2>1 DEF Delivered, Live, Keyed, Cancelled
<1> QED  BY <1>4

\* The step to another place of the same resource, nothing outside being touched.
LEMMA MoveInOrder ==
    ASSUME IInv, Undisturbed, NEW p \in Writers, pc[p] \in {"look", "send", "check", "bind"},
           UNCHANGED <<changes, rows, binding, pages, best, inside>>,
           pc'[p] \in {"send", "check", "bind"},
           task'[p].todo = task[p].todo, task'[p].at = task[p].at,
           task'[p].want = task[p].want, task'[p].bound = task[p].bound,
           PageInOrder(p)'
    PROVE  InOrder(p)'
<1>1. /\ Typed /\ RowsKnown /\ AtWork(p) /\ HasRead(p) /\ p \in inside /\ DoneInOrder(p)
      /\ ReadsLatest(p)
  BY DEF IInv, Facts, Knows, AtWork, Undisturbed, InOrder
<1>2. Row(p)' = Row(p) /\ Res(p)' = Res(p)  BY <1>1, StillAtWork
<1>3. ReadsLatest(p)'  BY <1>1, <1>2 DEF ReadsLatest, EventIsOver, Dead, Live, Cancelled
<1>4. DoneInOrder(p)'
  <2>1. \A i \in 1..(task'[p].at - 1) : Delivered(Row(p), ResourcesOf(Row(p))[i])'
    BY <1>1, EarlierStay
  <2> QED  BY <2>1 DEF DoneInOrder
<1> QED  BY <1>3, <1>4 DEF InOrder

\* Events are made with their key.
LEMMA LiveEventIsKeyed == ASSUME IInv PROVE Live("event") = Keyed("event")
BY DEF IInv, Facts, PagesKnown, Keyed, Live

LEMMA LiveIsFinite ==
    ASSUME Typed, NEW res \in Resources
    PROVE  IsFiniteSet(Live(res)) /\ Live(res) \subseteq 1..Len(pages[res]) /\ Len(pages[res]) \in Nat
<1>1. pages[res] \in Seq(Page)  BY DEF Typed
<1>2. Live(res) \subseteq 1..Len(pages[res]) /\ Len(pages[res]) \in Nat  BY <1>1 DEF Live
<1>3. IsFiniteSet(1..Len(pages[res]))  BY <1>2, FS_Interval
<1> QED  BY <1>2, <1>3, FS_Subset

-----------------------------------------------------------------------------
(* Undisturbed: steps of the world                                         *)

\* What had been delivered stays delivered when another change comes.
LEMMA ChangeDelivered ==
    ASSUME Typed, NEW row, row[1] \in 1..Len(changes), NEW res, Delivered(row, res),
           ~Cancelled(Len(changes)), Len(changes') > Len(changes), Len(changes') \in Nat,
           UNCHANGED <<pages, binding>>
    PROVE  Delivered(row, res)'
<1>1. binding[res] \in Keyed(res) /\ pages[res][binding[res]].shows >= row[1]  BY DEF Delivered
<1>2. row[1] # Len(changes')  BY DEF Typed
<1> QED  BY <1>1, <1>2 DEF Delivered, Keyed, Live

LEMMA ChangeInOrder == ASSUME IInv, IInv', Undisturbed, Change PROVE Undisturbed'
<1> DEFINE n == Len(changes) + 1
<1>1. PICK kind \in Kinds :
         /\ changes' = Append(changes, kind)
         /\ rows' = [row \in DOMAIN rows \cup RowsOf(n, kind) |->
                        IF row \in RowsOf(n, kind) THEN "ready" ELSE rows[row]]
  BY DEF Change
<1>2. ~Cancelled(Len(changes)) /\ UNCHANGED <<writerVars, binding, pages, best, pc, task>>
  BY DEF Change, remote, local
<1>3. Typed /\ RowsKnown /\ PagesInOrder /\ RowsInOrder  BY DEF IInv, Facts, Undisturbed
<1>4. /\ Len(changes') = n /\ Len(changes) \in Nat
      /\ \A i \in 1..Len(changes) : changes'[i] = changes[i]
      /\ changes'[n] = kind
  <2>1. changes \in Seq(Kinds)  BY <1>3 DEF Typed
  <2> QED  BY <1>1, <2>1, AppendProperties
<1>5. PagesInOrder'
  <2>1. \A res \in Resources : Dead(res) = {}  BY <1>2, <1>3 DEF PagesInOrder
  <2>2. ASSUME NEW res \in Resources, best'[res] # 0
        PROVE  best'[res] <= Len(changes') /\ Touches(res, changes'[best'[res]])
    <3>1. best[res] # 0 /\ best[res] \in Nat
      BY <1>2, <1>3, <2>2, ProjectionAssumption DEF Typed, States
    <3>2. best[res] <= Len(changes) /\ Touches(res, changes[best[res]])  BY <1>3, <3>1 DEF PagesInOrder
    <3>3. best[res] \in 1..Len(changes)  BY <1>4, <3>1, <3>2
    <3> QED  BY <1>2, <1>4, <3>2, <3>3 DEF Touches
  <2>3. \A res \in Resources : \A k, l \in Keyed(res)' : k = l
    BY <1>2, <1>3 DEF PagesInOrder, Keyed, Live
  <2>4. \A res \in Resources : Dead(res)' = {}  BY <1>2, <2>1 DEF Dead, Live
  <2> QED  BY <2>2, <2>3, <2>4 DEF PagesInOrder, Touches
<1>6. \A row \in DOMAIN rows : row[1] \in 1..Len(changes) /\ ResourcesOf(row)' = ResourcesOf(row)
  <2>1. \A row \in DOMAIN rows : row[1] \in 1..Len(changes)  BY <1>3, RowForm
  <2> QED  BY <1>4, <2>1 DEF ResourcesOf
<1>7. \A row \in DOMAIN rows' : rows'[row] = "done" => row \in DOMAIN rows /\ rows[row] = "done"
  BY <1>1
<1>8. \A row, res : row[1] \in 1..Len(changes) /\ Delivered(row, res) => Delivered(row, res)'
  <2>1. Len(changes') > Len(changes) /\ Len(changes') \in Nat  BY <1>4
  <2> QED  BY <1>2, <1>3, <2>1, ChangeDelivered
<1>9. RowsInOrder'
  <2>1. ASSUME NEW row \in DOMAIN rows', rows'[row] = "done", NEW i \in DOMAIN ResourcesOf(row)'
        PROVE  Delivered(row, ResourcesOf(row)[i])'
    <3>1. row \in DOMAIN rows /\ rows[row] = "done"  BY <1>7, <2>1
    <3>2. Delivered(row, ResourcesOf(row)[i])  BY <1>3, <1>6, <2>1, <3>1 DEF RowsInOrder
    <3> QED  BY <1>6, <1>8, <3>1, <3>2 DEF Delivered
  <2> QED  BY <2>1 DEF RowsInOrder
<1>10. ASSUME NEW p \in Writers PROVE InOrder(p)'
  <2>1. CASE pc[p] = "idle"  BY <1>2, <2>1, IdleInOrder
  <2>2. CASE pc[p] # "idle"
    <3>1. AtWork(p) /\ HasRead(p) /\ InOrder(p)  BY DEF IInv, Knows, Undisturbed
    <3>2. /\ Row(p) \in DOMAIN rows /\ Row(p)[1] \in 1..Len(changes) /\ Res(p) \in Resources
          /\ DOMAIN ResourcesOf(Row(p)) = 1..Len(ResourcesOf(Row(p)))
          /\ task[p].at \in 1..2
      BY <1>3, <2>2, <3>1, RowOf
    <3>3. Row(p)' = Row(p)  BY <1>2 DEF Row
    <3>4. ResourcesOf(Row(p))' = ResourcesOf(Row(p))  BY <1>4, <3>2, <3>3 DEF ResourcesOf
    <3>5. Res(p)' = Res(p)  BY <1>2, <3>4 DEF Res
    <3>6. ~EventIsOver'
      <4>1. Dead("event")' = {}
        BY <1>2, <1>3 DEF PagesInOrder, Dead, Live, Resources
      <4>2. Cancelled(Len(changes))' => kind = "CANCELLED"  BY <1>4 DEF Cancelled
      <4>3. kind = "CANCELLED" => <<n, "CALENDAR">> \in RowsOf(n, kind)  BY DEF RowsOf
      <4>4. kind = "CANCELLED" => rows'[<<n, "CALENDAR">>] = "ready"  BY <1>1, <4>3
      <4> QED  BY <1>4, <4>1, <4>2, <4>4 DEF EventIsOver
    <3>7. ReadsLatest(p)'  BY <1>2, <3>1, <3>5, <3>6 DEF InOrder, ReadsLatest
    <3>8. pc[p] \in {"look", "send", "check", "bind"} => Retiring(p)' = Retiring(p)
      <4>1. pc[p] \in {"look", "send", "check", "bind"} => task[p].want \in 1..Len(changes)
        BY <3>1, <3>2 DEF HasRead
      <4>2. pc[p] \in {"look", "send", "check", "bind"} => changes'[task[p].want] = changes[task[p].want]
        BY <1>4, <4>1
      <4> QED  BY <1>2, <3>5, <4>2 DEF Retiring, Cancelled
    <3>9. PageInOrder(p)'
      BY <1>2, <3>1, <3>5, <3>8 DEF InOrder, PageInOrder, Keyed, Live, Exact
    <3>10. DoneInOrder(p)'
      <4>1. \A i : Delivered(Row(p), ResourcesOf(Row(p))[i]) => Delivered(Row(p), ResourcesOf(Row(p))[i])'
        <5> TAKE i
        <5>1. Delivered(Row(p), ResourcesOf(Row(p))[i])' =
                 (IF ResourcesOf(Row(p))[i] = "event" /\ Cancelled(Len(changes))'
                  THEN Row(p)[1] = Len(changes') => Live("event")' = {}
                  ELSE binding'[ResourcesOf(Row(p))[i]] \in
                         {k \in DOMAIN pages'[ResourcesOf(Row(p))[i]] :
                            pages'[ResourcesOf(Row(p))[i]][k].live /\ pages'[ResourcesOf(Row(p))[i]][k].keyed}
                       /\ pages'[ResourcesOf(Row(p))[i]][binding'[ResourcesOf(Row(p))[i]]].shows >= Row(p)[1])
          BY <3>3, <3>4 DEF Delivered, Keyed, Live
        <5>2. Row(p)[1] # Len(changes')  BY <1>4, <3>2
        <5> QED  BY <1>2, <5>1, <5>2 DEF Delivered, Keyed, Live
      <4> QED  BY <1>2, <3>1, <3>4, <4>1 DEF InOrder, DoneInOrder
    <3> QED  BY <3>7, <3>9, <3>10 DEF InOrder
  <2> QED  BY <2>1, <2>2
<1>11. Held'  BY <1>2 DEF Undisturbed, Held, writerVars
<1> QED  BY <1>5, <1>9, <1>10, <1>11 DEF Undisturbed

\* A process whose lease is gone is disturbed; without one inside, nothing else changes.
LEMMA NothingInOrder ==
    ASSUME IInv, Undisturbed, UNCHANGED <<changes, rows, binding, pages, best, pc, task>>, Held'
    PROVE  Undisturbed'
<1>1. PagesInOrder' /\ RowsInOrder'  BY StillInOrder DEF IInv, Undisturbed
<1>2. ASSUME NEW p \in Writers PROVE InOrder(p)'
  <2>1. InOrder(p)  BY DEF Undisturbed
  <2>2. Row(p)' = Row(p)  BY DEF Row
  <2>3. ResourcesOf(Row(p))' = ResourcesOf(Row(p)) /\ Res(p)' = Res(p)  BY <2>2 DEF ResourcesOf, Res
  <2>4. ReadsLatest(p)'  BY <2>1, <2>3 DEF InOrder, ReadsLatest, EventIsOver, Dead, Live, Cancelled
  <2>5. PageInOrder(p)'
    BY <2>1, <2>3 DEF InOrder, PageInOrder, Retiring, Cancelled, Keyed, Live, Exact
  <2>6. DoneInOrder(p)'
    BY <2>1, <2>2, <2>3 DEF InOrder, DoneInOrder, Delivered, Keyed, Live, Cancelled
  <2> QED  BY <2>4, <2>5, <2>6 DEF InOrder
<1> QED  BY <1>1, <1>2 DEF Undisturbed

LEMMA LapseInOrder == ASSUME IInv, Undisturbed, LeaseLapse, lapses' = 0 PROVE Undisturbed'
<1>1. Lapse /\ UNCHANGED <<changes, rows, binding, pages, best, pc, task>>
  BY DEF LeaseLapse, outbox, remote, local
<1>2. Held'
  <2>1. lapses \in Nat  BY DEF IInv, Typed, WriterTypeOK
  <2>2. lease \notin inside  BY <1>1, <2>1 DEF Lapse
  <2>3. inside = {}  BY <2>2 DEF Undisturbed, Held
  <2> QED  BY <1>1, <2>3 DEF Lapse, Held
<1> QED  BY <1>1, <1>2, NothingInOrder
-----------------------------------------------------------------------------
(* Undisturbed: steps of the process at work                               *)

LEMMA LeaveInOrder ==
    ASSUME IInv, Undisturbed, NEW p \in Writers, pc[p] # "idle", Idle(p), Exit(p) \/ Die(p),
           UNCHANGED <<changes, rows, binding, pages, best>>
    PROVE  Undisturbed'
<1>1. Typed /\ PagesInOrder /\ RowsInOrder  BY DEF IInv, Undisturbed
<1>2. Others(p) /\ pc'[p] = "idle"  BY <1>1, IdleForm
<1>3. InOrder(p)'  BY <1>2, IdleInOrder
<1>4. PagesInOrder' /\ RowsInOrder'  BY <1>1, StillInOrder
<1> QED  BY <1>2, <1>3, <1>4, SoloStep

LEMMA TakeInOrder == ASSUME IInv, IInv', Undisturbed, Take PROVE Undisturbed'
<1>1. PICK row \in DOMAIN rows :
         /\ rows[row] = "ready" /\ rows' = [rows EXCEPT ![row] = "pending"]
         /\ Begin(Worker, {row})
  BY DEF Take
<1>2. Enter(Worker) /\ UNCHANGED <<changes, binding, pages, best>>  BY DEF Take, remote
<1>3. Typed /\ RowsKnown /\ PagesInOrder /\ RowsInOrder /\ Worker \in Writers
  BY ProjectionAssumption DEF IInv, Facts, Undisturbed
<1>4. {row} \in SUBSET RowIds  BY <1>3, RowForm
<1>5. Others(Worker) /\ pc'[Worker] = "read" /\ task'[Worker].at = 1
  BY <1>1, <1>3, <1>4, BeginForm
<1>6. rows' \in [DOMAIN rows -> Statuses] /\ \A r \in DOMAIN rows : rows'[r] = "done" => rows[r] = "done"
  BY <1>1, <1>3 DEF Typed, Statuses
<1>7. PagesInOrder' /\ RowsInOrder'  BY <1>2, <1>3, <1>6, PagesStillInOrder, RowsStillInOrder
<1> QED  BY <1>2, <1>3, <1>5, <1>7, RunStep

LEMMA ReconcileInOrder == ASSUME IInv, IInv', Undisturbed, Reconcile PROVE Undisturbed'
<1> DEFINE todo == {row \in First : rows[row] = "pending"}
<1>1. Begin(Operator, todo) /\ Enter(Operator) /\ UNCHANGED <<changes, rows, binding, pages, best>>
  BY DEF Reconcile, outbox, remote
<1>2. Typed /\ RowsKnown /\ PagesInOrder /\ RowsInOrder /\ Operator \in Writers
  BY ProjectionAssumption DEF IInv, Facts, Undisturbed
<1>3. todo \in SUBSET RowIds
  <2>1. 1 \in 1..MaxChanges  BY ProjectionAssumption
  <2> QED  BY <2>1 DEF First, RowIds
<1>4. Others(Operator) /\ pc'[Operator] = "read" /\ task'[Operator].at = 1
  BY <1>1, <1>2, <1>3, BeginForm
<1>5. PagesInOrder' /\ RowsInOrder'  BY <1>1, <1>2, StillInOrder
<1> QED  BY <1>1, <1>2, <1>4, <1>5, RunStep

\* What is read is the last state the resource has shown, or a later one.
LEMMA ReadInOrder == ASSUME IInv, Undisturbed, NEW p \in Writers, Read(p) PROVE Undisturbed'
<1>1. /\ pc[p] = "read" /\ ReadAs(p, InPostgres(Res(p)), binding[Res(p)])
      /\ Proceed(p) /\ UNCHANGED <<changes, rows, binding, pages, best, inside>>
  BY DEF Read, ReadAs, outbox, remote, Proceed
<1>2. /\ Typed /\ Facts /\ RowsKnown /\ AtWork(p) /\ PagesInOrder /\ RowsInOrder /\ DoneInOrder(p)
      /\ BoundIsKeyed /\ p \in inside
  BY <1>1 DEF IInv, Facts, Knows, AtWork, Undisturbed, InOrder
<1>3. Res(p) \in Resources  BY <1>1, <1>2, RowOf
<1>4. /\ InPostgres(Res(p)) \in 0..Len(changes)
      /\ \A i \in 1..Len(changes) : Touches(Res(p), changes[i]) => i <= InPostgres(Res(p))
  BY <1>2, <1>3, LastTouch
<1>5. InPostgres(Res(p)) \in States /\ binding[Res(p)] \in Nat
  BY <1>2, <1>3, <1>4, ProjectionAssumption DEF Typed, States
<1>6. /\ Others(p) /\ pc'[p] = "look" /\ task'[p].todo = task[p].todo /\ task'[p].at = task[p].at
      /\ task'[p].want = InPostgres(Res(p)) /\ task'[p].bound = binding[Res(p)]
  BY <1>1, <1>2, <1>5, ReadForm
<1>7. Row(p)' = Row(p) /\ Res(p)' = Res(p)  BY <1>1, <1>2, <1>6, StillAtWork
<1>8. Len(changes) \in Nat /\ Len(changes) \in 1..Len(changes)  BY <1>2 DEF Typed
<1>9. best[Res(p)] <= InPostgres(Res(p))
  <2>1. best[Res(p)] \in Nat  BY <1>2, <1>3, ProjectionAssumption DEF Typed, States
  <2>2. best[Res(p)] # 0 => best[Res(p)] \in 1..Len(changes) /\ Touches(Res(p), changes[best[Res(p)]])
    BY <1>2, <1>3, <1>8, <2>1 DEF PagesInOrder
  <2> QED  BY <1>4, <1>8, <2>1, <2>2
<1>10. Res(p) = "event" /\ EventIsOver => Cancelled(InPostgres(Res(p)))
  <2> SUFFICES ASSUME Res(p) = "event", EventIsOver PROVE Cancelled(InPostgres(Res(p)))  OBVIOUS
  <2>1. Len(changes) <= InPostgres(Res(p))  BY <1>4, <1>8 DEF Touches
  <2>2. InPostgres(Res(p)) = Len(changes)  BY <1>4, <1>8, <2>1
  <2> QED  BY <2>2 DEF EventIsOver
<1>11. ReadsLatest(p)'
  BY <1>1, <1>6, <1>7, <1>9, <1>10 DEF ReadsLatest, EventIsOver, Dead, Live, Cancelled
<1>12. PageInOrder(p)'  BY <1>1, <1>2, <1>3, <1>6, <1>7 DEF PageInOrder, BoundIsKeyed
<1>13. DoneInOrder(p)'
  <2>1. \A i \in 1..(task'[p].at - 1) : Delivered(Row(p), ResourcesOf(Row(p))[i])'
    BY <1>1, <1>2, <1>6, EarlierStay
  <2> QED  BY <1>6, <2>1 DEF DoneInOrder
<1>14. PagesInOrder' /\ RowsInOrder'  BY <1>1, <1>2, StillInOrder
<1> QED  BY <1>1, <1>6, <1>11, <1>12, <1>13, <1>14, SoloStep DEF InOrder

\* On to a page, nothing outside being touched.
LEMMA ToPageInOrder ==
    ASSUME IInv, Undisturbed, NEW p \in Writers, pc[p] \in {"look", "check"}, NEW l \in {"send", "bind"},
           NEW k \in {0} \cup DOMAIN pages[Res(p)], GotoWith(p, l, k),
           Proceed(p), UNCHANGED <<changes, rows, binding, pages, best>>,
           l = "send" => Keyed(Res(p)) \subseteq {k} /\ (Retiring(p) => k # 0),
           l = "bind" => IF Retiring(p) THEN Live("event") = {} ELSE Exact(Res(p), k, task[p].want)
    PROVE  Undisturbed'
<1>1. /\ Typed /\ RowsKnown /\ AtWork(p) /\ HasRead(p) /\ p \in inside /\ inside' = inside
      /\ PagesInOrder /\ RowsInOrder
  BY DEF IInv, Facts, Knows, AtWork, Proceed, Undisturbed
<1>2. Res(p) \in Resources  BY <1>1, RowOf
<1>3. k \in Nat /\ l \in Positions
  <2>1. pages[Res(p)] \in Seq(Page)  BY <1>1, <1>2 DEF Typed
  <2> QED  BY <2>1 DEF Positions
<1>4. /\ Others(p) /\ pc'[p] = l /\ task'[p].todo = task[p].todo /\ task'[p].at = task[p].at
      /\ task'[p].want = task[p].want /\ task'[p].bound = task[p].bound /\ task'[p].page = k
  BY <1>1, <1>3, GotoWithForm
<1>5. Res(p)' = Res(p)  BY <1>1, <1>4, StillAtWork
<1>6. Retiring(p)' = Retiring(p)  BY <1>1, <1>4, StillRead
<1>7. PageInOrder(p)'  BY <1>4, <1>5, <1>6 DEF PageInOrder, Keyed, Live, Exact
<1>8. InOrder(p)'  BY <1>1, <1>4, <1>7, MoveInOrder
<1>9. PagesInOrder' /\ RowsInOrder'  BY <1>1, StillInOrder
<1> QED  BY <1>4, <1>8, <1>9, SoloStep
\* A set of one element, as the code counts it.
LEMMA OneIsAll ==
    ASSUME Typed, NEW res \in Resources, NEW S \in SUBSET Live(res), Cardinality(S) = 1, NEW k \in S
    PROVE  S = {k}
<1>1. IsFiniteSet(S)  BY LiveIsFinite, FS_Subset
<1>2. \E x : S = {x}  BY <1>1, FS_Singleton
<1> QED  BY <1>2

\* Nothing is seen, or one page: then no other page carries the key.
LEMMA SeenIsAll ==
    ASSUME Typed, PagesInOrder, NEW p \in Writers, Res(p) \in Resources, task[p].bound \in Nat,
           task[p].bound # 0 => pages[Res(p)][task[p].bound].keyed,
           NEW k, Seen(p) \subseteq {k}
    PROVE  Keyed(Res(p)) \subseteq {k} /\ (Seen(p) = {} => Keyed(Res(p)) = {})
<1>1. CASE task[p].bound \in Live(Res(p))
  <2>1. pages[Res(p)] \in Seq(Page)  BY DEF Typed
  <2>2. task[p].bound # 0  BY <1>1, <2>1 DEF Live
  <2>3. task[p].bound \in Keyed(Res(p))  BY <1>1, <2>2 DEF Keyed
  <2>4. Seen(p) = {task[p].bound}  BY <1>1 DEF Seen
  <2> QED  BY <2>3, <2>4 DEF PagesInOrder
<1>2. CASE task[p].bound \notin Live(Res(p))
  <2>1. Seen(p) = Found(Res(p), task[p].want)  BY <1>2 DEF Seen
  <2>2. Keyed(Res(p)) \subseteq Live(Res(p))  BY DEF Keyed
  <2>3. CASE Res(p) = "event"  BY <2>1, <2>3 DEF Found
  <2>4. CASE Res(p) = "reservation"  BY <2>1, <2>2, <2>4 DEF Found
  <2>5. CASE Res(p) = "cleaning"
    <3>1. Keyed(Res(p)) # {} => Seen(p) = Keyed(Res(p))  BY <2>1, <2>5 DEF Found
    <3> QED  BY <3>1
  <2> QED  BY <2>3, <2>4, <2>5 DEF Resources
<1> QED  BY <1>1, <1>2

LEMMA LookInOrder == ASSUME IInv, Undisturbed, NEW p \in Writers, Look(p) PROVE Undisturbed'
<1>1. /\ pc[p] = "look" /\ ~Retiring(p)
      /\ UNCHANGED <<changes, rows, binding, pages, best>>
  BY DEF Look, outbox, remote
<1>2. Typed /\ RowsKnown /\ AtWork(p) /\ PagesInOrder /\ PageInOrder(p)
  BY DEF IInv, Facts, Knows, Undisturbed, InOrder
<1>3. /\ Res(p) \in Resources /\ task[p].bound \in Nat
      /\ task[p].bound # 0 => pages[Res(p)][task[p].bound].keyed
  BY <1>1, <1>2, RowOf DEF Typed, Tasks, PageInOrder
<1>4. CASE Seen(p) = {} /\ GotoWith(p, "send", 0) /\ Proceed(p)
  <2>1. Keyed(Res(p)) = {}  BY <1>2, <1>3, <1>4, SeenIsAll
  <2> QED  BY <1>1, <1>4, <2>1, ToPageInOrder
<1>5. CASE /\ Cardinality(Seen(p)) = 1
           /\ \E k \in Seen(p) :
                 GotoWith(p, IF Exact(Res(p), k, task[p].want) THEN "bind" ELSE "send", k)
           /\ Proceed(p)
  <2>1. PICK k \in Seen(p) :
           GotoWith(p, IF Exact(Res(p), k, task[p].want) THEN "bind" ELSE "send", k)
    BY <1>5
  <2>2. Seen(p) \subseteq Live(Res(p)) /\ k \in DOMAIN pages[Res(p)]  BY <1>3, SeenIsLive DEF Live
  <2>3. Seen(p) = {k}  BY <1>2, <1>3, <1>5, <2>2, OneIsAll
  <2>4. Keyed(Res(p)) \subseteq {k}  BY <1>2, <1>3, <2>3, SeenIsAll
  <2>5. CASE Exact(Res(p), k, task[p].want)
    <3>1. GotoWith(p, "bind", k)  BY <2>1, <2>5
    <3> QED  BY <1>1, <1>5, <2>2, <2>5, <3>1, ToPageInOrder
  <2>6. CASE ~Exact(Res(p), k, task[p].want)
    <3>1. GotoWith(p, "send", k)  BY <2>1, <2>6
    <3> QED  BY <1>1, <1>5, <2>2, <2>4, <3>1, ToPageInOrder
  <2> QED  BY <2>5, <2>6
<1>6. CASE Fail(p)  BY <1>1, <1>6, LeaveInOrder DEF Fail
<1> QED  BY <1>4, <1>5, <1>6 DEF Look

\* The last resource of a row is delivered; nothing but the binding was written.
LEMMA ToFinishInOrder ==
    ASSUME IInv, Undisturbed, NEW p \in Writers, pc[p] \in {"look", "bind"}, Goto(p, "finish"),
           Proceed(p), UNCHANGED <<changes, rows, pages, best>>,
           task[p].at = Len(ResourcesOf(Row(p))),
           \A i \in 1..(task[p].at - 1) : Delivered(Row(p), ResourcesOf(Row(p))[i])',
           Delivered(Row(p), ResourcesOf(Row(p))[task[p].at])',
           RowsInOrder'
    PROVE  Undisturbed'
<1>1. Typed /\ RowsKnown /\ AtWork(p) /\ PagesInOrder
  BY DEF IInv, Facts, Knows, Undisturbed
<1>2. /\ DOMAIN ResourcesOf(Row(p)) = 1..Len(ResourcesOf(Row(p)))
      /\ Len(ResourcesOf(Row(p))) \in 1..2
  BY <1>1, RowOf
<1>3. Others(p) /\ pc'[p] = "finish" /\ task'[p] = task[p]
  BY <1>1, GotoForm DEF Positions
<1>4. Row(p)' = Row(p)  BY <1>3 DEF Row
<1>5. ResourcesOf(Row(p))' = ResourcesOf(Row(p))  BY <1>4 DEF ResourcesOf
<1>6. \A i \in 1..Len(ResourcesOf(Row(p))) : i \in 1..(task[p].at - 1) \/ i = task[p].at
  <2>1. \A n \in 1..2 : \A i \in 1..n : i \in 1..(n - 1) \/ i = n  OBVIOUS
  <2> QED  BY <1>2, <2>1
<1>7. \A i \in DOMAIN ResourcesOf(Row(p)) : Delivered(Row(p), ResourcesOf(Row(p))[i])'
  <2> TAKE i \in DOMAIN ResourcesOf(Row(p))
  <2>1. CASE i \in 1..(task[p].at - 1)  BY <2>1
  <2>2. CASE i = task[p].at  BY <1>3, <1>5, <2>2 DEF Delivered
  <2> QED  BY <1>2, <1>6, <2>1, <2>2
<1>8. InOrder(p)'  BY <1>3, <1>5, <1>6, <1>7, <1>2 DEF InOrder, ReadsLatest, PageInOrder, DoneInOrder
<1>9. PagesInOrder'  BY <1>1, PagesStillInOrder
<1> QED  BY <1>3, <1>8, <1>9, SoloStep

\* The event of a cancelled cleaning is gone already, or the bound one is the one to delete.
LEMMA LookRetiredInOrder ==
    ASSUME IInv, Undisturbed, NEW p \in Writers, LookRetired(p) PROVE Undisturbed'
<1>1. /\ pc[p] = "look" /\ Retiring(p) /\ Res(p) = "event" /\ Cancelled(task[p].want)
      /\ UNCHANGED <<changes, rows, binding, pages, best>>
  BY DEF LookRetired, outbox, remote, Retiring
<1>2. /\ Typed /\ Facts /\ RowsKnown /\ AtWork(p) /\ HasRead(p) /\ PagesInOrder /\ RowsInOrder
      /\ "event" \in Resources
  BY DEF IInv, Facts, Knows, Undisturbed, Resources
<1>3. /\ task[p].bound \in {0} \cup DOMAIN pages["event"]
      /\ Live("event") = Keyed("event")
  BY <1>1, <1>2, LiveEventIsKeyed DEF HasRead
<1>4. Cancelled(Len(changes))
  <2>1. Row(p)[1] \in 1..Len(changes) /\ task[p].want \in Row(p)[1]..Len(changes)
    BY <1>1, <1>2, RowOf DEF HasRead
  <2>2. task[p].want \in 0..Len(changes)  BY <2>1
  <2> QED  BY <1>1, <1>2, <2>2, CancelledIsLast DEF Facts
<1>5. CASE Live("event") = {} /\ Goto(p, "finish") /\ Proceed(p)
  <2>1. task[p].at = 1 /\ Len(ResourcesOf(Row(p))) = 1  BY <1>1, <1>2, EventIsAlone
  <2>2. RowsInOrder'  BY <1>1, <1>2, StillInOrder
  <2>3. ResourcesOf(Row(p))' = ResourcesOf(Row(p)) /\ Row(p)' = Row(p)
    <3>1. task'[p] = task[p]  BY <1>5 DEF Goto
    <3>2. Row(p)' = Row(p)  BY <3>1 DEF Row
    <3> QED  BY <1>1, <3>2 DEF ResourcesOf
  <2>4. ResourcesOf(Row(p))[1] = "event"  BY <1>1, <2>1 DEF Res
  <2>5. Delivered(Row(p), ResourcesOf(Row(p))[1])'
    BY <1>1, <1>4, <1>5, <2>3, <2>4 DEF Delivered, Live, Cancelled
  <2>6. \A i \in 1..(1 - 1) : FALSE  OBVIOUS
  <2>7. task' = task  BY <1>5 DEF Goto
  <2> QED  BY <1>1, <1>5, <2>1, <2>2, <2>5, <2>6, <2>7, ToFinishInOrder
<1>6. CASE task[p].bound \in Live("event") /\ GotoWith(p, "send", task[p].bound) /\ Proceed(p)
  <2>1. task[p].bound \in DOMAIN pages[Res(p)] /\ task[p].bound # 0
    <3>1. pages["event"] \in Seq(Page)  BY <1>2 DEF Typed
    <3> QED  BY <1>1, <1>6, <3>1 DEF Live
  <2>2. Keyed("event") \subseteq {task[p].bound}  BY <1>2, <1>3, <1>6 DEF PagesInOrder
  <2> QED  BY <1>1, <1>6, <2>1, <2>2, ToPageInOrder
<1>7. CASE Fail(p)  BY <1>1, <1>7, LeaveInOrder DEF Fail
<1>8. task[p].bound # 0 /\ task[p].bound \notin Live("event") => Live("event") = {}
  <2> SUFFICES ASSUME task[p].bound # 0, task[p].bound \notin Live("event") PROVE Live("event") = {}
    OBVIOUS
  <2>1. Dead("event") # {}  BY <1>3 DEF Dead
  <2> QED  BY <1>2, <2>1 DEF PagesInOrder
<1> QED  BY <1>3, <1>5, <1>6, <1>7, <1>8 DEF LookRetired

LEMMA CheckCreatedInOrder ==
    ASSUME IInv, Undisturbed, NEW p \in Writers, CheckCreated(p) PROVE Undisturbed'
<1>1. /\ pc[p] = "check" /\ task[p].page = 0
      /\ UNCHANGED <<changes, rows, binding, pages, best>>
  BY DEF CheckCreated, outbox, remote
<1>2. Typed /\ RowsKnown /\ AtWork(p) /\ PageInOrder(p)  BY DEF IInv, Facts, Knows, Undisturbed, InOrder
<1>3. Res(p) \in Resources /\ ~Retiring(p)  BY <1>1, <1>2, RowOf DEF PageInOrder
<1>4. CASE task[p].heard /\ GotoWith(p, "bind", Len(pages[Res(p)])) /\ Proceed(p)
  <2>1. Exact(Res(p), Len(pages[Res(p)]), task[p].want)
    BY <1>1, <1>2, <1>3, <1>4 DEF PageInOrder, Exact
  <2>2. Len(pages[Res(p)]) \in DOMAIN pages[Res(p)]  BY <2>1 DEF Exact, Keyed, Live
  <2> QED  BY <1>1, <1>3, <1>4, <2>1, <2>2, ToPageInOrder
<1>5. CASE /\ \E k \in Found(Res(p), task[p].want) :
                 Exact(Res(p), k, task[p].want) /\ GotoWith(p, "bind", k)
           /\ Proceed(p)
  <2>1. PICK k : Exact(Res(p), k, task[p].want) /\ GotoWith(p, "bind", k)  BY <1>5
  <2>2. k \in DOMAIN pages[Res(p)]  BY <2>1 DEF Exact, Keyed, Live
  <2> QED  BY <1>1, <1>3, <1>5, <2>1, <2>2, ToPageInOrder
<1>6. CASE Fail(p)  BY <1>1, <1>6, LeaveInOrder DEF Fail
<1> QED  BY <1>4, <1>5, <1>6 DEF CheckCreated

LEMMA CheckWrittenInOrder ==
    ASSUME IInv, Undisturbed, NEW p \in Writers, CheckWritten(p) PROVE Undisturbed'
<1>1. /\ pc[p] = "check" /\ task[p].page # 0
      /\ UNCHANGED <<changes, rows, binding, pages, best>>
  BY DEF CheckWritten, outbox, remote
<1>2. Typed /\ HasPage(p) /\ PagesInOrder  BY DEF IInv, Knows, Undisturbed
<1>3. task[p].page \in DOMAIN pages[Res(p)]  BY <1>1, <1>2 DEF HasPage
<1>4. CASE /\ Goto(p, "bind") /\ Proceed(p)
           /\ IF Retiring(p) THEN task[p].page \notin Live("event")
              ELSE Exact(Res(p), task[p].page, task[p].want)
  <2>1. GotoWith(p, "bind", task[p].page)  BY <1>2, <1>4, GotoIsGotoWith
  <2>2. Retiring(p) => Live("event") = {}
    <3> SUFFICES ASSUME Retiring(p) PROVE Live("event") = {}  OBVIOUS
    <3>1. Dead("event") # {}  BY <1>3, <1>4 DEF Dead, Retiring
    <3> QED  BY <1>2, <3>1 DEF PagesInOrder, Resources
  <2> QED  BY <1>1, <1>3, <1>4, <2>1, <2>2, ToPageInOrder
<1>5. CASE Fail(p)  BY <1>1, <1>5, LeaveInOrder DEF Fail
<1> QED  BY <1>4, <1>5 DEF CheckWritten

LEMMA FinishInOrder == ASSUME IInv, Undisturbed, NEW p \in Writers, Finish(p) PROVE Undisturbed'
<1>1. pc[p] = "finish" /\ UNCHANGED <<changes, binding, pages, best>>  BY DEF Finish, remote
<1>2. Typed /\ RowsKnown /\ AtWork(p) /\ PagesInOrder /\ RowsInOrder /\ DoneInOrder(p)
  BY DEF IInv, Facts, Knows, Undisturbed, InOrder
<1>3. CASE Fail(p) /\ UNCHANGED rows  BY <1>1, <1>3, LeaveInOrder DEF Fail
<1> DEFINE rest == {row \in task[p].todo \ {Row(p)} : rows[row] = "pending"}
<1>4. CASE /\ rows' = [rows EXCEPT ![Row(p)] = "done"]
           /\ \/ Exit(p) /\ Idle(p)
              \/ Begin(p, rest) /\ Proceed(p)
  <2>1. rows' \in [DOMAIN rows -> Statuses]  BY <1>2, <1>4 DEF Typed, Statuses
  <2>2. \A row \in DOMAIN rows : rows'[row] = "done" =>
           \/ rows[row] = "done"
           \/ \A i \in DOMAIN ResourcesOf(row) : Delivered(row, ResourcesOf(row)[i])
    BY <1>1, <1>2, <1>4 DEF DoneInOrder, Typed
  <2>3. PagesInOrder' /\ RowsInOrder'  BY <1>1, <1>2, <2>1, <2>2, PagesStillInOrder, RowsStillInOrder
  <2>4. CASE Exit(p) /\ Idle(p)
    <3>1. Others(p) /\ pc'[p] = "idle"  BY <1>2, <2>4, IdleForm
    <3> QED  BY <1>1, <2>3, <2>4, <3>1, IdleInOrder, SoloStep
  <2>5. CASE Begin(p, rest) /\ Proceed(p)
    <3>1. rest \in SUBSET RowIds  BY <1>2 DEF Typed, Tasks
    <3> HIDE DEF rest
    <3>2. Others(p) /\ pc'[p] = "read" /\ task'[p].at = 1  BY <1>2, <2>5, <3>1, BeginForm
    <3>3. \A i \in 1..(1 - 1) : FALSE  OBVIOUS
    <3>4. InOrder(p)'  BY <3>2, <3>3 DEF InOrder, ReadsLatest, PageInOrder, DoneInOrder
    <3> QED  BY <1>1, <2>3, <2>5, <3>2, <3>4, SoloStep
  <2> QED  BY <1>4, <2>4, <2>5
<1> QED  BY <1>3, <1>4 DEF Finish
\* A request that is applied leaves its page as the only one of its key, in the wanted
\* state, and what had been delivered before stays delivered.
LEMMA WriteInOrder ==
    ASSUME IInv, IInv', Undisturbed, NEW p \in Writers, pc[p] = "send", Apply(Wanted(p)),
           task[p].page = 0 \/ task[p].page \in Live(Res(p)),
           NEW heard \in BOOLEAN, Heard(p, heard),
           Proceed(p) /\ UNCHANGED <<changes, rows, binding>>
    PROVE  Undisturbed'
<1> DEFINE r == Res(p)
           w == task[p].want
           t == IF task[p].page = 0 THEN Len(pages[r]) + 1 ELSE task[p].page
<1>1. /\ Typed /\ Facts /\ RowsKnown /\ AtWork(p) /\ HasRead(p) /\ HasPage(p)
      /\ PagesInOrder /\ RowsInOrder /\ ReadsLatest(p) /\ PageInOrder(p) /\ DoneInOrder(p)
  BY DEF IInv, Facts, Knows, Undisturbed, InOrder
<1>2. /\ r \in Resources /\ Row(p) \in DOMAIN rows /\ Row(p)[1] \in 1..Len(changes)
      /\ DOMAIN ResourcesOf(Row(p)) = 1..Len(ResourcesOf(Row(p)))
      /\ task[p].at \in DOMAIN ResourcesOf(Row(p)) /\ task[p].at \in 1..2
  BY <1>1, RowOf
<1>3. w \in Row(p)[1]..Len(changes) /\ Touches(r, changes[w]) /\ w \in Nat /\ w # 0
      /\ w \in 0..Len(changes) /\ Len(changes) \in Nat
  <2>1. w \in Row(p)[1]..Len(changes) /\ Touches(r, changes[w])  BY <1>1 DEF HasRead
  <2> QED  BY <1>1, <1>2, <2>1 DEF Typed
<1>4. Wanted(p) \in Request
  <2>1. task[p].page \in Nat /\ w \in States /\ 0 \in States
    BY <1>1, ProjectionAssumption DEF Typed, Tasks, States
  <2> QED  BY <1>2, <2>1 DEF Wanted, Request
<1>5. /\ Wanted(p).res = r /\ Wanted(p).page = task[p].page
      /\ Wanted(p).n = IF Retiring(p) THEN 0 ELSE w
  BY DEF Wanted
<1>6. /\ \A res \in Resources \ {r} : pages'[res] = pages[res]
      /\ t \in DOMAIN pages'[r] /\ t # 0 /\ pages'[r][t] = NewPage(Wanted(p))
      /\ \A k \in DOMAIN pages'[r] \ {t} : k \in DOMAIN pages[r] /\ pages'[r][k] = pages[r][k]
      /\ task[p].page = 0 => t = Len(pages'[r])
  <2>1. pages \in [Resources -> Seq(Page)] /\ pages[r] \in Seq(Page) /\ Len(pages[r]) \in Nat
    BY <1>1, <1>2 DEF Typed
  <2>2. CASE task[p].page = 0
    <3>1. /\ pages' = [pages EXCEPT ![r] = Append(pages[r], NewPage(Wanted(p)))]
          /\ pages' \in [Resources -> Seq(Page)]
          /\ Len(pages'[r]) = Len(pages[r]) + 1
          /\ \A k \in 1..Len(pages[r]) : pages'[r][k] = pages[r][k]
          /\ pages'[r][Len(pages[r]) + 1] = NewPage(Wanted(p))
      BY <1>1, <1>4, <1>5, <2>2, ApplyCreate
    <3>2. pages'[r] \in Seq(Page)  BY <1>2, <3>1
    <3> QED  BY <1>2, <2>1, <2>2, <3>1, <3>2
  <2>3. CASE task[p].page # 0
    <3>1. /\ pages' = [pages EXCEPT ![r] = [pages[r] EXCEPT ![task[p].page] = NewPage(Wanted(p))]]
          /\ pages' \in [Resources -> Seq(Page)]
          /\ Len(pages'[r]) = Len(pages[r])
          /\ \A k \in 1..Len(pages[r]) :
                pages'[r][k] = IF k = task[p].page THEN NewPage(Wanted(p)) ELSE pages[r][k]
      <4>1. Wanted(p).page # 0 /\ Wanted(p).page \in Live(Wanted(p).res)  BY <1>5, <2>3
      <4>2. /\ pages' = [pages EXCEPT ![Wanted(p).res] =
                            [pages[Wanted(p).res] EXCEPT ![Wanted(p).page] = NewPage(Wanted(p))]]
            /\ pages' \in [Resources -> Seq(Page)]
            /\ Len(pages'[Wanted(p).res]) = Len(pages[Wanted(p).res])
            /\ \A k \in 1..Len(pages[Wanted(p).res]) :
                  pages'[Wanted(p).res][k] =
                     IF k = Wanted(p).page THEN NewPage(Wanted(p)) ELSE pages[Wanted(p).res][k]
        BY <1>1, <1>4, <4>1, ApplyUpdate
      <4> QED  BY <1>5, <4>2
    <3>2. pages'[r] \in Seq(Page)  BY <1>2, <3>1
    <3>3. task[p].page \in 1..Len(pages[r])  BY <2>1, <2>3 DEF Live
    <3> QED  BY <1>2, <2>1, <2>3, <3>1, <3>2, <3>3
  <2> QED  BY <2>2, <2>3
<1>7. /\ \A res \in Resources \ {r} : best'[res] = best[res]
      /\ best'[r] = best[r] \/ (best'[r] = w /\ ~Retiring(p))
  <2>1. \A res \in Resources :
           best'[res] = IF res = r /\ Wanted(p).n > best[res] THEN Wanted(p).n ELSE best[res]
    BY <1>1, <1>4, <1>5, ApplyBest
  <2>2. best[r] \in Nat  BY <1>1, <1>2, ProjectionAssumption DEF Typed, States
  <2> QED  BY <1>2, <1>5, <2>1, <2>2
<1> HIDE DEF t
<1>8. /\ Retiring(p) => pages'[r][t] = [live |-> FALSE, keyed |-> TRUE, shows |-> 0]
      /\ ~Retiring(p) => pages'[r][t] = [live |-> TRUE, keyed |-> TRUE, shows |-> w]
  <2>1. CASE Retiring(p)
    <3>1. NewPage(Wanted(p)) = [live |-> FALSE, keyed |-> TRUE, shows |-> 0]
      BY <1>5, <2>1 DEF NewPage
    <3> QED  BY <1>6, <2>1, <3>1
  <2>2. CASE ~Retiring(p)
    <3>1. NewPage(Wanted(p)) = [live |-> TRUE, keyed |-> TRUE, shows |-> w]
      BY <1>3, <1>5, <2>2 DEF NewPage
    <3> QED  BY <1>6, <2>2, <3>1
  <2> QED  BY <2>1, <2>2
<1>9. Keyed(r) \subseteq {task[p].page}  BY <1>1 DEF PageInOrder
<1>10. \A k \in DOMAIN pages'[r] : pages'[r][k].live /\ pages'[r][k].keyed => k = t
  <2>1. ASSUME NEW k \in DOMAIN pages'[r], pages'[r][k].live, pages'[r][k].keyed, k # t PROVE FALSE
    <3>1. k \in Keyed(r)  BY <1>6, <2>1 DEF Keyed, Live
    <3>2. k = task[p].page /\ k # 0
      <4>1. pages[r] \in Seq(Page)  BY <1>1, <1>2 DEF Typed
      <4> QED  BY <1>9, <3>1, <4>1 DEF Keyed, Live
    <3> QED  BY <2>1, <3>2 DEF t
  <2> QED  BY <2>1
\* A cancellation that was read: the event dies with it.
<1>11. Retiring(p) =>
         /\ r = "event" /\ Cancelled(Len(changes)) /\ t = task[p].page /\ t # 0
         /\ \A k \in DOMAIN pages'["event"] : ~pages'["event"][k].live
  <2> SUFFICES ASSUME Retiring(p)
               PROVE  /\ r = "event" /\ Cancelled(Len(changes)) /\ t = task[p].page /\ t # 0
                      /\ \A k \in DOMAIN pages'["event"] : ~pages'["event"][k].live
    OBVIOUS
  <2>1. r = "event" /\ Cancelled(w)  BY DEF Retiring
  <2>2. Cancelled(Len(changes))  BY <1>1, <1>3, <2>1, CancelledIsLast DEF Facts
  <2>3. task[p].page # 0  BY <1>1 DEF PageInOrder
  <2>4. ~pages'["event"][t].live  BY <1>8, <2>1
  <2>5. \A k \in DOMAIN pages'["event"] : pages'["event"][k].keyed
    BY DEF IInv, Facts, PagesKnown
  <2> QED  BY <1>10, <2>1, <2>2, <2>3, <2>4, <2>5 DEF t
\* Otherwise every page of the resource is live, and no end of it has been dealt with.
<1>12. ~Retiring(p) =>
         /\ pages'[r][t].live /\ pages'[r][t].keyed /\ pages'[r][t].shows = w
         /\ \A k \in DOMAIN pages'[r] : pages'[r][k].live
         /\ ~(r = "event" /\ EventIsOver)
  <2> SUFFICES ASSUME ~Retiring(p)
               PROVE  /\ pages'[r][t].live /\ pages'[r][t].keyed /\ pages'[r][t].shows = w
                      /\ \A k \in DOMAIN pages'[r] : pages'[r][k].live
                      /\ ~(r = "event" /\ EventIsOver)
    OBVIOUS
  <2>1. pages'[r][t].live /\ pages'[r][t].keyed /\ pages'[r][t].shows = w
    BY <1>8
  <2>2. ~(r = "event" /\ EventIsOver)  BY <1>1 DEF Retiring, ReadsLatest
  <2>3. Dead(r) = {}  BY <1>1, <1>2, <2>2 DEF PagesInOrder, EventIsOver
  <2>4. \A k \in DOMAIN pages[r] : pages[r][k].live  BY <2>3 DEF Dead, Live
  <2> QED  BY <1>6, <2>1, <2>2, <2>4
<1>13. PagesInOrder'
  <2>1. ASSUME NEW res \in Resources, res # r
        PROVE  /\ \A k, l \in Keyed(res)' : k = l
               /\ Dead(res)' # {} => res = "event" /\ Cancelled(Len(changes)) /\ Live(res)' = {}
               /\ best'[res] # 0 => best'[res] <= Len(changes) /\ Touches(res, changes[best'[res]])
    BY <1>1, <1>6, <1>7, <2>1 DEF PagesInOrder, Keyed, Dead, Live
  <2>2. \A k, l \in Keyed(r) : k = l  BY <1>1, <1>2 DEF PagesInOrder
  <2>3. \A k, l \in {k \in DOMAIN pages'[r] : pages'[r][k].live /\ pages'[r][k].keyed} : k = l
    BY <1>10
  <2>4. (\E k \in DOMAIN pages'[r] : ~pages'[r][k].live) =>
           /\ r = "event" /\ Cancelled(Len(changes))
           /\ \A k \in DOMAIN pages'[r] : ~pages'[r][k].live
    BY <1>11, <1>12
  <2>5. best'[r] # 0 => best'[r] <= Len(changes) /\ Touches(r, changes[best'[r]])
    BY <1>1, <1>2, <1>3, <1>7 DEF PagesInOrder
  <2>6. ASSUME NEW res \in Resources
        PROVE  /\ \A k, l \in Keyed(res)' : k = l
               /\ Dead(res)' # {} => res = "event" /\ Cancelled(Len(changes)) /\ Live(res)' = {}
               /\ best'[res] # 0 => best'[res] <= Len(changes) /\ Touches(res, changes[best'[res]])
    <3>1. CASE res # r  BY <2>1, <3>1
    <3>2. CASE res = r
      <4> HIDE DEF r
      <4> QED  BY <2>3, <2>4, <2>5, <3>2 DEF Keyed, Dead, Live
    <3> QED  BY <3>1, <3>2
  <2> QED  BY <2>6 DEF PagesInOrder, Cancelled, Touches
\* What another row, or this one before, has delivered.
<1>14. ASSUME NEW row \in DOMAIN rows, NEW res \in Resources, Delivered(row, res),
              \/ rows[row] = "done" /\ (\E i \in DOMAIN ResourcesOf(row) : res = ResourcesOf(row)[i])
              \/ res # r
       PROVE  Delivered(row, res)'
  <2>1. CASE res # r
    <3>1. pages'[res] = pages[res]  BY <1>6, <2>1
    <3> QED  BY <1>14, <3>1 DEF Delivered, Keyed, Live, Cancelled
  <2>2. CASE res = r /\ Retiring(p)
    <3>1. Live("event")' = {} /\ res = "event" /\ Cancelled(Len(changes))'
      BY <1>11, <2>2 DEF Live, Cancelled
    <3> QED  BY <3>1 DEF Delivered
  <2>3. CASE res = r /\ ~Retiring(p) /\ res = "event" /\ Cancelled(Len(changes))
    <3>1. rows[row] = "done" /\ \E i \in DOMAIN ResourcesOf(row) : ResourcesOf(row)[i] = "event"
      BY <1>14, <2>3
    <3>2. row[2] = "CALENDAR" /\ row = <<row[1], row[2]>>  BY <1>1, <3>1, ResourcesForm, RowForm
    <3>3. row[1] # Len(changes)
      <4> SUFFICES ASSUME row[1] = Len(changes) PROVE FALSE  OBVIOUS
      <4>1. row = <<Len(changes), "CALENDAR">>  BY <3>2
      <4>2. EventIsOver  BY <2>3, <3>1, <4>1 DEF EventIsOver
      <4> QED  BY <1>12, <2>3, <4>2
    <3> QED  BY <2>3, <3>3 DEF Delivered, Cancelled
  <2>4. CASE res = r /\ ~Retiring(p) /\ ~(res = "event" /\ Cancelled(Len(changes)))
    <3>1. binding[res] \in Keyed(res) /\ pages[res][binding[res]].shows >= row[1]
      BY <1>14, <2>4 DEF Delivered
    <3>2. binding[res] = task[p].page  BY <1>9, <2>4, <3>1
    <3>3. binding[res] # 0 /\ binding[res] \in DOMAIN pages[res]
      <4>1. pages[res] \in Seq(Page)  BY <1>1 DEF Typed
      <4> QED  BY <3>1, <4>1 DEF Keyed, Live
    <3>4. t = binding[res]  BY <3>2, <3>3 DEF t
    <3>5. pages[res][binding[res]].shows <= best[res] /\ best[res] <= w
      BY <1>1, <2>4, <3>3 DEF Facts, PagesKnown, ReadsLatest
    <3>6. pages[res][binding[res]].shows \in Nat /\ best[res] \in Nat /\ row[1] \in Nat
      <4>1. pages[res][binding[res]] \in Page  BY <1>1, <3>3, ElementOfSeq DEF Typed
      <4>2. pages[res][binding[res]].shows \in Nat  BY <4>1, ProjectionAssumption DEF Page, States
      <4>3. best[res] \in Nat  BY <1>1, ProjectionAssumption DEF Typed, States
      <4>4. row[1] \in Nat  BY <1>1, RowForm
      <4> QED  BY <4>2, <4>3, <4>4
    <3>7. w >= row[1]  BY <1>3, <3>1, <3>5, <3>6
    <3> QED  BY <1>6, <1>12, <2>4, <3>4, <3>7 DEF Delivered, Keyed, Live, Cancelled
  <2> QED  BY <2>1, <2>2, <2>3, <2>4
<1>15. RowsInOrder'
  <2>1. ASSUME NEW row \in DOMAIN rows', rows'[row] = "done", NEW i \in DOMAIN ResourcesOf(row)'
        PROVE  Delivered(row, ResourcesOf(row)[i])'
    <3>1. ResourcesOf(row)' = ResourcesOf(row) /\ row \in DOMAIN rows /\ rows[row] = "done"
      BY <2>1 DEF ResourcesOf
    <3>2. ResourcesOf(row)[i] \in Resources /\ Delivered(row, ResourcesOf(row)[i])
      BY <1>1, <2>1, <3>1, ResourcesForm DEF RowsInOrder
    <3> QED  BY <1>14, <2>1, <3>1, <3>2 DEF Delivered
  <2> QED  BY <2>1 DEF RowsInOrder
<1>16. /\ Others(p) /\ pc'[p] = "check"
       /\ task'[p].todo = task[p].todo /\ task'[p].at = task[p].at
       /\ task'[p].want = w /\ task'[p].page = task[p].page /\ task'[p].heard = heard
  BY <1>1, HeardForm
<1>17. Row(p)' = Row(p)  BY <1>16 DEF Row
<1>18. ResourcesOf(Row(p))' = ResourcesOf(Row(p))  BY <1>17 DEF ResourcesOf
<1>19. Res(p)' = r  BY <1>16, <1>18 DEF Res
<1>20. Retiring(p)' = Retiring(p)  BY <1>16, <1>19 DEF Retiring, Cancelled
<1>21. ReadsLatest(p)'
  <2>1. best'[r] <= w
    <3>1. best[r] <= w  BY <1>1 DEF ReadsLatest
    <3> QED  BY <1>3, <1>7, <3>1
  <2>2. ASSUME r = "event", EventIsOver' PROVE Cancelled(w)
    <3>1. CASE Retiring(p)  BY <3>1 DEF Retiring
    <3>2. CASE ~Retiring(p)
      <4>1. Dead("event")' = {}  BY <1>12, <2>2, <3>2 DEF Dead, Live
      <4>2. EventIsOver  BY <2>2, <4>1 DEF EventIsOver, Cancelled
      <4> QED  BY <1>12, <2>2, <3>2, <4>2
    <3> QED  BY <3>1, <3>2
  <2> QED  BY <1>16, <1>19, <2>1, <2>2 DEF ReadsLatest, Cancelled
<1>22. PageInOrder(p)'
  <2>1. Retiring(p) => task[p].page # 0  BY <1>1 DEF PageInOrder
  <2>2. ASSUME task[p].page = 0, ~Retiring(p)
        PROVE  /\ Len(pages'[r]) \in {k \in DOMAIN pages'[r] : pages'[r][k].live /\ pages'[r][k].keyed}
               /\ pages'[r][Len(pages'[r])].shows = w
    BY <1>6, <1>12, <2>2
  <2>3. Keyed(Res(p))' = {k \in DOMAIN pages'[r] : pages'[r][k].live /\ pages'[r][k].keyed}
    BY <1>19 DEF Keyed, Live
  <2> QED  BY <1>16, <1>19, <1>20, <2>1, <2>2, <2>3 DEF PageInOrder
<1>23. DoneInOrder(p)'
  <2>1. ASSUME NEW i \in 1..(task[p].at - 1) PROVE Delivered(Row(p), ResourcesOf(Row(p))[i])'
    <3>1. Delivered(Row(p), ResourcesOf(Row(p))[i])  BY <1>1 DEF DoneInOrder
    <3>2. i \in DOMAIN ResourcesOf(Row(p)) /\ i # task[p].at  BY <1>2
    <3>3. ResourcesOf(Row(p))[i] \in Resources /\ ResourcesOf(Row(p))[i] # r
      BY <1>1, <1>2, <3>2, ResourcesForm DEF Res
    <3> QED  BY <1>2, <1>14, <1>17, <1>18, <3>1, <3>3 DEF Delivered
  <2> QED  BY <1>16, <2>1 DEF DoneInOrder
<1> QED  BY <1>13, <1>15, <1>16, <1>21, <1>22, <1>23, SoloStep DEF InOrder
LEMMA SendInOrder == ASSUME IInv, IInv', Undisturbed, NEW p \in Writers, Send(p) PROVE Undisturbed'
<1>1. /\ pc[p] = "send"
      /\ Proceed(p) /\ UNCHANGED <<outbox, binding, upsets, crashes>>
      /\ \/ UNCHANGED remote /\ Heard(p, FALSE)
         \/ Answered(Wanted(p)) /\ Heard(p, TRUE)
         \/ Raises(Wanted(p)) /\ Heard(p, FALSE)
  BY DEF Send, Wanted
<1>2. /\ Typed /\ RowsKnown /\ AtWork(p) /\ HasRead(p) /\ PagesInOrder /\ RowsInOrder /\ PageInOrder(p)
      /\ p \in inside
  BY <1>1 DEF IInv, Facts, Knows, AtWork, Undisturbed, InOrder
<1>3. Wanted(p) \in Request /\ Wanted(p).res = Res(p) /\ Wanted(p).page = task[p].page
  <2>1. task[p].page \in Nat /\ task[p].want \in States /\ 0 \in States
    BY <1>2, ProjectionAssumption DEF Typed, Tasks, States
  <2>2. Res(p) \in Resources  BY <1>1, <1>2, RowOf
  <2> QED  BY <2>1, <2>2 DEF Wanted, Request
<1>4. Proceed(p) /\ UNCHANGED <<changes, rows, binding, inside>>  BY <1>1 DEF outbox, Proceed
<1>5. CASE UNCHANGED <<pages, best>> /\ Heard(p, FALSE)
  <2>1. /\ Others(p) /\ pc'[p] = "check"
        /\ task'[p].todo = task[p].todo /\ task'[p].at = task[p].at
        /\ task'[p].want = task[p].want /\ task'[p].bound = task[p].bound
        /\ task'[p].page = task[p].page /\ task'[p].heard = FALSE
    BY <1>2, <1>5, HeardForm
  <2>2. Retiring(p)' = Retiring(p)  BY <1>1, <1>2, <1>4, <1>5, <2>1, StillRead
  <2>3. PageInOrder(p)'  BY <1>1, <1>2, <2>1, <2>2 DEF PageInOrder
  <2>4. InOrder(p)'  BY <1>1, <1>4, <1>5, <2>1, <2>3, MoveInOrder
  <2>5. PagesInOrder' /\ RowsInOrder'  BY <1>2, <1>4, <1>5, StillInOrder
  <2> QED  BY <1>1, <1>4, <2>1, <2>4, <2>5, SoloStep
<1>6. ASSUME Apply(Wanted(p)), NEW heard \in BOOLEAN, Heard(p, heard),
             task[p].page = 0 \/ task[p].page \in Live(Res(p))
      PROVE  Undisturbed'
  BY <1>1, <1>4, <1>6, WriteInOrder
<1>7. CASE Answered(Wanted(p)) /\ Heard(p, TRUE)
  <2>1. Apply(Wanted(p)) /\ (task[p].page = 0 \/ task[p].page \in Live(Res(p)))
    BY <1>3, <1>7 DEF Answered
  <2> QED  BY <1>6, <1>7, <2>1
<1>8. CASE Raises(Wanted(p)) /\ Heard(p, FALSE)
  <2>1. CASE UNCHANGED <<pages, best>>  BY <1>5, <1>8, <2>1
  <2>2. CASE Apply(Wanted(p)) /\ (task[p].page = 0 \/ task[p].page \in Live(Res(p)))
    BY <1>6, <1>8, <2>2
  <2>3. CASE Apply(Wanted(p)) /\ ~(task[p].page = 0 \/ task[p].page \in Live(Res(p)))
    <3>1. Wanted(p).page # 0 /\ Wanted(p).page \notin Live(Wanted(p).res)  BY <1>3, <2>3
    <3>2. UNCHANGED <<pages, best>>  BY <1>2, <1>3, <2>3, <3>1, ApplyBest
    <3> QED  BY <2>1, <3>2
  <2> QED  BY <1>8, <2>1, <2>2, <2>3 DEF Raises
<1>9. CASE UNCHANGED remote /\ Heard(p, FALSE)  BY <1>5, <1>9 DEF remote
<1> QED  BY <1>1, <1>7, <1>8, <1>9

\* The page bound is the one that was written; what it replaces as the bound one carried
\* no later state.
LEMMA BindInOrder == ASSUME IInv, Undisturbed, NEW p \in Writers, Bind(p) PROVE Undisturbed'
<1>1. PICK r : r = Res(p)  OBVIOUS
<1>2. PICK w : w = task[p].want  OBVIOUS
<1>3. pc[p] = "bind" /\ UNCHANGED <<changes, rows, pages, best>>  BY DEF Bind, outbox, remote
<1>4. CASE Fail(p) /\ UNCHANGED binding  BY <1>3, <1>4, LeaveInOrder DEF Fail
<1> SUFFICES ASSUME /\ binding' = [binding EXCEPT ![r] = task[p].page]
                    /\ Proceed(p)
                    /\ IF task[p].at < Len(ResourcesOf(Row(p)))
                       THEN /\ pc' = [pc EXCEPT ![p] = "read"]
                            /\ task' = [task EXCEPT ![p] = TaskAt(task[p].todo, task[p].at + 1)]
                       ELSE Goto(p, "finish")
             PROVE  Undisturbed'
  BY <1>4, <1>1 DEF Bind
<1>5. /\ Typed /\ Facts /\ RowsKnown /\ AtWork(p) /\ HasRead(p)
      /\ PagesInOrder /\ RowsInOrder /\ ReadsLatest(p) /\ PageInOrder(p) /\ DoneInOrder(p)
  BY DEF IInv, Facts, Knows, Undisturbed, InOrder
<1>6. /\ r \in Resources /\ Row(p) \in DOMAIN rows /\ Row(p)[1] \in 1..Len(changes)
      /\ DOMAIN ResourcesOf(Row(p)) = 1..Len(ResourcesOf(Row(p)))
      /\ Len(ResourcesOf(Row(p))) \in 1..2
      /\ task[p].at \in DOMAIN ResourcesOf(Row(p)) /\ task[p].at \in 1..2
  BY <1>3, <1>5, <1>1, RowOf
<1>7. w \in Row(p)[1]..Len(changes) /\ w \in 0..Len(changes) /\ w \in Nat /\ best[r] \in Nat /\ best[r] <= w
  <2>1. w \in Row(p)[1]..Len(changes) /\ best[r] <= w  BY <1>3, <1>5, <1>1, <1>2 DEF HasRead, ReadsLatest
  <2>2. best[r] \in Nat  BY <1>5, <1>6, ProjectionAssumption DEF Typed, States
  <2> QED  BY <1>5, <1>6, <2>1, <2>2 DEF Typed
<1>8. IF Retiring(p) THEN Live("event") = {} ELSE Exact(r, task[p].page, w)
  BY <1>3, <1>5, <1>1, <1>2 DEF PageInOrder
<1>9. /\ \A res \in Resources \ {r} : binding'[res] = binding[res]
      /\ binding'[r] = task[p].page
  BY <1>5, <1>6 DEF Typed
<1>10. Retiring(p) => r = "event" /\ Cancelled(Len(changes))
  BY <1>5, <1>7, <1>1, <1>2, CancelledIsLast DEF Retiring, Facts
<1>11. ASSUME NEW row \in DOMAIN rows, row[1] <= w,
             r = "event" /\ Cancelled(Len(changes)) /\ row[1] = Len(changes) => Live("event") = {}
      PROVE  Delivered(row, r)'
  <2>1. CASE r = "event" /\ Cancelled(Len(changes))
    BY <1>3, <1>11, <2>1 DEF Delivered, Live, Cancelled
  <2>2. CASE ~(r = "event" /\ Cancelled(Len(changes)))
    <3>1. task[p].page \in Keyed(r) /\ pages[r][task[p].page].shows = w
      BY <1>8, <1>10, <2>2 DEF Exact
    <3>2. row[1] \in Nat  BY <1>5, RowForm
    <3>3. w >= row[1]  BY <1>7, <1>11, <3>2
    <3> QED  BY <1>3, <1>9, <2>2, <3>1, <3>3 DEF Delivered, Keyed, Live, Cancelled
  <2> QED  BY <2>1, <2>2
<1>12. ASSUME NEW row, NEW res \in Resources, res # r, Delivered(row, res)
       PROVE  Delivered(row, res)'
  BY <1>3, <1>9, <1>12 DEF Delivered, Keyed, Live, Cancelled
<1>13. RowsInOrder'
  <2>1. ASSUME NEW row \in DOMAIN rows', rows'[row] = "done", NEW i \in DOMAIN ResourcesOf(row)'
        PROVE  Delivered(row, ResourcesOf(row)[i])'
    <3>1. ResourcesOf(row)' = ResourcesOf(row) /\ row \in DOMAIN rows /\ rows[row] = "done"
      BY <1>3, <2>1 DEF ResourcesOf
    <3>2. ResourcesOf(row)[i] \in Resources /\ Delivered(row, ResourcesOf(row)[i])
      BY <1>5, <2>1, <3>1, ResourcesForm DEF RowsInOrder
    <3>3. Announced(row, ResourcesOf(row)[i])
      BY <1>5, <2>1, <3>1 DEF Facts, ReceiptsKnown
    <3>4. row[1] \in 1..Len(changes) /\ Len(changes) \in Nat  BY <1>5, <3>1, RowForm DEF Typed
    <3>5. CASE ResourcesOf(row)[i] # r
      <4>1. Delivered(row, ResourcesOf(row)[i]) /\ ResourcesOf(row)[i] \in Resources  BY <3>2
      <4> QED  BY <1>3, <1>9, <3>1, <3>5, <4>1 DEF Delivered, Keyed, Live, Cancelled
    <3>6. CASE ResourcesOf(row)[i] = r /\ r = "event" /\ Cancelled(Len(changes))
      BY <1>3, <3>1, <3>2, <3>6 DEF Delivered, Live, Cancelled
    <3>7. CASE ResourcesOf(row)[i] = r /\ ~(r = "event" /\ Cancelled(Len(changes)))
      <4>1. best[r] >= row[1]  BY <3>3, <3>7 DEF Announced
      <4>2. row[1] <= w  BY <1>7, <3>4, <4>1
      <4>3. Delivered(row, r)'  BY <1>11, <3>1, <3>7, <4>2
      <4> QED  BY <1>3, <3>1, <3>7, <4>3 DEF Delivered
    <3> QED  BY <3>5, <3>6, <3>7
  <2> QED  BY <2>1 DEF RowsInOrder
<1>14. ASSUME NEW row, row = Row(p) PROVE Delivered(row, r)'
  <2>1. row[1] <= w  BY <1>6, <1>7, <1>14
  <2>2. r = "event" /\ Cancelled(Len(changes)) /\ row[1] = Len(changes) => Live("event") = {}
    <3> SUFFICES ASSUME r = "event", Cancelled(Len(changes)), row[1] = Len(changes)
                 PROVE  Live("event") = {}
      OBVIOUS
    <3>1. w = Len(changes)  BY <1>6, <1>7, <1>14
    <3>2. Retiring(p)  BY <1>1, <1>2, <3>1 DEF Retiring
    <3> QED  BY <1>8, <3>2
  <2> QED  BY <1>6, <1>11, <1>14, <2>1, <2>2
<1>15. task'[p].todo = task[p].todo
  <2>1. CASE task' = [task EXCEPT ![p] = TaskAt(task[p].todo, task[p].at + 1)]
    BY <1>5, <2>1 DEF Typed, TaskAt
  <2>2. CASE Goto(p, "finish")  BY <2>2 DEF Goto
  <2> QED  BY <2>1, <2>2
<1>16. Row(p)' = Row(p)  BY <1>15 DEF Row
<1>17. ResourcesOf(Row(p))' = ResourcesOf(Row(p))  BY <1>3, <1>16 DEF ResourcesOf
<1>18. ASSUME NEW i \in 1..task[p].at PROVE Delivered(Row(p), ResourcesOf(Row(p))[i])'
  <2>1. CASE i = task[p].at
    <3>1. PICK row : row = Row(p)  OBVIOUS
    <3>2. Delivered(row, r)'  BY <1>14, <3>1
    <3>3. ResourcesOf(Row(p))[i]' = r  BY <1>1, <1>17, <2>1 DEF Res
    <3> QED  BY <1>16, <3>1, <3>2, <3>3 DEF Delivered
  <2>2. CASE i # task[p].at
    <3>1. i \in 1..(task[p].at - 1) /\ i \in DOMAIN ResourcesOf(Row(p))
      <4>1. \A m, n \in 1..2 : m <= n => \A k \in 1..m : k # m => k \in 1..(m - 1) /\ k \in 1..n  OBVIOUS
      <4>2. task[p].at <= Len(ResourcesOf(Row(p)))  BY <1>6
      <4> QED  BY <1>6, <2>2, <4>1, <4>2
    <3>2. Delivered(Row(p), ResourcesOf(Row(p))[i])  BY <1>5, <1>3, <3>1 DEF DoneInOrder
    <3>3. ResourcesOf(Row(p))[i] \in Resources /\ ResourcesOf(Row(p))[i] # r
      BY <1>5, <1>6, <1>1, <2>2, <3>1, ResourcesForm DEF Res
    <3>4. PICK row, res : row = Row(p) /\ res = ResourcesOf(Row(p))[i]  OBVIOUS
    <3>5. Delivered(row, res)'  BY <1>12, <3>2, <3>3, <3>4
    <3> QED  BY <1>16, <1>17, <3>4, <3>5 DEF Delivered
  <2> QED  BY <2>1, <2>2
<1>19. CASE /\ task[p].at < Len(ResourcesOf(Row(p)))
            /\ pc' = [pc EXCEPT ![p] = "read"]
            /\ task' = [task EXCEPT ![p] = TaskAt(task[p].todo, task[p].at + 1)]
  <2>1. task[p].at = 1
    <3>1. \A m, n \in 1..2 : m < n => m = 1  OBVIOUS
    <3> QED  BY <1>6, <1>19, <3>1
  <2>2. /\ Others(p) /\ pc'[p] = "read" /\ task'[p].at = 2
    BY <1>5, <1>19, <2>1 DEF Typed, TaskAt, Others
  <2>3. \A i \in 1..(2 - 1) : Delivered(Row(p), ResourcesOf(Row(p))[i])'  BY <1>18, <2>1
  <2>4. InOrder(p)'  BY <2>2, <2>3 DEF InOrder, ReadsLatest, PageInOrder, DoneInOrder
  <2>5. PagesInOrder'  BY <1>3, <1>5, PagesStillInOrder
  <2> QED  BY <1>3, <1>13, <2>2, <2>4, <2>5, SoloStep
<1>20. CASE task[p].at >= Len(ResourcesOf(Row(p))) /\ Goto(p, "finish")
  <2>1. task[p].at = Len(ResourcesOf(Row(p)))  BY <1>6, <1>20
  <2>2. task' = task  BY <1>20 DEF Goto
  <2>3. \A i \in 1..(task[p].at - 1) : Delivered(Row(p), ResourcesOf(Row(p))[i])'
    <3>1. \A m \in 1..2 : \A i \in 1..(m - 1) : i \in 1..m  OBVIOUS
    <3> QED  BY <1>6, <1>18, <3>1
  <2>4. Delivered(Row(p), ResourcesOf(Row(p))[task[p].at])'
    <3>1. PICK i : i = task[p].at  OBVIOUS
    <3>2. i \in 1..task[p].at  BY <1>6, <3>1
    <3>3. Delivered(Row(p), ResourcesOf(Row(p))[i])'  BY <1>18, <3>2
    <3> QED  BY <2>2, <3>1, <3>3
  <2> QED  BY <1>3, <1>13, <1>20, <2>1, <2>3, <2>4, ToFinishInOrder
<1> QED  BY <1>6, <1>19, <1>20
-----------------------------------------------------------------------------
(* The second invariant                                                    *)

LEMMA InitQuiet == Init => Quiet
<1> SUFFICES ASSUME Init PROVE Undisturbed  BY DEF Quiet
<1>1. PICK r \in {<< >>, <<Legacy>>}, c \in {<< >>, <<Legacy>>} :
         pages = [reservation |-> r, cleaning |-> c, event |-> << >>]
  BY DEF Init
<1>2. \A res \in Resources : \A k \in DOMAIN pages[res] : pages[res][k] = Legacy
  BY <1>1 DEF Resources
<1>3. \A res \in Resources : Keyed(res) = {} /\ Dead(res) = {}
  BY <1>2 DEF Keyed, Dead, Live, Legacy
<1>4. PagesInOrder  BY <1>3 DEF PagesInOrder, Init
<1>5. RowsInOrder  BY DEF RowsInOrder, Init
<1>6. \A p \in Writers : InOrder(p)  BY DEF InOrder, ReadsLatest, PageInOrder, DoneInOrder, Init
<1>7. Held  BY DEF Held, Init, WriterInit
<1> QED  BY <1>4, <1>5, <1>6, <1>7 DEF Undisturbed

\* What was disturbed stays so: a calm state has only calm ones before it.
LEMMA CalmBefore ==
    ASSUME IInv, Next, Calm'
    PROVE  Calm /\ ~Land /\ ~Trash
<1>1. lapses \in Nat /\ upsets \in Nat  BY ProjectionAssumption DEF IInv, Typed, WriterTypeOK
<1>2. lapses' = 0 /\ landed' = FALSE /\ upsets' = 0  BY DEF Calm, IInv
<1>3. ~Land /\ ~Trash  BY <1>1, <1>2 DEF Land, Trash
<1>4. ASSUME Take \/ Reconcile PROVE Calm
  BY <1>2, <1>4 DEF Take, Reconcile, Enter, Calm, remote
<1>5. ASSUME Change \/ LeaseLapse PROVE Calm
  BY <1>1, <1>2, <1>5 DEF Change, LeaseLapse, Lapse, Calm, writerVars, remote
<1>6. ASSUME NEW p \in Writers, Crash(p) PROVE Calm
  BY <1>2, <1>6 DEF Crash, Die, Calm, remote
<1>7. ASSUME NEW p \in Writers, Deliver(p) PROVE Calm
  <2>1. upsets' = upsets
    BY <1>7 DEF Deliver, Read, Look, LookRetired, Send, CheckCreated, CheckWritten, Bind, Finish
  <2>2. landed' = landed
    <3>1. CASE Send(p)  BY <3>1 DEF Send, Answered, Raises, remote
    <3>2. CASE ~Send(p)
      BY <1>7, <3>2 DEF Deliver, Read, Look, LookRetired, CheckCreated, CheckWritten, Bind, Finish, remote
    <3> QED  BY <3>1, <3>2
  <2>3. lapses' = lapses
    BY <1>7 DEF Deliver, Read, Look, LookRetired, Send, CheckCreated, CheckWritten, Bind, Finish,
                Fail, Exit, Proceed
  <2> QED  BY <1>2, <2>1, <2>2, <2>3 DEF Calm
<1> QED  BY <1>3, <1>4, <1>5, <1>6, <1>7 DEF Next

LEMMA NextQuiet == IInv /\ IInv' /\ Quiet /\ [Next]_vars => Quiet'
<1> SUFFICES ASSUME IInv, IInv', Quiet, [Next]_vars, Calm' PROVE Undisturbed'  BY DEF Quiet
<1>1. CASE Next
  <2>1. Calm /\ ~Land /\ ~Trash  BY <1>1, CalmBefore
  <2>2. Undisturbed  BY <2>1 DEF Quiet
  <2>3. CASE Take  BY <2>2, <2>3, TakeInOrder
  <2>4. CASE Reconcile  BY <2>2, <2>4, ReconcileInOrder
  <2>5. CASE Change  BY <2>2, <2>5, ChangeInOrder
  <2>6. CASE LeaseLapse  BY <2>2, <2>6, LapseInOrder DEF Calm
  <2>7. ASSUME NEW p \in Writers, Crash(p) PROVE Undisturbed'
    BY <2>2, <2>7, LeaveInOrder DEF Crash, outbox, remote
  <2>8. ASSUME NEW p \in Writers, Deliver(p) PROVE Undisturbed'
    BY <2>2, <2>8, ReadInOrder, LookInOrder, LookRetiredInOrder, SendInOrder, CheckCreatedInOrder,
       CheckWrittenInOrder, BindInOrder, FinishInOrder DEF Deliver
  <2> QED  BY <1>1, <2>1, <2>3, <2>4, <2>5, <2>6, <2>7, <2>8 DEF Next
<1>2. CASE UNCHANGED vars
  <2>1. UNCHANGED <<changes, rows, binding, pages, best, pc, task, writerVars>> /\ Calm
    BY <1>2 DEF vars, outbox, remote, local, Calm, writerVars
  <2>2. Undisturbed  BY <2>1 DEF Quiet
  <2>3. Held'  BY <2>1, <2>2 DEF Undisturbed, Held, writerVars
  <2> QED  BY <2>1, <2>2, <2>3, NothingInOrder
<1> QED  BY <1>1, <1>2

\* As long as no lease ran out under its holder, nothing landed late and nobody trashed a
\* page, processes work one at a time on the only page of the key, and what is done shows
\* at least what its row announces.
THEOREM Quietness == Spec => []Quiet
BY InitQuiet, NextQuiet, Invariant, PTL DEF Spec

\* No resource has a second live page of its key, whatever crashed or was lost.
THEOREM OnePage == Spec => []OneLivePage
<1>1. Quiet => OneLivePage
  <2> SUFFICES ASSUME Quiet, Calm, NEW res \in Resources PROVE Cardinality(Keyed(res)) <= 1
    BY DEF OneLivePage
  <2>1. \A k, l \in Keyed(res) : k = l  BY DEF Quiet, Undisturbed, PagesInOrder
  <2>2. CASE Keyed(res) = {}  BY <2>2, FS_EmptySet
  <2>3. CASE Keyed(res) # {}
    <3>1. PICK k : Keyed(res) = {k}  BY <2>1, <2>3
    <3> QED  BY <3>1, FS_Singleton
  <2> QED  BY <2>2, <2>3
<1> QED  BY <1>1, Quietness, PTL

\* With every row done the bound pages show the last announced state or a later one, and a
\* cancelled cleaning has no event.
THEOREM AllSettled == Spec => []Settled
<1>1. IInv /\ Quiet => Settled
  <2> SUFFICES ASSUME IInv, Quiet, Calm, \A row \in DOMAIN rows : rows[row] = "done",
                      NEW res \in Resources
               PROVE  IF res = "event" /\ Cancelled(Len(changes))
                      THEN Live(res) = {}
                      ELSE /\ binding[res] \in Keyed(res)
                           /\ pages[res][binding[res]].shows >= LastAnnounced(res)
    BY DEF Settled
  <2>1. Typed /\ RowsKnown /\ History /\ RowsInOrder
    BY DEF IInv, Facts, Quiet, Undisturbed
  <2>2. LastAnnounced(res) \in 1..Len(changes)  BY <2>1, LastAnnouncement
  <2>3. Len(changes) \in 1..Len(changes)  BY <2>1 DEF Typed
  <2>4. CASE res = "event" /\ Cancelled(Len(changes))
    <3>1. <<Len(changes), "CALENDAR">> \in DOMAIN rows  BY <2>1, <2>3, <2>4, RowsAre DEF Cancelled
    <3>2. ResourcesOf(<<Len(changes), "CALENDAR">>) = <<"event">>
      BY <2>4 DEF ResourcesOf, Cancelled
    <3>3. Delivered(<<Len(changes), "CALENDAR">>, "event")  BY <2>1, <3>1, <3>2 DEF RowsInOrder
    <3> QED  BY <2>4, <3>3 DEF Delivered
  <2>5. CASE ~(res = "event" /\ Cancelled(Len(changes)))
    <3> DEFINE n == LastAnnounced(res)
               row == <<n, IF res = "event" THEN "CALENDAR" ELSE "NOTION">>
    <3>1. row \in DOMAIN rows /\ \E i \in DOMAIN ResourcesOf(row) : ResourcesOf(row)[i] = res
      <4>1. /\ res = "cleaning" => changes[n] # "OFFERED"
            /\ res # "cleaning" => changes[n] \in {"INGESTED", "CANCELLED"}
        BY <2>1, LastAnnouncement
      <4>2. changes[n] \in Kinds  BY <2>1, <2>2 DEF Typed
      <4>3. CASE res = "event"
        <5>1. row = <<n, "CALENDAR">> /\ ResourcesOf(<<n, "CALENDAR">>) = <<"event">>
          BY <4>1, <4>3 DEF ResourcesOf
        <5>2. <<n, "CALENDAR">> \in DOMAIN rows  BY <2>1, <2>2, <4>1, <4>3, RowsAre
        <5> QED  BY <4>3, <5>1, <5>2
      <4>4. CASE res = "cleaning" /\ changes[n] = "ACCEPTED"
        <5>1. row = <<n, "NOTION">> /\ ResourcesOf(<<n, "NOTION">>) = <<"cleaning">>
          BY <4>4 DEF ResourcesOf
        <5>2. <<n, "NOTION">> \in DOMAIN rows  BY <2>1, <2>2, <4>4, RowsAre
        <5> QED  BY <4>4, <5>1, <5>2
      <4>5. CASE res # "event" /\ changes[n] \in {"INGESTED", "CANCELLED"}
        <5>1. row = <<n, "NOTION">> /\ ResourcesOf(<<n, "NOTION">>) = <<"reservation", "cleaning">>
          BY <4>5 DEF ResourcesOf
        <5>2. <<n, "NOTION">> \in DOMAIN rows  BY <2>1, <2>2, <4>5, RowsAre
        <5>3. res = "reservation" \/ res = "cleaning"  BY <4>5 DEF Resources
        <5> QED  BY <5>1, <5>2, <5>3
      <4> QED  BY <4>1, <4>2, <4>3, <4>4, <4>5 DEF Kinds, Resources
    <3>2. Delivered(row, res)  BY <2>1, <3>1 DEF RowsInOrder
    <3>3. row[1] = n  OBVIOUS
    <3> HIDE DEF row
    <3> QED  BY <2>5, <3>2, <3>3 DEF Delivered
  <2> QED  BY <2>4, <2>5
<1> QED  BY <1>1, Invariant, Quietness, PTL

=============================================================================
