-------------------------- MODULE LegacyAssignment --------------------------
(***************************************************************************)
(* Who cleans: the Notion assignment flow of one cleaning and its          *)
(* reservation.  Cleaners are asked one after the other; the one who       *)
(* accepts may become unavailable, is replaced, may ask to come back, and  *)
(* an operator decides; the reservation may be cancelled.                  *)
(*                                                                         *)
(*   bot_service.py, cleaning_assignment.py   offers and their buttons     *)
(*   assignment_execution_receipt.py          proof that one was executed  *)
(*   assignment_history.py                    accepted rows (Notion 19)    *)
(*   cleaner_unavailable.py                   leaving, asking to come back *)
(*   cleaner_reassignment.py                  the operator's decision      *)
(*   gmail_ingest/lifecycle_actions.py        the cleaning page (Notion 08) *)
(*                                                                         *)
(* Two processes handle one button at a time under the writer lease:       *)
(* CleanerBot (W03) and OpsBot (W02).  Every step of a handler ends at one *)
(* durable write; in between the process may die or lose its lease.  Local *)
(* files are written without asking the lease server.  A Notion request    *)
(* that raises was applied or was not.                                     *)
(***************************************************************************)
EXTENDS GlobalWriter, Sequences, FiniteSets

CONSTANTS
    CleanerBot, OpsBot,  \* the two writers
    Roster,              \* the property's cleaners, by priority
    NoOne,               \* the page has no assignee
    MaxActions,          \* bound: offers and decisions
    MaxLost,             \* bound: Notion and Telegram requests that raise
    MaxCrashes           \* bound: crashes of the two processes

Cleaners == {Roster[i] : i \in DOMAIN Roster}
Actions == 1..MaxActions

ASSUME AssignmentAssumption ==
    /\ Writers = {CleanerBot, OpsBot}
    /\ CleanerBot # OpsBot
    /\ Roster \in Seq(Cleaners) /\ Roster # << >>
    /\ NoOne \notin Cleaners
    /\ MaxActions \in Nat \ {0}
    /\ MaxLost \in Nat
    /\ MaxCrashes \in Nat

VARIABLES
    page,         \* the cleaning page
    reservation,  \* whether the reservation is active
    row,          \* an action's row in the assignment history
    actions,      \* the offers, and the decisions to take someone back
    leave,        \* an assignment's unavailable and come-back buttons
    notice,       \* whether the cancellation prompt can be pressed
    lock,         \* who has the cleaning's file lock
    pc,           \* where a process is in its handler
    job,          \* the action it handles
    failures,     \* how many requests raised
    crashes

notion == <<page, reservation, row>>
files == <<actions, leave, notice>>
local == <<lock, pc, job>>
faults == <<failures, crashes>>
vars == <<writerVars, notion, files, local, faults>>

Acceptances == {"offered", "accepted", "vacant", "withdrawn"}
OfferStatuses == {"PENDING", "APPROVED", "EXECUTED", "RETRY", "REJECTED", "SUPERSEDED"}
DecisionStatuses == {"PENDING", "REASSIGN", "CONTINUE"}
Leaving == {"none", "shown", "clock", "ended", "projected", "done"}
Positions == {"idle", "execute", "patched", "receipt", "history", "decline", "next", "send",
              "end", "project", "route", "tell", "ask", "file", "supersede", "rebook",
              "reproject", "resolve", "settle", "cancel", "release", "withdraw"}

\* `decides' is the assignment a decision is about, 0 for an offer; `rest', the places on the
\* roster of those who are asked if this one declines.
Action == [decides : 0..MaxActions, to : Cleaners, rest : SUBSET DOMAIN Roster, expects : Acceptances,
           edition : Nat, told : BOOLEAN, receipt : BOOLEAN, due : BOOLEAN,
           status : OfferStatuses \cup DecisionStatuses]

First(places) == CHOOSE i \in places : \A j \in places : i <= j

\* The first of the candidates is asked.
Offer(places, expects, edition, told) ==
    [decides |-> 0, to |-> Roster[First(places)], rest |-> places \ {First(places)},
     expects |-> expects, edition |-> edition,
     told |-> told, receipt |-> FALSE, due |-> FALSE, status |-> "PENDING"]

Decision(g) ==
    [decides |-> g, to |-> actions[g].to, rest |-> {}, expects |-> "vacant", edition |-> 0,
     told |-> TRUE, receipt |-> FALSE, due |-> FALSE, status |-> "PENDING"]

IsOffer(g) == g \in DOMAIN actions /\ actions[g].decides = 0
IsDecision(g) == g \in DOMAIN actions /\ actions[g].decides # 0

-----------------------------------------------------------------------------
(* Handlers                                                                *)

\* A button arrives: the mutation scope is entered.
Begin(p, g, l) ==
    /\ pc[p] = "idle"
    /\ Enter(p)
    /\ pc' = [pc EXCEPT ![p] = l]
    /\ job' = [job EXCEPT ![p] = g]
    /\ UNCHANGED lock

\* The same with the cleaning's lock, for an acceptance, a cancellation and a decision.
BeginLocked(p, g, l) ==
    /\ pc[p] = "idle"
    /\ lock = Nobody
    /\ lock' = p
    /\ Enter(p)
    /\ pc' = [pc EXCEPT ![p] = l]
    /\ job' = [job EXCEPT ![p] = g]

Go(p, l) ==
    /\ pc' = [pc EXCEPT ![p] = l]
    /\ UNCHANGED <<writerVars, lock, job>>

\* Mutant: the lock file is left held.
KeepsLock(p) == UNCHANGED lock

Unlocked(p) == lock' = IF lock = p THEN Nobody ELSE lock

\* The handler returns or raises.
End(p) ==
    /\ Unlocked(p)
    /\ pc' = [pc EXCEPT ![p] = "idle"]
    /\ job' = [job EXCEPT ![p] = 1]
    /\ Exit(p)

\* An external write of p: answered (A), raised with or without its effect (L, R), or
\* refused because the lease is not p's any more (S).
Write(p, A, L, R, S) ==
    \/ Current(p) /\ A /\ UNCHANGED failures
    \/ /\ Current(p)
       /\ failures < MaxLost
       /\ failures' = failures + 1
       /\ L \/ R
    \/ ~Current(p) /\ S /\ UNCHANGED failures

PatchPage(acceptance, assignee) ==
    page' = [page EXCEPT !.acceptance = acceptance, !.assignee = assignee, !.edition = @ + 1]

SetStatus(g, s) == actions' = [actions EXCEPT ![g].status = s]

Reads(acceptance, assignee) ==
    ~page.cancelled /\ page.acceptance = acceptance /\ page.assignee = assignee

-----------------------------------------------------------------------------
(* The assignment history                                                  *)

Booked(g) == row[g].hold = "booked"
Left(g) == row[g].hold = "released" /\ row[g].reason = "unavailable"

\* Another generation of this cleaning is in force.
OtherEffective(g) == \E h \in Actions \ {g} : Booked(h)

\* Somebody was accepted after assignment g ended.
NewerAccepted(g) == \E h \in Actions : h > g /\ row[h].hold # "none"

\* Mutant: the local fence is missing.
NeverCommitted == FALSE

\* The operator has taken an earlier assignee back: no offer may be accepted any more.
OriginalCommitted == \E d \in DOMAIN actions : actions[d].status = "REASSIGN"

Book(g) == row' = [row EXCEPT ![g].hold = "booked"]
Release(g, why) == row' = [row EXCEPT ![g].hold = "released", ![g].reason = why]

\* Mutant: a row that is not in force is booked.
BookUnlessBooked(g) == IF Booked(g) THEN UNCHANGED row ELSE Book(g)

\* What makes a generation's row: a signed receipt of the accepted offer ...
AcceptedByReceipt(g) == actions[g].decides = 0 /\ actions[g].receipt

\* ... or a committed decision.
Authority(g) == AcceptedByReceipt(g) \/ actions[g].status = "REASSIGN"

\* A generation's row is created once; its end is never undone.  A create that raised is
\* looked up, and found if it was applied.
Materialise(g) == IF row[g].hold = "none" /\ Authority(g) THEN Book(g) ELSE UNCHANGED row

-----------------------------------------------------------------------------
(* Asking a cleaner                                                        *)

\* An offer whose button may still be pressed, as far as its file says.
Open(g) == IsOffer(g) /\ actions[g].status = "PENDING"

\* Mutant: another offer does not matter.
NothingPending == FALSE

PendingExists == \E g \in DOMAIN actions : Open(g)

Room == Len(actions) < MaxActions

\* send_assignment up to the message: the offer's file is there before anyone is asked.
Ask(p, offer) ==
    IF ~PendingExists /\ Room
    THEN /\ actions' = Append(actions, offer)
         /\ Go(p, "send")
    ELSE UNCHANGED actions /\ End(p)

\* Telegram takes the offer; its message id is written down when the answer comes, and a
\* cleaner's leaving is complete.
SendOffer ==
    /\ pc[CleanerBot] = "send"
    /\ LET new == Len(actions)
           g == job[CleanerBot]
           Stay == UNCHANGED <<actions, leave>>
       IN Write(CleanerBot,
                /\ actions' = [actions EXCEPT ![new].told = TRUE]
                /\ leave' = [leave EXCEPT ![g].at = IF @ = "projected" THEN "done" ELSE @],
                Stay, Stay, Stay)
    /\ End(CleanerBot)
    /\ UNCHANGED <<notion, notice, crashes>>

\* The 24 hours of an offer or a decision are over.
TimeOut ==
    \E g \in DOMAIN actions :
        /\ actions[g].status = "PENDING"
        /\ ~actions[g].due
        /\ actions' = [actions EXCEPT ![g].due = TRUE]
        /\ UNCHANGED <<writerVars, notion, leave, notice, local, faults>>

-----------------------------------------------------------------------------
(* An offer is accepted                                                    *)

\* The button is used up before anything else happens.
PressAccept(g) ==
    /\ Open(g) /\ ~actions[g].due
    /\ ~OriginalCommitted
    /\ ~OtherEffective(g)
    /\ BeginLocked(CleanerBot, g, "execute")
    /\ SetStatus(g, "APPROVED")
    /\ UNCHANGED <<notion, leave, notice, faults>>

\* The page is as it was when the offer was made.
AsOffered(g) == page.acceptance = actions[g].expects /\ page.edition = actions[g].edition

\* The signed intent names the offer's message; without it nothing is done.
HasIntent(g) == actions[g].told

\* The page becomes the cleaner's.
Accept ==
    /\ pc[CleanerBot] = "execute"
    /\ LET p == CleanerBot
           g == job[p]
           Retry == SetStatus(g, "RETRY") /\ End(p)
           Patch == PatchPage("accepted", actions[g].to) /\ UNCHANGED <<reservation, row>>
       IN IF ~HasIntent(g)
          THEN End(p) /\ UNCHANGED <<notion, actions, failures>>
          ELSE Write(p,
                     IF AsOffered(g)
                     THEN Patch /\ UNCHANGED actions /\ Go(p, "patched")
                     ELSE Retry /\ UNCHANGED notion,
                     AsOffered(g) /\ Patch /\ Retry,
                     Retry /\ UNCHANGED notion,
                     End(p) /\ UNCHANGED <<notion, actions>>)
    /\ UNCHANGED <<leave, notice, crashes>>

\* The receipt is written whoever holds the lease by now.
WriteReceipt ==
    /\ pc[CleanerBot] = "patched"
    /\ actions' = [actions EXCEPT ![job[CleanerBot]].receipt = TRUE]
    /\ Go(CleanerBot, "receipt")
    /\ UNCHANGED <<notion, leave, notice, faults>>

\* The result is published only under the lease.
PublishExecuted ==
    /\ pc[CleanerBot] = "receipt"
    /\ IF Current(CleanerBot)
       THEN SetStatus(job[CleanerBot], "EXECUTED") /\ Go(CleanerBot, "history")
       ELSE UNCHANGED actions /\ End(CleanerBot)
    /\ UNCHANGED <<notion, leave, notice, faults>>

\* The accepted generation's row; if it fails a later press tries again.
RecordAccepted ==
    /\ pc[CleanerBot] = "history"
    /\ LET g == job[CleanerBot] IN
       Write(CleanerBot, Materialise(g), Materialise(g), UNCHANGED row, UNCHANGED row)
    /\ End(CleanerBot)
    /\ UNCHANGED <<page, reservation, files, crashes>>

\* The handler stopped after the receipt was written and before the result was published.
Recoverable(g) == actions[g].status = "APPROVED" /\ actions[g].receipt

\* A used button is pressed again: with a receipt the handler goes on where it stopped.
Replay(g) ==
    /\ IsOffer(g)
    /\ \/ actions[g].status = "EXECUTED" /\ BeginLocked(CleanerBot, g, "history")
       \/ Recoverable(g) /\ BeginLocked(CleanerBot, g, "receipt")
    /\ UNCHANGED <<notion, files, faults>>

-----------------------------------------------------------------------------
(* An offer is declined                                                    *)

PressDecline(g) ==
    /\ Open(g) /\ ~actions[g].due
    /\ Begin(CleanerBot, g, "decline")
    /\ SetStatus(g, "REJECTED")
    /\ UNCHANGED <<notion, leave, notice, faults>>

\* The page waits for the next candidate, or for a replacement.
Decline ==
    /\ pc[CleanerBot] = "decline"
    /\ LET p == CleanerBot
           g == job[p]
           Retry == SetStatus(g, "RETRY") /\ End(p)
           Patch == /\ PatchPage(IF actions[g].rest = {} THEN "vacant" ELSE "offered", page.assignee)
                    /\ UNCHANGED <<reservation, row>>
       IN Write(p,
                IF AsOffered(g)
                THEN /\ Patch
                     /\ actions' = [actions EXCEPT ![g].edition = page.edition + 1]
                     /\ IF actions[g].rest = {} THEN End(p) ELSE Go(p, "next")
                ELSE Retry /\ UNCHANGED notion,
                AsOffered(g) /\ Patch /\ Retry,
                Retry /\ UNCHANGED notion,
                End(p) /\ UNCHANGED <<notion, actions>>)
    /\ UNCHANGED <<leave, notice, crashes>>

AskNext ==
    /\ pc[CleanerBot] = "next"
    /\ LET offer == actions[job[CleanerBot]] IN
       Ask(CleanerBot, Offer(offer.rest, "offered", offer.edition, FALSE))
    /\ UNCHANGED <<notion, leave, notice, faults>>

-----------------------------------------------------------------------------
(* The assigned cleaner becomes unavailable                                *)

\* /my lists an assignment in force, with a button bound to the page as it is now.
ShowAssignment(g) ==
    /\ Booked(g)
    /\ \/ leave[g].at = "none"
       \/ leave[g].at \in {"shown", "clock"} /\ leave[g].edition # page.edition
    /\ pc[CleanerBot] = "idle" /\ lease = Nobody
    /\ leave' = [leave EXCEPT ![g].at = "shown", ![g].edition = page.edition]
    /\ UNCHANGED <<writerVars, notion, actions, notice, local, faults>>

Keep(g) ==
    /\ leave[g].at = "shown"
    /\ pc[CleanerBot] = "idle" /\ lease = Nobody
    /\ leave' = [leave EXCEPT ![g].at = "none"]
    /\ UNCHANGED <<writerVars, notion, actions, notice, local, faults>>

\* validate_cleaner_unavailable
MayLeave(g) ==
    /\ Reads("accepted", actions[g].to)
    /\ page.edition = leave[g].edition
    /\ reservation

SetLeave(g, s) == leave' = [leave EXCEPT ![g].at = s]

\* The button is pressed, for the first time or to go on.
PressUnavailable(g) ==
    /\ g \in DOMAIN actions
    /\ \/ /\ leave[g].at \in {"shown", "clock"}
          /\ MayLeave(g) /\ Booked(g)
          /\ SetLeave(g, "clock")
          /\ Begin(CleanerBot, g, "end")
       \/ leave[g].at = "ended" /\ UNCHANGED leave /\ Begin(CleanerBot, g, "project")
       \/ leave[g].at = "projected" /\ UNCHANGED leave /\ Begin(CleanerBot, g, "route")
    /\ UNCHANGED <<notion, actions, notice, faults>>

EndAssignment ==
    /\ pc[CleanerBot] = "end"
    /\ LET p == CleanerBot
           g == job[p]
           Stay == UNCHANGED leave /\ End(p)
       IN Write(p,
                Release(g, "unavailable") /\ SetLeave(g, "ended") /\ Go(p, "project"),
                Release(g, "unavailable") /\ Stay,
                UNCHANGED row /\ Stay,
                UNCHANGED row /\ Stay)
    /\ UNCHANGED <<page, reservation, actions, notice, crashes>>

\* The page needs a replacement; a patch that was applied after all is recognised.
ProjectUnavailable ==
    /\ pc[CleanerBot] = "project"
    /\ LET p == CleanerBot
           g == job[p]
           Projected(e) == leave' = [leave EXCEPT ![g].at = "projected", ![g].edition = e]
           Stay == UNCHANGED leave /\ End(p)
       IN IF Reads("vacant", NoOne)
          THEN /\ IF reservation THEN Projected(page.edition) /\ Go(p, "route") ELSE Stay
               /\ UNCHANGED <<page, failures>>
          ELSE IF MayLeave(g)
          THEN Write(p,
                     PatchPage("vacant", NoOne) /\ Projected(page.edition + 1) /\ Go(p, "route"),
                     PatchPage("vacant", NoOne) /\ Stay,
                     UNCHANGED page /\ Stay,
                     UNCHANGED page /\ Stay)
          ELSE Stay /\ UNCHANGED <<page, failures>>
    /\ UNCHANGED <<reservation, row, actions, notice, crashes>>

\* The roster without the cleaner who leaves.
Fresh(g) == {i \in DOMAIN Roster : Roster[i] # actions[g].to}

\* A replacement is asked.  Someone an operator took back was accepted by no offer, and the
\* handler stops; the roster or the premium policy may not be readable.
RouteReplacement ==
    /\ pc[CleanerBot] = "route"
    /\ LET p == CleanerBot
           g == job[p]
       IN \/ UNCHANGED <<actions, leave>> /\ End(p)
          \/ /\ IsOffer(g)
             /\ IF Fresh(g) = {} \/ PendingExists
                THEN SetLeave(g, "done") /\ UNCHANGED actions /\ End(p)
                ELSE /\ UNCHANGED leave
                     /\ Ask(p, Offer(Fresh(g), "vacant", leave[g].edition, FALSE))
    /\ UNCHANGED <<notion, notice, faults>>

-----------------------------------------------------------------------------
(* The cleaner who left asks to come back                                  *)

PressComeBack(g) ==
    /\ g \in DOMAIN actions
    /\ \/ leave[g].asked /\ Begin(CleanerBot, g, "file")
       \/ /\ ~leave[g].asked
          /\ Left(g) /\ row[g].request \in {"none", "requested"}
          /\ ~NewerAccepted(g)
          /\ Reads("vacant", page.assignee) \/ Reads("accepted", actions[g].to)
          /\ Begin(CleanerBot, g, "ask")
    /\ UNCHANGED <<notion, files, faults>>

\* The wish is put on the row, unless it is there.
AskBack ==
    /\ pc[CleanerBot] = "ask"
    /\ LET p == CleanerBot
           g == job[p]
           Requested == row' = [row EXCEPT ![g].request = "requested"]
           Asked == leave' = [leave EXCEPT ![g].asked = TRUE] /\ Go(p, "file")
           Stay == UNCHANGED leave /\ End(p)
       IN IF row[g].request = "requested"
          THEN Asked /\ UNCHANGED <<row, failures>>
          ELSE Write(p, Requested /\ Asked, Requested /\ Stay, UNCHANGED row /\ Stay, UNCHANGED row /\ Stay)
    /\ UNCHANGED <<page, reservation, actions, notice, crashes>>

\* One decision for one wish.
FileDecision ==
    /\ pc[CleanerBot] = "file"
    /\ LET g == job[CleanerBot] IN
       IF Room /\ ~\E d \in DOMAIN actions : actions[d].decides = g
       THEN actions' = Append(actions, Decision(g))
       ELSE UNCHANGED actions
    /\ End(CleanerBot)
    /\ UNCHANGED <<notion, leave, notice, faults>>

-----------------------------------------------------------------------------
(* The operator decides                                                    *)

\* The row the decision is about still carries the wish, or this very decision.
Wished(d, resolution) ==
    LET g == actions[d].decides IN
    Left(g) /\ row[g].request \in {"requested", resolution}

\* The decision is committed to its file, once; pressed again it is carried on.
PressReassign(d) ==
    /\ IsDecision(d)
    /\ Wished(d, "reassigned")
    /\ \/ actions[d].status = "REASSIGN" /\ UNCHANGED actions
       \/ /\ actions[d].status = "PENDING" /\ ~actions[d].due
          /\ Reads("vacant", NoOne) /\ reservation
          /\ ~NewerAccepted(actions[d].decides)
          /\ SetStatus(d, "REASSIGN")
    /\ BeginLocked(OpsBot, d, "supersede")
    /\ UNCHANGED <<notion, leave, notice, faults>>

\* Offers to others that can still be accepted are withdrawn.
Supersede ==
    /\ pc[OpsBot] = "supersede"
    /\ actions' = [g \in DOMAIN actions |->
          IF Open(g) /\ ~actions[g].due /\ actions[g].to # actions[job[OpsBot]].to
          THEN [actions[g] EXCEPT !.status = "SUPERSEDED"]
          ELSE actions[g]]
    /\ Go(OpsBot, "rebook")
    /\ UNCHANGED <<notion, leave, notice, faults>>

Rebook ==
    /\ pc[OpsBot] = "rebook"
    /\ LET p == OpsBot
           d == job[p]
       IN IF row[d].hold # "none"
          THEN Materialise(d) /\ Go(p, "reproject") /\ UNCHANGED failures
          ELSE Write(p,
                     Materialise(d) /\ Go(p, "reproject"),
                     Materialise(d) /\ Go(p, "reproject"),
                     UNCHANGED row /\ End(p),
                     UNCHANGED row /\ End(p))
    /\ UNCHANGED <<page, reservation, files, crashes>>

\* The page becomes the original cleaner's again.
Reproject ==
    /\ pc[OpsBot] = "reproject"
    /\ LET p == OpsBot
           back == actions[job[p]].to
       IN IF Reads("accepted", back)
          THEN UNCHANGED <<page, failures>> /\ Go(p, "resolve")
          ELSE IF Reads("vacant", NoOne)
          THEN Write(p,
                     PatchPage("accepted", back) /\ Go(p, "resolve"),
                     PatchPage("accepted", back) /\ End(p),
                     UNCHANGED page /\ End(p),
                     UNCHANGED page /\ End(p))
          ELSE UNCHANGED <<page, failures>> /\ End(p)
    /\ UNCHANGED <<reservation, row, files, crashes>>

PressContinue(d) ==
    /\ IsDecision(d)
    /\ Wished(d, "continued")
    /\ \/ actions[d].status = "CONTINUE" /\ UNCHANGED actions
       \/ /\ actions[d].status = "PENDING" /\ ~actions[d].due
          /\ reservation
          /\ ~NewerAccepted(actions[d].decides)
          /\ SetStatus(d, "CONTINUE")
    /\ BeginLocked(OpsBot, d, "settle")
    /\ UNCHANGED <<notion, leave, notice, faults>>

\* The wish is answered on its row.
Resolve ==
    /\ \E l \in {<<"resolve", "reassigned">>, <<"settle", "continued">>} :
        /\ pc[OpsBot] = l[1]
        /\ LET Answer == row' = [row EXCEPT ![actions[job[OpsBot]].decides].request = l[2]] IN
           Write(OpsBot, Answer, Answer, UNCHANGED row, UNCHANGED row)
    /\ End(OpsBot)
    /\ UNCHANGED <<page, reservation, files, crashes>>

-----------------------------------------------------------------------------
(* The reservation is cancelled                                            *)

\* The prompt is used up first; what fails later waits for a repair by hand.
PressCancel ==
    /\ notice
    /\ notice' = FALSE
    /\ BeginLocked(OpsBot, 1, "cancel")
    /\ UNCHANGED <<notion, actions, leave, faults>>

CancelReservation ==
    /\ pc[OpsBot] = "cancel"
    /\ Write(OpsBot,
             reservation' = FALSE /\ Go(OpsBot, "release"),
             reservation' = FALSE /\ End(OpsBot),
             UNCHANGED reservation /\ End(OpsBot),
             UNCHANGED reservation /\ End(OpsBot))
    /\ UNCHANGED <<page, row, files, crashes>>

\* The assignment in force, if there is exactly one, ends.
ReleaseCancelled ==
    /\ pc[OpsBot] = "release"
    /\ LET booked == {g \in Actions : Booked(g)} IN
       IF booked = {}
       THEN Go(OpsBot, "withdraw") /\ UNCHANGED <<row, failures>>
       ELSE \E g \in booked :
                IF booked # {g}
                THEN End(OpsBot) /\ UNCHANGED <<row, failures>>
                ELSE Write(OpsBot,
                           Release(g, "cancelled") /\ Go(OpsBot, "withdraw"),
                           Release(g, "cancelled") /\ End(OpsBot),
                           UNCHANGED row /\ End(OpsBot),
                           UNCHANGED row /\ End(OpsBot))
    /\ UNCHANGED <<page, reservation, files, crashes>>

\* The page is cancelled and its offer withdrawn; the assignee stays on it.
Withdraw ==
    /\ pc[OpsBot] = "withdraw"
    /\ LET Cancelled == page' = [page EXCEPT !.cancelled = TRUE, !.acceptance = "withdrawn",
                                             !.edition = @ + 1]
       IN Write(OpsBot, Cancelled, Cancelled, UNCHANGED page, UNCHANGED page)
    /\ End(OpsBot)
    /\ UNCHANGED <<reservation, row, files, crashes>>

-----------------------------------------------------------------------------

\* The process dies: the system frees its file lock, its lease runs out.
Crash(p) ==
    /\ pc[p] # "idle"
    /\ crashes < MaxCrashes
    /\ crashes' = crashes + 1
    /\ Die(p)
    /\ Unlocked(p)
    /\ pc' = [pc EXCEPT ![p] = "idle"]
    /\ job' = [job EXCEPT ![p] = 1]
    /\ UNCHANGED <<notion, files, failures>>

\* A lapse is seen by the next assertion (see Write).
LeaseMoves ==
    /\ passed' = passed
    /\ Lapse \/ \E p \in Writers : pc[p] = "idle" /\ EnterInVain(p)
    /\ UNCHANGED <<notion, files, local, faults>>

\* The booking bridge has made the page and asked the first cleaner.
Init ==
    /\ WriterInit
    /\ page = [cancelled |-> FALSE, acceptance |-> "offered", assignee |-> NoOne, edition |-> 0]
    /\ reservation = TRUE
    /\ row = [g \in Actions |-> [hold |-> "none", reason |-> "none", request |-> "none"]]
    /\ actions = <<Offer(DOMAIN Roster, "offered", 0, TRUE)>>
    /\ leave = [g \in Actions |-> [at |-> "none", edition |-> 0, asked |-> FALSE]]
    /\ notice = TRUE
    /\ lock = Nobody
    /\ pc = [p \in Writers |-> "idle"]
    /\ job = [p \in Writers |-> 1]
    /\ failures = 0
    /\ crashes = 0

Press ==
    \E g \in Actions :
        \/ PressAccept(g) \/ Replay(g) \/ PressDecline(g)
        \/ ShowAssignment(g) \/ Keep(g) \/ PressUnavailable(g) \/ PressComeBack(g)
        \/ PressReassign(g) \/ PressContinue(g)

\* What a process does once a button has been pressed.
Work ==
    \/ Accept \/ WriteReceipt \/ PublishExecuted \/ RecordAccepted
    \/ Decline \/ AskNext \/ SendOffer
    \/ EndAssignment \/ ProjectUnavailable \/ RouteReplacement
    \/ AskBack \/ FileDecision
    \/ Supersede \/ Rebook \/ Reproject \/ Resolve
    \/ CancelReservation \/ ReleaseCancelled \/ Withdraw

Next ==
    \/ Press \/ PressCancel
    \/ Work
    \/ TimeOut
    \/ \E p \in Writers : Crash(p)
    \/ LeaseMoves

Spec == Init /\ [][Next]_vars

-----------------------------------------------------------------------------

TypeOK ==
    /\ WriterTypeOK
    /\ page \in [cancelled : BOOLEAN, acceptance : Acceptances, assignee : Cleaners \cup {NoOne},
                 edition : Nat]
    /\ reservation \in BOOLEAN
    /\ row \in [Actions -> [hold : {"none", "booked", "released"},
                            reason : {"none", "unavailable", "cancelled"},
                            request : {"none", "requested", "reassigned", "continued"}]]
    /\ actions \in Seq(Action) /\ Len(actions) <= MaxActions
    /\ \A g \in DOMAIN actions :
          actions[g].status \in IF actions[g].decides = 0 THEN OfferStatuses ELSE DecisionStatuses
    /\ leave \in [Actions -> [at : Leaving, edition : Nat, asked : BOOLEAN]]
    /\ notice \in BOOLEAN
    /\ lock \in Writers \cup {Nobody}
    /\ lock # Nobody => pc[lock] # "idle"
    /\ pc \in [Writers -> Positions]
    /\ \A p \in Writers : pc[p] # "idle" <=> p \in inside
    /\ job \in [Writers -> Actions]
    /\ failures \in 0..MaxLost
    /\ crashes \in 0..MaxCrashes

\* The cleaning never has two assignments in force at once, whatever is replayed, answered
\* too late or decided after a crash: no cleaner turns up to find another one.
SoleBooking == \A g, h \in Actions : Booked(g) /\ Booked(h) => g = h

\* At most one offer of a cleaning can be accepted at any time.
OneOpenOffer == \A g, h \in DOMAIN actions : Open(g) /\ Open(h) => g = h

\* An assignment that ended stays ended, for the reason first recorded, and a committed
\* decision is never turned round, even by a retry of the button that made it.
HistoryIsFinal ==
    [][/\ \A g \in Actions :
             row[g].hold = "released" => row'[g].hold = "released" /\ row'[g].reason = row[g].reason
       /\ \A d \in DOMAIN actions :
             actions[d].status \in {"REASSIGN", "CONTINUE"} => actions'[d].status = actions[d].status]_vars

=============================================================================
