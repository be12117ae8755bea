------------------------- MODULE CleanerScheduling -------------------------
(***************************************************************************)
(* The Cleaner scheduling commands over the v2.2.1 PostgreSQL tables:      *)
(* reservation ingress, offers, bookings, unavailability, reassignment and *)
(* completion.                                                             *)
(*                                                                         *)
(*   application/cleaner_pg.py          one transaction per command        *)
(*   adapters/postgres/repository.py    its SQL statements                 *)
(*   db/v2_2_1/migration V...103-107    unique indexes, guards, triggers   *)
(*                                                                         *)
(* A command is one serializable action: the rows it decides on are locked *)
(* FOR UPDATE or protected by a unique index, and a command that raises    *)
(* rolls its receipt back and changes nothing, so it has no action.  Any   *)
(* caller may send any command at any time, about any row it ever saw: a   *)
(* Telegram button stays pressable after the row it names has moved on.    *)
(***************************************************************************)
EXTENDS Naturals, Sequences

CONSTANTS
    Reservations,   \* external reservations, and their checkout cleanings
    Cleaners,       \* cleaner_party_id values
    CheckOuts,      \* check-out times; the cleaning's window starts there
    NoCheckOut,     \* the check-out of a reservation never ingested
    Mail,           \* the Airbnb messages, in the order sent
    Buttons,        \* action records that offer the same command
    MaxAssignments  \* bound: bookings of one cleaning

Statuses == {"CONFIRMED", "CANCELLED"}

ASSUME MailAssumption ==
    Mail \subseteq [reservation : Reservations, status : Statuses,
                    checkOut : CheckOuts, sent : Nat]
ASSUME NoCheckOutAssumption == NoCheckOut \notin CheckOuts
ASSUME MaxAssignmentsAssumption == MaxAssignments \in Nat

VARIABLES
    reservation,     \* reservation: status, check-out, source_version
    cleaning,        \* cleaning_job.cleaning_status
    revisions,       \* cleaning_schedule_revision, by revision_no
    campaigns,       \* cleaning_offer_campaign and its candidate, by campaign_no
    assignments,     \* cleaning_assignment, by assignment_no
    cases,           \* cleaner_unavailability_case
    requests,        \* cleaner_reassignment_request, by request_no
    reconciliations, \* cleaning_schedule_reconciliation, all PENDING
    receipts,        \* command_receipt: the keys already used
    events           \* domain_event rows of a key

offerVars == <<campaigns, assignments>>
exceptionVars == <<cases, requests>>
vars == <<reservation, cleaning, revisions, campaigns, assignments, cases,
          requests, reconciliations, receipts, events>>

-----------------------------------------------------------------------------
(* Command receipts and domain events.                                     *)

\* The idempotency key of a command: its type, what it is about and the
\* action record it came from.  A message is its own key.
Key(type, c, subject, b) == <<type, c, subject, b>>

\* Mutant: the receipt is written after the command instead of fencing it.
Unfenced(k) == TRUE

\* A key used before returns the earlier answer, or an error, and does nothing.
Fresh(k) == k \notin receipts

EventsOf(k) == IF k \in DOMAIN events THEN events[k] ELSE 0

KeepReceipt(k) == receipts' = receipts \cup {k}

AppendEvent(k) ==
    events' = [j \in DOMAIN events \cup {k} |->
                  IF j = k THEN EventsOf(k) + 1 ELSE EventsOf(j)]

\* The receipt and the domain event of a command that did something.
Emit(k) == KeepReceipt(k) /\ AppendEvent(k)

\* A command that finds its work done commits its receipt and no event.
NothingToDo(k) ==
    /\ KeepReceipt(k)
    /\ UNCHANGED <<reservation, cleaning, revisions, offerVars, exceptionVars,
                   reconciliations, events>>

-----------------------------------------------------------------------------
(* The rows.                                                               *)

Revision(c) == Len(revisions[c])
Booked(c) == {n \in DOMAIN assignments[c] : assignments[c][n].status = "HARD_BOOKED"}
Open(c) == {n \in DOMAIN campaigns[c] : campaigns[c][n].status = "OPEN"}
Requested(c) == {q \in DOMAIN requests[c] : requests[c][q].status = "REQUESTED"}
Pending(c) == {k \in reconciliations : k.cleaning = c}

\* ex_assignment_cleaner_busy_window: no hard booking of p overlaps the slot.
Free(p, slot) ==
    \A c \in Reservations : \A n \in Booked(c) :
        ~(assignments[c][n].cleaner = p /\ assignments[c][n].slot = slot)

SetCleaning(c, status) == cleaning' = [cleaning EXCEPT ![c] = status]

\* Mutant: an assignment ends without its status.
NotEnded(c, n, status) == assignments' = assignments

End(c, n, status) ==
    assignments' = [assignments EXCEPT ![c][n].status = status]

\* insert_assignment under uq_assignment_hard_booked_cleaning and the exclusion.
Book(c, booking) ==
    /\ Booked(c) = {}
    /\ Free(booking.cleaner, booking.slot)
    /\ Len(assignments[c]) < MaxAssignments
    /\ assignments' = [assignments EXCEPT ![c] = Append(@, booking)]

-----------------------------------------------------------------------------
(* Reservation ingress.                                                    *)

MailKey(m) == Key("RESERVATION_INGRESS", m.reservation, m, m.sent)

\* The reservation after m: the version is minted here, not by the source.
Ingested(c, m) ==
    IF reservation[c].status = m.status /\ reservation[c].checkOut = m.checkOut
      THEN reservation[c]
      ELSE [status |-> m.status, checkOut |-> m.checkOut,
            version |-> reservation[c].version + 1]

\* The cleaning's current revision was made for an older version.
Outdated(c, m) ==
    \/ revisions[c] = <<>>
    \/ revisions[c][Revision(c)].version < Ingested(c, m).version

\* The case that leads booking n to the revision being appended.
PendingCase(c, n, version) ==
    [cleaning |-> c, assignment |-> n, base |-> assignments[c][n].revision,
     target |-> Revision(c) + 1, version |-> version]

\* Mutant: a case that is already open keeps its old target.
ReconcileOnce(c, n) ==
    IF Pending(c) = {}
      THEN reconciliations' = reconciliations \cup {PendingCase(c, n, 1)}
      ELSE UNCHANGED reconciliations

\* Mutant: a changed schedule opens no case.
ReconcileNever(c, n) == UNCHANGED reconciliations

\* ensure_schedule_reconciliation: opens a case for booking n, or moves the open
\* one to the new target; a case that belongs to another booking is an error.
Reconcile(c, n) ==
    \/ /\ Pending(c) = {}
       /\ reconciliations' = reconciliations \cup {PendingCase(c, n, 1)}
    \/ \E k \in Pending(c) :
         /\ k.assignment = n
         /\ k.base = assignments[c][n].revision
         /\ reconciliations' = (reconciliations \ {k}) \cup {PendingCase(c, n, k.version + 1)}

\* A confirmation creates the cleaning once, and appends a revision when the
\* reservation changed.  The code of a cancelled cleaning is never free again, so
\* its reservation cannot be confirmed any more.
IngestConfirmed(m) ==
    LET c == m.reservation IN
    /\ m.status = "CONFIRMED"
    /\ Fresh(MailKey(m))
    /\ cleaning[c] # "CANCELLED"
    /\ reservation' = [reservation EXCEPT ![c] = Ingested(c, m)]
    /\ SetCleaning(c, IF cleaning[c] = "ABSENT" THEN "PLANNED" ELSE cleaning[c])
    /\ IF Outdated(c, m)
         THEN /\ revisions' = [revisions EXCEPT ![c] =
                    Append(@, [checkOut |-> m.checkOut, version |-> Ingested(c, m).version])]
              /\ \/ Booked(c) = {} /\ UNCHANGED reconciliations
                 \/ \E n \in Booked(c) : Reconcile(c, n)
         ELSE UNCHANGED <<revisions, reconciliations>>
    /\ Emit(MailKey(m))
    /\ UNCHANGED <<offerVars, exceptionVars>>

\* checkout_cleaning_for_reservation finds one.
HasCleaning(c) == cleaning[c] \notin {"ABSENT", "CANCELLED"}

CancelBooking(c) ==
    \/ Booked(c) = {} /\ UNCHANGED assignments
    \/ \E n \in Booked(c) : End(c, n, "CANCELLED")

CancelledOffer(campaign) ==
    [campaign EXCEPT !.status = "CANCELLED",
                     !.candidate = IF @ = "ELIGIBLE" THEN "DECLINED" ELSE @]

CancelOpenOffer(c) ==
    campaigns' = [campaigns EXCEPT ![c] =
        [n \in DOMAIN @ |-> IF n \in Open(c) THEN CancelledOffer(@[n]) ELSE @[n]]]

\* A cancellation ends the offer and the booking of a cleaning that is not
\* cancelled yet, whatever else its status is.
IngestCancelled(m) ==
    LET c == m.reservation IN
    /\ m.status = "CANCELLED"
    /\ Fresh(MailKey(m))
    /\ reservation' = [reservation EXCEPT ![c] = Ingested(c, m)]
    /\ IF HasCleaning(c)
         THEN /\ CancelOpenOffer(c)
              /\ CancelBooking(c)
              /\ SetCleaning(c, "CANCELLED")
         ELSE UNCHANGED <<cleaning, offerVars>>
    /\ Emit(MailKey(m))
    /\ UNCHANGED <<revisions, exceptionVars, reconciliations>>

-----------------------------------------------------------------------------
(* Offers.                                                                 *)

\* A campaign and its one candidate, on the current revision.
InsertOffer(c, p) ==
    campaigns' = [campaigns EXCEPT ![c] =
        Append(@, [revision |-> Revision(c), cleaner |-> p,
                   status |-> "OPEN", candidate |-> "ELIGIBLE"])]

OpenAssignmentOffer(c, p, b) ==
    LET k == Key("OPEN_ASSIGNMENT_OFFER", c, p, b) IN
    /\ Fresh(k)
    /\ cleaning[c] \in {"PLANNED", "OFFERING"}
    /\ Open(c) = {}
    /\ InsertOffer(c, p)
    /\ SetCleaning(c, "OFFERING")
    /\ Emit(k)
    /\ UNCHANGED <<reservation, revisions, assignments, exceptionVars, reconciliations>>

\* offer_acceptance_context of a campaign that can still be answered.
Answerable(c, n) ==
    /\ n \in Open(c)
    /\ campaigns[c][n].candidate = "ELIGIBLE"

\* Mutant: the booking takes the cleaning's current revision, not the offer's.
BookedAtCurrent(c, n) ==
    [revision |-> Revision(c), cleaner |-> campaigns[c][n].cleaner,
     slot |-> revisions[c][Revision(c)].checkOut, campaign |-> n, status |-> "HARD_BOOKED"]

\* The booking an offer proposes: the offer's revision and its slot.
Proposed(c, n) ==
    LET r == campaigns[c][n].revision IN
    [revision |-> r, cleaner |-> campaigns[c][n].cleaner,
     slot |-> revisions[c][r].checkOut, campaign |-> n, status |-> "HARD_BOOKED"]

\* Mutant: the campaign of the accepted candidate is left open.
AcceptCandidateOnly(c, n) ==
    campaigns' = [campaigns EXCEPT ![c][n].candidate = "ACCEPTED"]

AcceptOffer(c, n) ==
    campaigns' = [campaigns EXCEPT ![c][n].status = "CLOSED", ![c][n].candidate = "ACCEPTED"]

\* The candidate is answered and the campaign stays as it is.
DeclineOffer(c, n) ==
    campaigns' = [campaigns EXCEPT ![c][n].candidate = "DECLINED"]

AcceptAssignment(c, n, b) ==
    LET k == Key("ACCEPT_ASSIGNMENT", c, n, b) IN
    /\ Fresh(k)
    /\ Answerable(c, n)
    /\ Book(c, Proposed(c, n))
    /\ AcceptOffer(c, n)
    /\ SetCleaning(c, "ASSIGNED")
    /\ Emit(k)
    /\ UNCHANGED <<reservation, revisions, exceptionVars, reconciliations>>

DeclineAssignment(c, n, b) ==
    LET k == Key("DECLINE_ASSIGNMENT", c, n, b) IN
    /\ Fresh(k)
    /\ Answerable(c, n)
    /\ DeclineOffer(c, n)
    /\ Emit(k)
    /\ UNCHANGED <<reservation, cleaning, revisions, assignments, exceptionVars,
                   reconciliations>>

-----------------------------------------------------------------------------
(* Unavailability, reassignment and completion.                            *)

OpenCase(c, n) == cases' = cases \cup {<<c, n>>}

MarkUnavailable(c, n, b) ==
    LET k == Key("MARK_UNAVAILABLE", c, n, b) IN
    /\ Fresh(k)
    /\ \/ <<c, n>> \in cases /\ NothingToDo(k)
       \/ /\ <<c, n>> \notin cases
          /\ n \in Booked(c)
          /\ End(c, n, "RELEASED")
          /\ OpenCase(c, n)
          /\ SetCleaning(c, "OFFERING")
          /\ Emit(k)
          /\ UNCHANGED <<reservation, revisions, campaigns, requests, reconciliations>>

InsertRequest(c, n) ==
    requests' = [requests EXCEPT ![c] =
        Append(@, [assignment |-> n, status |-> "REQUESTED"])]

\* A request is about the booking of an unavailability case.
RequestReassignment(c, n, b) ==
    LET k == Key("REQUEST_REASSIGNMENT", c, n, b) IN
    /\ Fresh(k)
    /\ <<c, n>> \in cases
    /\ \/ Requested(c) # {} /\ NothingToDo(k)
       \/ /\ Requested(c) = {}
          /\ InsertRequest(c, n)
          /\ Emit(k)
          /\ UNCHANGED <<reservation, cleaning, revisions, offerVars, cases,
                         reconciliations>>

Decide(c, q, decision) ==
    requests' = [requests EXCEPT ![c][q].status = decision]

\* The original booking again, on its own revision and slot.
Restored(original) == [original EXCEPT !.campaign = 0, !.status = "HARD_BOOKED"]

ReassignOriginal(c, q, b) ==
    LET k == Key("REASSIGN_ORIGINAL", c, q, b) IN
    /\ Fresh(k)
    /\ q \in DOMAIN requests[c]
    /\ \/ /\ requests[c][q].status = "REASSIGNED_ORIGINAL"
          /\ Booked(c) # {}
          /\ NothingToDo(k)
       \/ /\ q \in Requested(c)
          /\ Book(c, Restored(assignments[c][requests[c][q].assignment]))
          /\ Decide(c, q, "REASSIGNED_ORIGINAL")
          /\ SetCleaning(c, "ASSIGNED")
          /\ Emit(k)
          /\ UNCHANGED <<reservation, revisions, campaigns, cases, reconciliations>>

ContinueReplacement(c, q, b) ==
    LET k == Key("CONTINUE_REPLACEMENT", c, q, b) IN
    /\ Fresh(k)
    /\ q \in DOMAIN requests[c]
    /\ \/ requests[c][q].status = "CONTINUE_REPLACEMENT" /\ NothingToDo(k)
       \/ /\ q \in Requested(c)
          /\ Decide(c, q, "CONTINUE_REPLACEMENT")
          /\ Emit(k)
          /\ UNCHANGED <<reservation, cleaning, revisions, offerVars, cases,
                         reconciliations>>

CompleteCleaning(c, n, b) ==
    LET k == Key("COMPLETE_CLEANING", c, n, b) IN
    /\ Fresh(k)
    /\ n \in DOMAIN assignments[c]
    /\ \/ assignments[c][n].status = "COMPLETED" /\ NothingToDo(k)
       \/ /\ n \in Booked(c)
          /\ End(c, n, "COMPLETED")
          /\ SetCleaning(c, "COMPLETED")
          /\ Emit(k)
          /\ UNCHANGED <<reservation, revisions, campaigns, exceptionVars,
                         reconciliations>>

-----------------------------------------------------------------------------

Init ==
    /\ reservation = [c \in Reservations |->
          [status |-> "ABSENT", checkOut |-> NoCheckOut, version |-> 0]]
    /\ cleaning = [c \in Reservations |-> "ABSENT"]
    /\ revisions = [c \in Reservations |-> <<>>]
    /\ campaigns = [c \in Reservations |-> <<>>]
    /\ assignments = [c \in Reservations |-> <<>>]
    /\ requests = [c \in Reservations |-> <<>>]
    /\ cases = {}
    /\ reconciliations = {}
    /\ receipts = {}
    /\ events = <<>>

Ingest == \E m \in Mail : IngestConfirmed(m) \/ IngestCancelled(m)

\* A Telegram button, or the pump of the operators' decisions.
Press(c, b) ==
    \/ \E p \in Cleaners : OpenAssignmentOffer(c, p, b)
    \/ \E n \in DOMAIN campaigns[c] : AcceptAssignment(c, n, b) \/ DeclineAssignment(c, n, b)
    \/ \E n \in DOMAIN assignments[c] :
          MarkUnavailable(c, n, b) \/ RequestReassignment(c, n, b) \/ CompleteCleaning(c, n, b)
    \/ \E q \in DOMAIN requests[c] : ReassignOriginal(c, q, b) \/ ContinueReplacement(c, q, b)

Next == Ingest \/ \E c \in Reservations, b \in Buttons : Press(c, b)

Spec == Init /\ [][Next]_vars

-----------------------------------------------------------------------------
(* Types.                                                                  *)

RevisionRows == [checkOut : CheckOuts, version : Nat]
CampaignRows == [revision : Nat, cleaner : Cleaners,
                 status : {"OPEN", "CLOSED", "CANCELLED"},
                 candidate : {"ELIGIBLE", "ACCEPTED", "DECLINED"}]
AssignmentRows == [revision : Nat, cleaner : Cleaners, slot : CheckOuts, campaign : Nat,
                   status : {"HARD_BOOKED", "RELEASED", "COMPLETED", "CANCELLED"}]
RequestRows == [assignment : Nat,
                status : {"REQUESTED", "REASSIGNED_ORIGINAL", "CONTINUE_REPLACEMENT"}]
ReconciliationRows == [cleaning : Reservations, assignment : Nat, base : Nat,
                       target : Nat, version : Nat]

\* The rows have the shapes the tables give them, and every reference a command
\* follows (a campaign's revision, a case's booking, a request's booking) exists;
\* a key has at most one event, and its receipt.
TypeOK ==
    /\ reservation \in [Reservations -> [status : Statuses \cup {"ABSENT"},
                                         checkOut : CheckOuts \cup {NoCheckOut},
                                         version : Nat]]
    /\ cleaning \in [Reservations -> {"ABSENT", "PLANNED", "OFFERING", "ASSIGNED",
                                      "COMPLETED", "CANCELLED"}]
    /\ revisions \in [Reservations -> Seq(RevisionRows)]
    /\ campaigns \in [Reservations -> Seq(CampaignRows)]
    /\ assignments \in [Reservations -> Seq(AssignmentRows)]
    /\ requests \in [Reservations -> Seq(RequestRows)]
    /\ cases \subseteq Reservations \X Nat
    /\ reconciliations \subseteq ReconciliationRows
    /\ \A c \in Reservations :
         /\ \A n \in DOMAIN campaigns[c] : campaigns[c][n].revision \in DOMAIN revisions[c]
         /\ \A q \in DOMAIN requests[c] :
              requests[c][q].assignment \in DOMAIN assignments[c]
    /\ \A case \in cases : case[2] \in DOMAIN assignments[case[1]]
    /\ DOMAIN events \subseteq receipts /\ \A k \in DOMAIN events : events[k] = 1

-----------------------------------------------------------------------------
(* Safety.                                                                 *)

\* A cleaning is ASSIGNED exactly while one hard booking holds it, and nothing is
\* on offer once it is CANCELLED: the status that every command writes on its own
\* never drifts from the booking ledger and the campaigns.
StatusFollowsRows ==
    \A c \in Reservations :
        /\ (cleaning[c] = "ASSIGNED") <=> (Booked(c) # {})
        /\ \A n, k \in Booked(c) : n = k
        /\ cleaning[c] = "CANCELLED" => Open(c) = {}

\* The campaign of a cleaning's latest booking.
LatestCampaign(c) == assignments[c][Len(assignments[c])].campaign

\* A cleaning that is taken or done is still on offer only when its latest booking is an
\* original that was restored: ReassignOriginal is the one command that books a cleaning and
\* leaves the replacement's campaign open, and that offer stays answerable after the
\* cleaning is COMPLETED.  No offer is open beside a booking made from an offer.
OffersEndWithBookings ==
    \A c \in Reservations :
        cleaning[c] \in {"ASSIGNED", "COMPLETED"} /\ Open(c) # {} => LatestCampaign(c) = 0

ConfirmedMeansScheduled ==
    \A c \in Reservations : reservation[c].status = "CONFIRMED" =>
        /\ cleaning[c] \notin {"ABSENT", "CANCELLED"}
        /\ revisions[c] # <<>>
        /\ revisions[c][Revision(c)] =
             [checkOut |-> reservation[c].checkOut, version |-> reservation[c].version]

CaseFollowsSchedule ==
    \A k \in reconciliations : k.assignment \in Booked(k.cleaning) =>
        /\ k.base = assignments[k.cleaning][k.assignment].revision
        /\ k.target = Revision(k.cleaning)
        /\ k.base < k.target

\* The schedule follows the reservation, however often it moves: a confirmed
\* reservation's cleaning is at its check-out and version, and the pending case
\* of a booking that still stands leads from the booking's own revision there.
ScheduleFollowsReservation == ConfirmedMeansScheduled /\ CaseFollowsSchedule

\* A schedule never moves under a hard booking without a pending case for it.
ScheduleChangeIsReconciled ==
    [][\A c \in Reservations :
         Revision(c)' # Revision(c) /\ Booked(c) # {} =>
             \E k \in Pending(c)' : k.assignment \in Booked(c) /\ k.target = Revision(c)']_vars

\* Cleaning c's accepted offers and the bookings made from offers belong together.
OnTerms(c, k) ==
    LET booking == assignments[c][k]
        offer == campaigns[c][booking.campaign]
    IN  /\ offer.candidate = "ACCEPTED" /\ offer.status = "CLOSED"
        /\ offer.cleaner = booking.cleaner
        /\ offer.revision = booking.revision
        /\ booking.slot = revisions[c][offer.revision].checkOut
        /\ \A j \in DOMAIN assignments[c] :
             assignments[c][j].campaign = booking.campaign => j = k

TermsKept(c) ==
    /\ \A n \in DOMAIN campaigns[c] : campaigns[c][n].candidate = "ACCEPTED" =>
         \E k \in DOMAIN assignments[c] : assignments[c][k].campaign = n
    /\ \A k \in DOMAIN assignments[c] : assignments[c][k].campaign # 0 => OnTerms(c, k)

\* An accepted offer has one booking, on the terms the cleaner was shown, and a
\* booking made from an offer has an offer that was accepted and is closed.
OfferTermsAreKept == \A c \in Reservations : TermsKept(c)

=============================================================================
