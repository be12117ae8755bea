---------------------- MODULE CleanerSchedulingProofs ----------------------
(***************************************************************************)
(* For any reservations, cleaners, mails and buttons, and any number of    *)
(* bookings: a cleaning's status follows its rows, a booking made from an  *)
(* offer leaves none open, the schedule follows the reservation, and an    *)
(* offer is kept on its terms.                                             *)
(*                                                                         *)
(* Together with the references between the rows (References) these are    *)
(* inductive: each needs another one, since a command checks only one      *)
(* table and trusts the others.                                            *)
(***************************************************************************)
EXTENDS CleanerScheduling, SequenceTheorems, TLAPS

\* What the rows say of one another beyond the types: a cleaning has a schedule; a
\* revision is made for a version its reservation has reached; a booking has a revision,
\* and a campaign if it names one; a cleaning has one pending case, of a booking it had.
References ==
    /\ \A c \in Reservations :
         /\ cleaning[c] # "ABSENT" => revisions[c] # <<>>
         /\ revisions[c] # <<>> =>
              revisions[c][Revision(c)].version <= reservation[c].version
         /\ \A n \in DOMAIN assignments[c] :
              /\ assignments[c][n].revision \in DOMAIN revisions[c]
              /\ assignments[c][n].campaign \in 0..Len(campaigns[c])
    /\ \A k \in reconciliations : k.assignment \in DOMAIN assignments[k.cleaning]
    /\ \A j, k \in reconciliations : j.cleaning = k.cleaning => j = k

\* A cleaning has one open offer at most, so the accepted one was the only one.
OfferIsAlone == \A c \in Reservations : \A n, k \in Open(c) : n = k
OffersEnd == OffersEndWithBookings /\ OfferIsAlone

IInv ==
    /\ TypeOK
    /\ StatusFollowsRows
    /\ OffersEnd
    /\ ScheduleFollowsReservation
    /\ OfferTermsAreKept
    /\ References

\* The body of ScheduleChangeIsReconciled.
Reconciled ==
    \A c \in Reservations :
        Revision(c)' # Revision(c) /\ Booked(c) # {} =>
            \E k \in Pending(c)' : k.assignment \in Booked(c) /\ k.target = Revision(c)'

-----------------------------------------------------------------------------
(* Rows and receipts.                                                      *)

\* The part of TypeOK about receipts, and the part about rows.
ReceiptsOK == DOMAIN events \subseteq receipts /\ \A k \in DOMAIN events : events[k] = 1

\* A key fenced by its receipt has no event yet, so its event is the first.
LEMMA EmitsOnce ==
  ASSUME ReceiptsOK, NEW k, Fresh(k), Emit(k)
  PROVE  ReceiptsOK'
<1>1. EventsOf(k) = 0
  BY DEF ReceiptsOK, Fresh, EventsOf
<1>2. \A j \in DOMAIN events : EventsOf(j) = 1
  BY DEF ReceiptsOK, EventsOf
<1>3. DOMAIN events' = DOMAIN events \cup {k} /\ receipts' = receipts \cup {k}
  BY DEF Emit, KeepReceipt, AppendEvent
<1>4. \A j \in DOMAIN events' : events'[j] = 1
  <2> TAKE j \in DOMAIN events'
  <2>1. events'[j] = IF j = k THEN EventsOf(k) + 1 ELSE EventsOf(j)
    BY <1>3 DEF Emit, AppendEvent
  <2> QED
    BY <1>1, <1>2, <1>3, <2>1 DEF Fresh, ReceiptsOK
<1> QED
  BY <1>3, <1>4 DEF ReceiptsOK

\* A step that finds its work done changes nothing but the receipts.
LEMMA NothingToDoStep ==
  ASSUME IInv, NEW k, NothingToDo(k)
  PROVE  IInv' /\ Reconciled
<1>1. TypeOK'
  BY DEF NothingToDo, KeepReceipt, offerVars, exceptionVars, IInv, TypeOK
<1>2. UNCHANGED <<reservation, cleaning, revisions, campaigns, assignments, reconciliations>>
  BY DEF NothingToDo, offerVars
<1>3. \A c : Booked(c)' = Booked(c) /\ Open(c)' = Open(c) /\ Revision(c)' = Revision(c)
  BY <1>2 DEF Booked, Open, Revision
<1>4. StatusFollowsRows' /\ OffersEnd'
  <2>1. \A c : LatestCampaign(c)' = LatestCampaign(c)
    BY <1>2 DEF LatestCampaign
  <2> QED
    BY <1>2, <1>3, <2>1 DEF IInv, StatusFollowsRows, OffersEnd, OffersEndWithBookings, OfferIsAlone
<1>5. ScheduleFollowsReservation'
  BY <1>2, <1>3 DEF IInv, ScheduleFollowsReservation, ConfirmedMeansScheduled, CaseFollowsSchedule
<1>6. OfferTermsAreKept'
  <2> SUFFICES ASSUME NEW c \in Reservations
               PROVE  TermsKept(c)'
    BY DEF OfferTermsAreKept
  <2>1. TermsKept(c)
    BY DEF IInv, OfferTermsAreKept
  <2> QED
    BY <1>2, <2>1 DEF TermsKept, OnTerms
<1>7. References'
  BY <1>2 DEF IInv, References, Revision
<1>8. Reconciled
  BY <1>3 DEF Reconciled
<1> QED
  BY <1>1, <1>4, <1>5, <1>6, <1>7, <1>8 DEF IInv

\* The rows of every table are typed, and numbered from 1 on.
LEMMA RowsAreTyped ==
  ASSUME TypeOK, NEW c \in Reservations
  PROVE  /\ reservation[c].version \in Nat
         /\ Revision(c) \in Nat
         /\ DOMAIN revisions[c] = 1..Revision(c)
         /\ \A r \in DOMAIN revisions[c] : revisions[c][r] \in RevisionRows
         /\ \A r \in DOMAIN revisions[c] : revisions[c][r].version \in Nat
         /\ revisions[c] # <<>> => Revision(c) \in DOMAIN revisions[c]
         /\ Len(campaigns[c]) \in Nat
         /\ DOMAIN campaigns[c] = 1..Len(campaigns[c])
         /\ \A n \in DOMAIN campaigns[c] : campaigns[c][n] \in CampaignRows
         /\ Len(assignments[c]) \in Nat
         /\ DOMAIN assignments[c] = 1..Len(assignments[c])
         /\ \A n \in DOMAIN assignments[c] : assignments[c][n] \in AssignmentRows
         /\ Len(requests[c]) \in Nat
         /\ DOMAIN requests[c] = 1..Len(requests[c])
         /\ \A q \in DOMAIN requests[c] : requests[c][q] \in RequestRows
<1>1. /\ revisions[c] \in Seq(RevisionRows)
      /\ campaigns[c] \in Seq(CampaignRows)
      /\ assignments[c] \in Seq(AssignmentRows)
      /\ requests[c] \in Seq(RequestRows)
      /\ reservation[c].version \in Nat
  BY DEF TypeOK
<1>2. \A r \in DOMAIN revisions[c] : revisions[c][r] \in RevisionRows
  BY <1>1
<1>3. revisions[c] # <<>> => Revision(c) \in DOMAIN revisions[c]
  BY <1>1, EmptySeq DEF Revision
<1> QED
  BY <1>1, <1>2, <1>3 DEF Revision, RevisionRows

-----------------------------------------------------------------------------
(* What the three writes to the booking ledger do.                         *)

\* Bookings keep their terms, and none becomes a hard booking.
TermsStand ==
    \A c \in Reservations : \A n \in DOMAIN assignments[c] :
        /\ n \in DOMAIN assignments'[c]
        /\ assignments'[c][n].revision = assignments[c][n].revision
        /\ assignments'[c][n].cleaner = assignments[c][n].cleaner
        /\ assignments'[c][n].slot = assignments[c][n].slot
        /\ assignments'[c][n].campaign = assignments[c][n].campaign
        /\ assignments'[c][n].status = "HARD_BOOKED" => n \in Booked(c)

\* Booking c appends the booking, and every older row stays as it is.
LEMMA BookAppends ==
  ASSUME TypeOK, NEW c \in Reservations, NEW booking \in AssignmentRows,
         booking.status = "HARD_BOOKED", Book(c, booking)
  PROVE  /\ assignments' \in [Reservations -> Seq(AssignmentRows)]
         /\ TermsStand
         /\ DOMAIN assignments'[c] = DOMAIN assignments[c] \cup {Len(assignments[c]) + 1}
         /\ assignments'[c][Len(assignments[c]) + 1] = booking
         /\ \A d \in Reservations \ {c} : assignments'[d] = assignments[d]
         /\ \A d \in Reservations :
               Booked(d)' = IF d = c THEN {Len(assignments[c]) + 1} ELSE Booked(d)
         /\ LatestCampaign(c)' = booking.campaign
         /\ \A d \in Reservations \ {c} : LatestCampaign(d)' = LatestCampaign(d)
<1> DEFINE old == assignments[c]
<1>1. /\ assignments \in [Reservations -> Seq(AssignmentRows)]
      /\ old \in Seq(AssignmentRows)
      /\ Len(old) \in Nat
      /\ DOMAIN old = 1..Len(old)
  BY DEF TypeOK
<1>2. assignments' = [assignments EXCEPT ![c] = Append(old, booking)]
  BY DEF Book
<1>3. assignments'[c] = Append(old, booking)
  BY <1>1, <1>2
<1>4. /\ assignments'[c] \in Seq(AssignmentRows)
      /\ Len(assignments'[c]) = Len(old) + 1
      /\ DOMAIN assignments'[c] = 1..Len(old) + 1
      /\ \A n \in DOMAIN old : assignments'[c][n] = old[n]
      /\ assignments'[c][Len(old) + 1] = booking
  BY <1>1, <1>3, AppendProperties
<1>5. \A d \in Reservations \ {c} : assignments'[d] = assignments[d]
  BY <1>1, <1>2
<1>6. Booked(c)' = {Len(old) + 1}
  BY <1>1, <1>4 DEF Booked, Book
<1>7. \A d \in Reservations \ {c} : Booked(d)' = Booked(d)
  BY <1>5 DEF Booked
<1>8. TermsStand
  BY <1>1, <1>4, <1>5, SMTT(30) DEF TermsStand, Booked
<1>9. assignments' \in [Reservations -> Seq(AssignmentRows)]
  BY <1>1, <1>2, <1>3, <1>4
<1>10. LatestCampaign(c)' = booking.campaign
  BY <1>4 DEF LatestCampaign
<1>11. \A d \in Reservations \ {c} : LatestCampaign(d)' = LatestCampaign(d)
  BY <1>5 DEF LatestCampaign
<1> QED
  BY <1>1, <1>4, <1>5, <1>6, <1>7, <1>8, <1>9, <1>10, <1>11

\* Ending booking n takes it off the hard bookings and changes nothing else.
LEMMA EndReleases ==
  ASSUME TypeOK, NEW c \in Reservations, NEW n \in Booked(c),
         NEW status \in {"RELEASED", "COMPLETED", "CANCELLED"}, End(c, n, status)
  PROVE  /\ assignments' \in [Reservations -> Seq(AssignmentRows)]
         /\ TermsStand
         /\ \A d \in Reservations : DOMAIN assignments'[d] = DOMAIN assignments[d]
         /\ \A d \in Reservations :
               Booked(d)' = IF d = c THEN Booked(c) \ {n} ELSE Booked(d)
         /\ \A d \in Reservations : LatestCampaign(d)' = LatestCampaign(d)
<1> DEFINE old == assignments[c]
           ended == [old[n] EXCEPT !.status = status]
<1>1. /\ assignments \in [Reservations -> Seq(AssignmentRows)]
      /\ old \in Seq(AssignmentRows)
      /\ n \in 1..Len(old)
      /\ DOMAIN old = 1..Len(old)
      /\ old[n] \in AssignmentRows
  BY DEF TypeOK, Booked
<1>2. ended \in AssignmentRows
  BY <1>1 DEF AssignmentRows
<1>3. assignments' = [assignments EXCEPT ![c] = [old EXCEPT ![n] = ended]]
  BY <1>1 DEF End
<1>4. assignments'[c] = [old EXCEPT ![n] = ended]
  BY <1>1, <1>3
<1>5. /\ assignments'[c] \in Seq(AssignmentRows)
      /\ DOMAIN assignments'[c] = DOMAIN old
      /\ Len(assignments'[c]) = Len(old)
      /\ \A k \in DOMAIN old : assignments'[c][k] = IF k = n THEN ended ELSE old[k]
  BY <1>1, <1>2, <1>4, ExceptSeq
<1>6. \A d \in Reservations \ {c} : assignments'[d] = assignments[d]
  BY <1>1, <1>3
<1>7. /\ ended.status = status
      /\ ended.revision = old[n].revision
      /\ ended.cleaner = old[n].cleaner
      /\ ended.slot = old[n].slot
      /\ ended.campaign = old[n].campaign
  BY <1>1 DEF AssignmentRows
<1>8. Booked(c)' = Booked(c) \ {n}
  BY <1>5, <1>7 DEF Booked
<1>9. \A d \in Reservations \ {c} : Booked(d)' = Booked(d)
  BY <1>6 DEF Booked
<1>10. TermsStand
  BY <1>5, <1>6, <1>7 DEF TermsStand, Booked
<1>11. assignments' \in [Reservations -> Seq(AssignmentRows)]
  BY <1>1, <1>3, <1>4, <1>5
<1>12. \A d \in Reservations : LatestCampaign(d)' = LatestCampaign(d)
  <2>1. Len(old) \in DOMAIN old
    BY <1>1
  <2>2. assignments'[c][Len(old)].campaign = old[Len(old)].campaign
    BY <1>5, <1>7, <2>1
  <2>3. LatestCampaign(c)' = LatestCampaign(c)
    BY <1>5, <2>2 DEF LatestCampaign
  <2>4. \A d \in Reservations \ {c} : LatestCampaign(d)' = LatestCampaign(d)
    BY <1>6 DEF LatestCampaign
  <2> QED
    BY <2>3, <2>4
<1> QED
  BY <1>5, <1>6, <1>8, <1>9, <1>10, <1>11, <1>12

Taken(c) == cleaning[c] \in {"ASSIGNED", "COMPLETED"}

\* A step that opens no offer keeps the offers ending with the bookings, if each cleaning it
\* leaves taken has no offer, or an original restored, or the latest booking it had.
LEMMA OffersStillEnd ==
  ASSUME OffersEnd,
         \A c \in Reservations : Open(c)' \subseteq Open(c),
         \A c \in Reservations : Taken(c)' =>
             \/ Open(c)' = {}
             \/ LatestCampaign(c)' = 0
             \/ Taken(c) /\ LatestCampaign(c)' = LatestCampaign(c)
  PROVE  OffersEnd'
<1>1. OffersEndWithBookings'
  BY DEF OffersEnd, OffersEndWithBookings, Taken
<1>2. OfferIsAlone'
  BY DEF OffersEnd, OfferIsAlone
<1> QED
  BY <1>1, <1>2 DEF OffersEnd

\* The pending cases follow the schedule as long as bookings keep their terms.
LEMMA CasesStand ==
  ASSUME References, CaseFollowsSchedule, TermsStand, UNCHANGED <<revisions, reconciliations>>,
         reconciliations \subseteq ReconciliationRows
  PROVE  CaseFollowsSchedule'
<1>1. \A k \in reconciliations :
        /\ k.cleaning \in Reservations
        /\ k.assignment \in DOMAIN assignments[k.cleaning]
  BY DEF References, ReconciliationRows
<1>2. \A k \in reconciliations : k.assignment \in Booked(k.cleaning)' =>
        /\ k.assignment \in Booked(k.cleaning)
        /\ assignments'[k.cleaning][k.assignment].revision
             = assignments[k.cleaning][k.assignment].revision
  BY <1>1 DEF TermsStand, Booked
<1> QED
  BY <1>2 DEF CaseFollowsSchedule, Revision

\* Offers keep their terms, and none is accepted or reopened.
OffersStand ==
    \A c \in Reservations :
        /\ DOMAIN campaigns[c] \subseteq DOMAIN campaigns'[c]
        /\ \A n \in DOMAIN campaigns[c] :
              /\ campaigns'[c][n].revision = campaigns[c][n].revision
              /\ campaigns'[c][n].cleaner = campaigns[c][n].cleaner
              /\ campaigns[c][n].candidate = "ACCEPTED" => campaigns'[c][n] = campaigns[c][n]
        /\ \A n \in DOMAIN campaigns'[c] : campaigns'[c][n].candidate = "ACCEPTED" =>
              n \in DOMAIN campaigns[c] /\ campaigns[c][n].candidate = "ACCEPTED"

RevisionsStand ==
    \A c \in Reservations : \A r \in DOMAIN revisions[c] :
        r \in DOMAIN revisions'[c] /\ revisions'[c][r] = revisions[c][r]

\* A reservation whose rows are untouched keeps its terms.
LEMMA SameTerms ==
  ASSUME NEW c, campaigns'[c] = campaigns[c], assignments'[c] = assignments[c],
         revisions'[c] = revisions[c], TermsKept(c)
  PROVE  TermsKept(c)'
<1>1. \A k : OnTerms(c, k) => OnTerms(c, k)'
  BY DEF OnTerms
<1> QED
  BY <1>1 DEF TermsKept

\* A step that accepts nothing keeps the accepted offers and their bookings on terms.
LEMMA TermsAreKept ==
  ASSUME TypeOK, References, OfferTermsAreKept, TermsStand, OffersStand, RevisionsStand,
         \A c \in Reservations : \A n \in DOMAIN assignments'[c] \ DOMAIN assignments[c] :
             assignments'[c][n].campaign = 0
  PROVE  OfferTermsAreKept'
<1> SUFFICES ASSUME NEW c \in Reservations
             PROVE  TermsKept(c)'
  BY DEF OfferTermsAreKept
<1>1. \A n \in DOMAIN campaigns'[c] : campaigns'[c][n].candidate = "ACCEPTED" =>
        \E k \in DOMAIN assignments'[c] : assignments'[c][k].campaign = n
  BY DEF OfferTermsAreKept, TermsKept, OffersStand, TermsStand
<1>2. ASSUME NEW k \in DOMAIN assignments'[c], assignments'[c][k].campaign # 0
      PROVE  LET booking == assignments'[c][k]
                 offer == campaigns'[c][booking.campaign]
             IN  /\ offer.candidate = "ACCEPTED" /\ offer.status = "CLOSED"
                 /\ offer.cleaner = booking.cleaner
                 /\ offer.revision = booking.revision
                 /\ booking.slot = revisions'[c][offer.revision].checkOut
                 /\ \A j \in DOMAIN assignments'[c] :
                      assignments'[c][j].campaign = booking.campaign => j = k
  <2> DEFINE booking == assignments[c][k]
             n == booking.campaign
             offer == campaigns[c][n]
  <2>1. k \in DOMAIN assignments[c]
    BY <1>2
  <2>2. /\ assignments'[c][k].campaign = n
        /\ assignments'[c][k].cleaner = booking.cleaner
        /\ assignments'[c][k].revision = booking.revision
        /\ assignments'[c][k].slot = booking.slot
        /\ n # 0
    BY <1>2, <2>1 DEF TermsStand
  <2>3. /\ offer.candidate = "ACCEPTED"
        /\ offer.status = "CLOSED"
        /\ offer.cleaner = booking.cleaner
        /\ offer.revision = booking.revision
        /\ booking.slot = revisions[c][offer.revision].checkOut
        /\ \A j \in DOMAIN assignments[c] : assignments[c][j].campaign = n => j = k
    BY <2>1, <2>2, ZenonT(30) DEF OfferTermsAreKept, TermsKept, OnTerms
  <2>4. n \in DOMAIN campaigns[c]
    BY <2>1, <2>2 DEF References, TypeOK
  <2>5. campaigns'[c][n] = offer
    BY <2>3, <2>4 DEF OffersStand
  <2>6. revisions'[c][offer.revision] = revisions[c][offer.revision]
    BY <2>4 DEF TypeOK, RevisionsStand
  <2>7. \A j \in DOMAIN assignments'[c] : assignments'[c][j].campaign = n => j = k
    BY <2>2, <2>3 DEF TermsStand
  <2> QED
    BY <2>2, <2>3, <2>5, <2>6, <2>7
<1> QED
  BY <1>1, <1>2 DEF TermsKept, OnTerms

\* A step that adds neither booking nor schedule breaks no reference.
LEMMA ReferencesStand ==
  ASSUME TypeOK, References, TermsStand, OffersStand,
         \A c \in Reservations : DOMAIN assignments'[c] = DOMAIN assignments[c],
         campaigns' \in [Reservations -> Seq(CampaignRows)],
         UNCHANGED <<revisions, reconciliations>>,
         \A c \in Reservations : reservation[c].version <= reservation'[c].version,
         \A c \in Reservations : reservation'[c].version \in Nat,
         \A c \in Reservations : cleaning'[c] # "ABSENT" =>
             cleaning[c] # "ABSENT" \/ revisions[c] # <<>>
  PROVE  References'
<1>1. \A c \in Reservations :
        /\ Len(campaigns'[c]) \in Nat
        /\ DOMAIN campaigns'[c] = 1..Len(campaigns'[c])
  OBVIOUS
<1>2. ASSUME NEW c \in Reservations
      PROVE  Len(campaigns[c]) <= Len(campaigns'[c])
  <2>1. Len(campaigns[c]) # 0 => Len(campaigns[c]) \in DOMAIN campaigns'[c]
    BY RowsAreTyped DEF OffersStand
  <2> QED
    BY <1>1, <2>1, RowsAreTyped
<1>3. ASSUME NEW c \in Reservations
      PROVE  revisions'[c] # <<>> => revisions'[c][Revision(c)'].version <= reservation'[c].version
  <2>1. revisions[c] # <<>> =>
          /\ revisions[c][Revision(c)].version \in Nat
          /\ revisions[c][Revision(c)].version <= reservation[c].version
    BY RowsAreTyped DEF References
  <2> QED
    BY <2>1, RowsAreTyped DEF Revision
<1>5. ASSUME NEW c \in Reservations, NEW n \in DOMAIN assignments'[c]
      PROVE  /\ assignments'[c][n].revision \in DOMAIN revisions'[c]
             /\ assignments'[c][n].campaign \in 0..Len(campaigns'[c])
  <2>1. /\ assignments'[c][n].revision = assignments[c][n].revision
        /\ assignments'[c][n].campaign = assignments[c][n].campaign
        /\ assignments[c][n].revision \in DOMAIN revisions[c]
        /\ assignments[c][n].campaign \in 0..Len(campaigns[c])
    BY DEF References, TermsStand
  <2> QED
    BY <1>1, <1>2, <2>1, RowsAreTyped
<1>6. \A k \in reconciliations' : k.assignment \in DOMAIN assignments'[k.cleaning]
  BY DEF References, TypeOK, ReconciliationRows
<1>7. \A c \in Reservations : cleaning'[c] # "ABSENT" => revisions'[c] # <<>>
  BY DEF References
<1> QED
  BY <1>3, <1>5, <1>6, <1>7 DEF References

\* A confirmed reservation stays scheduled while only its cleaning's status moves on.
LEMMA ConfirmedStands ==
  ASSUME ConfirmedMeansScheduled, UNCHANGED <<reservation, revisions>>,
         \A c \in Reservations : cleaning[c] \notin {"ABSENT", "CANCELLED"} =>
             cleaning'[c] \notin {"ABSENT", "CANCELLED"}
  PROVE  ConfirmedMeansScheduled'
  BY DEF ConfirmedMeansScheduled, Revision

-----------------------------------------------------------------------------
(* Reservation ingress.                                                    *)

\* The one pending case of cleaning c is the standing booking's, and leads to the
\* revision that is being appended.
LEMMA ReconcileMoves ==
  ASSUME TypeOK, References, NEW c \in Reservations, NEW n \in Booked(c), Reconcile(c, n)
  PROVE  /\ reconciliations' \subseteq ReconciliationRows
         /\ \A k \in reconciliations' : k.assignment \in DOMAIN assignments[k.cleaning]
         /\ \A j, k \in reconciliations' : j.cleaning = k.cleaning => j = k
         /\ \A k \in reconciliations' : k.cleaning # c => k \in reconciliations
         /\ \A k \in reconciliations' : k.cleaning = c =>
               /\ k.assignment = n
               /\ k.base = assignments[c][n].revision
               /\ k.target = Revision(c) + 1
         /\ \E k \in reconciliations' : k.cleaning = c
<1>1. /\ n \in DOMAIN assignments[c]
      /\ n \in Nat
      /\ assignments[c][n].revision \in Nat
      /\ Revision(c) \in Nat
      /\ reconciliations \subseteq ReconciliationRows
  <2>1. n \in DOMAIN assignments[c]
    BY DEF Booked
  <2>2. n \in Nat /\ Revision(c) \in Nat /\ assignments[c][n] \in AssignmentRows
    BY <2>1, RowsAreTyped
  <2> QED
    BY <2>1, <2>2 DEF AssignmentRows, TypeOK
<1>2. \A version \in Nat :
        /\ PendingCase(c, n, version) \in ReconciliationRows
        /\ PendingCase(c, n, version).cleaning = c
        /\ PendingCase(c, n, version).assignment = n
        /\ PendingCase(c, n, version).base = assignments[c][n].revision
        /\ PendingCase(c, n, version).target = Revision(c) + 1
  BY <1>1 DEF PendingCase, ReconciliationRows
<1>3. PICK version \in Nat, others \in SUBSET reconciliations :
        /\ reconciliations' = others \cup {PendingCase(c, n, version)}
        /\ \A k \in others : k.cleaning # c
  <2>1. CASE Pending(c) = {}
    <3>1. reconciliations' = reconciliations \cup {PendingCase(c, n, 1)}
      BY <2>1 DEF Reconcile
    <3> QED
      BY <2>1, <3>1 DEF Pending
  <2>2. CASE Pending(c) # {}
    <3>1. PICK k \in Pending(c) :
            reconciliations' = (reconciliations \ {k}) \cup {PendingCase(c, n, k.version + 1)}
      BY <2>2 DEF Reconcile
    <3>2. k \in reconciliations /\ k.cleaning = c /\ k.version + 1 \in Nat
      BY <1>1 DEF Pending, ReconciliationRows
    <3>3. \A j \in reconciliations \ {k} : j.cleaning # c
      BY <3>2 DEF References
    <3> QED
      BY <3>1, <3>2, <3>3
  <2> QED
    BY <2>1, <2>2
<1> QED
  BY <1>1, <1>2, <1>3 DEF References

\* What a message makes of its reservation.
LEMMA IngestedRow ==
  ASSUME TypeOK, NEW m \in Mail
  PROVE  LET c == m.reservation
             new == Ingested(c, m)
         IN  /\ c \in Reservations
             /\ m.checkOut \in CheckOuts
             /\ new \in [status : Statuses \cup {"ABSENT"},
                          checkOut : CheckOuts \cup {NoCheckOut}, version : Nat]
             /\ new.status = m.status
             /\ new.checkOut = m.checkOut
             /\ new.version \in Nat
             /\ reservation[c].version <= new.version
             /\ new.version = reservation[c].version => new = reservation[c]
<1>1. /\ m.reservation \in Reservations
      /\ m.checkOut \in CheckOuts
      /\ m.status \in Statuses
  BY MailAssumption
<1>2. reservation[m.reservation] \in [status : Statuses \cup {"ABSENT"},
                                      checkOut : CheckOuts \cup {NoCheckOut}, version : Nat]
  BY <1>1 DEF TypeOK
<1> QED
  BY <1>1, <1>2 DEF Ingested

LEMMA IngestConfirmedStep ==
  ASSUME IInv, NEW m \in Mail, IngestConfirmed(m)
  PROVE  IInv' /\ Reconciled
<1> DEFINE c == m.reservation
           new == Ingested(c, m)
           next == [checkOut |-> m.checkOut, version |-> new.version]
<1> USE DEF IInv
<1>1. /\ c \in Reservations
      /\ m.checkOut \in CheckOuts
      /\ new \in [status : Statuses \cup {"ABSENT"},
                   checkOut : CheckOuts \cup {NoCheckOut}, version : Nat]
      /\ new.status = "CONFIRMED"
      /\ new.checkOut = m.checkOut
      /\ new.version \in Nat
      /\ reservation[c].version <= new.version
      /\ new.version = reservation[c].version => new = reservation[c]
  BY IngestedRow DEF IngestConfirmed
<1>2. /\ reservation' = [reservation EXCEPT ![c] = new]
      /\ cleaning' = [cleaning EXCEPT ![c] = IF cleaning[c] = "ABSENT" THEN "PLANNED" ELSE cleaning[c]]
      /\ cleaning[c] # "CANCELLED"
      /\ UNCHANGED <<campaigns, assignments, cases, requests>>
      /\ Fresh(MailKey(m))
      /\ Emit(MailKey(m))
  BY DEF IngestConfirmed, SetCleaning, offerVars, exceptionVars
<1>3. /\ reservation'[c] = new
      /\ \A d \in Reservations \ {c} : reservation'[d] = reservation[d]
      /\ cleaning'[c] = IF cleaning[c] = "ABSENT" THEN "PLANNED" ELSE cleaning[c]
      /\ \A d \in Reservations \ {c} : cleaning'[d] = cleaning[d]
  BY <1>1, <1>2 DEF TypeOK
<1>4. \A d \in Reservations : Booked(d)' = Booked(d) /\ Open(d)' = Open(d)
  BY <1>2 DEF Booked, Open
<1>5. TermsStand /\ OffersStand
  BY <1>2 DEF TermsStand, OffersStand, Booked
<1>6. /\ revisions' \in [Reservations -> Seq(RevisionRows)]
      /\ RevisionsStand
      /\ \A d \in Reservations \ {c} : revisions'[d] = revisions[d]
      /\ revisions'[c] # <<>>
      /\ Revision(c)' = IF Outdated(c, m) THEN Revision(c) + 1 ELSE Revision(c)
      /\ revisions'[c][Revision(c)'] = next
  <2>1. CASE Outdated(c, m)
    <3>1. revisions' = [revisions EXCEPT ![c] = Append(@, next)]
      BY <2>1 DEF IngestConfirmed
    <3>2. next \in RevisionRows /\ revisions[c] \in Seq(RevisionRows)
      BY <1>1 DEF RevisionRows, TypeOK
    <3>3. revisions'[c] = Append(revisions[c], next)
      BY <1>1, <3>1 DEF TypeOK
    <3>4. /\ revisions'[c] \in Seq(RevisionRows)
          /\ revisions'[c] # <<>>
          /\ Revision(c)' = Revision(c) + 1
          /\ revisions'[c][Revision(c) + 1] = next
          /\ DOMAIN revisions'[c] = 1..(Revision(c) + 1)
          /\ \A r \in DOMAIN revisions[c] : revisions'[c][r] = revisions[c][r]
      BY <1>1, <3>2, <3>3, AppendProperties, RowsAreTyped DEF Revision
    <3>5. \A d \in Reservations \ {c} : revisions'[d] = revisions[d]
      BY <1>1, <3>1 DEF TypeOK
    <3>6. RevisionsStand
      BY <1>1, <3>4, <3>5, RowsAreTyped, SMTT(30) DEF RevisionsStand
    <3>7. revisions' \in [Reservations -> Seq(RevisionRows)]
      BY <1>1, <3>1, <3>3, <3>4 DEF TypeOK
    <3> QED
      BY <2>1, <3>4, <3>5, <3>6, <3>7
  <2>2. CASE ~Outdated(c, m)
    <3>1. revisions' = revisions
      BY <2>2 DEF IngestConfirmed
    <3>2. /\ revisions[c] # <<>>
          /\ revisions[c][Revision(c)].version \in Nat
          /\ revisions[c][Revision(c)].version <= reservation[c].version
          /\ ~(revisions[c][Revision(c)].version < new.version)
      BY <1>1, <2>2, RowsAreTyped DEF Outdated, References
    <3>3. new = reservation[c]
      BY <1>1, <3>2, RowsAreTyped
    <3>4. revisions[c][Revision(c)] = next
      BY <1>1, <3>3 DEF ScheduleFollowsReservation, ConfirmedMeansScheduled
    <3> QED
      BY <2>2, <3>1, <3>2, <3>4 DEF RevisionsStand, TypeOK, Revision
  <2> QED
    BY <2>1, <2>2
<1>7. /\ reconciliations' \subseteq ReconciliationRows
      /\ \A k \in reconciliations' : k.assignment \in DOMAIN assignments[k.cleaning]
      /\ \A j, k \in reconciliations' : j.cleaning = k.cleaning => j = k
      /\ \A k \in reconciliations' : k.cleaning # c => k \in reconciliations
  <2>1. CASE UNCHANGED reconciliations
    BY <2>1 DEF TypeOK, References
  <2>2. CASE \E n \in Booked(c) : Reconcile(c, n)
    BY <1>1, <2>2, ReconcileMoves
  <2> QED
    BY <2>1, <2>2 DEF IngestConfirmed
<1>8. Outdated(c, m) /\ Booked(c) # {} =>
        /\ \A k \in reconciliations' : k.cleaning = c =>
              /\ k.base = assignments[c][k.assignment].revision
              /\ k.target = Revision(c) + 1
        /\ \E k \in reconciliations' : k.cleaning = c
        /\ \A k \in reconciliations' : k.cleaning = c => k.assignment \in Booked(c)
  <2> SUFFICES ASSUME Outdated(c, m), Booked(c) # {}
               PROVE  \E n \in Booked(c) : Reconcile(c, n)
    BY <1>1, ReconcileMoves
  <2> QED
    BY DEF IngestConfirmed
<1>9. ~Outdated(c, m) => reconciliations' = reconciliations
  BY DEF IngestConfirmed
<1>10. TypeOK'
  <2>1. reservation' \in [Reservations -> [status : Statuses \cup {"ABSENT"},
                                           checkOut : CheckOuts \cup {NoCheckOut}, version : Nat]]
    BY <1>1, <1>2 DEF TypeOK
  <2>2. cleaning' \in [Reservations -> {"ABSENT", "PLANNED", "OFFERING", "ASSIGNED",
                                        "COMPLETED", "CANCELLED"}]
    BY <1>1, <1>2 DEF TypeOK
  <2>3. \A d \in Reservations : \A n \in DOMAIN campaigns[d] :
          campaigns[d][n].revision \in DOMAIN revisions'[d]
    BY <1>6 DEF TypeOK, RevisionsStand
  <2>4. ReceiptsOK'
    BY <1>2, EmitsOnce DEF TypeOK, ReceiptsOK
  <2> QED
    BY <1>2, <1>6, <1>7, <2>1, <2>2, <2>3, <2>4 DEF TypeOK, ReceiptsOK
<1>11. StatusFollowsRows'
  BY <1>1, <1>3, <1>4 DEF StatusFollowsRows
<1>12. OffersEnd'
  <2>1. \A d \in Reservations : Taken(d)' => Taken(d)
    BY <1>3 DEF Taken
  <2>2. \A d \in Reservations : LatestCampaign(d)' = LatestCampaign(d)
    BY <1>2 DEF LatestCampaign
  <2> QED
    BY <1>4, <2>1, <2>2, OffersStillEnd
<1>13. ConfirmedMeansScheduled'
  <2>1. \A d \in Reservations \ {c} : Revision(d)' = Revision(d)
    BY <1>6 DEF Revision
  <2>2. cleaning'[c] \notin {"ABSENT", "CANCELLED"}
    BY <1>2, <1>3
  <2> QED
    BY <1>1, <1>3, <1>6, <2>1, <2>2, SMTT(30) DEF ScheduleFollowsReservation, ConfirmedMeansScheduled
<1>14. CaseFollowsSchedule'
  <2> SUFFICES ASSUME NEW k \in reconciliations', k.assignment \in Booked(k.cleaning)'
               PROVE  /\ k.base = assignments[k.cleaning][k.assignment].revision
                      /\ k.target = Revision(k.cleaning)'
                      /\ k.base < k.target
    BY <1>2 DEF CaseFollowsSchedule
  <2>1. k.cleaning \in Reservations /\ k.assignment \in Booked(k.cleaning)
    BY <1>4, <1>7 DEF ReconciliationRows
  <2>2. CASE k.cleaning # c \/ ~Outdated(c, m)
    <3>1. k \in reconciliations /\ Revision(k.cleaning)' = Revision(k.cleaning)
      BY <1>6, <1>7, <1>9, <2>1, <2>2 DEF Revision
    <3> QED
      BY <2>1, <3>1 DEF ScheduleFollowsReservation, CaseFollowsSchedule
  <2>3. CASE k.cleaning = c /\ Outdated(c, m)
    <3>1. /\ k.base = assignments[c][k.assignment].revision
          /\ k.target = Revision(c) + 1
          /\ Revision(c)' = Revision(c) + 1
      BY <1>6, <1>8, <2>1, <2>3
    <3>2. assignments[c][k.assignment].revision \in 1..Revision(c)
      BY <1>1, <2>1, <2>3, RowsAreTyped DEF Booked, References
    <3> QED
      BY <1>1, <2>3, <3>1, <3>2, RowsAreTyped
  <2> QED
    BY <2>2, <2>3
<1>15. OfferTermsAreKept'
  BY <1>2, <1>5, <1>6, TermsAreKept
<1>16. References'
  <2>1. ASSUME NEW d \in Reservations, revisions'[d] # <<>>
        PROVE  revisions'[d][Revision(d)'].version <= reservation'[d].version
    <3>1. CASE d = c
      BY <1>1, <1>3, <1>6, <3>1
    <3>2. CASE d # c
      BY <1>3, <1>6, <2>1, <3>2 DEF References, Revision
    <3> QED
      BY <3>1, <3>2
  <2>2. ASSUME NEW d \in Reservations, NEW n \in DOMAIN assignments[d]
        PROVE  assignments[d][n].revision \in DOMAIN revisions'[d]
    BY <1>6 DEF References, RevisionsStand
  <2>3. \A d \in Reservations : cleaning'[d] # "ABSENT" => revisions'[d] # <<>>
    BY <1>3, <1>6 DEF References
  <2> QED
    BY <1>2, <1>7, <2>1, <2>2, <2>3 DEF References
<1>17. Reconciled
  <2> SUFFICES ASSUME NEW d \in Reservations, Revision(d)' # Revision(d), Booked(d) # {}
               PROVE  \E k \in Pending(d)' : k.assignment \in Booked(d) /\ k.target = Revision(d)'
    BY DEF Reconciled
  <2>1. d = c /\ Outdated(c, m)
    BY <1>6 DEF Revision
  <2> QED
    BY <1>6, <1>8, <2>1 DEF Pending
<1> QED
  BY <1>10, <1>11, <1>12, <1>13, <1>14, <1>15, <1>16, <1>17 DEF ScheduleFollowsReservation

\* An accepted offer is closed.
LEMMA AcceptedIsClosed ==
  ASSUME TypeOK, OfferTermsAreKept, NEW c \in Reservations, NEW n \in DOMAIN campaigns[c],
         campaigns[c][n].candidate = "ACCEPTED"
  PROVE  campaigns[c][n].status = "CLOSED"
<1>1. n # 0
  BY RowsAreTyped
<1>2. PICK k \in DOMAIN assignments[c] : assignments[c][k].campaign = n
  BY DEF OfferTermsAreKept, TermsKept, OnTerms
<1> QED
  BY <1>1, <1>2 DEF OfferTermsAreKept, TermsKept, OnTerms

\* Cancelling the open offer touches no accepted one.
LEMMA CancelOfferStands ==
  ASSUME IInv, NEW c \in Reservations, CancelOpenOffer(c)
  PROVE  /\ campaigns' \in [Reservations -> Seq(CampaignRows)]
         /\ OffersStand
         /\ \A d \in Reservations : DOMAIN campaigns'[d] = DOMAIN campaigns[d]
         /\ Open(c)' = {}
         /\ \A d \in Reservations \ {c} : campaigns'[d] = campaigns[d]
<1> DEFINE new == [n \in DOMAIN campaigns[c] |->
                     IF n \in Open(c) THEN CancelledOffer(campaigns[c][n]) ELSE campaigns[c][n]]
<1>1. /\ campaigns' = [campaigns EXCEPT ![c] = new]
      /\ campaigns \in [Reservations -> Seq(CampaignRows)]
  BY DEF CancelOpenOffer, IInv, TypeOK
<1>2. campaigns'[c] = new /\ \A d \in Reservations \ {c} : campaigns'[d] = campaigns[d]
  BY <1>1
<1>3. ASSUME NEW offer \in CampaignRows
      PROVE  /\ CancelledOffer(offer) \in CampaignRows
             /\ CancelledOffer(offer).revision = offer.revision
             /\ CancelledOffer(offer).cleaner = offer.cleaner
             /\ CancelledOffer(offer).status = "CANCELLED"
             /\ CancelledOffer(offer).candidate = "ACCEPTED" => offer.candidate = "ACCEPTED"
  BY DEF CancelledOffer, CampaignRows
<1>4. /\ new \in [1..Len(campaigns[c]) -> CampaignRows]
      /\ Len(campaigns[c]) \in Nat
  BY <1>3, RowsAreTyped DEF IInv
<1>5. new \in Seq(CampaignRows)
  BY <1>4, SeqDef
<1>6. campaigns' \in [Reservations -> Seq(CampaignRows)]
  BY <1>1, <1>2, <1>5
<1>7. ASSUME NEW n \in DOMAIN campaigns[c], campaigns[c][n].candidate = "ACCEPTED"
      PROVE  n \notin Open(c)
  BY <1>7, AcceptedIsClosed DEF Open, IInv
<1>8. OffersStand
  BY <1>2, <1>3, <1>7, RowsAreTyped, SMTT(30) DEF OffersStand, IInv
<1>9. Open(c)' = {}
  BY <1>2, <1>3, RowsAreTyped DEF Open, IInv
<1> QED
  BY <1>2, <1>6, <1>8, <1>9

\* Rows that keep their numbers keep the references to them.
LEMMA RowReferences ==
  ASSUME TypeOK, OffersStand, RevisionsStand, TermsStand, UNCHANGED <<requests, cases>>,
         \A c \in Reservations : DOMAIN campaigns'[c] = DOMAIN campaigns[c]
  PROVE  /\ \A c \in Reservations :
              /\ \A n \in DOMAIN campaigns'[c] : campaigns'[c][n].revision \in DOMAIN revisions'[c]
              /\ \A q \in DOMAIN requests'[c] : requests'[c][q].assignment \in DOMAIN assignments'[c]
         /\ \A case \in cases' : case[2] \in DOMAIN assignments'[case[1]]
<1>1. \A case \in cases : case[1] \in Reservations /\ case[2] \in DOMAIN assignments[case[1]]
  BY DEF TypeOK
<1> QED
  BY <1>1 DEF TypeOK, OffersStand, RevisionsStand, TermsStand

LEMMA IngestCancelledStep ==
  ASSUME IInv, NEW m \in Mail, IngestCancelled(m)
  PROVE  IInv' /\ Reconciled
<1> DEFINE c == m.reservation
           new == Ingested(c, m)
<1> USE DEF IInv
<1>1. /\ c \in Reservations
      /\ new \in [status : Statuses \cup {"ABSENT"},
                   checkOut : CheckOuts \cup {NoCheckOut}, version : Nat]
      /\ new.status = "CANCELLED"
      /\ new.version \in Nat
      /\ reservation[c].version <= new.version
  BY IngestedRow DEF IngestCancelled
<1>2. /\ reservation' = [reservation EXCEPT ![c] = new]
      /\ UNCHANGED <<revisions, cases, requests, reconciliations>>
      /\ Fresh(MailKey(m))
      /\ Emit(MailKey(m))
  BY DEF IngestCancelled, exceptionVars
<1>3. reservation'[c] = new /\ \A d \in Reservations \ {c} : reservation'[d] = reservation[d]
  BY <1>1, <1>2 DEF TypeOK
<1>4. /\ campaigns' \in [Reservations -> Seq(CampaignRows)]
      /\ OffersStand
      /\ \A d \in Reservations : DOMAIN campaigns'[d] = DOMAIN campaigns[d]
      /\ \A d \in Reservations \ {c} : Open(d)' = Open(d)
      /\ HasCleaning(c) => Open(c)' = {}
      /\ ~HasCleaning(c) => Open(c)' = Open(c)
  <2>1. CASE HasCleaning(c)
    <3>1. CancelOpenOffer(c)
      BY <2>1 DEF IngestCancelled
    <3> QED
      BY <1>1, <2>1, <3>1, CancelOfferStands DEF Open
  <2>2. CASE ~HasCleaning(c)
    <3>1. campaigns' = campaigns
      BY <2>2 DEF IngestCancelled, offerVars
    <3> QED
      BY <2>2, <3>1 DEF Open, OffersStand, TypeOK
  <2> QED
    BY <2>1, <2>2
<1>5. /\ assignments' \in [Reservations -> Seq(AssignmentRows)]
      /\ TermsStand
      /\ \A d \in Reservations : DOMAIN assignments'[d] = DOMAIN assignments[d]
      /\ \A d \in Reservations \ {c} : Booked(d)' = Booked(d)
      /\ HasCleaning(c) => Booked(c)' = {}
      /\ ~HasCleaning(c) => Booked(c)' = Booked(c)
      /\ \A d \in Reservations : LatestCampaign(d)' = LatestCampaign(d)
  <2>1. CASE UNCHANGED assignments /\ (HasCleaning(c) => Booked(c) = {})
    BY <2>1 DEF TypeOK, TermsStand, Booked, LatestCampaign
  <2>2. CASE HasCleaning(c) /\ \E n \in Booked(c) : End(c, n, "CANCELLED")
    <3>1. PICK n \in Booked(c) : End(c, n, "CANCELLED")
      BY <2>2
    <3>2. Booked(c) = {n}
      BY <1>1 DEF StatusFollowsRows
    <3> QED
      BY <1>1, <2>2, <3>1, <3>2, EndReleases
  <2> QED
    BY <2>1, <2>2 DEF IngestCancelled, CancelBooking, offerVars
<1>6. /\ cleaning' = [cleaning EXCEPT ![c] = IF HasCleaning(c) THEN "CANCELLED" ELSE cleaning[c]]
      /\ cleaning'[c] = IF HasCleaning(c) THEN "CANCELLED" ELSE cleaning[c]
      /\ \A d \in Reservations \ {c} : cleaning'[d] = cleaning[d]
  BY <1>1 DEF IngestCancelled, SetCleaning, TypeOK
<1>7. RevisionsStand
  BY <1>2 DEF RevisionsStand
<1>8. TypeOK'
  <2>1. reservation' \in [Reservations -> [status : Statuses \cup {"ABSENT"},
                                           checkOut : CheckOuts \cup {NoCheckOut}, version : Nat]]
    BY <1>1, <1>2 DEF TypeOK
  <2>2. cleaning' \in [Reservations -> {"ABSENT", "PLANNED", "OFFERING", "ASSIGNED",
                                        "COMPLETED", "CANCELLED"}]
    BY <1>1, <1>6 DEF TypeOK
  <2>3. ReceiptsOK'
    BY <1>2, EmitsOnce DEF TypeOK, ReceiptsOK
  <2> QED
    BY <1>2, <1>4, <1>5, <1>7, <2>1, <2>2, <2>3, RowReferences DEF TypeOK, ReceiptsOK
<1>9. StatusFollowsRows'
  BY <1>1, <1>4, <1>5, <1>6 DEF StatusFollowsRows
<1>10. OffersEnd'
  <2>1. \A d \in Reservations : Open(d)' \subseteq Open(d)
    BY <1>1, <1>4
  <2>2. \A d \in Reservations : Taken(d)' => Taken(d)
    BY <1>1, <1>6 DEF Taken, HasCleaning
  <2> QED
    BY <1>5, <2>1, <2>2, OffersStillEnd
<1>11. ScheduleFollowsReservation'
  <2>1. ConfirmedMeansScheduled'
    BY <1>1, <1>2, <1>3, <1>6 DEF ScheduleFollowsReservation, ConfirmedMeansScheduled, Revision
  <2>2. CaseFollowsSchedule'
    BY <1>2, <1>5, CasesStand DEF ScheduleFollowsReservation, TypeOK
  <2> QED
    BY <2>1, <2>2 DEF ScheduleFollowsReservation
<1>12. OfferTermsAreKept'
  BY <1>4, <1>5, <1>7, TermsAreKept
<1>13. References'
  <2>1. \A d \in Reservations :
          reservation[d].version <= reservation'[d].version /\ reservation'[d].version \in Nat
    BY <1>1, <1>3, RowsAreTyped
  <2>2. \A d \in Reservations : cleaning'[d] # "ABSENT" => cleaning[d] # "ABSENT"
    BY <1>1, <1>6 DEF HasCleaning
  <2> QED
    BY <1>2, <1>4, <1>5, <2>1, <2>2, ReferencesStand
<1>14. Reconciled
  BY <1>2 DEF Reconciled, Revision
<1> QED
  BY <1>8, <1>9, <1>10, <1>11, <1>12, <1>13, <1>14

-----------------------------------------------------------------------------
(* Offers.                                                                 *)

\* The status a command gives a cleaning is one there is.
LEMMA SetsCleaning ==
  ASSUME TypeOK, NEW c \in Reservations,
         NEW status \in {"PLANNED", "OFFERING", "ASSIGNED", "COMPLETED", "CANCELLED"},
         SetCleaning(c, status)
  PROVE  /\ cleaning' \in [Reservations -> {"ABSENT", "PLANNED", "OFFERING", "ASSIGNED",
                                            "COMPLETED", "CANCELLED"}]
         /\ cleaning'[c] = status
         /\ \A d \in Reservations \ {c} : cleaning'[d] = cleaning[d]
  BY DEF TypeOK, SetCleaning

LEMMA OpenAssignmentOfferStep ==
  ASSUME IInv, NEW c \in Reservations, NEW p \in Cleaners, NEW b, OpenAssignmentOffer(c, p, b)
  PROVE  IInv' /\ Reconciled
<1> DEFINE offer == [revision |-> Revision(c), cleaner |-> p, status |-> "OPEN",
                     candidate |-> "ELIGIBLE"]
           k == Key("OPEN_ASSIGNMENT_OFFER", c, p, b)
<1> USE DEF IInv
<1>1. /\ Fresh(k) /\ Emit(k)
      /\ cleaning[c] \in {"PLANNED", "OFFERING"}
      /\ Open(c) = {}
      /\ campaigns' = [campaigns EXCEPT ![c] = Append(@, offer)]
      /\ SetCleaning(c, "OFFERING")
      /\ UNCHANGED <<reservation, revisions, assignments, cases, requests, reconciliations>>
  BY DEF OpenAssignmentOffer, InsertOffer, exceptionVars
<1>2. revisions[c] # <<>>
  BY <1>1 DEF References
<1>3. offer \in CampaignRows /\ Revision(c) \in DOMAIN revisions[c]
  BY <1>2, RowsAreTyped DEF CampaignRows
<1>4. campaigns'[c] = Append(campaigns[c], offer) /\ campaigns[c] \in Seq(CampaignRows)
  BY <1>1 DEF TypeOK
<1>5. /\ campaigns'[c] \in Seq(CampaignRows)
      /\ DOMAIN campaigns'[c] = DOMAIN campaigns[c] \cup {Len(campaigns[c]) + 1}
      /\ \A n \in DOMAIN campaigns[c] : campaigns'[c][n] = campaigns[c][n]
      /\ campaigns'[c][Len(campaigns[c]) + 1] = offer
  BY <1>3, <1>4, AppendProperties, RowsAreTyped
<1>6. \A d \in Reservations \ {c} : campaigns'[d] = campaigns[d]
  BY <1>1 DEF TypeOK
<1>7. OffersStand /\ TermsStand /\ RevisionsStand
  BY <1>1, <1>3, <1>5, <1>6 DEF OffersStand, TermsStand, RevisionsStand, Booked
<1>8. \A d \in Reservations : Booked(d)' = Booked(d)
  BY <1>1 DEF Booked
<1>9. campaigns' \in [Reservations -> Seq(CampaignRows)]
  BY <1>1, <1>4, <1>5 DEF TypeOK
<1>10. /\ cleaning' \in [Reservations -> {"ABSENT", "PLANNED", "OFFERING", "ASSIGNED",
                                          "COMPLETED", "CANCELLED"}]
       /\ cleaning'[c] = "OFFERING"
       /\ \A d \in Reservations \ {c} : cleaning'[d] = cleaning[d]
  BY <1>1, SetsCleaning
<1>11. TypeOK'
  <2>1. ASSUME NEW d \in Reservations, NEW n \in DOMAIN campaigns'[d]
        PROVE  campaigns'[d][n].revision \in DOMAIN revisions[d]
    <3>1. CASE d = c /\ n = Len(campaigns[c]) + 1
      BY <1>3, <1>5, <3>1
    <3>2. CASE n \in DOMAIN campaigns[d] /\ campaigns'[d][n] = campaigns[d][n]
      BY <3>2 DEF TypeOK
    <3> QED
      BY <1>5, <1>6, <3>1, <3>2
  <2>2. ReceiptsOK'
    BY <1>1, EmitsOnce DEF TypeOK, ReceiptsOK
  <2> QED
    BY <1>1, <1>9, <1>10, <2>1, <2>2 DEF TypeOK, ReceiptsOK
<1>12. StatusFollowsRows'
  BY <1>1, <1>6, <1>8, <1>10 DEF StatusFollowsRows, Open
<1>13. OffersEnd'
  <2>1. \A n \in Open(c)' : n = Len(campaigns[c]) + 1
    BY <1>1, <1>5 DEF Open
  <2>2. \A d \in Reservations \ {c} :
          Open(d)' = Open(d) /\ LatestCampaign(d)' = LatestCampaign(d)
    BY <1>1, <1>6 DEF Open, LatestCampaign
  <2>3. OffersEndWithBookings'
    BY <1>10, <2>2 DEF OffersEnd, OffersEndWithBookings
  <2>4. OfferIsAlone'
    BY <2>1, <2>2 DEF OffersEnd, OfferIsAlone
  <2> QED
    BY <2>3, <2>4 DEF OffersEnd
<1>14. ScheduleFollowsReservation'
  BY <1>1, <1>7, <1>10, ConfirmedStands, CasesStand DEF ScheduleFollowsReservation, TypeOK
<1>15. OfferTermsAreKept'
  BY <1>1, <1>7, TermsAreKept
<1>16. References'
  BY <1>1, <1>2, <1>7, <1>9, <1>10, RowsAreTyped, ReferencesStand
<1>17. Reconciled
  BY <1>1 DEF Reconciled, Revision
<1> QED
  BY <1>11, <1>12, <1>13, <1>14, <1>15, <1>16, <1>17

LEMMA DeclineAssignmentStep ==
  ASSUME IInv, NEW c \in Reservations, NEW n \in DOMAIN campaigns[c], NEW b,
         DeclineAssignment(c, n, b)
  PROVE  IInv' /\ Reconciled
<1> DEFINE declined == [campaigns[c][n] EXCEPT !.candidate = "DECLINED"]
           k == Key("DECLINE_ASSIGNMENT", c, n, b)
<1> USE DEF IInv
<1>1. /\ Fresh(k) /\ Emit(k)
      /\ Answerable(c, n)
      /\ campaigns' = [campaigns EXCEPT ![c] = [campaigns[c] EXCEPT ![n] = declined]]
      /\ UNCHANGED <<reservation, cleaning, revisions, assignments, cases, requests,
                     reconciliations>>
  BY DEF DeclineAssignment, DeclineOffer, exceptionVars
<1>2. /\ campaigns[c] \in Seq(CampaignRows)
      /\ n \in 1..Len(campaigns[c])
      /\ campaigns[c][n] \in CampaignRows
      /\ campaigns[c][n].candidate = "ELIGIBLE"
      /\ campaigns'[c] = [campaigns[c] EXCEPT ![n] = declined]
  BY <1>1, RowsAreTyped DEF Answerable, TypeOK
<1>3. /\ declined \in CampaignRows
      /\ declined.revision = campaigns[c][n].revision
      /\ declined.cleaner = campaigns[c][n].cleaner
      /\ declined.status = campaigns[c][n].status
      /\ declined.candidate = "DECLINED"
  BY <1>2 DEF CampaignRows
<1>4. /\ campaigns'[c] \in Seq(CampaignRows)
      /\ DOMAIN campaigns'[c] = DOMAIN campaigns[c]
      /\ \A j \in DOMAIN campaigns[c] :
            campaigns'[c][j] = IF j = n THEN declined ELSE campaigns[c][j]
  BY <1>2, <1>3, ExceptSeq, RowsAreTyped
<1>5. \A d \in Reservations \ {c} : campaigns'[d] = campaigns[d]
  BY <1>1 DEF TypeOK
<1>6. campaigns' \in [Reservations -> Seq(CampaignRows)]
  BY <1>1, <1>2, <1>4 DEF TypeOK
<1>7. /\ OffersStand /\ TermsStand /\ RevisionsStand
      /\ \A d \in Reservations : DOMAIN campaigns'[d] = DOMAIN campaigns[d]
  BY <1>1, <1>2, <1>3, <1>4, <1>5 DEF OffersStand, TermsStand, RevisionsStand, Booked
<1>8. \A d \in Reservations : Booked(d)' = Booked(d) /\ Open(d)' = Open(d)
  BY <1>1, <1>3, <1>4, <1>5 DEF Booked, Open
<1>9. TypeOK'
  <2>1. ReceiptsOK'
    BY <1>1, EmitsOnce DEF TypeOK, ReceiptsOK
  <2> QED
    BY <1>1, <1>6, <1>7, <2>1, RowReferences DEF TypeOK, ReceiptsOK
<1>10. StatusFollowsRows'
  BY <1>1, <1>8 DEF StatusFollowsRows
<1>11. OffersEnd'
  BY <1>1, <1>8, OffersStillEnd DEF Taken, LatestCampaign
<1>12. ScheduleFollowsReservation'
  BY <1>1, <1>7, ConfirmedStands, CasesStand DEF ScheduleFollowsReservation, TypeOK
<1>13. OfferTermsAreKept'
  BY <1>1, <1>7, TermsAreKept
<1>14. References'
  BY <1>1, <1>6, <1>7, RowsAreTyped, ReferencesStand
<1>15. Reconciled
  BY <1>1 DEF Reconciled, Revision
<1> QED
  BY <1>9, <1>10, <1>11, <1>12, <1>13, <1>14, <1>15

\* A booking of a revision and campaign there are breaks no reference.
LEMMA BookReferences ==
  ASSUME TypeOK, References, TermsStand, NEW c \in Reservations, NEW new, NEW booking,
         DOMAIN assignments'[c] = DOMAIN assignments[c] \cup {new},
         assignments'[c][new] = booking,
         \A d \in Reservations \ {c} : assignments'[d] = assignments[d],
         booking.revision \in DOMAIN revisions[c],
         booking.campaign \in 0..Len(campaigns[c]),
         \A d \in Reservations : Len(campaigns'[d]) = Len(campaigns[d]),
         \A d \in Reservations \ {c} : cleaning'[d] = cleaning[d],
         UNCHANGED <<reservation, revisions, reconciliations>>
  PROVE  References'
<1>1. revisions[c] # <<>>
  BY RowsAreTyped DEF Revision
<1>2. ASSUME NEW d \in Reservations
      PROVE  /\ cleaning'[d] # "ABSENT" => revisions[d] # <<>>
             /\ revisions[d] # <<>> => revisions[d][Revision(d)].version <= reservation[d].version
  BY <1>1 DEF References
<1>3. ASSUME NEW d \in Reservations, NEW n \in DOMAIN assignments'[d]
      PROVE  /\ assignments'[d][n].revision \in DOMAIN revisions[d]
             /\ assignments'[d][n].campaign \in 0..Len(campaigns'[d])
  <2>1. CASE d = c /\ n = new
    BY <2>1
  <2>2. CASE n \in DOMAIN assignments[d]
    BY <2>2 DEF References, TermsStand
  <2> QED
    BY <2>1, <2>2
<1>4. \A k \in reconciliations : k.assignment \in DOMAIN assignments'[k.cleaning]
  BY DEF References, TypeOK, ReconciliationRows, TermsStand
<1> QED
  BY <1>2, <1>3, <1>4 DEF References, Revision

LEMMA AcceptAssignmentStep ==
  ASSUME IInv, NEW c \in Reservations, NEW n \in DOMAIN campaigns[c], NEW b,
         AcceptAssignment(c, n, b)
  PROVE  IInv' /\ Reconciled
<1> DEFINE offer == campaigns[c][n]
           accepted == [[offer EXCEPT !.status = "CLOSED"] EXCEPT !.candidate = "ACCEPTED"]
           booking == Proposed(c, n)
           new == Len(assignments[c]) + 1
           k == Key("ACCEPT_ASSIGNMENT", c, n, b)
<1> USE DEF IInv
<1>1. /\ Fresh(k) /\ Emit(k)
      /\ Answerable(c, n)
      /\ Book(c, booking)
      /\ AcceptOffer(c, n)
      /\ SetCleaning(c, "ASSIGNED")
      /\ UNCHANGED <<reservation, revisions, cases, requests, reconciliations>>
  BY DEF AcceptAssignment, exceptionVars
<1>2. /\ campaigns[c] \in Seq(CampaignRows)
      /\ n \in 1..Len(campaigns[c])
      /\ offer \in CampaignRows
      /\ offer.candidate = "ELIGIBLE"
      /\ offer.status = "OPEN"
      /\ offer.revision \in DOMAIN revisions[c]
  BY <1>1, RowsAreTyped DEF Answerable, Open, TypeOK
<1>3. /\ accepted \in CampaignRows
      /\ accepted.revision = offer.revision
      /\ accepted.cleaner = offer.cleaner
      /\ accepted.status = "CLOSED"
      /\ accepted.candidate = "ACCEPTED"
  BY <1>2 DEF CampaignRows
<1>4. campaigns' = [campaigns EXCEPT ![c] = [campaigns[c] EXCEPT ![n] = accepted]]
  BY <1>1, <1>2 DEF AcceptOffer, TypeOK
<1>5. campaigns'[c] = [campaigns[c] EXCEPT ![n] = accepted]
  BY <1>4 DEF TypeOK
<1>6. /\ campaigns'[c] \in Seq(CampaignRows)
      /\ DOMAIN campaigns'[c] = DOMAIN campaigns[c]
      /\ Len(campaigns'[c]) = Len(campaigns[c])
      /\ \A j \in DOMAIN campaigns[c] :
            campaigns'[c][j] = IF j = n THEN accepted ELSE campaigns[c][j]
  BY <1>2, <1>3, <1>5, ExceptSeq, RowsAreTyped
<1>7. \A d \in Reservations \ {c} : campaigns'[d] = campaigns[d]
  BY <1>4 DEF TypeOK
<1>8. campaigns' \in [Reservations -> Seq(CampaignRows)]
  BY <1>4, <1>5, <1>6 DEF TypeOK
<1>9. /\ booking \in AssignmentRows
      /\ booking.status = "HARD_BOOKED"
      /\ booking.revision = offer.revision
      /\ booking.cleaner = offer.cleaner
      /\ booking.slot = revisions[c][offer.revision].checkOut
      /\ booking.campaign = n
  BY <1>2, RowsAreTyped DEF Proposed, AssignmentRows, CampaignRows, RevisionRows
<1>10. /\ assignments' \in [Reservations -> Seq(AssignmentRows)]
       /\ TermsStand
       /\ DOMAIN assignments'[c] = DOMAIN assignments[c] \cup {new}
       /\ assignments'[c][new] = booking
       /\ \A d \in Reservations \ {c} : assignments'[d] = assignments[d]
       /\ \A d \in Reservations : Booked(d)' = IF d = c THEN {new} ELSE Booked(d)
       /\ \A d \in Reservations \ {c} : LatestCampaign(d)' = LatestCampaign(d)
  BY <1>1, <1>9, BookAppends
<1>11. /\ cleaning' \in [Reservations -> {"ABSENT", "PLANNED", "OFFERING", "ASSIGNED",
                                          "COMPLETED", "CANCELLED"}]
       /\ cleaning'[c] = "ASSIGNED"
       /\ \A d \in Reservations \ {c} : cleaning'[d] = cleaning[d]
  BY <1>1, SetsCleaning
<1>12. TypeOK'
  <2>1. ASSUME NEW d \in Reservations
        PROVE  /\ \A j \in DOMAIN campaigns'[d] : campaigns'[d][j].revision \in DOMAIN revisions[d]
               /\ \A q \in DOMAIN requests[d] : requests[d][q].assignment \in DOMAIN assignments'[d]
    <3>1. \A j \in DOMAIN campaigns'[d] :
             j \in DOMAIN campaigns[d] /\ campaigns'[d][j].revision = campaigns[d][j].revision
      BY <1>3, <1>6, <1>7
    <3>2. DOMAIN assignments[d] \subseteq DOMAIN assignments'[d]
      BY <1>10
    <3> QED
      BY <3>1, <3>2 DEF TypeOK
  <2>2. ASSUME NEW case \in cases
        PROVE  case[2] \in DOMAIN assignments'[case[1]]
    BY <1>10 DEF TypeOK
  <2>3. ReceiptsOK'
    BY <1>1, EmitsOnce DEF TypeOK, ReceiptsOK
  <2> QED
    BY <1>1, <1>8, <1>10, <1>11, <2>1, <2>2, <2>3 DEF TypeOK, ReceiptsOK
<1>13. StatusFollowsRows'
  <2>1. Booked(c)' # {} /\ \A i, j \in Booked(c)' : i = j
    BY <1>10
  <2>2. \A d \in Reservations \ {c} : Booked(d)' = Booked(d) /\ Open(d)' = Open(d)
    BY <1>7, <1>10 DEF Open
  <2> QED
    BY <1>11, <2>1, <2>2 DEF StatusFollowsRows
<1>14. OffersEnd'
  <2>1. n \in Open(c) /\ \A j \in Open(c) : j = n
    BY <1>1 DEF Answerable, OffersEnd, OfferIsAlone
  <2>2. Open(c)' = {}
    <3>1. ASSUME NEW j \in DOMAIN campaigns'[c]
          PROVE  campaigns'[c][j].status # "OPEN"
      BY <1>3, <1>6, <2>1 DEF Open
    <3> QED
      BY <3>1 DEF Open
  <2>3. \A d \in Reservations \ {c} : Open(d)' = Open(d) /\ (Taken(d)' <=> Taken(d))
    BY <1>7, <1>11 DEF Open, Taken
  <2> QED
    BY <1>10, <2>2, <2>3, OffersStillEnd
<1>15. ScheduleFollowsReservation'
  <2>1. cleaning[c] # "CANCELLED"
    BY <1>1 DEF Answerable, StatusFollowsRows
  <2>2. ConfirmedMeansScheduled'
    BY <1>1, <1>11, ConfirmedStands DEF ScheduleFollowsReservation
  <2>3. CaseFollowsSchedule'
    BY <1>1, <1>10, CasesStand DEF ScheduleFollowsReservation, TypeOK
  <2> QED
    BY <2>2, <2>3 DEF ScheduleFollowsReservation
<1>16. OfferTermsAreKept'
  <2>1. ASSUME NEW d \in Reservations, d # c
        PROVE  TermsKept(d)'
    <3>1. campaigns'[d] = campaigns[d] /\ assignments'[d] = assignments[d]
          /\ revisions'[d] = revisions[d]
      BY <1>1, <1>7, <1>10, <2>1
    <3>2. TermsKept(d)
      BY DEF OfferTermsAreKept
    <3> QED
      BY <3>1, <3>2, SameTerms
  <2>2. \A j \in DOMAIN assignments[c] : assignments[c][j].campaign # n
    <3>1. ASSUME NEW j \in DOMAIN assignments[c], assignments[c][j].campaign = n, n # 0
          PROVE  OnTerms(c, j)
      BY <3>1 DEF OfferTermsAreKept, TermsKept
    <3>2. ASSUME NEW j \in DOMAIN assignments[c], assignments[c][j].campaign = n, n # 0
          PROVE  campaigns[c][n].candidate = "ACCEPTED" /\ campaigns[c][n].status = "CLOSED"
      BY <3>1, <3>2 DEF OnTerms
    <3> QED
      BY <1>2, <3>2
  <2>3. ASSUME NEW j \in DOMAIN campaigns'[c], campaigns'[c][j].candidate = "ACCEPTED"
        PROVE  \E i \in DOMAIN assignments'[c] : assignments'[c][i].campaign = j
    <3>1. CASE j = n
      BY <1>9, <1>10, <3>1
    <3>2. CASE j # n
      <4>1. j \in DOMAIN campaigns[c] /\ campaigns[c][j].candidate = "ACCEPTED"
        BY <1>6, <2>3, <3>2
      <4>2. PICK i \in DOMAIN assignments[c] : assignments[c][i].campaign = j
        BY <4>1 DEF OfferTermsAreKept, TermsKept
      <4>3. i \in DOMAIN assignments'[c] /\ assignments'[c][i].campaign = j
        BY <1>10, <4>2 DEF TermsStand
      <4> QED
        BY <4>3
    <3> QED
      BY <3>1, <3>2
  <2>4. ASSUME NEW i \in DOMAIN assignments'[c], assignments'[c][i].campaign # 0
        PROVE  LET taken == campaigns'[c][assignments'[c][i].campaign]
               IN  /\ taken.candidate = "ACCEPTED" /\ taken.status = "CLOSED"
                   /\ taken.cleaner = assignments'[c][i].cleaner
                   /\ taken.revision = assignments'[c][i].revision
                   /\ assignments'[c][i].slot = revisions[c][taken.revision].checkOut
                   /\ \A j \in DOMAIN assignments'[c] :
                        assignments'[c][j].campaign = assignments'[c][i].campaign => j = i
    <3>1. CASE i = new
      <4>1. campaigns'[c][n] = accepted
        BY <1>2, <1>6
      <4>2. \A j \in DOMAIN assignments[c] : assignments'[c][j].campaign # n
        BY <1>10, <2>2 DEF TermsStand
      <4> QED
        BY <1>3, <1>9, <1>10, <3>1, <4>1, <4>2
    <3>2. CASE i # new
      <4> DEFINE x == assignments[c][i].campaign
      <4>1. /\ i \in DOMAIN assignments[c]
            /\ assignments'[c][i].campaign = x
            /\ assignments'[c][i].cleaner = assignments[c][i].cleaner
            /\ assignments'[c][i].revision = assignments[c][i].revision
            /\ assignments'[c][i].slot = assignments[c][i].slot
        BY <1>10, <3>2 DEF TermsStand
      <4>2. x # 0 /\ x # n /\ x \in DOMAIN campaigns[c]
        BY <2>2, <2>4, <4>1, RowsAreTyped DEF References
      <4>3. campaigns'[c][x] = campaigns[c][x]
        BY <1>6, <4>2
      <4>4. /\ campaigns[c][x].candidate = "ACCEPTED"
            /\ campaigns[c][x].status = "CLOSED"
            /\ campaigns[c][x].cleaner = assignments[c][i].cleaner
            /\ campaigns[c][x].revision = assignments[c][i].revision
            /\ assignments[c][i].slot = revisions[c][campaigns[c][x].revision].checkOut
            /\ \A j \in DOMAIN assignments[c] : assignments[c][j].campaign = x => j = i
        BY <4>1, <4>2, ZenonT(30) DEF OfferTermsAreKept, TermsKept, OnTerms
      <4>5. \A j \in DOMAIN assignments'[c] : assignments'[c][j].campaign = x => j = i
        BY <1>9, <1>10, <4>2, <4>4 DEF TermsStand
      <4> QED
        BY <4>1, <4>3, <4>4, <4>5
    <3> QED
      BY <3>1, <3>2
  <2>5. TermsKept(c)'
    BY <1>1, <2>3, <2>4 DEF TermsKept, OnTerms
  <2> QED
    BY <2>1, <2>5 DEF OfferTermsAreKept
<1>17. References'
  <2>1. Len(campaigns'[c]) = Len(campaigns[c]) /\ \A d \in Reservations \ {c} : campaigns'[d] = campaigns[d]
    BY <1>6, <1>7
  <2>2. booking.revision \in DOMAIN revisions[c] /\ booking.campaign \in 0..Len(campaigns[c])
    BY <1>2, <1>9, RowsAreTyped
  <2> QED
    BY <1>1, <1>2, <1>9, <1>10, <1>11, <2>1, <2>2, BookReferences, ZenonT(30)
<1>18. Reconciled
  BY <1>1 DEF Reconciled, Revision
<1> QED
  BY <1>12, <1>13, <1>14, <1>15, <1>16, <1>17, <1>18

-----------------------------------------------------------------------------
(* Unavailability, reassignment and completion.                            *)

\* A booking that ends takes its cleaning out of ASSIGNED and disturbs nothing else.
LEMMA EndStep ==
  ASSUME IInv, NEW c \in Reservations, NEW n \in Booked(c),
         NEW status \in {"RELEASED", "COMPLETED"}, End(c, n, status),
         NEW left \in {"OFFERING", "COMPLETED"}, SetCleaning(c, left),
         cases' = cases \/ cases' = cases \cup {<<c, n>>},
         UNCHANGED <<reservation, revisions, campaigns, requests, reconciliations>>,
         NEW k, Fresh(k), Emit(k)
  PROVE  IInv' /\ Reconciled
<1> USE DEF IInv
<1>1. /\ assignments' \in [Reservations -> Seq(AssignmentRows)]
      /\ TermsStand
      /\ \A d \in Reservations : DOMAIN assignments'[d] = DOMAIN assignments[d]
      /\ \A d \in Reservations : Booked(d)' = IF d = c THEN Booked(c) \ {n} ELSE Booked(d)
      /\ \A d \in Reservations : LatestCampaign(d)' = LatestCampaign(d)
  BY EndReleases
<1>2. Booked(c)' = {} /\ n \in DOMAIN assignments[c] /\ cleaning[c] = "ASSIGNED"
  BY <1>1 DEF StatusFollowsRows, Booked
<1>3. /\ cleaning' \in [Reservations -> {"ABSENT", "PLANNED", "OFFERING", "ASSIGNED",
                                         "COMPLETED", "CANCELLED"}]
      /\ cleaning'[c] = left
      /\ \A d \in Reservations \ {c} : cleaning'[d] = cleaning[d]
  BY SetsCleaning
<1>4. OffersStand /\ RevisionsStand /\ \A d \in Reservations : Open(d)' = Open(d)
  BY DEF OffersStand, RevisionsStand, Open
<1>5. TypeOK'
  <2>1. /\ cases' \subseteq Reservations \X Nat
        /\ \A case \in cases' : case[2] \in DOMAIN assignments'[case[1]]
    <3>1. n \in Nat
      BY <1>2, RowsAreTyped
    <3>2. cases \subseteq Reservations \X Nat /\ cases' \subseteq Reservations \X Nat
      BY <3>1 DEF TypeOK
    <3>3. \A case \in cases : case[2] \in DOMAIN assignments'[case[1]]
      BY <1>1, <3>2 DEF TypeOK
    <3>4. n \in DOMAIN assignments'[c]
      BY <1>1, <1>2
    <3> QED
      BY <3>2, <3>3, <3>4
  <2>2. ReceiptsOK'
    BY EmitsOnce DEF TypeOK, ReceiptsOK
  <2>3. \A d \in Reservations :
          /\ \A j \in DOMAIN campaigns[d] : campaigns[d][j].revision \in DOMAIN revisions[d]
          /\ \A q \in DOMAIN requests[d] : requests[d][q].assignment \in DOMAIN assignments'[d]
    BY <1>1 DEF TypeOK
  <2> QED
    BY <1>1, <1>3, <2>1, <2>2, <2>3 DEF TypeOK, ReceiptsOK
<1>6. StatusFollowsRows'
  BY <1>1, <1>2, <1>3, <1>4 DEF StatusFollowsRows
<1>7. OffersEnd'
  <2>1. \A d \in Reservations : Taken(d)' => Taken(d)
    BY <1>2, <1>3 DEF Taken
  <2> QED
    BY <1>1, <1>4, <2>1, OffersStillEnd
<1>8. ScheduleFollowsReservation'
  BY <1>1, <1>3, ConfirmedStands, CasesStand DEF ScheduleFollowsReservation, TypeOK
<1>9. OfferTermsAreKept'
  BY <1>1, <1>4, TermsAreKept
<1>10. References'
  <2>1. \A d \in Reservations : cleaning'[d] # "ABSENT" => cleaning[d] # "ABSENT"
    BY <1>2, <1>3
  <2>2. campaigns' \in [Reservations -> Seq(CampaignRows)]
    BY DEF TypeOK
  <2>3. \A d \in Reservations :
          reservation[d].version <= reservation'[d].version /\ reservation'[d].version \in Nat
    BY RowsAreTyped
  <2> QED
    BY <1>1, <1>4, <2>1, <2>2, <2>3, ReferencesStand
<1>11. Reconciled
  BY DEF Reconciled, Revision
<1> QED
  BY <1>5, <1>6, <1>7, <1>8, <1>9, <1>10, <1>11

LEMMA MarkUnavailableStep ==
  ASSUME IInv, NEW c \in Reservations, NEW n \in DOMAIN assignments[c], NEW b,
         MarkUnavailable(c, n, b)
  PROVE  IInv' /\ Reconciled
<1> DEFINE k == Key("MARK_UNAVAILABLE", c, n, b)
<1>1. CASE NothingToDo(k)
  BY <1>1, NothingToDoStep
<1>2. CASE ~NothingToDo(k)
  <2>1. /\ Fresh(k) /\ Emit(k)
        /\ n \in Booked(c)
        /\ End(c, n, "RELEASED")
        /\ cases' = cases \cup {<<c, n>>}
        /\ SetCleaning(c, "OFFERING")
        /\ UNCHANGED <<reservation, revisions, campaigns, requests, reconciliations>>
    BY <1>2 DEF MarkUnavailable, OpenCase
  <2> QED
    BY <2>1, EndStep
<1> QED
  BY <1>1, <1>2

LEMMA CompleteCleaningStep ==
  ASSUME IInv, NEW c \in Reservations, NEW n \in DOMAIN assignments[c], NEW b,
         CompleteCleaning(c, n, b)
  PROVE  IInv' /\ Reconciled
<1> DEFINE k == Key("COMPLETE_CLEANING", c, n, b)
<1>1. CASE NothingToDo(k)
  BY <1>1, NothingToDoStep
<1>2. CASE ~NothingToDo(k)
  <2>1. /\ Fresh(k) /\ Emit(k)
        /\ n \in Booked(c)
        /\ End(c, n, "COMPLETED")
        /\ SetCleaning(c, "COMPLETED")
        /\ UNCHANGED <<reservation, revisions, campaigns, cases, requests, reconciliations>>
    BY <1>2 DEF CompleteCleaning, exceptionVars
  <2> QED
    BY <2>1, EndStep
<1> QED
  BY <1>1, <1>2

\* A request or a decision on one disturbs nothing but the requests.
LEMMA RequestStep ==
  ASSUME IInv, NEW k, Fresh(k), Emit(k),
         requests' \in [Reservations -> Seq(RequestRows)],
         \A c \in Reservations : \A q \in DOMAIN requests'[c] :
             requests'[c][q].assignment \in DOMAIN assignments[c],
         UNCHANGED <<reservation, cleaning, revisions, campaigns, assignments, cases,
                     reconciliations>>
  PROVE  IInv' /\ Reconciled
<1> USE DEF IInv
<1>1. OffersStand /\ TermsStand /\ RevisionsStand
  BY DEF OffersStand, TermsStand, RevisionsStand, Booked
<1>2. \A c \in Reservations : Booked(c)' = Booked(c) /\ Open(c)' = Open(c)
  BY DEF Booked, Open
<1>3. TypeOK'
  <2>1. ReceiptsOK'
    BY EmitsOnce DEF TypeOK, ReceiptsOK
  <2> QED
    BY <2>1 DEF TypeOK, ReceiptsOK
<1>4. StatusFollowsRows'
  BY <1>2 DEF StatusFollowsRows
<1>5. OffersEnd'
  BY <1>2, OffersStillEnd DEF Taken, LatestCampaign
<1>6. ScheduleFollowsReservation'
  BY <1>1, ConfirmedStands, CasesStand DEF ScheduleFollowsReservation, TypeOK
<1>7. OfferTermsAreKept'
  BY <1>1, TermsAreKept
<1>8. References'
  BY DEF References, Revision
<1>9. Reconciled
  BY DEF Reconciled, Revision
<1> QED
  BY <1>3, <1>4, <1>5, <1>6, <1>7, <1>8, <1>9

LEMMA RequestReassignmentStep ==
  ASSUME IInv, NEW c \in Reservations, NEW n \in DOMAIN assignments[c], NEW b,
         RequestReassignment(c, n, b)
  PROVE  IInv' /\ Reconciled
<1> DEFINE k == Key("REQUEST_REASSIGNMENT", c, n, b)
           request == [assignment |-> n, status |-> "REQUESTED"]
<1>1. CASE NothingToDo(k)
  BY <1>1, NothingToDoStep
<1>2. CASE ~NothingToDo(k)
  <2>1. /\ Fresh(k) /\ Emit(k)
        /\ requests' = [requests EXCEPT ![c] = Append(@, request)]
        /\ UNCHANGED <<reservation, cleaning, revisions, campaigns, assignments, cases,
                       reconciliations>>
    BY <1>2 DEF RequestReassignment, InsertRequest, offerVars
  <2>2. request \in RequestRows /\ requests[c] \in Seq(RequestRows) /\ TypeOK
    <3>1. TypeOK
      BY DEF IInv
    <3>2. n \in Nat
      BY <3>1, RowsAreTyped
    <3> QED
      BY <3>1, <3>2 DEF TypeOK, RequestRows
  <2>3. requests'[c] = Append(requests[c], request)
    BY <2>1, <2>2 DEF TypeOK
  <2>4. /\ requests'[c] \in Seq(RequestRows)
        /\ \A q \in DOMAIN requests'[c] :
              \/ q \in DOMAIN requests[c] /\ requests'[c][q] = requests[c][q]
              \/ requests'[c][q] = request
    BY <2>2, <2>3, AppendProperties, RowsAreTyped
  <2>5. requests' \in [Reservations -> Seq(RequestRows)]
    BY <2>1, <2>2, <2>3, <2>4 DEF TypeOK
  <2>6. ASSUME NEW d \in Reservations, NEW q \in DOMAIN requests'[d]
        PROVE  requests'[d][q].assignment \in DOMAIN assignments[d]
    <3>1. CASE d = c /\ requests'[c][q] = request
      BY <3>1
    <3>2. CASE q \in DOMAIN requests[d] /\ requests'[d][q] = requests[d][q]
      BY <2>2, <3>2 DEF TypeOK
    <3> QED
      BY <2>1, <2>2, <2>4, <3>1, <3>2 DEF TypeOK
  <2> QED
    BY <2>1, <2>5, <2>6, RequestStep
<1> QED
  BY <1>1, <1>2

\* A decision keeps the request's booking.
LEMMA DecideKeeps ==
  ASSUME TypeOK, NEW c \in Reservations, NEW q \in DOMAIN requests[c],
         NEW decision \in {"REASSIGNED_ORIGINAL", "CONTINUE_REPLACEMENT"},
         Decide(c, q, decision)
  PROVE  /\ requests' \in [Reservations -> Seq(RequestRows)]
         /\ \A d \in Reservations : \A j \in DOMAIN requests'[d] :
               requests'[d][j].assignment \in DOMAIN assignments[d]
<1> DEFINE decided == [requests[c][q] EXCEPT !.status = decision]
<1>1. /\ requests[c] \in Seq(RequestRows)
      /\ q \in 1..Len(requests[c])
      /\ requests[c][q] \in RequestRows
  BY RowsAreTyped DEF TypeOK
<1>2. decided \in RequestRows /\ decided.assignment = requests[c][q].assignment
  BY <1>1 DEF RequestRows
<1>3. requests' = [requests EXCEPT ![c] = [requests[c] EXCEPT ![q] = decided]]
  BY DEF Decide
<1>4. requests'[c] = [requests[c] EXCEPT ![q] = decided]
  BY <1>3 DEF TypeOK
<1>5. /\ requests'[c] \in Seq(RequestRows)
      /\ DOMAIN requests'[c] = DOMAIN requests[c]
      /\ \A j \in DOMAIN requests[c] :
            requests'[c][j] = IF j = q THEN decided ELSE requests[c][j]
  BY <1>1, <1>2, <1>4, ExceptSeq, RowsAreTyped
<1>6. \A d \in Reservations \ {c} : requests'[d] = requests[d]
  BY <1>3 DEF TypeOK
<1>7. requests' \in [Reservations -> Seq(RequestRows)]
  BY <1>3, <1>4, <1>5 DEF TypeOK
<1>8. \A j \in DOMAIN requests'[c] : requests'[c][j].assignment = requests[c][j].assignment
  BY <1>2, <1>5
<1> QED
  BY <1>5, <1>6, <1>7, <1>8, ZenonT(30) DEF TypeOK

LEMMA ContinueReplacementStep ==
  ASSUME IInv, NEW c \in Reservations, NEW q \in DOMAIN requests[c], NEW b,
         ContinueReplacement(c, q, b)
  PROVE  IInv' /\ Reconciled
<1> DEFINE k == Key("CONTINUE_REPLACEMENT", c, q, b)
<1>1. CASE NothingToDo(k)
  BY <1>1, NothingToDoStep
<1>2. CASE ~NothingToDo(k)
  <2>1. /\ Fresh(k) /\ Emit(k)
        /\ Decide(c, q, "CONTINUE_REPLACEMENT")
        /\ UNCHANGED <<reservation, cleaning, revisions, campaigns, assignments, cases,
                       reconciliations>>
    BY <1>2 DEF ContinueReplacement, offerVars
  <2> QED
    BY <2>1, DecideKeeps, RequestStep DEF IInv
<1> QED
  BY <1>1, <1>2

\* Taking the original booking back is a new booking of its revision and slot, of no offer.
LEMMA ReassignOriginalStep ==
  ASSUME IInv, NEW c \in Reservations, NEW q \in DOMAIN requests[c], NEW b,
         ReassignOriginal(c, q, b)
  PROVE  IInv' /\ Reconciled
<1> DEFINE k == Key("REASSIGN_ORIGINAL", c, q, b)
           original == assignments[c][requests[c][q].assignment]
           booking == Restored(original)
           new == Len(assignments[c]) + 1
<1> USE DEF IInv
<1>1. CASE NothingToDo(k)
  BY <1>1, NothingToDoStep
<1>2. CASE ~NothingToDo(k)
  <2>1. /\ Fresh(k) /\ Emit(k)
        /\ Book(c, booking)
        /\ Decide(c, q, "REASSIGNED_ORIGINAL")
        /\ SetCleaning(c, "ASSIGNED")
        /\ UNCHANGED <<reservation, revisions, campaigns, cases, reconciliations>>
    BY <1>2 DEF ReassignOriginal
  <2>2. /\ original \in AssignmentRows
        /\ original.revision \in DOMAIN revisions[c]
    <3>1. requests[c][q].assignment \in DOMAIN assignments[c]
      BY DEF TypeOK
    <3> QED
      BY <3>1, RowsAreTyped DEF References
  <2>3. /\ booking \in AssignmentRows
        /\ booking.status = "HARD_BOOKED"
        /\ booking.campaign = 0
        /\ booking.revision = original.revision
    BY <2>2 DEF Restored, AssignmentRows
  <2>4. /\ assignments' \in [Reservations -> Seq(AssignmentRows)]
        /\ TermsStand
        /\ DOMAIN assignments'[c] = DOMAIN assignments[c] \cup {new}
        /\ assignments'[c][new] = booking
        /\ \A d \in Reservations \ {c} : assignments'[d] = assignments[d]
        /\ \A d \in Reservations : Booked(d)' = IF d = c THEN {new} ELSE Booked(d)
        /\ LatestCampaign(c)' = 0
        /\ \A d \in Reservations \ {c} : LatestCampaign(d)' = LatestCampaign(d)
    BY <2>1, <2>3, BookAppends
  <2>5. /\ requests' \in [Reservations -> Seq(RequestRows)]
        /\ \A d \in Reservations : \A j \in DOMAIN requests'[d] :
              requests'[d][j].assignment \in DOMAIN assignments[d]
    BY <2>1, DecideKeeps
  <2>6. /\ cleaning' \in [Reservations -> {"ABSENT", "PLANNED", "OFFERING", "ASSIGNED",
                                           "COMPLETED", "CANCELLED"}]
        /\ cleaning'[c] = "ASSIGNED"
        /\ \A d \in Reservations \ {c} : cleaning'[d] = cleaning[d]
    BY <2>1, SetsCleaning
  <2>7. OffersStand /\ RevisionsStand /\ \A d \in Reservations : Open(d)' = Open(d)
    BY <2>1 DEF OffersStand, RevisionsStand, Open
  <2>8. TypeOK'
    <3>1. \A d \in Reservations : DOMAIN assignments[d] \subseteq DOMAIN assignments'[d]
      BY <2>4
    <3>2. \A case \in cases : case[2] \in DOMAIN assignments'[case[1]]
      BY <3>1 DEF TypeOK
    <3>3. \A d \in Reservations :
            /\ \A j \in DOMAIN campaigns[d] : campaigns[d][j].revision \in DOMAIN revisions[d]
            /\ \A j \in DOMAIN requests'[d] : requests'[d][j].assignment \in DOMAIN assignments'[d]
      BY <2>5, <3>1 DEF TypeOK
    <3>4. ReceiptsOK'
      BY <2>1, EmitsOnce DEF TypeOK, ReceiptsOK
    <3> QED
      BY <2>1, <2>4, <2>5, <2>6, <3>2, <3>3, <3>4 DEF TypeOK, ReceiptsOK
  <2>9. StatusFollowsRows'
    <3>1. Booked(c)' # {} /\ \A i, j \in Booked(c)' : i = j
      BY <2>4
    <3> QED
      BY <2>4, <2>6, <2>7, <3>1 DEF StatusFollowsRows
  <2>10. OffersEnd'
    <3>1. \A d \in Reservations \ {c} : Taken(d)' => Taken(d)
      BY <2>6 DEF Taken
    <3> QED
      BY <2>4, <2>7, <3>1, OffersStillEnd
  <2>11. ScheduleFollowsReservation'
    <3>1. ConfirmedMeansScheduled'
      BY <2>1, <2>6, ConfirmedStands DEF ScheduleFollowsReservation
    <3>2. CaseFollowsSchedule'
      BY <2>1, <2>4, CasesStand DEF ScheduleFollowsReservation, TypeOK
    <3> QED
      BY <3>1, <3>2 DEF ScheduleFollowsReservation
  <2>12. OfferTermsAreKept'
    <3>1. \A d \in Reservations : \A n \in DOMAIN assignments'[d] \ DOMAIN assignments[d] :
            assignments'[d][n].campaign = 0
      BY <2>3, <2>4
    <3> QED
      BY <2>4, <2>7, <3>1, TermsAreKept
  <2>13. References'
    <3>1. booking.revision \in DOMAIN revisions[c] /\ booking.campaign \in 0..Len(campaigns[c])
      BY <2>2, <2>3, RowsAreTyped
    <3> QED
      BY <2>1, <2>4, <2>6, <3>1, BookReferences
  <2>14. Reconciled
    BY <2>1 DEF Reconciled, Revision
  <2> QED
    BY <2>8, <2>9, <2>10, <2>11, <2>12, <2>13, <2>14
<1> QED
  BY <1>1, <1>2

-----------------------------------------------------------------------------
(* The theorems.                                                           *)

LEMMA InitIInv == Init => IInv
<1> SUFFICES ASSUME Init
             PROVE  IInv
  OBVIOUS
<1>1. \A c \in Reservations : /\ cleaning[c] = "ABSENT"
                             /\ reservation[c].status = "ABSENT"
                             /\ reservation[c].version = 0
                             /\ revisions[c] = <<>>
                             /\ campaigns[c] = <<>>
                             /\ assignments[c] = <<>>
                             /\ requests[c] = <<>>
  BY DEF Init
<1>2. \A c \in Reservations :
        /\ DOMAIN campaigns[c] = {} /\ DOMAIN assignments[c] = {}
        /\ Booked(c) = {} /\ Open(c) = {}
  <2> SUFFICES ASSUME NEW c \in Reservations
               PROVE  /\ DOMAIN campaigns[c] = {} /\ DOMAIN assignments[c] = {}
                      /\ Booked(c) = {} /\ Open(c) = {}
    OBVIOUS
  <2>1. DOMAIN campaigns[c] = {} /\ DOMAIN assignments[c] = {}
    BY <1>1
  <2> QED
    BY <2>1 DEF Booked, Open
<1>3. TypeOK
  <2>1. DOMAIN events = {}
    BY DEF Init
  <2> QED
    BY <1>1, <2>1 DEF Init, TypeOK
<1>4. StatusFollowsRows /\ OffersEnd
  BY <1>1, <1>2 DEF StatusFollowsRows, OffersEnd, OffersEndWithBookings, OfferIsAlone
<1>5. ScheduleFollowsReservation
  BY <1>1 DEF Init, ScheduleFollowsReservation, ConfirmedMeansScheduled, CaseFollowsSchedule
<1>6. OfferTermsAreKept
  BY <1>2 DEF OfferTermsAreKept, TermsKept, OnTerms
<1>7. References
  BY <1>1 DEF Init, References
<1> QED
  BY <1>3, <1>4, <1>5, <1>6, <1>7 DEF IInv

\* Every step keeps the invariant and reconciles the schedule it moves.
LEMMA NextIInv == IInv /\ [Next]_vars => IInv' /\ [Reconciled]_vars
<1> SUFFICES ASSUME IInv, [Next]_vars
             PROVE  IInv' /\ [Reconciled]_vars
  OBVIOUS
<1>1. CASE UNCHANGED vars
  <2> USE DEF IInv
  <2>1. TypeOK'
    BY <1>1 DEF vars, TypeOK
  <2>2. \A c : Booked(c)' = Booked(c) /\ Open(c)' = Open(c) /\ Revision(c)' = Revision(c)
    BY <1>1 DEF vars, Booked, Open, Revision
  <2>3. StatusFollowsRows' /\ OffersEnd'
    <3>1. \A c : LatestCampaign(c)' = LatestCampaign(c)
      BY <1>1 DEF vars, LatestCampaign
    <3> QED
      BY <1>1, <2>2, <3>1
      DEF vars, StatusFollowsRows, OffersEnd, OffersEndWithBookings, OfferIsAlone
  <2>4. ScheduleFollowsReservation'
    BY <1>1, <2>2 DEF vars, ScheduleFollowsReservation, ConfirmedMeansScheduled, CaseFollowsSchedule
  <2>5. \A c : TermsKept(c)' <=> TermsKept(c)
    BY <1>1 DEF vars, TermsKept, OnTerms
  <2>6. References'
    BY <1>1 DEF vars, References, Revision
  <2> QED
    BY <1>1, <2>1, <2>3, <2>4, <2>5, <2>6 DEF OfferTermsAreKept
<1>2. CASE Ingest
  BY <1>2, IngestConfirmedStep, IngestCancelledStep DEF Ingest
<1>3. ASSUME NEW c \in Reservations, NEW b \in Buttons, Press(c, b)
      PROVE  IInv' /\ Reconciled
  BY <1>3, OpenAssignmentOfferStep, AcceptAssignmentStep, DeclineAssignmentStep,
     MarkUnavailableStep, RequestReassignmentStep, CompleteCleaningStep, ReassignOriginalStep,
     ContinueReplacementStep DEF Press
<1> QED
  BY <1>1, <1>2, <1>3 DEF Next

\* The inductive invariant.
THEOREM Invariant == Spec => []IInv
<1>1. IInv /\ [Next]_vars => IInv'
  BY NextIInv
<1> QED
  BY <1>1, InitIInv, PTL DEF Spec

\* Rows have their shapes, every reference a command follows exists, and a key has at most
\* one event, for any reservations, cleaners, mails, buttons and number of bookings.
THEOREM TypeCorrect == Spec => []TypeOK
<1>1. IInv => TypeOK
  BY DEF IInv
<1> QED
  BY <1>1, Invariant, PTL

\* A cleaning is ASSIGNED exactly while one hard booking holds it, and has nothing on offer
\* once it is CANCELLED.
THEOREM StatusIsTrue == Spec => []StatusFollowsRows
<1>1. IInv => StatusFollowsRows
  BY DEF IInv
<1> QED
  BY <1>1, Invariant, PTL

\* A taken or completed cleaning is still on offer only when its latest booking is an
\* original that was restored: accepting an offer leaves none open, however offers,
\* releases, restored bookings and completions interleave.
THEOREM AcceptingEndsTheOffers == Spec => []OffersEndWithBookings
<1>1. IInv => OffersEndWithBookings
  BY DEF IInv, OffersEnd
<1> QED
  BY <1>1, Invariant, PTL

\* A confirmed reservation's cleaning is at its check-out, and the pending case of a
\* standing booking leads there.
THEOREM ScheduleIsKept == Spec => []ScheduleFollowsReservation
<1>1. IInv => ScheduleFollowsReservation
  BY DEF IInv
<1> QED
  BY <1>1, Invariant, PTL

\* Accepted offers and the bookings made from offers belong together, on the offers' terms.
THEOREM TermsAreHonoured == Spec => []OfferTermsAreKept
<1>1. IInv => OfferTermsAreKept
  BY DEF IInv
<1> QED
  BY <1>1, Invariant, PTL

\* A schedule never moves under a hard booking without a pending case for it.
THEOREM MovesAreReconciled == Spec => ScheduleChangeIsReconciled
<1>1. IInv /\ [Next]_vars => [Reconciled]_vars
  BY NextIInv
<1> QED
  BY <1>1, Invariant, PTL DEF Spec, ScheduleChangeIsReconciled, Reconciled
=============================================================================
