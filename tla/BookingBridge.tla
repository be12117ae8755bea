----------------------------- MODULE BookingBridge -----------------------------
(***************************************************************************)
(* How one Airbnb reservation's mails become pages, a calendar event and    *)
(* questions to people, and how its cancellation undoes them: the route     *)
(* that is taken while Notion has the authority.                           *)
(*                                                                         *)
(*   gmail_ingest/poll_once.py, airbnb_parser.py   the mails               *)
(*   gmail_ingest/booking_bridge.py                the queue and the bridge *)
(*   telegram_approval/lifecycle_requests.py       notices, the approval   *)
(*   send_door_code_prompt.py                      the door code question  *)
(*   gmail_ingest/lifecycle_actions.py             the approved cancellation *)
(*   gmail_ingest/cleaning_reconcile.py            the read-only report    *)
(*                                                                         *)
(* Three processes: Poller (W01) polls and then runs the bridge over its    *)
(* queue, OpsBot (W02) executes the approved cancellation, and Desk (W01)   *)
(* is an operator who reconciles a booking cancelled before it was taken in. *)
(* A step ends at one durable write or request; in between a process may    *)
(* die or lose the writer lease.  Some local files are written without      *)
(* asking the lease server first.  A request that raises was applied or was *)
(* not.                                                                    *)
(***************************************************************************)
EXTENDS GlobalWriter, Sequences, FiniteSets

CONSTANTS
    Poller, OpsBot, Desk,  \* the three writers
    Story,                 \* the reservation's mails in the order Airbnb sends them
    ByHash,                \* the same in the order of their queue files' names
    MaxTroubles            \* bound: requests that raise, deaths and lapses together

Mails == {"confirmed", "requested", "updated", "cancelled"}
Told == {"offer", "door", "review", "applied", "approval", "cleaner", "code"}

ASSUME BookingAssumption ==
    /\ Writers = {Poller, OpsBot, Desk}
    /\ Cardinality(Writers) = 3
    /\ Story \in Seq(Mails) /\ ByHash \in Seq(Mails)
    /\ \A m \in {Story[i] : i \in DOMAIN Story} \ {"requested"} : \E i \in DOMAIN ByHash : ByHash[i] = m
    /\ MaxTroubles \in Nat

VARIABLES
    inbox,         \* how many mails of the story have arrived
    seen,          \* processed_message_hashes
    polled,        \* the mails the poll has recorded and not saved as processed
    queue,         \* a mail's item in the reconcile queue
    change,        \* the pending change's file
    notices,       \* the two change notices' files
    offered,       \* cleanings with an assignment request file
    door,          \* the door code request's file
    request,       \* the cancellation approval's file
    reservations,  \* the pages with the reservation's code
    cleanings,     \* the cleaning pages
    events,        \* the cleaning calendar
    finance,       \* adjustment rows for the cancellation
    stored,        \* whether the reservation page has the door code
    told,          \* how often people were sent each message
    pc,            \* where a process is
    at,            \* the poller's place in its walk along the queue
    plan,          \* the items the operator is about to rewrite
    reopened,      \* history: an answered approval was put back to PENDING
    troubles

mail == <<inbox, seen, polled>>
files == <<queue, change, notices, offered, door, request>>
services == <<reservations, cleanings, events, finance, stored, told>>
local == <<pc, at, plan>>
history == <<reopened, troubles>>
vars == <<writerVars, mail, files, services, local, history>>

Statuses == {"none", "PENDING_NOTION_READ", "RETRY_REQUIRED", "RECONCILIATION_REQUIRED",
             "REVIEW_REQUIRED", "CANCELLED_PRE_INGEST", "AWAITING_CANCELLATION_APPROVAL",
             "COMPLETE"}
Positions == {"idle", "walk", "uncertain",
              "reserve", "clean", "book", "bind", "offer", "offering", "prompt", "prompting", "prompted",
              "update", "mark", "noteReview", "noteApplied", "tellReview", "tellApplied",
              "sentReview", "sentApplied", "cancel", "asking", "asked",
              "complete", "reviewed", "awaiting",
              "cancelPage", "cancelCleanings", "markEvents", "adjust", "tellCleaner", "record", "failed",
              "relay", "store", "stored", "unstored", "planned", "strike"}

TypeOK ==
    /\ WriterTypeOK
    /\ inbox \in 0..Len(Story) /\ seen \subseteq Mails /\ polled \subseteq Mails
    /\ queue \in [Mails -> Statuses]
    /\ change \in {"none", "PENDING_CONFIRMATION", "APPLIED"}
    /\ notices \in [{"review", "applied"} -> {"none", "PENDING_DELIVERY", "SENT"}]
    /\ request \in [status : {"none", "PENDING", "APPROVED", "REJECTED", "EXECUTED", "RETRY"},
                    cleanings : SUBSET DOMAIN cleanings, events : SUBSET DOMAIN events]
    /\ reservations \in Seq([live : BOOLEAN, review : BOOLEAN, guests : {"booked", "requested"}])
    /\ cleanings \in Seq([of : DOMAIN reservations, event : 0..Len(events),
                          state : {"open", "done", "cancelled"}])
    /\ events \in Seq([of : DOMAIN reservations, cancelled : BOOLEAN])
    /\ offered \subseteq DOMAIN cleanings
    /\ door \in {"none", "PENDING_DELIVERY", "PENDING_OPERATOR_INPUT", "SYNCED", "FAILED_RETRY_REQUIRED"}
    /\ finance \in Nat /\ stored \in BOOLEAN /\ told \in [Told -> Nat]
    /\ pc \in [Writers -> Positions]
    /\ at \in 1..Len(ByHash) + 1 /\ plan \subseteq Mails
    /\ reopened \in BOOLEAN /\ troubles \in 0..MaxTroubles

-----------------------------------------------------------------------------
(* Steps                                                                   *)

Go(p, l) == pc' = [pc EXCEPT ![p] = l] /\ Proceed(p) /\ UNCHANGED <<at, plan>>

\* The next item of the queue.
Return ==
    /\ pc' = [pc EXCEPT ![Poller] = "walk"]
    /\ at' = at + 1
    /\ UNCHANGED plan
    /\ Exit(Poller)

\* The process's run ends: it has nothing more to do, or it raises.
Leave(p) ==
    /\ pc' = [pc EXCEPT ![p] = "idle"]
    /\ plan' = IF p = Desk THEN {} ELSE plan
    /\ UNCHANGED at
    /\ Exit(p)

Trouble ==
    /\ troubles + lapses < MaxTroubles
    /\ troubles' = troubles + 1
    /\ UNCHANGED reopened

Fine == UNCHANGED history

\* A request of p with effect A, made after assert_current(): answered, raised with or
\* without the effect, or refused because the lease is not p's any more.
Request(p, A, l, raised) ==
    /\ UNCHANGED files
    /\ \/ Cleared(p) /\ A /\ Fine /\ Go(p, l)
       \/ Cleared(p) /\ Trouble /\ (A \/ UNCHANGED services) /\ Go(p, raised)
       \/ ~Cleared(p) /\ UNCHANGED services /\ Fine /\ Leave(p)

\* A local file written after assert_current(); the lease may run out in between.
Fenced(p, A, Then) ==
    /\ UNCHANGED services /\ Fine
    /\ IF Cleared(p) THEN A /\ Then ELSE UNCHANGED files /\ Leave(p)

\* A local file written without it.
Unfenced(A, Then) == UNCHANGED services /\ Fine /\ A /\ Then

\* Nothing but p's position changes.
Skip(p, l) == UNCHANGED <<files, services>> /\ Fine /\ Go(p, l)

\* A read raises.
ReadRaises(p, l) == UNCHANGED <<files, services>> /\ Trouble /\ Go(p, l)

SetItem(m, s) ==
    /\ queue' = [queue EXCEPT ![m] = s]
    /\ UNCHANGED <<change, notices, offered, door, request>>

-----------------------------------------------------------------------------
(* Mails                                                                   *)

Arrive ==
    /\ inbox < Len(Story)
    /\ inbox' = inbox + 1
    /\ UNCHANGED <<writerVars, seen, polled, files, services, local, history>>

Arrived == {Story[i] : i \in 1..inbox}

\* A change request is observed, every other mail is parsed.
ParsedAs(m) == IF m = "requested" THEN "OBSERVED_NO_WRITE" ELSE "PARSED"

\* A mail's own file: the pending change, or the item the bridge works on.
Recorded(m) ==
    IF ParsedAs(m) = "PARSED"
    THEN SetItem(m, "PENDING_NOTION_READ")
    ELSE change' = "PENDING_CONFIRMATION" /\ UNCHANGED <<queue, notices, offered, door, request>>

\* The poll records the oldest mail it has not processed.
Poll ==
    /\ pc[Poller] = "idle"
    /\ \E i \in 1..inbox :
          /\ Story[i] \notin seen \cup polled
          /\ \A j \in 1..(i - 1) : Story[j] \in seen \cup polled
          /\ Recorded(Story[i])
          /\ polled' = polled \cup {Story[i]}
    /\ UNCHANGED <<writerVars, inbox, seen, services, local, history>>

\* With every mail of the listing recorded, the poll's state is saved and the bridge starts.
SaveState ==
    /\ pc[Poller] = "idle"
    /\ Arrived \subseteq seen \cup polled
    /\ seen' = seen \cup polled
    /\ polled' = {}
    /\ pc' = [pc EXCEPT ![Poller] = "walk"]
    /\ at' = 1
    /\ UNCHANGED <<writerVars, inbox, files, services, plan, history>>

Eligible(m) == queue[m] \in {"PENDING_NOTION_READ", "RETRY_REQUIRED"}

FirstStep(m) ==
    IF m = "confirmed" THEN "reserve" ELSE IF m = "updated" THEN "update" ELSE "cancel"

\* process_pending() comes to an item: it is skipped, or worked on in a scope of its own.
TakeItem ==
    /\ pc[Poller] = "walk"
    /\ UNCHANGED <<mail, files, services, plan>>
    /\ \/ /\ at > Len(ByHash)
          /\ pc' = [pc EXCEPT ![Poller] = "idle"] /\ at' = 1
          /\ UNCHANGED <<writerVars, history>>
       \/ /\ at <= Len(ByHash) /\ ~Eligible(ByHash[at])
          /\ at' = at + 1
          /\ UNCHANGED <<writerVars, pc, history>>
       \/ /\ at <= Len(ByHash) /\ Eligible(ByHash[at])
          /\ Enter(Poller)
          /\ pc' = [pc EXCEPT ![Poller] = FirstStep(ByHash[at])]
          /\ UNCHANGED <<at, history>>

\* The mutation scope is not entered: somebody has the lease, or its answer was lost.
Refused(p) ==
    /\ \/ p = Poller /\ pc[p] = "walk" /\ at <= Len(ByHash) /\ Eligible(ByHash[at])
       \/ p = Desk /\ pc[p] = "planned"
    /\ \/ lease # Nobody /\ UNCHANGED writerVars /\ Fine
       \/ EnterInVain(p) /\ Trouble
    /\ pc' = [pc EXCEPT ![p] = "idle"]
    /\ plan' = IF p = Desk THEN {} ELSE plan
    /\ UNCHANGED <<mail, files, services, at>>

-----------------------------------------------------------------------------
(* A confirmed booking                                                     *)

CleaningsOf(r) == {c \in DOMAIN cleanings : cleanings[c].of = r}
EventsOf(r) == {e \in DOMAIN events : events[e].of = r}

\* The first of the pages an exact query returns.
First(S) == CHOOSE x \in S : \A y \in S : x <= y

\* The bridge uses the first page with the code, and its first cleaning.
TheReservation == First(DOMAIN reservations)
TheCleaning == First(CleaningsOf(TheReservation))
TheEvent == First(EventsOf(TheReservation))

CreateReservation ==
    /\ reservations' = Append(reservations, [live |-> TRUE, review |-> FALSE, guests |-> "booked"])
    /\ UNCHANGED <<cleanings, events, finance, stored, told>>

CreateCleaning ==
    /\ cleanings' = Append(cleanings, [of |-> TheReservation, event |-> 0, state |-> "open"])
    /\ UNCHANGED <<reservations, events, finance, stored, told>>

InsertEvent ==
    /\ events' = Append(events, [of |-> TheReservation, cancelled |-> FALSE])
    /\ UNCHANGED <<reservations, cleanings, finance, stored, told>>

FinalizeCleaning ==
    /\ cleanings' = [cleanings EXCEPT ![TheCleaning].event = TheEvent]
    /\ UNCHANGED <<reservations, events, finance, stored, told>>

Tell(k) ==
    /\ told' = [told EXCEPT ![k] = @ + 1]
    /\ UNCHANGED <<reservations, cleanings, events, finance, stored>>

\* Mutant: what is there already is created again.
EnsureAlways(here, Create, l) == Request(Poller, Create, l, "uncertain")

\* Find by key, or create.
Ensure(here, Create, l) ==
    \/ here /\ Skip(Poller, l)
    \/ ~here /\ Request(Poller, Create, l, "uncertain")

\* The mail is read afresh; a failure up to here may be tried again.
SourceRaises ==
    /\ Trouble /\ UNCHANGED services
    /\ SetItem(ByHash[at], "RETRY_REQUIRED")
    /\ Return

Reserve ==
    /\ pc[Poller] = "reserve"
    /\ \/ SourceRaises
       \/ Ensure(reservations # << >>, CreateReservation, "clean")

Clean ==
    /\ pc[Poller] = "clean"
    /\ \/ ReadRaises(Poller, "uncertain")
       \/ Ensure(CleaningsOf(TheReservation) # {}, CreateCleaning, "book")

Book ==
    /\ pc[Poller] = "book"
    /\ \/ ReadRaises(Poller, "uncertain")
       \/ Ensure(EventsOf(TheReservation) # {}, InsertEvent, "bind")

\* Mutant: a PATCH that raises is taken for one that was answered.
BindAnyway == pc[Poller] = "bind" /\ Request(Poller, FinalizeCleaning, "offer", "offer")

Bind == pc[Poller] = "bind" /\ Request(Poller, FinalizeCleaning, "offer", "uncertain")

\* The cleaning is offered unless there is a request for it; the file comes first.
Offer ==
    /\ pc[Poller] = "offer"
    /\ \/ TheCleaning \in offered /\ Skip(Poller, "prompt")
       \/ /\ TheCleaning \notin offered
          /\ Unfenced(/\ offered' = offered \cup {TheCleaning}
                      /\ UNCHANGED <<queue, change, notices, door, request>>,
                      Go(Poller, "offering"))

SendOffer == pc[Poller] = "offering" /\ Request(Poller, Tell("offer"), "prompt", "uncertain")

\* telegram_request_exists()
Prompted == door # "none"

SetDoor(d) == door' = d /\ UNCHANGED <<queue, change, notices, offered, request>>

\* The operator is asked for the door code in the same way.
Prompt ==
    /\ pc[Poller] = "prompt"
    /\ \/ Prompted /\ Skip(Poller, "complete")
       \/ ~Prompted /\ Unfenced(SetDoor("PENDING_DELIVERY"), Go(Poller, "prompting"))

SendPrompt ==
    \/ pc[Poller] = "prompting" /\ Request(Poller, Tell("door"), "prompted", "uncertain")
    \/ pc[Poller] = "prompted" /\ Fenced(Poller, SetDoor("PENDING_OPERATOR_INPUT"), Go(Poller, "complete"))

\* The item's result; a process that is not the writer any more leaves it as it was.
Finish ==
    \/ /\ pc[Poller] = "complete"
       /\ Fenced(Poller, SetItem(ByHash[at], "COMPLETE"), Return)
    \/ /\ pc[Poller] = "reviewed"
       /\ Fenced(Poller, SetItem(ByHash[at], "REVIEW_REQUIRED"), Return)
    \/ /\ pc[Poller] = "awaiting"
       /\ Fenced(Poller, SetItem(ByHash[at], "AWAITING_CANCELLATION_APPROVAL"), Return)

\* Something raised after the first request: no blind retry.
Uncertain ==
    /\ pc[Poller] = "uncertain"
    /\ Fenced(Poller, SetItem(ByHash[at], "RECONCILIATION_REQUIRED"), Return)

-----------------------------------------------------------------------------
(* The door code                                                           *)

\* The operator answers the prompt with the code.
AnswerPrompt ==
    /\ pc[OpsBot] = "idle"
    /\ door = "PENDING_OPERATOR_INPUT"
    /\ Enter(OpsBot)
    /\ pc' = [pc EXCEPT ![OpsBot] = "relay"]
    /\ UNCHANGED <<mail, files, services, at, plan, history>>

\* The message for the cleaner and then the page, neither after asking for the lease.
RelayCode ==
    /\ pc[OpsBot] = "relay"
    /\ UNCHANGED files
    /\ \/ Tell("code") /\ Fine /\ Go(OpsBot, "store")
       \/ Trouble /\ (Tell("code") \/ UNCHANGED services) /\ Leave(OpsBot)

StoreCode ==
    LET Store == stored' = TRUE /\ UNCHANGED <<reservations, cleanings, events, finance, told>>
    IN /\ pc[OpsBot] = "store"
       /\ UNCHANGED files
       /\ \/ Store /\ Fine /\ Go(OpsBot, "stored")
          \/ Trouble /\ (Store \/ UNCHANGED services) /\ Go(OpsBot, "unstored")

RecordCode ==
    \/ pc[OpsBot] = "stored" /\ Unfenced(SetDoor("SYNCED"), Leave(OpsBot))
    \/ pc[OpsBot] = "unstored" /\ Unfenced(SetDoor("FAILED_RETRY_REQUIRED"), Leave(OpsBot))

-----------------------------------------------------------------------------
(* A changed booking                                                       *)

\* The one page with the code, as an update and a cancellation want it.
Exact == Len(reservations) = 1

NotExact == Unfenced(SetItem(ByHash[at], "REVIEW_REQUIRED"), Return)

\* Exactly one pending change, and the page still has the guests it starts from.
Applicable == change = "PENDING_CONFIRMATION" /\ reservations[1].guests = "booked"

ApplyChange ==
    /\ reservations' = [reservations EXCEPT ![1].guests = "requested", ![1].review = FALSE]
    /\ UNCHANGED <<cleanings, events, finance, stored, told>>

LockForReview ==
    /\ reservations' = [reservations EXCEPT ![1].review = TRUE]
    /\ UNCHANGED <<cleanings, events, finance, stored, told>>

\* An update's mail has no values: they come from the pending change, or a person looks.
Update ==
    /\ pc[Poller] = "update"
    /\ \/ SourceRaises
       \/ ReadRaises(Poller, "uncertain")
       \/ ~Exact /\ NotExact
       \/ Exact /\ Applicable /\ Request(Poller, ApplyChange, "mark", "uncertain")
       \/ Exact /\ ~Applicable /\ Request(Poller, LockForReview, "noteReview", "uncertain")

MarkApplied ==
    /\ pc[Poller] = "mark"
    /\ Fenced(Poller, change' = "APPLIED" /\ UNCHANGED <<queue, notices, offered, door, request>>,
              Go(Poller, "noteApplied"))

SetNotice(k, s) ==
    /\ notices' = [notices EXCEPT ![k] = s]
    /\ UNCHANGED <<queue, change, offered, door, request>>

\* The operator's notice: its file is there before it is sent, and one that may have been
\* sent is not sent again.
Notice(k, note, tell, sent, finish) ==
    \/ /\ pc[Poller] = note
       /\ \/ notices[k] = "SENT" /\ Skip(Poller, finish)
          \/ notices[k] = "PENDING_DELIVERY" /\ Skip(Poller, "uncertain")
          \/ notices[k] = "none" /\ Fenced(Poller, SetNotice(k, "PENDING_DELIVERY"), Go(Poller, tell))
    \/ pc[Poller] = tell /\ Request(Poller, Tell(k), sent, "uncertain")
    \/ pc[Poller] = sent /\ Fenced(Poller, SetNotice(k, "SENT"), Go(Poller, finish))

SendChangeReview == Notice("review", "noteReview", "tellReview", "sentReview", "reviewed")
SendChangeApplied == Notice("applied", "noteApplied", "tellApplied", "sentApplied", "complete")

-----------------------------------------------------------------------------
(* A cancelled booking                                                     *)

SetRequest(r) == request' = r /\ UNCHANGED <<queue, change, notices, offered, door>>

\* Mutant: a cleaning without an event names one too.
ProposalUnfiltered ==
    [status |-> "PENDING", cleanings |-> CleaningsOf(1),
     events |-> {cleanings[c].event : c \in CleaningsOf(1)}]

\* What the operator approves: the cleanings there are now, and the events they name.
Proposal ==
    [status |-> "PENDING", cleanings |-> CleaningsOf(1),
     events |-> {cleanings[c].event : c \in CleaningsOf(1)} \ {0}]

\* A mail's approval is asked for once.
Cancel ==
    /\ pc[Poller] = "cancel"
    /\ \/ SourceRaises
       \/ ReadRaises(Poller, "uncertain")
       \/ ~Exact /\ NotExact
       \/ Exact /\ request.status # "none" /\ Skip(Poller, "awaiting")
       \/ /\ Exact /\ request.status = "none"
          /\ Fenced(Poller, SetRequest(Proposal), Go(Poller, "asking"))

AskApproval == pc[Poller] = "asking" /\ Request(Poller, Tell("approval"), "asked", "uncertain")

\* The record as it was before the message is written over the file, with the message id.
\* An approval may have been answered meanwhile, if the lease ran out after the assertion.
WriteBack ==
    /\ SetRequest([request EXCEPT !.status = "PENDING"])
    /\ reopened' = (reopened \/ (Poller \in passed /\ request.status # "PENDING"))
    /\ UNCHANGED <<services, troubles>>
    /\ Go(Poller, "awaiting")

\* Mutant: it is written without asking for the lease.
AskedUnfenced == pc[Poller] = "asked" /\ WriteBack

Asked ==
    /\ pc[Poller] = "asked"
    /\ IF Cleared(Poller)
       THEN WriteBack
       ELSE UNCHANGED <<files, services>> /\ Fine /\ Leave(Poller)

\* The operator presses a button: it is consumed before anything else happens.
Press ==
    /\ pc[OpsBot] = "idle"
    /\ told["approval"] > 0 /\ request.status = "PENDING"
    /\ UNCHANGED <<mail, services, at, plan, history>>
    /\ \/ /\ Enter(OpsBot)
          /\ SetRequest([request EXCEPT !.status = "APPROVED"])
          /\ pc' = [pc EXCEPT ![OpsBot] = "cancelPage"]
       \/ /\ lease = Nobody /\ UNCHANGED <<writerVars, pc>>
          /\ SetRequest([request EXCEPT !.status = "REJECTED"])

\* Mutant: the reservation's PATCH that raises does not stop the cancellation.
CancelReservationAnyway ==
    /\ pc[OpsBot] = "cancelPage"
    /\ Request(OpsBot, /\ reservations' = [reservations EXCEPT ![1].live = FALSE]
                       /\ UNCHANGED <<cleanings, events, finance, stored, told>>,
               "cancelCleanings", "cancelCleanings")

CancelReservation ==
    /\ pc[OpsBot] = "cancelPage"
    /\ Request(OpsBot, /\ reservations' = [reservations EXCEPT ![1].live = FALSE]
                       /\ UNCHANGED <<cleanings, events, finance, stored, told>>,
               "cancelCleanings", "failed")

\* The proposal's cleanings one after the other; a completed one is left alone.
CancelCleanings ==
    /\ pc[OpsBot] = "cancelCleanings"
    /\ LET left == {c \in request.cleanings : cleanings[c].state = "open"}
       IN \/ left = {} /\ Skip(OpsBot, "markEvents")
          \/ /\ left # {}
             /\ Request(OpsBot, /\ cleanings' = [cleanings EXCEPT ![First(left)].state = "cancelled"]
                                /\ UNCHANGED <<reservations, events, finance, stored, told>>,
                        "cancelCleanings", "failed")

MarkEvents ==
    /\ pc[OpsBot] = "markEvents"
    /\ LET left == {e \in request.events : ~events[e].cancelled}
       IN \/ left = {} /\ Skip(OpsBot, "adjust")
          \/ /\ left # {}
             /\ Request(OpsBot, /\ events' = [events EXCEPT ![First(left)].cancelled = TRUE]
                                /\ UNCHANGED <<reservations, cleanings, finance, stored, told>>,
                        "markEvents", "failed")

Adjust ==
    /\ pc[OpsBot] = "adjust"
    /\ \/ finance > 0 /\ Skip(OpsBot, "tellCleaner")
       \/ /\ finance = 0
          /\ Request(OpsBot, finance' = finance + 1 /\ UNCHANGED <<reservations, cleanings, events, stored, told>>,
                     "tellCleaner", "failed")

TellCleaner ==
    /\ pc[OpsBot] = "tellCleaner"
    /\ \/ request.cleanings = {} /\ Skip(OpsBot, "record")
       \/ request.cleanings # {} /\ Request(OpsBot, Tell("cleaner"), "record", "failed")

RecordExecution ==
    \/ /\ pc[OpsBot] = "record"
       /\ Fenced(OpsBot, SetRequest([request EXCEPT !.status = "EXECUTED"]), Leave(OpsBot))
    \/ /\ pc[OpsBot] = "failed"
       /\ Unfenced(SetRequest([request EXCEPT !.status = "RETRY"]), Leave(OpsBot))

-----------------------------------------------------------------------------
(* A booking cancelled before it was taken in                              *)

Reconcilable ==
    /\ queue["confirmed"] \in {"RETRY_REQUIRED", "CANCELLED_PRE_INGEST"}
    /\ queue["cancelled"] \in {"REVIEW_REQUIRED", "CANCELLED_PRE_INGEST"}

Unreconciled == {m \in {"confirmed", "cancelled"} : queue[m] # "CANCELLED_PRE_INGEST"}

\* reconcile_cancelled_pre_ingest() up to its plan: outside the writer scope, by an operator
\* who has seen that there is no page.
PlanReconciliation ==
    /\ pc[Desk] = "idle"
    /\ "cancelled" \in Arrived
    /\ Reconcilable /\ reservations = << >> /\ Unreconciled # {}
    /\ plan' = Unreconciled
    /\ pc' = [pc EXCEPT ![Desk] = "planned"]
    /\ UNCHANGED <<writerVars, mail, files, services, at, history>>

StartReconciliation ==
    /\ pc[Desk] = "planned"
    /\ Enter(Desk)
    /\ pc' = [pc EXCEPT ![Desk] = "strike"]
    /\ UNCHANGED <<mail, files, services, at, plan, history>>

\* The confirmation first.
NextToStrike == IF "confirmed" \in plan THEN "confirmed" ELSE "cancelled"

\* The planned items are rewritten as they were read.
Strike ==
    /\ pc[Desk] = "strike"
    /\ UNCHANGED <<mail, services, history>>
    /\ SetItem(NextToStrike, "CANCELLED_PRE_INGEST")
    /\ IF plan = {NextToStrike}
       THEN Leave(Desk)
       ELSE /\ plan' = plan \ {NextToStrike}
            /\ Proceed(Desk)
            /\ UNCHANGED <<pc, at>>

-----------------------------------------------------------------------------
(* Faults, and the world                                                   *)

\* A cleaner completes a cleaning nobody has cancelled.
CompleteCleaning ==
    /\ \E c \in offered :
          /\ cleanings[c].state = "open"
          /\ cleanings' = [cleanings EXCEPT ![c].state = "done"]
    /\ UNCHANGED <<writerVars, mail, files, reservations, events, finance, stored, told, local, history>>

\* A process dies; a poll forgets what it has not saved.
Crash(p) ==
    /\ Trouble
    /\ pc[p] # "idle" \/ (p = Poller /\ polled # {})
    /\ Die(p)
    /\ pc' = [pc EXCEPT ![p] = "idle"]
    /\ polled' = IF p = Poller THEN {} ELSE polled
    /\ plan' = IF p = Desk THEN {} ELSE plan
    /\ UNCHANGED <<inbox, seen, at, files, services>>

LeaseLapse ==
    /\ lease \in inside => troubles + lapses < MaxTroubles
    /\ Lapse
    /\ UNCHANGED <<mail, files, services, local, history>>

-----------------------------------------------------------------------------

Init ==
    /\ WriterInit
    /\ inbox = 0 /\ seen = {} /\ polled = {}
    /\ queue = [m \in Mails |-> "none"]
    /\ change = "none"
    /\ notices = [k \in {"review", "applied"} |-> "none"]
    /\ offered = {} /\ door = "none"
    /\ request = [status |-> "none", cleanings |-> {}, events |-> {}]
    /\ reservations = << >> /\ cleanings = << >> /\ events = << >>
    /\ finance = 0 /\ stored = FALSE /\ told = [k \in Told |-> 0]
    /\ pc = [p \in Writers |-> "idle"]
    /\ at = 1 /\ plan = {}
    /\ reopened = FALSE /\ troubles = 0

Bridge ==
    /\ \/ Reserve \/ Clean \/ Book \/ Bind \/ Offer \/ SendOffer \/ Prompt \/ SendPrompt
       \/ Update \/ MarkApplied \/ SendChangeReview \/ SendChangeApplied
       \/ Cancel \/ AskApproval \/ Asked \/ Finish \/ Uncertain
    /\ UNCHANGED mail

Execute ==
    /\ \/ CancelReservation \/ CancelCleanings \/ MarkEvents \/ Adjust \/ TellCleaner
       \/ RecordExecution \/ RelayCode \/ StoreCode \/ RecordCode
    /\ UNCHANGED mail

Next ==
    \/ Arrive \/ Poll \/ SaveState \/ TakeItem \/ Bridge
    \/ Press \/ AnswerPrompt \/ Execute
    \/ PlanReconciliation \/ StartReconciliation \/ Strike
    \/ \E p \in {Poller, Desk} : Refused(p)
    \/ \E p \in Writers : Crash(p)
    \/ CompleteCleaning \/ LeaseLapse

Spec == Init /\ [][Next]_vars

-----------------------------------------------------------------------------
(* The read-only report                                                    *)

\* is_cleaning_reconciliation_eligible() for a reservation that is not over.
Canonical(r) == reservations[r].live /\ ~reservations[r].review

Report(r) ==
    IF ~Canonical(r) THEN "SKIPPED"
    ELSE IF CleaningsOf(r) = {} THEN "MISSING"
    ELSE IF Cardinality(CleaningsOf(r)) = 1 THEN "MATCHED"
    ELSE "CONFLICT"

-----------------------------------------------------------------------------
(* Properties                                                              *)

\* However often the bridge starts again over half-done items, lost answers and lost leases,
\* the booking has one page, one cleaning, one event and one adjustment row, and the report
\* finds no conflict.
OneOfEach ==
    /\ Len(reservations) <= 1
    /\ \A r \in DOMAIN reservations :
          Cardinality(EventsOf(r)) <= 1 /\ Report(r) # "CONFLICT"
    /\ finance <= 1

\* Nobody is told the same thing twice, whatever is done again.  There are two exceptions:
\* a bot that dies before it has written the door code down takes the same answer again;
\* and an answered approval put back to PENDING, by a poller that wrote the message id
\* after the lease it had asserted ran out, can be executed once more, with a second
\* message for the cleaner and never a third.
SaidOnce ==
    /\ \A k \in Told \ {"code", "cleaner"} : told[k] <= 1
    /\ told["cleaner"] <= IF reopened THEN 2 ELSE 1

\* A completed confirmation has its page, a cleaning that names the event of its own, and
\* the files of both questions; the report does not miss the cleaning.
CompleteMeansReady ==
    queue["confirmed"] = "COMPLETE" =>
        /\ reservations # << >>
        /\ Report(TheReservation) # "MISSING"
        /\ CleaningsOf(TheReservation) # {}
        /\ cleanings[TheCleaning].event \in EventsOf(TheReservation)
        /\ TheCleaning \in offered /\ Prompted

\* A change was announced as applied only when the page has it and the pending change is
\* spent, and a door code is synced only when the page has it.
ReportsAreTrue ==
    /\ told["applied"] > 0 => change = "APPLIED" /\ reservations[1].guests = "requested"
    /\ door = "SYNCED" => stored

\* What the files and messages say was done was done: a completed confirmation, an applied
\* change, a synced door code.
RecordsAreTrue == CompleteMeansReady /\ ReportsAreTrue

\* An executed cancellation reached all it named: the page, every cleaning that was not
\* completed, every event, and its adjustment row; and no cleaning it named is cancelled
\* under a reservation that is still live.
CancellationIsWhole ==
    /\ request.status = "EXECUTED" =>
          /\ ~reservations[1].live
          /\ \A c \in request.cleanings : cleanings[c].state # "open"
          /\ \A e \in request.events : events[e].cancelled
          /\ finance = 1
    /\ \A c \in DOMAIN cleanings :
          cleanings[c].state = "cancelled" => ~reservations[cleanings[c].of].live

=============================================================================
