------------------------- MODULE BookingBridgeProofs -------------------------
(***************************************************************************)
(* Proofs about BookingBridge: its type invariant, OneOfEach, SaidOnce,     *)
(* RecordsAreTrue and CancellationIsWhole, for any story of mails, any      *)
(* order of the queue's files and any number of troubles.                  *)
(*                                                                         *)
(* What makes them hold is that a process knows more at each of its places  *)
(* than any file says: the inductive invariant IInv states what the poller  *)
(* has established when it is at a place (Pledge) and what the bot has      *)
(* (Duty), beside what the pages and the files say whoever is at work.      *)
(***************************************************************************)
EXTENDS BookingBridge, SequenceTheorems, FiniteSetTheorems, TLAPS

-----------------------------------------------------------------------------
(* The inductive invariant                                                 *)

ControlTyped ==
    /\ WriterTypeOK
    /\ pc \in [Writers -> Positions]
    /\ at \in 1..Len(ByHash) + 1 /\ plan \subseteq Mails
    /\ reopened \in BOOLEAN /\ troubles \in 0..MaxTroubles

FilesTyped ==
    /\ inbox \in 0..Len(Story) /\ seen \subseteq Mails /\ polled \subseteq Mails
    /\ queue \in [Mails -> Statuses]
    /\ change \in {"none", "PENDING_CONFIRMATION", "APPLIED"}
    /\ notices \in [{"review", "applied"} -> {"none", "PENDING_DELIVERY", "SENT"}]
    /\ request \in [status : {"none", "PENDING", "APPROVED", "REJECTED", "EXECUTED", "RETRY"},
                    cleanings : SUBSET DOMAIN cleanings, events : SUBSET DOMAIN events]
    /\ offered \subseteq DOMAIN cleanings
    /\ door \in {"none", "PENDING_DELIVERY", "PENDING_OPERATOR_INPUT", "SYNCED", "FAILED_RETRY_REQUIRED"}

PagesTyped ==
    /\ reservations \in Seq([live : BOOLEAN, review : BOOLEAN, guests : {"booked", "requested"}])
    /\ cleanings \in Seq([of : DOMAIN reservations, event : 0..Len(events),
                          state : {"open", "done", "cancelled"}])
    /\ events \in Seq([of : DOMAIN reservations, cancelled : BOOLEAN])
    /\ finance \in Nat /\ stored \in BOOLEAN /\ told \in [Told -> Nat]

\* One page, one cleaning, one event and one adjustment row at most.
Single ==
    /\ Len(reservations) <= 1 /\ Len(cleanings) <= 1 /\ Len(events) <= 1
    /\ finance <= 1

\* Nothing was said before the file that says so was there.
Said ==
    /\ \A k \in Told \ {"code", "cleaner"} : told[k] <= 1
    /\ offered = {} => told["offer"] = 0
    /\ door = "none" => told["door"] = 0
    /\ \A k \in {"review", "applied"} : notices[k] = "none" => told[k] = 0
    /\ request.status = "none" => told["approval"] = 0

\* How often the cleaner may be told: once more if the approval was put back to PENDING.
Allowed == IF reopened THEN 2 ELSE 1

\* An approval that is not answered leaves one more message to the cleaner.
Heard ==
    /\ told["cleaner"] <= Allowed
    /\ request.status \in {"none", "PENDING"} => told["cleaner"] < Allowed
    /\ request.status = "none" => ~reopened

HasPage == 1 \in DOMAIN reservations
HasCleaning == 1 \in DOMAIN cleanings
HasEvent == 1 \in DOMAIN events

\* Everything a confirmed booking is to get.
Ready ==
    /\ HasPage /\ HasCleaning /\ HasEvent
    /\ cleanings[1].event = 1
    /\ 1 \in offered /\ Prompted

\* A change that was applied cannot be recorded as pending again: its mail is processed.
Changed ==
    /\ change # "none" => "requested" \in Arrived
    /\ change = "APPLIED" => "requested" \in seen
    /\ told["applied"] > 0 => change = "APPLIED" /\ HasPage /\ reservations[1].guests = "requested"

Queued ==
    /\ queue["requested"] = "none"
    /\ queue["confirmed"] = "COMPLETE" => Ready

CleaningsDone == \A c \in request.cleanings : cleanings[c].state # "open"
EventsDone == \A e \in request.events : events[e].cancelled

Cancelled ==
    /\ request.status # "none" => HasPage
    /\ request.status = "EXECUTED" =>
          ~reservations[1].live /\ CleaningsDone /\ EventsDone /\ finance = 1
    /\ HasCleaning /\ cleanings[1].state = "cancelled" => ~reservations[1].live
    /\ door = "SYNCED" => stored

Data == FilesTyped /\ PagesTyped /\ Single /\ Said /\ Changed /\ Queued /\ Cancelled

\* What the poller knows at a place.
Confirming == {"reserve", "clean", "book", "bind", "offer", "offering", "prompt", "prompting", "prompted"}
Updating == {"update", "mark", "noteReview", "tellReview", "sentReview", "reviewed",
             "noteApplied", "tellApplied", "sentApplied"}

Item(l) ==
    /\ l \notin {"idle", "walk"} => at \in DOMAIN ByHash /\ ByHash[at] # "requested"
    /\ l \in Confirming => ByHash[at] = "confirmed"
    /\ l \in Updating => ByHash[at] = "updated"

Booked(l) ==
    /\ l \in Confirming \ {"reserve"} => HasPage
    /\ l \in Confirming \ {"reserve", "clean"} => HasCleaning
    /\ l \in Confirming \ {"reserve", "clean", "book"} => HasEvent
    /\ l \in Confirming \ {"reserve", "clean", "book", "bind"} => cleanings[1].event = 1
    /\ l \in {"offering", "prompt", "prompting", "prompted"} => 1 \in offered
    /\ l \in {"prompting", "prompted"} => Prompted
    /\ l = "complete" /\ ByHash[at] = "confirmed" => Ready
    /\ l = "offering" => told["offer"] = 0
    /\ l = "prompting" => told["door"] = 0

Applied(l) ==
    /\ l # "idle" /\ change # "none" => "requested" \in seen
    /\ l = "mark" => change # "none"
    /\ l \in {"noteApplied", "tellApplied"} => change = "APPLIED"
    /\ l \in {"mark", "noteApplied", "tellApplied"} => HasPage /\ reservations[1].guests = "requested"
    /\ l = "tellReview" => notices["review"] # "none" /\ told["review"] = 0
    /\ l = "tellApplied" => notices["applied"] # "none" /\ told["applied"] = 0

\* Only a poller whose lease ran out meanwhile can find the approval answered.
Asking(l) ==
    /\ l = "asking" => request.status = "PENDING" /\ told["approval"] = 0
    /\ l \in {"asking", "asked"} => request.status # "none" /\ ~reopened
    /\ l = "asked" /\ Current(Poller) => request.status = "PENDING"

Pledge(l) == Item(l) /\ Booked(l) /\ Applied(l) /\ Asking(l)

Executing == {"cancelPage", "cancelCleanings", "markEvents", "adjust", "tellCleaner", "record", "failed"}

\* The bot may find the approval it executes put back to PENDING; then this is the first
\* execution, and the cleaner has not been told.
Ordered == request.status = "APPROVED" \/ (request.status = "PENDING" /\ reopened)
Untold == told["cleaner"] < Allowed /\ (request.status = "PENDING" => told["cleaner"] = 0)

\* What the bot knows at a place.
Duty(l) ==
    /\ l \in Executing => Ordered
    /\ l \in {"cancelCleanings", "markEvents", "adjust", "tellCleaner", "record"} => ~reservations[1].live
    /\ l \in {"markEvents", "adjust", "tellCleaner", "record"} => CleaningsDone
    /\ l \in {"adjust", "tellCleaner", "record"} => EventsDone
    /\ l \in {"tellCleaner", "record"} => finance = 1
    /\ l \in Executing \ {"record", "failed"} => Untold
    /\ l = "stored" => stored

IInv == ControlTyped /\ Data /\ Heard /\ Pledge(pc[Poller]) /\ Duty(pc[OpsBot])

-----------------------------------------------------------------------------
(* The pages                                                               *)

\* Three writers are three processes.
LEMMA Actors ==
    /\ Poller \in Writers /\ OpsBot \in Writers /\ Desk \in Writers
    /\ \A p \in Writers : p = Poller \/ p = OpsBot \/ p = Desk
    /\ Poller # OpsBot /\ Poller # Desk /\ OpsBot # Desk
    /\ Nobody \notin Writers
<1>1. ASSUME NEW p, NEW q, Writers = {p, q} PROVE FALSE
  <2>1. IsFiniteSet({p}) /\ Cardinality({p}) = 1  BY FS_Singleton
  <2>2. Cardinality({p} \cup {q}) \in {1, 2}  BY <2>1, FS_AddElement
  <2>3. {p} \cup {q} = Writers  BY <1>1
  <2>4. Cardinality(Writers) = 3  BY BookingAssumption
  <2>5. Cardinality(Writers) \in {1, 2}  BY <2>2, <2>3
  <2> QED  BY <2>4, <2>5
<1>2. Writers = {Poller, OpsBot, Desk}  BY BookingAssumption
<1>3. Poller = OpsBot => Writers = {OpsBot, Desk}  BY <1>2
<1>4. Poller = Desk => Writers = {OpsBot, Desk}  BY <1>2
<1>5. OpsBot = Desk => Writers = {Poller, Desk}  BY <1>2
<1> QED  BY <1>1, <1>2, <1>3, <1>4, <1>5, WritersAssumption

LEMMA FirstOfOne == First({1}) = 1
<1> DEFINE P(x) == x \in {1} /\ \A y \in {1} : x <= y
<1>1. P(1)  OBVIOUS
<1>2. \A x : P(x) => x = 1  OBVIOUS
<1>3. First({1}) = CHOOSE x : P(x)  BY DEF First
<1>4. P(CHOOSE x : P(x))  BY <1>1
<1> QED  BY <1>2, <1>3, <1>4

\* There is one of each at most, so the first of them is the one there is.
LEMMA Pages ==
    ASSUME PagesTyped, Single
    PROVE  /\ DOMAIN reservations = 1..Len(reservations) /\ DOMAIN reservations \subseteq {1}
           /\ DOMAIN cleanings = 1..Len(cleanings) /\ DOMAIN cleanings \subseteq {1}
           /\ DOMAIN events = 1..Len(events) /\ DOMAIN events \subseteq {1}
           /\ Len(reservations) \in 0..1 /\ Len(cleanings) \in 0..1 /\ Len(events) \in 0..1
           /\ HasPage => DOMAIN reservations = {1} /\ Len(reservations) = 1
           /\ HasCleaning => HasPage /\ DOMAIN cleanings = {1} /\ Len(cleanings) = 1
           /\ HasEvent => HasPage /\ DOMAIN events = {1} /\ Len(events) = 1
           /\ HasPage <=> reservations # << >>
<1>1. /\ Len(reservations) \in Nat /\ DOMAIN reservations = 1..Len(reservations)
      /\ Len(cleanings) \in Nat /\ DOMAIN cleanings = 1..Len(cleanings)
      /\ Len(events) \in Nat /\ DOMAIN events = 1..Len(events)
  BY LenProperties DEF PagesTyped
<1>2. /\ Len(reservations) \in 0..1 /\ Len(cleanings) \in 0..1 /\ Len(events) \in 0..1
  BY <1>1 DEF Single
<1>3. \A n \in 0..1 : 1..n \subseteq {1} /\ (1 \in 1..n => 1..n = {1} /\ n = 1)  OBVIOUS
<1>4. ASSUME NEW c \in DOMAIN cleanings PROVE cleanings[c].of \in DOMAIN reservations
  <2>1. cleanings[c] \in [of : DOMAIN reservations, event : 0..Len(events),
                          state : {"open", "done", "cancelled"}]
    BY ElementOfSeq, <1>1 DEF PagesTyped
  <2> QED  BY <2>1
<1>5. ASSUME NEW e \in DOMAIN events PROVE events[e].of \in DOMAIN reservations
  <2>1. events[e] \in [of : DOMAIN reservations, cancelled : BOOLEAN]
    BY ElementOfSeq, <1>1 DEF PagesTyped
  <2> QED  BY <2>1
<1>6. HasPage <=> reservations # << >>
  BY <1>1, <1>2, EmptySeq DEF PagesTyped, HasPage
<1> QED  BY <1>1, <1>2, <1>3, <1>4, <1>5, <1>6 DEF HasPage, HasCleaning, HasEvent

LEMMA Entries ==
    ASSUME PagesTyped, Single
    PROVE  /\ HasPage => reservations[1] \in [live : BOOLEAN, review : BOOLEAN, guests : {"booked", "requested"}]
           /\ HasCleaning => cleanings[1] \in [of : {1}, event : 0..Len(events), state : {"open", "done", "cancelled"}]
           /\ HasEvent => events[1] \in [of : {1}, cancelled : BOOLEAN]
BY Pages, ElementOfSeq DEF PagesTyped, HasPage, HasCleaning, HasEvent

LEMMA Queries ==
    ASSUME PagesTyped, Single, HasPage
    PROVE  /\ TheReservation = 1
           /\ CleaningsOf(1) = DOMAIN cleanings /\ EventsOf(1) = DOMAIN events
           /\ HasCleaning => TheCleaning = 1
           /\ HasEvent => TheEvent = 1
<1>1. TheReservation = 1  BY Pages, FirstOfOne DEF TheReservation
<1>2. CleaningsOf(1) = DOMAIN cleanings  BY Pages, Entries DEF CleaningsOf, HasCleaning
<1>3. EventsOf(1) = DOMAIN events  BY Pages, Entries DEF EventsOf, HasEvent
<1> QED  BY <1>1, <1>2, <1>3, Pages, FirstOfOne DEF TheCleaning, TheEvent

-----------------------------------------------------------------------------
(* What one process does to what another knows                             *)

\* Nothing the bot relies on is taken from it: an approval is made, and then left alone.
BotUndisturbed ==
    /\ request.status # "none" => request' = request
    /\ HasPage => reservations'[1].live = reservations[1].live
    /\ \A c \in DOMAIN cleanings : cleanings'[c].state = "open" => cleanings[c].state = "open"
    /\ \A e \in DOMAIN events : events'[e].cancelled = events[e].cancelled
    /\ finance' = finance /\ stored' = stored /\ told'["cleaner"] = told["cleaner"]

\* Nothing the poller relies on is taken from it; only a request that has been asked for and
\* is not the poller's any more is answered, or one the poller has put back already.
PollerUndisturbed ==
    /\ seen' = seen /\ change' = change /\ notices' = notices /\ offered' = offered
    /\ Prompted => Prompted'
    /\ DOMAIN reservations' = DOMAIN reservations
    /\ HasPage => reservations'[1].guests = reservations[1].guests
    /\ DOMAIN cleanings' = DOMAIN cleanings
    /\ HasCleaning => cleanings'[1].event = cleanings[1].event
    /\ DOMAIN events' = DOMAIN events
    /\ \A k \in Told \ {"cleaner", "code"} : told'[k] = told[k]
    /\ request.status = "PENDING" =>
          request'.status = "PENDING" \/ reopened \/ (~Current(Poller)' /\ told["approval"] > 0)
    /\ request.status # "none" => request'.status # "none"

LEMMA DutyStays ==
    ASSUME IInv, BotUndisturbed, reopened' = reopened, pc'[OpsBot] = pc[OpsBot]
    PROVE  Duty(pc[OpsBot])' /\ Heard'
<1> DEFINE l == pc[OpsBot]
<1>1. Duty(l) /\ Heard  BY DEF IInv
<1>2. l \in Executing => request' = request /\ HasPage
  BY <1>1 DEF Duty, Ordered, BotUndisturbed, IInv, Data, Cancelled
<1>3. request.cleanings \subseteq DOMAIN cleanings /\ request.events \subseteq DOMAIN events
  BY DEF IInv, Data, FilesTyped
<1>4. l \in Executing /\ CleaningsDone => CleaningsDone'
  BY <1>2, <1>3 DEF CleaningsDone, BotUndisturbed
<1>5. l \in Executing /\ EventsDone => EventsDone'
  BY <1>2, <1>3 DEF EventsDone, BotUndisturbed
<1>6. Heard'  BY <1>1 DEF Heard, BotUndisturbed, Allowed
<1> HIDE DEF l
<1>7. Duty(l)'  BY <1>1, <1>2, <1>4, <1>5 DEF Duty, Executing, Ordered, Untold, Allowed, BotUndisturbed, l
<1> QED  BY <1>6, <1>7 DEF l

LEMMA ReadyStays ==
    ASSUME Ready, PollerUndisturbed
    PROVE  Ready'
BY DEF Ready, PollerUndisturbed, HasPage, HasCleaning, HasEvent

LEMMA PledgeStays ==
    ASSUME IInv, PollerUndisturbed, reopened' = reopened, pc'[Poller] = pc[Poller], at' = at,
           Current(Poller)' => Current(Poller)
    PROVE  Pledge(pc[Poller])'
<1> DEFINE l == pc[Poller]
<1>1. Pledge(l) /\ l' = l  BY DEF IInv
<1> HIDE DEF l
<1>2. Item(l)'  BY <1>1 DEF Pledge, Item
<1>3. Booked(l)'
  BY <1>1, ReadyStays DEF Pledge, Booked, PollerUndisturbed, HasPage, HasCleaning, HasEvent, Told, Confirming
<1>4. Applied(l)'  BY <1>1 DEF Pledge, Applied, PollerUndisturbed, HasPage, Told
<1>5. Asking(l)'  BY <1>1 DEF Pledge, Asking, PollerUndisturbed, Told
<1> QED  BY <1>2, <1>3, <1>4, <1>5 DEF Pledge, l

LEMMA Still ==
    ASSUME IInv, UNCHANGED <<mail, files, services>>
    PROVE  Data' /\ BotUndisturbed /\ PollerUndisturbed
<1>1. /\ inbox' = inbox /\ seen' = seen /\ polled' = polled
      /\ queue' = queue /\ change' = change /\ notices' = notices /\ offered' = offered
      /\ door' = door /\ request' = request
      /\ reservations' = reservations /\ cleanings' = cleanings /\ events' = events
      /\ finance' = finance /\ stored' = stored /\ told' = told
  BY DEF mail, files, services
<1>2. FilesTyped' /\ PagesTyped' /\ Single'
  BY <1>1 DEF IInv, Data, FilesTyped, PagesTyped, Single
<1>3. Said' /\ Changed' /\ Queued' /\ Cancelled'
  BY <1>1 DEF IInv, Data, Said, Changed, Arrived, Queued, Ready, Prompted, Cancelled, CleaningsDone, EventsDone,
     HasPage, HasCleaning, HasEvent
<1> QED
  BY <1>1, <1>2, <1>3 DEF Data, BotUndisturbed, PollerUndisturbed, Prompted

-----------------------------------------------------------------------------
(* Where a step leaves the processes                                       *)

LEMMA Bounded ==
    ASSUME ControlTyped, Fine \/ Trouble
    PROVE  troubles' \in 0..MaxTroubles /\ reopened' = reopened
BY BookingAssumption, WritersAssumption DEF ControlTyped, WriterTypeOK, Fine, Trouble, history

LEMMA GoForm ==
    ASSUME ControlTyped, NEW p \in Writers, NEW l \in Positions, Go(p, l), Fine \/ Trouble
    PROVE  /\ ControlTyped'
           /\ pc'[p] = l /\ at' = at
           /\ \A q \in Writers \ {p} : pc'[q] = pc[q]
           /\ \A q \in Writers : Current(q)' => Current(q)
           /\ reopened' = reopened
<1>1. Proceed(p) /\ at' = at /\ plan' = plan /\ pc' = [pc EXCEPT ![p] = l]  BY DEF Go
<1> QED  BY <1>1, Bounded DEF ControlTyped, WriterTypeOK, Proceed, Current

LEMMA LeaveForm ==
    ASSUME ControlTyped, NEW p \in Writers, Leave(p), Fine \/ Trouble
    PROVE  /\ ControlTyped'
           /\ pc'[p] = "idle" /\ at' = at
           /\ \A q \in Writers \ {p} : pc'[q] = pc[q]
           /\ \A q \in Writers : Current(q)' => Current(q)
           /\ reopened' = reopened
<1>1. pc' = [pc EXCEPT ![p] = "idle"] /\ at' = at /\ plan' \subseteq Mails
  BY DEF Leave, ControlTyped
<1>2. WriterTypeOK' /\ \A q \in Writers : Current(q)' => Current(q)
  BY Actors DEF Leave, Exit, ControlTyped, WriterTypeOK, Current
<1> QED  BY <1>1, <1>2, Bounded DEF ControlTyped, Positions

LEMMA ReturnForm ==
    ASSUME ControlTyped, at \in DOMAIN ByHash, Return, Fine \/ Trouble
    PROVE  /\ ControlTyped'
           /\ pc'[Poller] = "walk"
           /\ \A q \in Writers \ {Poller} : pc'[q] = pc[q]
           /\ \A q \in Writers : Current(q)' => Current(q)
           /\ reopened' = reopened
<1>1. pc' = [pc EXCEPT ![Poller] = "walk"] /\ at' = at + 1 /\ plan' = plan  BY DEF Return
<1>2. WriterTypeOK' /\ \A q \in Writers : Current(q)' => Current(q)
  BY Actors DEF Return, Exit, ControlTyped, WriterTypeOK, Current
<1>3. at' \in 1..Len(ByHash) + 1  BY <1>1, LenProperties, BookingAssumption
<1> QED  BY <1>1, <1>2, <1>3, Bounded, Actors DEF ControlTyped, Positions

LEMMA EnterForm ==
    ASSUME ControlTyped, NEW p \in Writers, Enter(p)
    PROVE  WriterTypeOK' /\ \A q \in Writers \ {p} : ~Current(q)'
BY Actors DEF Enter, ControlTyped, WriterTypeOK, Current

LEMMA PollerGoes ==
    ASSUME IInv, NEW l \in Positions, Go(Poller, l), Fine \/ Trouble, Data', BotUndisturbed, Pledge(l)'
    PROVE  IInv'
<1>1. ControlTyped' /\ pc'[Poller] = l /\ pc'[OpsBot] = pc[OpsBot] /\ reopened' = reopened
  BY GoForm, Actors DEF IInv
<1> QED  BY <1>1, DutyStays DEF IInv

LEMMA PollerLeaves ==
    ASSUME IInv, Leave(Poller), Fine \/ Trouble, Data', BotUndisturbed
    PROVE  IInv'
<1>1. ControlTyped' /\ pc'[Poller] = "idle" /\ pc'[OpsBot] = pc[OpsBot] /\ reopened' = reopened
  BY LeaveForm, Actors DEF IInv
<1>2. Pledge("idle")'  BY DEF Pledge, Item, Booked, Applied, Asking, Confirming, Updating
<1> QED  BY <1>1, <1>2, DutyStays DEF IInv

LEMMA PollerReturns ==
    ASSUME IInv, pc[Poller] \notin {"idle", "walk"}, Return, Fine \/ Trouble, Data', BotUndisturbed,
           seen' = seen, change' = change
    PROVE  IInv'
<1>1. at \in DOMAIN ByHash  BY DEF IInv, Pledge, Item
<1>2. ControlTyped' /\ pc'[Poller] = "walk" /\ pc'[OpsBot] = pc[OpsBot] /\ reopened' = reopened
  BY <1>1, ReturnForm, Actors DEF IInv
<1>3. Pledge("walk")'
  BY DEF IInv, Pledge, Item, Booked, Applied, Asking, Confirming, Updating
<1> QED  BY <1>2, <1>3, DutyStays DEF IInv

\* What was heard stays so while neither the approval nor what the cleaner was told changes.
Unspoken == request' = request /\ told'["cleaner"] = told["cleaner"]

LEMMA HeardStays ==
    ASSUME IInv, Fine \/ Trouble, Unspoken
    PROVE  Heard'
BY Bounded DEF IInv, Heard, Allowed, Unspoken

LEMMA BotGoes ==
    ASSUME IInv, NEW l \in Positions, Go(OpsBot, l), Fine \/ Trouble, Data', Heard',
           PollerUndisturbed, Duty(l)'
    PROVE  IInv'
<1>1. /\ ControlTyped' /\ pc'[OpsBot] = l /\ pc'[Poller] = pc[Poller] /\ at' = at
      /\ Current(Poller)' => Current(Poller)
      /\ reopened' = reopened
  BY GoForm, Actors DEF IInv
<1> QED  BY <1>1, PledgeStays DEF IInv

LEMMA BotLeaves ==
    ASSUME IInv, Leave(OpsBot), Fine \/ Trouble, Data', Heard', PollerUndisturbed
    PROVE  IInv'
<1>1. /\ ControlTyped' /\ pc'[OpsBot] = "idle" /\ pc'[Poller] = pc[Poller] /\ at' = at
      /\ Current(Poller)' => Current(Poller)
      /\ reopened' = reopened
  BY LeaveForm, Actors DEF IInv
<1>2. Duty("idle")'  BY DEF Duty, Executing
<1> QED  BY <1>1, <1>2, PledgeStays DEF IInv

LEMMA OthersStep ==
    ASSUME IInv, ControlTyped', pc'[Poller] = pc[Poller], pc'[OpsBot] = pc[OpsBot], at' = at,
           Current(Poller)' => Current(Poller), reopened' = reopened,
           Data', BotUndisturbed, PollerUndisturbed
    PROVE  IInv'
BY DutyStays, PledgeStays DEF IInv

-----------------------------------------------------------------------------
(* Files that are written                                                  *)

\* Everything but the local files stands.
Elsewhere == UNCHANGED <<mail, services>>

LEMMA ItemWritten ==
    ASSUME IInv, Elsewhere, NEW m \in Mails, NEW s \in Statuses, SetItem(m, s),
           m # "requested", m = "confirmed" /\ s = "COMPLETE" => Ready
    PROVE  Data' /\ BotUndisturbed /\ PollerUndisturbed
<1>1. /\ inbox' = inbox /\ seen' = seen /\ polled' = polled
      /\ queue' = [queue EXCEPT ![m] = s] /\ change' = change /\ notices' = notices
      /\ offered' = offered /\ door' = door /\ request' = request
      /\ reservations' = reservations /\ cleanings' = cleanings /\ events' = events
      /\ finance' = finance /\ stored' = stored /\ told' = told
  BY DEF SetItem, Elsewhere, mail, services
<1>2. FilesTyped' /\ PagesTyped' /\ Single'
  BY <1>1 DEF IInv, Data, FilesTyped, PagesTyped, Single
<1>3. Queued'
  BY <1>1 DEF IInv, Data, FilesTyped, Queued, Ready, Prompted, HasPage, HasCleaning, HasEvent, Mails
<1>4. Said' /\ Changed' /\ Cancelled'
  BY <1>1 DEF IInv, Data, Said, Changed, Arrived, Cancelled, CleaningsDone, EventsDone, HasPage, HasCleaning
<1> QED  BY <1>1, <1>2, <1>3, <1>4 DEF Data, BotUndisturbed, PollerUndisturbed, Prompted

\* The cleaning's request file is there before the cleaner is asked.
LEMMA OfferWritten ==
    ASSUME IInv, Elsewhere, HasCleaning, 1 \notin offered, offered' = offered \cup {1},
           UNCHANGED <<queue, change, notices, door, request>>
    PROVE  Data' /\ BotUndisturbed /\ told'["offer"] = 0
<1>1. /\ inbox' = inbox /\ seen' = seen /\ polled' = polled
      /\ queue' = queue /\ change' = change /\ notices' = notices
      /\ door' = door /\ request' = request
      /\ reservations' = reservations /\ cleanings' = cleanings /\ events' = events
      /\ finance' = finance /\ stored' = stored /\ told' = told
  BY DEF Elsewhere, mail, services
<1>2. offered = {}  BY Pages DEF IInv, Data, FilesTyped
<1>3. FilesTyped' /\ PagesTyped' /\ Single'
  BY <1>1 DEF IInv, Data, FilesTyped, PagesTyped, Single, HasCleaning
<1>4. Said' /\ told'["offer"] = 0  BY <1>1, <1>2 DEF IInv, Data, Said
<1>5. Changed' /\ Queued' /\ Cancelled'
  BY <1>1 DEF IInv, Data, Changed, Arrived, Queued, Ready, Prompted, Cancelled, CleaningsDone, EventsDone,
     HasPage, HasCleaning, HasEvent
<1> QED  BY <1>1, <1>3, <1>4, <1>5 DEF Data, BotUndisturbed

LEMMA DoorWritten ==
    ASSUME IInv, Elsewhere, NEW d \in {"PENDING_DELIVERY", "PENDING_OPERATOR_INPUT", "SYNCED", "FAILED_RETRY_REQUIRED"},
           SetDoor(d), d = "SYNCED" => stored
    PROVE  Data' /\ BotUndisturbed /\ PollerUndisturbed /\ Prompted'
<1>1. /\ inbox' = inbox /\ seen' = seen /\ polled' = polled
      /\ queue' = queue /\ change' = change /\ notices' = notices
      /\ offered' = offered /\ door' = d /\ request' = request
      /\ reservations' = reservations /\ cleanings' = cleanings /\ events' = events
      /\ finance' = finance /\ stored' = stored /\ told' = told
  BY DEF SetDoor, Elsewhere, mail, services
<1>2. FilesTyped' /\ PagesTyped' /\ Single'
  BY <1>1 DEF IInv, Data, FilesTyped, PagesTyped, Single
<1>3. Said' /\ Changed' /\ Cancelled'
  BY <1>1 DEF IInv, Data, Said, Changed, Arrived, Cancelled, CleaningsDone, EventsDone, HasPage, HasCleaning
<1>4. Queued' /\ Prompted'
  BY <1>1 DEF IInv, Data, Queued, Ready, Prompted, HasPage, HasCleaning, HasEvent
<1> QED  BY <1>1, <1>2, <1>3, <1>4 DEF Data, BotUndisturbed, PollerUndisturbed

LEMMA NoticeWritten ==
    ASSUME IInv, Elsewhere, NEW k \in {"review", "applied"}, NEW s \in {"PENDING_DELIVERY", "SENT"},
           SetNotice(k, s)
    PROVE  Data' /\ BotUndisturbed /\ notices'[k] = s /\ told' = told /\ seen' = seen /\ change' = change
           /\ reservations' = reservations
<1>1. /\ inbox' = inbox /\ seen' = seen /\ polled' = polled
      /\ queue' = queue /\ change' = change /\ notices' = [notices EXCEPT ![k] = s]
      /\ offered' = offered /\ door' = door /\ request' = request
      /\ reservations' = reservations /\ cleanings' = cleanings /\ events' = events
      /\ finance' = finance /\ stored' = stored /\ told' = told
  BY DEF SetNotice, Elsewhere, mail, services
<1>2. /\ notices' \in [{"review", "applied"} -> {"none", "PENDING_DELIVERY", "SENT"}]
      /\ notices'[k] = s
      /\ \A j \in {"review", "applied"} : notices'[j] = "none" => notices[j] = "none"
  BY <1>1 DEF IInv, Data, FilesTyped
<1>3. FilesTyped' /\ PagesTyped' /\ Single'
  BY <1>1, <1>2 DEF IInv, Data, FilesTyped, PagesTyped, Single
<1>4. Said'  BY <1>1, <1>2 DEF IInv, Data, Said
<1>5. Changed' /\ Queued' /\ Cancelled'
  BY <1>1 DEF IInv, Data, Changed, Arrived, Queued, Ready, Prompted, Cancelled, CleaningsDone, EventsDone,
     HasPage, HasCleaning, HasEvent
<1> QED  BY <1>1, <1>2, <1>3, <1>4, <1>5 DEF Data, BotUndisturbed

\* A pending change is spent only when the page has it and its mail is processed.
LEMMA ChangeSpent ==
    ASSUME IInv, Elsewhere, change' = "APPLIED", change # "none", "requested" \in seen,
           UNCHANGED <<queue, notices, offered, door, request>>
    PROVE  Data' /\ BotUndisturbed /\ seen' = seen /\ reservations' = reservations
<1>1. /\ inbox' = inbox /\ seen' = seen /\ polled' = polled
      /\ queue' = queue /\ notices' = notices
      /\ offered' = offered /\ door' = door /\ request' = request
      /\ reservations' = reservations /\ cleanings' = cleanings /\ events' = events
      /\ finance' = finance /\ stored' = stored /\ told' = told
  BY DEF Elsewhere, mail, services
<1>2. FilesTyped' /\ PagesTyped' /\ Single'
  BY <1>1 DEF IInv, Data, FilesTyped, PagesTyped, Single
<1>3. Changed'  BY <1>1 DEF IInv, Data, Changed, Arrived, HasPage
<1>4. Said' /\ Queued' /\ Cancelled'
  BY <1>1 DEF IInv, Data, Said, Queued, Ready, Prompted, Cancelled, CleaningsDone, EventsDone,
     HasPage, HasCleaning, HasEvent
<1> QED  BY <1>1, <1>2, <1>3, <1>4 DEF Data, BotUndisturbed

\* The approval's file: a new proposal, or another status of the one there is.
LEMMA RequestWritten ==
    ASSUME IInv, Elsewhere, NEW r, SetRequest(r), HasPage,
           r \in [status : {"PENDING", "APPROVED", "REJECTED", "EXECUTED", "RETRY"},
                  cleanings : SUBSET DOMAIN cleanings, events : SUBSET DOMAIN events],
           r.status = "EXECUTED" =>
               /\ r.cleanings = request.cleanings /\ r.events = request.events
               /\ ~reservations[1].live /\ CleaningsDone /\ EventsDone /\ finance = 1
    PROVE  /\ Data' /\ request' = r
           /\ seen' = seen /\ change' = change /\ notices' = notices /\ offered' = offered /\ door' = door
           /\ reservations' = reservations /\ cleanings' = cleanings /\ events' = events
           /\ finance' = finance /\ stored' = stored /\ told' = told
<1>1. /\ inbox' = inbox /\ seen' = seen /\ polled' = polled
      /\ queue' = queue /\ change' = change /\ notices' = notices
      /\ offered' = offered /\ door' = door /\ request' = r
      /\ reservations' = reservations /\ cleanings' = cleanings /\ events' = events
      /\ finance' = finance /\ stored' = stored /\ told' = told
  BY DEF SetRequest, Elsewhere, mail, services
<1>2. r \in [status : {"none", "PENDING", "APPROVED", "REJECTED", "EXECUTED", "RETRY"},
             cleanings : SUBSET DOMAIN cleanings, events : SUBSET DOMAIN events]
      /\ r.status # "none"
  OBVIOUS
<1>3. FilesTyped' /\ PagesTyped' /\ Single'
  BY <1>1, <1>2 DEF IInv, Data, FilesTyped, PagesTyped, Single
<1>4. Said'  BY <1>1, <1>2 DEF IInv, Data, Said
<1>5. Changed' /\ Queued'
  BY <1>1 DEF IInv, Data, Changed, Arrived, Queued, Ready, Prompted, HasPage, HasCleaning, HasEvent
<1>6. Cancelled'
  BY <1>1 DEF IInv, Data, Cancelled, CleaningsDone, EventsDone, HasPage, HasCleaning
<1> QED  BY <1>1, <1>3, <1>4, <1>5, <1>6 DEF Data

-----------------------------------------------------------------------------
(* Requests that had an effect                                             *)

\* Every local file stands.
FilesStand == UNCHANGED <<mail, files>>

LEMMA FilesForm ==
    ASSUME FilesStand
    PROVE  /\ inbox' = inbox /\ seen' = seen /\ polled' = polled
           /\ queue' = queue /\ change' = change /\ notices' = notices
           /\ offered' = offered /\ door' = door /\ request' = request
BY DEF FilesStand, mail, files

\* What was there is there still.
PagesGrow ==
    /\ HasPage => HasPage' /\ reservations'[1].guests = reservations[1].guests
                  /\ reservations'[1].live = reservations[1].live
    /\ DOMAIN cleanings \subseteq DOMAIN cleanings' /\ DOMAIN events \subseteq DOMAIN events'
    /\ \A c \in DOMAIN cleanings :
          /\ cleanings'[c].state = cleanings[c].state
          /\ cleanings[c].event = 1 => cleanings'[c].event = 1
    /\ \A e \in DOMAIN events : events'[e].cancelled = events[e].cancelled
    /\ \A c \in DOMAIN cleanings' \ DOMAIN cleanings : cleanings'[c].state = "open"
    /\ finance' = finance /\ stored' = stored /\ told' = told

LEMMA Created ==
    ASSUME IInv, FilesStand, PagesTyped', Single', PagesGrow
    PROVE  Data' /\ BotUndisturbed
<1>1. request.cleanings \subseteq DOMAIN cleanings /\ request.events \subseteq DOMAIN events
  BY DEF IInv, Data, FilesTyped
<1>2. FilesTyped'
  <2>1. DOMAIN cleanings \subseteq DOMAIN cleanings' /\ DOMAIN events \subseteq DOMAIN events'
    BY DEF PagesGrow
  <2> QED  BY <2>1, FilesForm DEF IInv, Data, FilesTyped
<1>3. Said' /\ Changed'  BY FilesForm DEF PagesGrow, IInv, Data, Said, Changed, Arrived
<1>4. Ready => Ready'
  BY FilesForm DEF PagesGrow, Ready, Prompted, HasPage, HasCleaning, HasEvent
<1>5. Queued'  BY <1>4, FilesForm DEF IInv, Data, Queued
<1>6. CleaningsDone => CleaningsDone'  BY <1>1, FilesForm DEF PagesGrow, CleaningsDone
<1>7. EventsDone => EventsDone'  BY <1>1, FilesForm DEF PagesGrow, EventsDone
<1>8. HasCleaning => HasPage  BY Pages DEF IInv, Data
<1>9. Cancelled'
  BY <1>6, <1>7, <1>8, FilesForm DEF PagesGrow, IInv, Data, Cancelled, HasCleaning
<1> QED  BY <1>2, <1>3, <1>5, <1>9, FilesForm DEF Data, BotUndisturbed, PagesGrow

LEMMA PageCreated ==
    ASSUME IInv, FilesStand, reservations = << >>, CreateReservation
    PROVE  Data' /\ BotUndisturbed /\ HasPage'
<1> DEFINE R == [live : BOOLEAN, review : BOOLEAN, guests : {"booked", "requested"}]
           r == [live |-> TRUE, review |-> FALSE, guests |-> "booked"]
<1> USE DEF IInv, Data
<1>1. /\ reservations' = Append(reservations, r)
      /\ cleanings' = cleanings /\ events' = events
      /\ finance' = finance /\ stored' = stored /\ told' = told
  BY DEF CreateReservation
<1>2. r \in R /\ reservations \in Seq(R)  BY DEF PagesTyped
<1>3. reservations' \in Seq(R) /\ Len(reservations') = 1
  <2>1. Len(reservations) = 0  BY EmptySeq
  <2> HIDE DEF R, r
  <2> QED  BY <1>1, <1>2, <2>1, AppendProperties
<1>4. HasPage' /\ DOMAIN reservations \subseteq DOMAIN reservations'
  BY <1>3, LenProperties, Pages DEF HasPage
<1>5. PagesTyped'
  <2>1. cleanings \in Seq([of : DOMAIN reservations', event : 0..Len(events), state : {"open", "done", "cancelled"}])
    BY <1>4, SeqMonotonic DEF PagesTyped
  <2>2. events \in Seq([of : DOMAIN reservations', cancelled : BOOLEAN])
    BY <1>4, SeqMonotonic DEF PagesTyped
  <2> QED  BY <1>1, <1>3, <2>1, <2>2 DEF PagesTyped
<1>6. Single'  BY <1>1, <1>3 DEF Single
<1>7. PagesGrow  BY <1>1, <1>4, Pages DEF PagesGrow
<1> QED  BY <1>4, <1>5, <1>6, <1>7, Created

LEMMA CleaningCreated ==
    ASSUME IInv, FilesStand, HasPage, CleaningsOf(TheReservation) = {}, CreateCleaning
    PROVE  Data' /\ BotUndisturbed /\ HasPage' /\ HasCleaning'
<1> DEFINE C == [of : DOMAIN reservations, event : 0..Len(events), state : {"open", "done", "cancelled"}]
           c == [of |-> 1, event |-> 0, state |-> "open"]
<1> USE DEF IInv, Data
<1>1. /\ cleanings' = Append(cleanings, c)
      /\ reservations' = reservations /\ events' = events
      /\ finance' = finance /\ stored' = stored /\ told' = told
  BY Queries DEF CreateCleaning
<1>2. c \in C /\ cleanings \in Seq(C)  BY Pages DEF PagesTyped, HasPage
<1>3. Len(cleanings) = 0
  <2>1. DOMAIN cleanings = {}  BY Queries
  <2>2. Len(cleanings) \in 0..1 /\ DOMAIN cleanings = 1..Len(cleanings)  BY Pages
  <2> QED  BY <2>1, <2>2
<1>4. cleanings' \in Seq(C) /\ Len(cleanings') = 1 /\ cleanings'[1] = c
  <2> HIDE DEF C, c
  <2> QED  BY <1>1, <1>2, <1>3, AppendProperties
<1>5. HasPage' /\ HasCleaning' /\ DOMAIN cleanings' = {1} /\ DOMAIN cleanings = {}
  <2>1. DOMAIN cleanings' = 1..1  BY <1>4, LenProperties
  <2> QED  BY <1>1, <1>3, <2>1, Pages DEF HasPage, HasCleaning
<1>6. PagesTyped'  BY <1>1, <1>4 DEF PagesTyped
<1>7. Single'  BY <1>1, <1>4 DEF Single
<1>8. PagesGrow  BY <1>1, <1>4, <1>5 DEF PagesGrow
<1> QED  BY <1>5, <1>6, <1>7, <1>8, Created

LEMMA EventCreated ==
    ASSUME IInv, FilesStand, HasPage, EventsOf(TheReservation) = {}, InsertEvent
    PROVE  /\ Data' /\ BotUndisturbed /\ HasPage' /\ HasEvent'
           /\ cleanings' = cleanings
<1> DEFINE E == [of : DOMAIN reservations, cancelled : BOOLEAN]
           e == [of |-> 1, cancelled |-> FALSE]
<1> USE DEF IInv, Data
<1>1. /\ events' = Append(events, e)
      /\ reservations' = reservations /\ cleanings' = cleanings
      /\ finance' = finance /\ stored' = stored /\ told' = told
  BY Queries DEF InsertEvent
<1>2. e \in E /\ events \in Seq(E)  BY Pages DEF PagesTyped, HasPage
<1>3. Len(events) = 0
  <2>1. DOMAIN events = {}  BY Queries
  <2>2. Len(events) \in 0..1 /\ DOMAIN events = 1..Len(events)  BY Pages
  <2> QED  BY <2>1, <2>2
<1>4. events' \in Seq(E) /\ Len(events') = 1
  <2> HIDE DEF E, e
  <2> QED  BY <1>1, <1>2, <1>3, AppendProperties
<1>5. HasPage' /\ HasEvent' /\ DOMAIN events = {}
  <2>1. DOMAIN events' = 1..1  BY <1>4, LenProperties
  <2> QED  BY <1>1, <1>3, <2>1, Pages DEF HasPage, HasEvent
<1>6. PagesTyped'
  <2>1. 0..Len(events) \subseteq 0..Len(events')  BY <1>3, <1>4
  <2>2. cleanings \in Seq([of : DOMAIN reservations, event : 0..Len(events'), state : {"open", "done", "cancelled"}])
    BY <2>1, SeqMonotonic DEF PagesTyped
  <2> QED  BY <1>1, <1>4, <2>2 DEF PagesTyped
<1>7. Single'  BY <1>1, <1>4 DEF Single
<1>8. PagesGrow  BY <1>1, <1>5 DEF PagesGrow, HasPage
<1> QED  BY <1>1, <1>5, <1>6, <1>7, <1>8, Created

LEMMA CleaningBound ==
    ASSUME IInv, FilesStand, HasPage, HasCleaning, HasEvent, FinalizeCleaning
    PROVE  /\ Data' /\ BotUndisturbed /\ HasPage' /\ HasCleaning' /\ HasEvent'
           /\ cleanings'[1].event = 1
<1> DEFINE C == [of : DOMAIN reservations, event : 0..Len(events), state : {"open", "done", "cancelled"}]
           c == [cleanings[1] EXCEPT !.event = 1]
<1> USE DEF IInv, Data
<1>1. /\ cleanings' = [cleanings EXCEPT ![1] = c]
      /\ reservations' = reservations /\ events' = events
      /\ finance' = finance /\ stored' = stored /\ told' = told
  BY Queries DEF FinalizeCleaning
<1>2. cleanings \in Seq(C) /\ DOMAIN cleanings = {1} /\ Len(cleanings) = 1 /\ Len(events) = 1
  BY Pages DEF PagesTyped
<1>3. c \in C /\ c.event = 1 /\ c.state = cleanings[1].state
  BY <1>2, Entries, Pages
<1>4. cleanings' \in Seq(C) /\ Len(cleanings') = 1 /\ cleanings'[1] = c
  <2>1. 1 \in 1..Len(cleanings)  BY <1>2
  <2>2. c \in C  BY <1>3
  <2>3. cleanings \in Seq(C)  BY <1>2
  <2> HIDE DEF C, c
  <2>4. /\ [cleanings EXCEPT ![1] = c] \in Seq(C)
        /\ Len([cleanings EXCEPT ![1] = c]) = Len(cleanings)
        /\ [cleanings EXCEPT ![1] = c][1] = c
    BY <2>1, <2>2, <2>3, ExceptSeq
  <2> QED  BY <1>1, <1>2, <2>4
<1>5. DOMAIN cleanings' = {1}
  <2>1. DOMAIN cleanings' = 1..1  BY <1>4, LenProperties
  <2> QED  BY <2>1
<1>6. PagesTyped'  BY <1>1, <1>4 DEF PagesTyped
<1>7. Single'  BY <1>1, <1>4 DEF Single
<1>8. PagesGrow  BY <1>1, <1>2, <1>3, <1>4, <1>5 DEF PagesGrow, HasPage
<1>9. HasPage' /\ HasCleaning' /\ HasEvent' /\ cleanings'[1].event = 1
  BY <1>1, <1>3, <1>4, <1>5 DEF HasPage, HasCleaning, HasEvent
<1> QED  BY <1>6, <1>7, <1>8, <1>9, Created

LEMMA Spoken ==
    ASSUME IInv, FilesStand, NEW k \in Told, Tell(k), k \in {"code", "cleaner"} \/ told[k] = 0,
           k = "offer" => offered # {},
           k = "door" => Prompted,
           k \in {"review", "applied"} => notices[k] # "none",
           k = "applied" => change = "APPLIED" /\ HasPage /\ reservations[1].guests = "requested",
           k = "approval" => request.status # "none"
    PROVE  /\ Data'
           /\ k # "cleaner" => BotUndisturbed
           /\ k \in {"cleaner", "code"} => PollerUndisturbed
           /\ reservations' = reservations /\ cleanings' = cleanings /\ events' = events
           /\ finance' = finance
<1> USE DEF IInv, Data
<1>1. /\ told' = [told EXCEPT ![k] = told[k] + 1]
      /\ reservations' = reservations /\ cleanings' = cleanings /\ events' = events
      /\ finance' = finance /\ stored' = stored
  BY DEF Tell
<1>2. told \in [Told -> Nat]  BY DEF PagesTyped
<1>3. /\ told' \in [Told -> Nat]
      /\ k \notin {"code", "cleaner"} => told'[k] = 1
      /\ \A j \in Told \ {k} : told'[j] = told[j]
  BY <1>1, <1>2
<1>4. PagesTyped' /\ FilesTyped' /\ Single'
  BY <1>1, <1>3, FilesForm DEF PagesTyped, FilesTyped, Single
<1>5. Said'
  <2>1. \A j \in Told \ {"code", "cleaner"} : told'[j] <= 1  BY <1>3 DEF Said
  <2>2. /\ (offered = {} => told'["offer"] = 0)
        /\ (door = "none" => told'["door"] = 0)
        /\ (request.status = "none" => told'["approval"] = 0)
    BY <1>3 DEF Said, Told, Prompted
  <2>3. \A j \in {"review", "applied"} : notices[j] = "none" => told'[j] = 0
    BY <1>3 DEF Said, Told
  <2> QED  BY <2>1, <2>2, <2>3, FilesForm DEF Said
<1>6. Changed'
  <2>1. told'["applied"] > 0 => k = "applied" \/ told["applied"] > 0  BY <1>3 DEF Told
  <2> QED  BY <1>1, <2>1, FilesForm DEF Changed, Arrived, HasPage
<1>7. Queued' /\ Cancelled'
  BY <1>1, FilesForm DEF Queued, Ready, Prompted, Cancelled, CleaningsDone, EventsDone, HasPage, HasCleaning, HasEvent
<1>8. k # "cleaner" => BotUndisturbed  BY <1>1, <1>3, FilesForm DEF BotUndisturbed, Told
<1>9. k \in {"cleaner", "code"} => PollerUndisturbed
  BY <1>1, <1>3, FilesForm DEF PollerUndisturbed, Prompted
<1> QED  BY <1>1, <1>4, <1>5, <1>6, <1>7, <1>8, <1>9

\* The page is patched: it never comes alive again, nor gets its first guests back.
LEMMA PagePatched ==
    ASSUME IInv, FilesStand, HasPage,
           NEW r \in [live : BOOLEAN, review : BOOLEAN, guests : {"booked", "requested"}],
           reservations' = [reservations EXCEPT ![1] = r],
           UNCHANGED <<cleanings, events, finance, stored, told>>,
           r.live => reservations[1].live,
           reservations[1].guests = "requested" => r.guests = "requested"
    PROVE  /\ Data' /\ HasPage' /\ reservations'[1] = r
           /\ r.live = reservations[1].live => BotUndisturbed
           /\ r.guests = reservations[1].guests => PollerUndisturbed
<1> DEFINE R == [live : BOOLEAN, review : BOOLEAN, guests : {"booked", "requested"}]
<1> USE DEF IInv, Data
<1>1. reservations \in Seq(R) /\ 1 \in 1..Len(reservations) /\ Len(reservations) = 1
  BY Pages DEF PagesTyped, HasPage
<1>2. reservations' \in Seq(R) /\ Len(reservations') = 1 /\ reservations'[1] = r
  <2>1. r \in R  OBVIOUS
  <2> HIDE DEF R
  <2>2. /\ [reservations EXCEPT ![1] = r] \in Seq(R)
        /\ Len([reservations EXCEPT ![1] = r]) = Len(reservations)
        /\ [reservations EXCEPT ![1] = r][1] = r
    BY <1>1, <2>1, ExceptSeq
  <2> QED  BY <1>1, <2>2
<1>3. DOMAIN reservations' = DOMAIN reservations /\ HasPage'
  BY <1>1, <1>2, LenProperties DEF HasPage
<1>4. PagesTyped' /\ FilesTyped' /\ Single'
  BY <1>2, <1>3, FilesForm DEF PagesTyped, FilesTyped, Single
<1>5. Said' /\ Changed'  BY <1>2, <1>3, FilesForm DEF Said, Changed, Arrived
<1>6. Queued' /\ Cancelled'
  BY <1>2, <1>3, FilesForm DEF Queued, Ready, Prompted, Cancelled, CleaningsDone, EventsDone, HasCleaning, HasEvent
<1>7. r.live = reservations[1].live => BotUndisturbed  BY <1>2, <1>3, FilesForm DEF BotUndisturbed
<1>8. r.guests = reservations[1].guests => PollerUndisturbed
  BY <1>2, <1>3, FilesForm DEF PollerUndisturbed, Prompted
<1> QED  BY <1>2, <1>3, <1>4, <1>5, <1>6, <1>7, <1>8

\* A cleaning ends: completed by its cleaner, or cancelled under a page that is cancelled.
LEMMA CleaningEnded ==
    ASSUME IInv, FilesStand, HasCleaning, NEW s \in {"done", "cancelled"},
           cleanings' = [cleanings EXCEPT ![1].state = s],
           UNCHANGED <<reservations, events, finance, stored, told>>,
           s = "cancelled" => ~reservations[1].live
    PROVE  Data' /\ BotUndisturbed /\ PollerUndisturbed
<1> DEFINE C == [of : DOMAIN reservations, event : 0..Len(events), state : {"open", "done", "cancelled"}]
           c == [cleanings[1] EXCEPT !.state = s]
<1> USE DEF IInv, Data
<1>1. cleanings \in Seq(C) /\ 1 \in 1..Len(cleanings) /\ Len(cleanings) = 1 /\ DOMAIN cleanings = {1}
  BY Pages DEF PagesTyped, HasCleaning
<1>2. c \in C /\ c.state = s /\ c.event = cleanings[1].event  BY Entries, Pages
<1>3. cleanings' = [cleanings EXCEPT ![1] = c]  OBVIOUS
<1>4. cleanings' \in Seq(C) /\ Len(cleanings') = 1 /\ cleanings'[1] = c
  <2>1. c \in C  BY <1>2
  <2>2. cleanings \in Seq(C) /\ 1 \in 1..Len(cleanings)  BY <1>1
  <2> HIDE DEF C, c
  <2>3. /\ [cleanings EXCEPT ![1] = c] \in Seq(C)
        /\ Len([cleanings EXCEPT ![1] = c]) = Len(cleanings)
        /\ [cleanings EXCEPT ![1] = c][1] = c
    BY <2>1, <2>2, ExceptSeq
  <2>4. Len(cleanings) = 1  BY <1>1
  <2> QED  BY <1>3, <2>3, <2>4
<1>5. DOMAIN cleanings' = {1}
  <2>1. DOMAIN cleanings' = 1..1  BY <1>4, LenProperties
  <2> QED  BY <2>1
<1> HIDE DEF c
<1>6. PagesTyped' /\ FilesTyped' /\ Single'
  BY <1>1, <1>4, <1>5, FilesForm DEF PagesTyped, FilesTyped, Single
<1>7. Said' /\ Changed'  BY FilesForm DEF Said, Changed, Arrived, HasPage
<1>8. Queued'
  BY <1>1, <1>2, <1>4, <1>5, FilesForm DEF Queued, Ready, Prompted, HasPage, HasCleaning, HasEvent
<1>9. CleaningsDone => CleaningsDone'
  <2>1. \A x \in request.cleanings : x = 1  BY <1>1 DEF FilesTyped
  <2> QED  BY <1>2, <1>4, <2>1, FilesForm DEF CleaningsDone
<1>10. Cancelled'
  BY <1>2, <1>4, <1>9, FilesForm DEF Cancelled, EventsDone, HasPage, HasCleaning
<1>11. BotUndisturbed  BY <1>1, <1>2, <1>4, FilesForm DEF BotUndisturbed
<1>12. PollerUndisturbed
  BY <1>1, <1>2, <1>4, <1>5, FilesForm DEF PollerUndisturbed, Prompted, HasPage
<1> QED  BY <1>6, <1>7, <1>8, <1>10, <1>11, <1>12

LEMMA EventEnded ==
    ASSUME IInv, FilesStand, HasEvent,
           events' = [events EXCEPT ![1].cancelled = TRUE],
           UNCHANGED <<reservations, cleanings, finance, stored, told>>
    PROVE  Data' /\ PollerUndisturbed /\ events'[1].cancelled
<1> DEFINE E == [of : DOMAIN reservations, cancelled : BOOLEAN]
           e == [events[1] EXCEPT !.cancelled = TRUE]
<1> USE DEF IInv, Data
<1>1. events \in Seq(E) /\ 1 \in 1..Len(events) /\ Len(events) = 1 /\ DOMAIN events = {1}
  BY Pages DEF PagesTyped, HasEvent
<1>2. e \in E /\ e.cancelled  BY Entries, Pages
<1>3. events' = [events EXCEPT ![1] = e]  OBVIOUS
<1>4. events' \in Seq(E) /\ Len(events') = 1 /\ events'[1] = e
  <2>1. e \in E  BY <1>2
  <2>2. events \in Seq(E)  BY <1>1
  <2> HIDE DEF E, e
  <2>3. /\ [events EXCEPT ![1] = e] \in Seq(E)
        /\ Len([events EXCEPT ![1] = e]) = Len(events)
        /\ [events EXCEPT ![1] = e][1] = e
    BY <1>1, <2>1, <2>2, ExceptSeq
  <2> QED  BY <1>1, <1>3, <2>3
<1>5. DOMAIN events' = {1}
  <2>1. DOMAIN events' = 1..1  BY <1>4, LenProperties
  <2> QED  BY <2>1
<1> HIDE DEF e
<1>6. PagesTyped' /\ FilesTyped' /\ Single'
  BY <1>1, <1>4, <1>5, FilesForm DEF PagesTyped, FilesTyped, Single
<1>7. Said' /\ Changed'  BY FilesForm DEF Said, Changed, Arrived, HasPage
<1>8. Queued'
  BY <1>1, <1>5, FilesForm DEF Queued, Ready, Prompted, HasPage, HasCleaning, HasEvent
<1>9. EventsDone'
  <2>1. \A x \in request.events : x = 1  BY <1>1 DEF FilesTyped
  <2> QED  BY <1>2, <1>4, <2>1, FilesForm DEF EventsDone
<1>10. Cancelled'
  BY <1>9, FilesForm DEF Cancelled, CleaningsDone, HasPage, HasCleaning
<1>11. PollerUndisturbed  BY <1>1, <1>5, FilesForm DEF PollerUndisturbed, Prompted, HasPage
<1> QED  BY <1>2, <1>4, <1>6, <1>7, <1>8, <1>10, <1>11

\* The adjustment row, once, and the door code.
LEMMA RowOrCode ==
    ASSUME IInv, FilesStand, UNCHANGED <<reservations, cleanings, events, told>>,
           \/ finance = 0 /\ finance' = finance + 1 /\ stored' = stored
           \/ stored' = TRUE /\ finance' = finance
    PROVE  Data' /\ PollerUndisturbed
<1> USE DEF IInv, Data
<1>1. finance' \in Nat /\ stored' \in BOOLEAN /\ finance' <= 1 /\ (finance = 1 => finance' = 1)
      /\ (stored => stored')
  <2>1. CASE finance = 0 /\ finance' = finance + 1 /\ stored' = stored  BY <2>1 DEF PagesTyped
  <2>2. CASE stored' = TRUE /\ finance' = finance  BY <2>2 DEF PagesTyped, Single
  <2> QED  BY <2>1, <2>2
<1>2. PagesTyped' /\ FilesTyped' /\ Single'
  BY <1>1, FilesForm DEF PagesTyped, FilesTyped, Single
<1>3. Said' /\ Changed'  BY FilesForm DEF Said, Changed, Arrived, HasPage
<1>4. Queued'
  BY FilesForm DEF Queued, Ready, Prompted, HasPage, HasCleaning, HasEvent
<1>5. Cancelled'
  BY <1>1, FilesForm DEF Cancelled, CleaningsDone, EventsDone, HasPage, HasCleaning
<1>6. PollerUndisturbed  BY FilesForm DEF PollerUndisturbed, Prompted
<1> QED  BY <1>2, <1>3, <1>4, <1>5, <1>6

-----------------------------------------------------------------------------
(* The poller's steps                                                      *)

\* Whatever comes of a step at an item, what the data say is kept; the next place must be earned.
LEMMA PollerSteps ==
    ASSUME IInv, pc[Poller] \notin {"idle", "walk"}, Fine \/ Trouble, Data', BotUndisturbed,
           seen' = seen, change' = change,
           \/ \E l \in Positions : Go(Poller, l) /\ Pledge(l)'
           \/ Go(Poller, "uncertain") \/ Leave(Poller) \/ Return
    PROVE  IInv'
<1>1. CASE \E l \in Positions : Go(Poller, l) /\ Pledge(l)'
  <2>1. PICK l \in Positions : Go(Poller, l) /\ Pledge(l)'  BY <1>1
  <2> QED  BY <2>1, PollerGoes
<1>2. CASE Go(Poller, "uncertain")
  <2>1. "uncertain" \in Positions  BY DEF Positions
  <2>2. Pledge("uncertain")'
    BY <1>2 DEF IInv, Pledge, Item, Booked, Applied, Asking, Confirming, Updating, Go
  <2> QED  BY <1>2, <2>1, <2>2, PollerGoes
<1>3. CASE Leave(Poller)  BY <1>3, PollerLeaves
<1>4. CASE Return  BY <1>4, PollerReturns
<1> QED  BY <1>1, <1>2, <1>3, <1>4

\* The same for a step that changes nothing but the poller's place.
LEMMA PollerSkips ==
    ASSUME IInv, UNCHANGED mail, pc[Poller] \notin {"idle", "walk"}, NEW l \in Positions,
           Skip(Poller, l) \/ ReadRaises(Poller, l), Pledge(l)' \/ l = "uncertain"
    PROVE  IInv'
<1>1. UNCHANGED <<mail, files, services>> /\ (Fine \/ Trouble) /\ Go(Poller, l)  BY DEF Skip, ReadRaises
<1>2. seen' = seen /\ change' = change  BY <1>1 DEF mail, files
<1> QED  BY <1>1, <1>2, Still, PollerSteps

\* Where the poller is at an item, the item can be given any status but the one that is to be earned.
LEMMA PollerFinishes ==
    ASSUME IInv, UNCHANGED <<mail, services>>, pc[Poller] \notin {"idle", "walk"}, Fine \/ Trouble,
           NEW s \in Statuses, SetItem(ByHash[at], s), Return,
           ByHash[at] = "confirmed" /\ s = "COMPLETE" => Ready
    PROVE  IInv'
<1>1. at \in DOMAIN ByHash /\ ByHash[at] # "requested"  BY DEF IInv, Pledge, Item
<1>2. ByHash[at] \in Mails  BY <1>1, ElementOfSeq, LenProperties, BookingAssumption
<1>3. Data' /\ BotUndisturbed  BY <1>1, <1>2, ItemWritten DEF Elsewhere
<1>4. seen' = seen /\ change' = change  BY DEF mail, SetItem
<1> QED  BY <1>3, <1>4, PollerSteps

LEMMA RaisedSource ==
    ASSUME IInv, UNCHANGED mail, pc[Poller] \notin {"idle", "walk"}, SourceRaises
    PROVE  IInv'
BY PollerFinishes DEF SourceRaises, Statuses

LEMMA ReserveStep ==
    ASSUME IInv, Reserve, UNCHANGED mail
    PROVE  IInv'
<1>1. pc[Poller] = "reserve" /\ Pledge("reserve") /\ "clean" \in Positions  BY DEF Reserve, IInv, Positions
<1>2. CASE SourceRaises  BY <1>1, <1>2, RaisedSource
<1>3. ASSUME Go(Poller, "clean"), seen' = seen, change' = change, HasPage' PROVE Pledge("clean")'
  BY <1>1, <1>3 DEF Pledge, Item, Booked, Applied, Asking, Confirming, Updating, Go
<1>4. CASE reservations # << >> /\ Skip(Poller, "clean")
  <2>1. HasPage /\ UNCHANGED files /\ UNCHANGED services /\ Go(Poller, "clean")
    BY <1>4, Pages DEF IInv, Data, Skip
  <2>2. Pledge("clean")'  BY <1>3, <2>1 DEF mail, files, services, HasPage
  <2> QED  BY <1>1, <1>4, <2>2, PollerSkips
<1>5. CASE reservations = << >> /\ Request(Poller, CreateReservation, "clean", "uncertain")
  <2>1. /\ FilesStand
        /\ \/ CreateReservation /\ Fine /\ Go(Poller, "clean")
           \/ (CreateReservation \/ UNCHANGED services) /\ Trouble /\ Go(Poller, "uncertain")
           \/ UNCHANGED services /\ Fine /\ Leave(Poller)
    BY <1>5 DEF Request, FilesStand
  <2>2. seen' = seen /\ change' = change  BY <2>1, FilesForm
  <2>3. CreateReservation => Data' /\ BotUndisturbed /\ HasPage'  BY <1>5, <2>1, PageCreated
  <2>4. UNCHANGED services => Data' /\ BotUndisturbed  BY <2>1, Still DEF FilesStand
  <2> QED  BY <1>1, <1>3, <2>1, <2>2, <2>3, <2>4, PollerSteps
<1> QED  BY <1>2, <1>4, <1>5 DEF Reserve, Ensure

LEMMA CleanStep ==
    ASSUME IInv, Clean, UNCHANGED mail
    PROVE  IInv'
<1>1. pc[Poller] = "clean" /\ Pledge("clean") /\ HasPage /\ "book" \in Positions /\ "uncertain" \in Positions
  BY DEF Clean, IInv, Pledge, Booked, Confirming, Positions
<1>2. CASE ReadRaises(Poller, "uncertain")  BY <1>1, <1>2, PollerSkips
<1>3. ASSUME Go(Poller, "book"), seen' = seen, change' = change, HasPage', HasCleaning' PROVE Pledge("book")'
  BY <1>1, <1>3 DEF Pledge, Item, Booked, Applied, Asking, Confirming, Updating, Go
<1>4. CASE CleaningsOf(TheReservation) # {} /\ Skip(Poller, "book")
  <2>1. HasCleaning /\ UNCHANGED files /\ UNCHANGED services /\ Go(Poller, "book")
    BY <1>1, <1>4, Pages, Queries DEF IInv, Data, Skip, HasCleaning
  <2>2. Pledge("book")'  BY <1>1, <1>3, <2>1 DEF mail, files, services, HasPage, HasCleaning
  <2> QED  BY <1>1, <1>4, <2>2, PollerSkips
<1>5. CASE CleaningsOf(TheReservation) = {} /\ Request(Poller, CreateCleaning, "book", "uncertain")
  <2>1. /\ FilesStand
        /\ \/ CreateCleaning /\ Fine /\ Go(Poller, "book")
           \/ (CreateCleaning \/ UNCHANGED services) /\ Trouble /\ Go(Poller, "uncertain")
           \/ UNCHANGED services /\ Fine /\ Leave(Poller)
    BY <1>5 DEF Request, FilesStand
  <2>2. seen' = seen /\ change' = change  BY <2>1, FilesForm
  <2>3. CreateCleaning => Data' /\ BotUndisturbed /\ HasPage' /\ HasCleaning'
    BY <1>1, <1>5, <2>1, CleaningCreated
  <2>4. UNCHANGED services => Data' /\ BotUndisturbed  BY <2>1, Still DEF FilesStand
  <2> QED  BY <1>1, <1>3, <2>1, <2>2, <2>3, <2>4, PollerSteps
<1> QED  BY <1>2, <1>4, <1>5 DEF Clean, Ensure

LEMMA BookStep ==
    ASSUME IInv, Book, UNCHANGED mail
    PROVE  IInv'
<1>1. /\ pc[Poller] = "book" /\ Pledge("book") /\ HasPage /\ HasCleaning
      /\ "bind" \in Positions /\ "uncertain" \in Positions
  BY DEF Book, IInv, Pledge, Booked, Confirming, Positions
<1>2. CASE ReadRaises(Poller, "uncertain")  BY <1>1, <1>2, PollerSkips
<1>3. ASSUME Go(Poller, "bind"), seen' = seen, change' = change, HasPage', HasCleaning', HasEvent'
      PROVE  Pledge("bind")'
  BY <1>1, <1>3 DEF Pledge, Item, Booked, Applied, Asking, Confirming, Updating, Go
<1>4. CASE EventsOf(TheReservation) # {} /\ Skip(Poller, "bind")
  <2>1. HasEvent /\ UNCHANGED files /\ UNCHANGED services /\ Go(Poller, "bind")
    BY <1>1, <1>4, Pages, Queries DEF IInv, Data, Skip, HasEvent
  <2>2. Pledge("bind")'  BY <1>1, <1>3, <2>1 DEF mail, files, services, HasPage, HasCleaning, HasEvent
  <2> QED  BY <1>1, <1>4, <2>2, PollerSkips
<1>5. CASE EventsOf(TheReservation) = {} /\ Request(Poller, InsertEvent, "bind", "uncertain")
  <2>1. /\ FilesStand
        /\ \/ InsertEvent /\ Fine /\ Go(Poller, "bind")
           \/ (InsertEvent \/ UNCHANGED services) /\ Trouble /\ Go(Poller, "uncertain")
           \/ UNCHANGED services /\ Fine /\ Leave(Poller)
    BY <1>5 DEF Request, FilesStand
  <2>2. seen' = seen /\ change' = change  BY <2>1, FilesForm
  <2>3. InsertEvent => Data' /\ BotUndisturbed /\ HasPage' /\ HasEvent' /\ HasCleaning'
    BY <1>1, <1>5, <2>1, EventCreated DEF HasCleaning
  <2>4. UNCHANGED services => Data' /\ BotUndisturbed  BY <2>1, Still DEF FilesStand
  <2> QED  BY <1>1, <1>3, <2>1, <2>2, <2>3, <2>4, PollerSteps
<1> QED  BY <1>2, <1>4, <1>5 DEF Book, Ensure

\* The cleaning is offered only after the PATCH was answered.
LEMMA BindStep ==
    ASSUME IInv, Bind, UNCHANGED mail
    PROVE  IInv'
<1>1. /\ pc[Poller] = "bind" /\ Pledge("bind") /\ HasPage /\ HasCleaning /\ HasEvent
      /\ "offer" \in Positions
  BY DEF Bind, IInv, Pledge, Booked, Confirming, Positions
<1>3. ASSUME Go(Poller, "offer"), seen' = seen, change' = change, HasPage', HasCleaning', HasEvent',
             cleanings'[1].event = 1
      PROVE  Pledge("offer")'
  BY <1>1, <1>3 DEF Pledge, Item, Booked, Applied, Asking, Confirming, Updating, Go
<1>4. /\ FilesStand
      /\ \/ FinalizeCleaning /\ Fine /\ Go(Poller, "offer")
         \/ (FinalizeCleaning \/ UNCHANGED services) /\ Trouble /\ Go(Poller, "uncertain")
         \/ UNCHANGED services /\ Fine /\ Leave(Poller)
  BY DEF Bind, Request, FilesStand
<1>5. seen' = seen /\ change' = change  BY <1>4, FilesForm
<1>6. FinalizeCleaning => /\ Data' /\ BotUndisturbed /\ HasPage' /\ HasEvent' /\ HasCleaning'
                          /\ cleanings'[1].event = 1
  BY <1>1, <1>4, CleaningBound
<1>7. UNCHANGED services => Data' /\ BotUndisturbed  BY <1>4, Still DEF FilesStand
<1> QED  BY <1>1, <1>3, <1>4, <1>5, <1>6, <1>7, PollerSteps

LEMMA OfferStep ==
    ASSUME IInv, Offer, UNCHANGED mail
    PROVE  IInv'
<1>1. /\ pc[Poller] = "offer" /\ Pledge("offer") /\ HasPage /\ HasCleaning /\ HasEvent
      /\ cleanings[1].event = 1
      /\ "prompt" \in Positions /\ "offering" \in Positions
  BY DEF Offer, IInv, Pledge, Booked, Confirming, Positions
<1>2. TheCleaning = 1  BY <1>1, Queries DEF IInv, Data
<1>3. CASE 1 \in offered /\ Skip(Poller, "prompt")
  <2>1. UNCHANGED files /\ UNCHANGED services /\ Go(Poller, "prompt")  BY <1>3 DEF Skip
  <2>2. Pledge("prompt")'
    BY <1>1, <1>3, <2>1
    DEF Pledge, Item, Booked, Applied, Asking, Confirming, Updating, Go, mail, files, services,
        HasPage, HasCleaning, HasEvent
  <2> QED  BY <1>1, <1>3, <2>2, PollerSkips
<1>4. CASE /\ 1 \notin offered
           /\ offered' = offered \cup {1} /\ UNCHANGED <<queue, change, notices, door, request>>
           /\ UNCHANGED services /\ Fine /\ Go(Poller, "offering")
  <2>1. Data' /\ BotUndisturbed /\ told'["offer"] = 0  BY <1>1, <1>4, OfferWritten DEF Elsewhere
  <2>2. seen' = seen /\ change' = change /\ 1 \in offered'  BY <1>4 DEF mail
  <2>3. Pledge("offering")'
    BY <1>1, <1>4, <2>1, <2>2
    DEF Pledge, Item, Booked, Applied, Asking, Confirming, Updating, Go, services,
        HasPage, HasCleaning, HasEvent
  <2> QED  BY <1>1, <1>4, <2>1, <2>2, <2>3, PollerSteps
<1> QED  BY <1>2, <1>3, <1>4 DEF Offer, Unfenced

LEMMA SendOfferStep ==
    ASSUME IInv, SendOffer, UNCHANGED mail
    PROVE  IInv'
<1>1. /\ pc[Poller] = "offering" /\ Pledge("offering") /\ HasPage /\ HasCleaning /\ HasEvent
      /\ cleanings[1].event = 1 /\ 1 \in offered /\ told["offer"] = 0
      /\ "prompt" \in Positions /\ "offer" \in Told
  BY DEF SendOffer, IInv, Pledge, Booked, Confirming, Positions, Told
<1>2. /\ FilesStand
      /\ \/ Tell("offer") /\ Fine /\ Go(Poller, "prompt")
         \/ (Tell("offer") \/ UNCHANGED services) /\ Trouble /\ Go(Poller, "uncertain")
         \/ UNCHANGED services /\ Fine /\ Leave(Poller)
  BY DEF SendOffer, Request, FilesStand
<1>3. seen' = seen /\ change' = change /\ offered' = offered  BY <1>2, FilesForm
<1>4. Tell("offer") => Data' /\ BotUndisturbed  BY <1>1, <1>2, Spoken
<1>5. UNCHANGED services => Data' /\ BotUndisturbed  BY <1>2, Still DEF FilesStand
<1>6. ASSUME Go(Poller, "prompt"), Tell("offer") PROVE Pledge("prompt")'
  BY <1>1, <1>3, <1>6
  DEF Pledge, Item, Booked, Applied, Asking, Confirming, Updating, Go, Tell, HasPage, HasCleaning, HasEvent
<1> QED  BY <1>1, <1>2, <1>3, <1>4, <1>5, <1>6, PollerSteps

LEMMA PromptStep ==
    ASSUME IInv, Prompt, UNCHANGED mail
    PROVE  IInv'
<1>1. /\ pc[Poller] = "prompt" /\ Pledge("prompt") /\ HasPage /\ HasCleaning /\ HasEvent
      /\ cleanings[1].event = 1 /\ 1 \in offered
      /\ "complete" \in Positions /\ "prompting" \in Positions
  BY DEF Prompt, IInv, Pledge, Booked, Confirming, Positions
<1>3. CASE Prompted /\ Skip(Poller, "complete")
  <2>1. UNCHANGED files /\ UNCHANGED services /\ Go(Poller, "complete")  BY <1>3 DEF Skip
  <2>2. Pledge("complete")'
    BY <1>1, <1>3, <2>1
    DEF Pledge, Item, Booked, Ready, Applied, Asking, Confirming, Updating, Go, mail, files, services,
        HasPage, HasCleaning, HasEvent, Prompted
  <2> QED  BY <1>1, <1>3, <2>2, PollerSkips
<1>4. CASE ~Prompted /\ SetDoor("PENDING_DELIVERY") /\ UNCHANGED services /\ Fine /\ Go(Poller, "prompting")
  <2>1. Data' /\ BotUndisturbed /\ Prompted'  BY <1>4, DoorWritten DEF Elsewhere
  <2>2. seen' = seen /\ change' = change /\ offered' = offered  BY <1>4 DEF mail, SetDoor
  <2>3. told'["door"] = 0  BY <1>4 DEF IInv, Data, Said, Prompted, services
  <2>4. Pledge("prompting")'
    BY <1>1, <1>4, <2>1, <2>2, <2>3
    DEF Pledge, Item, Booked, Applied, Asking, Confirming, Updating, Go, services,
        HasPage, HasCleaning, HasEvent
  <2> QED  BY <1>1, <1>4, <2>1, <2>2, <2>4, PollerSteps
<1> QED  BY <1>3, <1>4 DEF Prompt, Unfenced

LEMMA SendPromptStep ==
    ASSUME IInv, SendPrompt, UNCHANGED mail
    PROVE  IInv'
<1>1. CASE pc[Poller] = "prompting" /\ Request(Poller, Tell("door"), "prompted", "uncertain")
  <2>1. /\ Pledge("prompting") /\ HasPage /\ HasCleaning /\ HasEvent
        /\ cleanings[1].event = 1 /\ 1 \in offered /\ Prompted /\ told["door"] = 0
        /\ "prompted" \in Positions /\ "door" \in Told
    BY <1>1 DEF IInv, Pledge, Booked, Confirming, Positions, Told
  <2>2. /\ FilesStand
        /\ \/ Tell("door") /\ Fine /\ Go(Poller, "prompted")
           \/ (Tell("door") \/ UNCHANGED services) /\ Trouble /\ Go(Poller, "uncertain")
           \/ UNCHANGED services /\ Fine /\ Leave(Poller)
    BY <1>1 DEF Request, FilesStand
  <2>3. seen' = seen /\ change' = change /\ offered' = offered /\ door' = door  BY <2>2, FilesForm
  <2>4. Tell("door") => Data' /\ BotUndisturbed  BY <2>1, <2>2, Spoken
  <2>5. UNCHANGED services => Data' /\ BotUndisturbed  BY <2>2, Still DEF FilesStand
  <2>6. ASSUME Go(Poller, "prompted"), Tell("door") PROVE Pledge("prompted")'
    BY <1>1, <2>1, <2>3, <2>6
    DEF Pledge, Item, Booked, Applied, Asking, Confirming, Updating, Go, Tell, HasPage, HasCleaning, HasEvent,
        Prompted
  <2> QED  BY <1>1, <2>1, <2>2, <2>3, <2>4, <2>5, <2>6, PollerSteps
<1>2. CASE /\ pc[Poller] = "prompted"
           /\ Fenced(Poller, SetDoor("PENDING_OPERATOR_INPUT"), Go(Poller, "complete"))
  <2>1. /\ Pledge("prompted") /\ HasPage /\ HasCleaning /\ HasEvent
        /\ cleanings[1].event = 1 /\ 1 \in offered
        /\ "complete" \in Positions
    BY <1>2 DEF IInv, Pledge, Booked, Confirming, Positions
  <2>2. CASE SetDoor("PENDING_OPERATOR_INPUT") /\ UNCHANGED services /\ Fine /\ Go(Poller, "complete")
    <3>1. Data' /\ BotUndisturbed /\ Prompted'  BY <2>2, DoorWritten DEF Elsewhere
    <3>2. seen' = seen /\ change' = change /\ offered' = offered  BY <2>2 DEF mail, SetDoor
    <3>3. Pledge("complete")'
      BY <2>1, <2>2, <3>1, <3>2
      DEF Pledge, Item, Booked, Ready, Applied, Asking, Confirming, Updating, Go, services,
          HasPage, HasCleaning, HasEvent
    <3> QED  BY <1>2, <2>1, <2>2, <3>1, <3>2, <3>3, PollerSteps
  <2>3. CASE UNCHANGED <<files, services>> /\ Fine /\ Leave(Poller)
    <3>1. seen' = seen /\ change' = change  BY <2>3 DEF mail, files
    <3> QED  BY <1>2, <2>3, <3>1, Still, PollerSteps
  <2> QED  BY <1>2, <2>2, <2>3 DEF Fenced
<1> QED  BY <1>1, <1>2 DEF SendPrompt

\* A status that is written only as the writer: the process returns, or it leaves the item as it was.
LEMMA FencedFinish ==
    ASSUME IInv, UNCHANGED mail, pc[Poller] \notin {"idle", "walk"}, NEW s \in Statuses,
           Fenced(Poller, SetItem(ByHash[at], s), Return),
           ByHash[at] = "confirmed" /\ s = "COMPLETE" => Ready
    PROVE  IInv'
<1>1. CASE SetItem(ByHash[at], s) /\ UNCHANGED services /\ Fine /\ Return  BY <1>1, PollerFinishes
<1>2. CASE UNCHANGED <<files, services>> /\ Fine /\ Leave(Poller)
  <2>1. seen' = seen /\ change' = change  BY <1>2 DEF mail, files
  <2> QED  BY <1>2, <2>1, Still, PollerSteps
<1> QED  BY <1>1, <1>2 DEF Fenced

LEMMA FinishStep ==
    ASSUME IInv, Finish, UNCHANGED mail
    PROVE  IInv'
<1>1. /\ "COMPLETE" \in Statuses /\ "REVIEW_REQUIRED" \in Statuses
      /\ "AWAITING_CANCELLATION_APPROVAL" \in Statuses
  BY DEF Statuses
<1>2. CASE pc[Poller] = "complete" /\ Fenced(Poller, SetItem(ByHash[at], "COMPLETE"), Return)
  <2>1. ByHash[at] = "confirmed" => Ready  BY <1>2 DEF IInv, Pledge, Booked
  <2> QED  BY <1>1, <1>2, <2>1, FencedFinish
<1>3. CASE pc[Poller] = "reviewed" /\ Fenced(Poller, SetItem(ByHash[at], "REVIEW_REQUIRED"), Return)
  BY <1>1, <1>3, FencedFinish
<1>4. CASE pc[Poller] = "awaiting" /\ Fenced(Poller, SetItem(ByHash[at], "AWAITING_CANCELLATION_APPROVAL"), Return)
  BY <1>1, <1>4, FencedFinish
<1> QED  BY <1>2, <1>3, <1>4 DEF Finish

LEMMA UncertainStep ==
    ASSUME IInv, Uncertain, UNCHANGED mail
    PROVE  IInv'
<1>1. "RECONCILIATION_REQUIRED" \in Statuses  BY DEF Statuses
<1> QED  BY <1>1, FencedFinish DEF Uncertain

LEMMA NotExactStep ==
    ASSUME IInv, UNCHANGED mail, pc[Poller] \notin {"idle", "walk"}, NotExact
    PROVE  IInv'
BY PollerFinishes DEF NotExact, Unfenced, Statuses

\* A change is applied to the one page while it is pending, and its mail was processed before the
\* walk began.
LEMMA UpdateStep ==
    ASSUME IInv, Update, UNCHANGED mail
    PROVE  IInv'
<1>1. /\ pc[Poller] = "update" /\ Pledge("update")
      /\ "uncertain" \in Positions /\ "mark" \in Positions /\ "noteReview" \in Positions
  BY DEF Update, IInv, Positions
<1>2. CASE SourceRaises  BY <1>1, <1>2, RaisedSource
<1>3. CASE ReadRaises(Poller, "uncertain")  BY <1>1, <1>3, PollerSkips
<1>4. CASE NotExact  BY <1>1, <1>4, NotExactStep
<1>5. CASE Exact /\ Applicable /\ Request(Poller, ApplyChange, "mark", "uncertain")
  <2> DEFINE r == [reservations[1] EXCEPT !.guests = "requested", !.review = FALSE]
  <2>1. HasPage  BY <1>5, LenProperties DEF IInv, Data, PagesTyped, HasPage, Exact
  <2>2. /\ FilesStand
        /\ \/ ApplyChange /\ Fine /\ Go(Poller, "mark")
           \/ (ApplyChange \/ UNCHANGED services) /\ Trouble /\ Go(Poller, "uncertain")
           \/ UNCHANGED services /\ Fine /\ Leave(Poller)
    BY <1>5 DEF Request, FilesStand
  <2>3. seen' = seen /\ change' = change  BY <2>2, FilesForm
  <2>4. /\ r \in [live : BOOLEAN, review : BOOLEAN, guests : {"booked", "requested"}]
        /\ r.live = reservations[1].live /\ r.guests = "requested"
    BY <2>1, Entries DEF IInv, Data
  <2>5. ApplyChange => /\ reservations' = [reservations EXCEPT ![1] = r]
                       /\ UNCHANGED <<cleanings, events, finance, stored, told>>
    BY <2>1, Pages DEF ApplyChange, IInv, Data, PagesTyped
  <2> HIDE DEF r
  <2>6. ApplyChange => Data' /\ BotUndisturbed /\ HasPage' /\ reservations'[1].guests = "requested"
    BY <2>1, <2>2, <2>4, <2>5, PagePatched
  <2>7. UNCHANGED services => Data' /\ BotUndisturbed  BY <2>2, Still DEF FilesStand
  <2>8. ASSUME Go(Poller, "mark"), ApplyChange PROVE Pledge("mark")'
    BY <1>1, <1>5, <2>3, <2>6, <2>8
    DEF Pledge, Item, Booked, Applied, Asking, Confirming, Updating, Go, Applicable
  <2> QED  BY <1>1, <2>2, <2>3, <2>6, <2>7, <2>8, PollerSteps
<1>6. CASE Exact /\ ~Applicable /\ Request(Poller, LockForReview, "noteReview", "uncertain")
  <2> DEFINE r == [reservations[1] EXCEPT !.review = TRUE]
  <2>1. HasPage  BY <1>6, LenProperties DEF IInv, Data, PagesTyped, HasPage, Exact
  <2>2. /\ FilesStand
        /\ \/ LockForReview /\ Fine /\ Go(Poller, "noteReview")
           \/ (LockForReview \/ UNCHANGED services) /\ Trouble /\ Go(Poller, "uncertain")
           \/ UNCHANGED services /\ Fine /\ Leave(Poller)
    BY <1>6 DEF Request, FilesStand
  <2>3. seen' = seen /\ change' = change  BY <2>2, FilesForm
  <2>4. /\ r \in [live : BOOLEAN, review : BOOLEAN, guests : {"booked", "requested"}]
        /\ r.live = reservations[1].live /\ r.guests = reservations[1].guests
    BY <2>1, Entries DEF IInv, Data
  <2>5. LockForReview => /\ reservations' = [reservations EXCEPT ![1] = r]
                         /\ UNCHANGED <<cleanings, events, finance, stored, told>>
    BY <2>1, Pages DEF LockForReview, IInv, Data, PagesTyped
  <2> HIDE DEF r
  <2>6. LockForReview => Data' /\ BotUndisturbed  BY <2>1, <2>2, <2>4, <2>5, PagePatched
  <2>7. UNCHANGED services => Data' /\ BotUndisturbed  BY <2>2, Still DEF FilesStand
  <2>8. ASSUME Go(Poller, "noteReview") PROVE Pledge("noteReview")'
    BY <1>1, <2>3, <2>8 DEF Pledge, Item, Booked, Applied, Asking, Confirming, Updating, Go
  <2> QED  BY <1>1, <2>2, <2>3, <2>6, <2>7, <2>8, PollerSteps
<1> QED  BY <1>2, <1>3, <1>4, <1>5, <1>6 DEF Update

LEMMA MarkAppliedStep ==
    ASSUME IInv, MarkApplied, UNCHANGED mail
    PROVE  IInv'
<1>1. /\ pc[Poller] = "mark" /\ Pledge("mark") /\ change # "none" /\ "requested" \in seen
      /\ HasPage /\ reservations[1].guests = "requested"
      /\ "noteApplied" \in Positions
  BY DEF MarkApplied, IInv, Pledge, Applied, Positions
<1>2. CASE /\ change' = "APPLIED" /\ UNCHANGED <<queue, notices, offered, door, request>>
           /\ UNCHANGED services /\ Fine /\ Go(Poller, "noteApplied")
  <2>1. Data' /\ BotUndisturbed /\ seen' = seen /\ reservations' = reservations
    BY <1>1, <1>2, ChangeSpent DEF Elsewhere
  <2>2. Pledge("noteApplied")'
    BY <1>1, <1>2, <2>1
    DEF Pledge, Item, Booked, Applied, Asking, Confirming, Updating, Go, HasPage
  <2> QED  BY <1>1, <1>2, <2>1, <2>2, PollerGoes
<1>3. CASE UNCHANGED <<files, services>> /\ Fine /\ Leave(Poller)
  <2>1. seen' = seen /\ change' = change  BY <1>3 DEF mail, files
  <2> QED  BY <1>1, <1>3, <2>1, Still, PollerSteps
<1> QED  BY <1>2, <1>3 DEF MarkApplied, Fenced

\* A notice is sent once: it is sent only by the step after the one that wrote its file first.
LEMMA NoticeStep ==
    ASSUME IInv, UNCHANGED mail,
           NEW k \in {"review", "applied"}, NEW note, NEW tell, NEW sent, NEW finish,
           \/ k = "review" /\ note = "noteReview" /\ tell = "tellReview" /\ sent = "sentReview"
              /\ finish = "reviewed"
           \/ k = "applied" /\ note = "noteApplied" /\ tell = "tellApplied" /\ sent = "sentApplied"
              /\ finish = "complete",
           Notice(k, note, tell, sent, finish)
    PROVE  IInv'
<1>1. {note, tell, sent, finish} \subseteq Positions /\ "uncertain" \in Positions /\ k \in Told
  BY DEF Positions, Told
<1>2. ASSUME pc[Poller] \in {note, sent}, UNCHANGED <<seen, change>>, at' = at, pc[Poller] # "idle"
      PROVE  Pledge(finish)'
  BY <1>2 DEF IInv, Pledge, Item, Booked, Applied, Asking, Confirming, Updating
<1>3. CASE pc[Poller] = note
  <2>1. Pledge(note)  BY <1>3 DEF IInv
  <2>2. CASE Skip(Poller, finish)
    <3>1. UNCHANGED <<seen, change>> /\ at' = at  BY <2>2 DEF Skip, Go, mail, files
    <3> QED  BY <1>1, <1>2, <1>3, <2>2, <3>1, PollerSkips
  <2>3. CASE Skip(Poller, "uncertain")  BY <1>1, <1>3, <2>3, PollerSkips
  <2>4. CASE notices[k] = "none" /\ Fenced(Poller, SetNotice(k, "PENDING_DELIVERY"), Go(Poller, tell))
    <3>1. CASE SetNotice(k, "PENDING_DELIVERY") /\ UNCHANGED services /\ Fine /\ Go(Poller, tell)
      <4>1. /\ Data' /\ BotUndisturbed /\ notices'[k] = "PENDING_DELIVERY" /\ told' = told
            /\ seen' = seen /\ change' = change /\ reservations' = reservations
        BY <3>1, NoticeWritten DEF Elsewhere
      <4>2. told[k] = 0  BY <2>4 DEF IInv, Data, Said
      <4>3. Pledge(tell)'
        BY <2>1, <3>1, <4>1, <4>2
        DEF Pledge, Item, Booked, Applied, Asking, Confirming, Updating, Go, HasPage
      <4> QED  BY <1>1, <1>3, <3>1, <4>1, <4>3, PollerSteps
    <3>2. CASE UNCHANGED <<files, services>> /\ Fine /\ Leave(Poller)
      <4>1. seen' = seen /\ change' = change  BY <3>2 DEF mail, files
      <4> QED  BY <1>3, <3>2, <4>1, Still, PollerSteps
    <3> QED  BY <2>4, <3>1, <3>2 DEF Fenced
  <2> QED  BY <1>3, <2>2, <2>3, <2>4 DEF Notice
<1>4. CASE pc[Poller] = tell /\ Request(Poller, Tell(k), sent, "uncertain")
  <2>1. /\ Pledge(tell) /\ notices[k] # "none" /\ told[k] = 0
        /\ k = "applied" => change = "APPLIED" /\ HasPage /\ reservations[1].guests = "requested"
    BY <1>4 DEF IInv, Pledge, Applied
  <2>2. /\ FilesStand
        /\ \/ Tell(k) /\ Fine /\ Go(Poller, sent)
           \/ (Tell(k) \/ UNCHANGED services) /\ Trouble /\ Go(Poller, "uncertain")
           \/ UNCHANGED services /\ Fine /\ Leave(Poller)
    BY <1>4 DEF Request, FilesStand
  <2>3. seen' = seen /\ change' = change  BY <2>2, FilesForm
  <2>4. Tell(k) => Data' /\ BotUndisturbed  BY <1>1, <2>1, <2>2, Spoken
  <2>5. UNCHANGED services => Data' /\ BotUndisturbed  BY <2>2, Still DEF FilesStand
  <2>6. ASSUME Go(Poller, sent) PROVE Pledge(sent)'
    BY <2>1, <2>3, <2>6 DEF Pledge, Item, Booked, Applied, Asking, Confirming, Updating, Go
  <2> QED  BY <1>1, <1>4, <2>2, <2>3, <2>4, <2>5, <2>6, PollerSteps
<1>5. CASE pc[Poller] = sent /\ Fenced(Poller, SetNotice(k, "SENT"), Go(Poller, finish))
  <2>1. CASE SetNotice(k, "SENT") /\ UNCHANGED services /\ Fine /\ Go(Poller, finish)
    <3>1. /\ Data' /\ BotUndisturbed /\ seen' = seen /\ change' = change /\ at' = at
      BY <2>1, NoticeWritten DEF Elsewhere, Go
    <3>2. Pledge(finish)'  BY <1>2, <1>5, <3>1
    <3> QED  BY <1>1, <1>5, <2>1, <3>1, <3>2, PollerSteps
  <2>2. CASE UNCHANGED <<files, services>> /\ Fine /\ Leave(Poller)
    <3>1. seen' = seen /\ change' = change  BY <2>2 DEF mail, files
    <3> QED  BY <1>5, <2>2, <3>1, Still, PollerSteps
  <2> QED  BY <1>5, <2>1, <2>2 DEF Fenced
<1> QED  BY <1>3, <1>4, <1>5 DEF Notice

\* A proposal names pages there are.
LEMMA ProposalForm ==
    ASSUME PagesTyped, Single
    PROVE  /\ Proposal \in [status : {"PENDING", "APPROVED", "REJECTED", "EXECUTED", "RETRY"},
                            cleanings : SUBSET DOMAIN cleanings, events : SUBSET DOMAIN events]
           /\ Proposal.status = "PENDING"
<1>1. CleaningsOf(1) \subseteq DOMAIN cleanings  BY DEF CleaningsOf
<1>2. {cleanings[c].event : c \in CleaningsOf(1)} \ {0} \subseteq DOMAIN events
  <2> SUFFICES ASSUME NEW c \in DOMAIN cleanings, cleanings[c].event # 0
               PROVE  cleanings[c].event \in DOMAIN events
    BY <1>1
  <2>1. c = 1 /\ HasCleaning  BY Pages DEF HasCleaning
  <2>2. cleanings[1].event \in 0..Len(events)  BY <2>1, Entries
  <2> QED  BY <2>1, <2>2, Pages
<1> QED  BY <1>1, <1>2 DEF Proposal

LEMMA CancelStep ==
    ASSUME IInv, Cancel, UNCHANGED mail
    PROVE  IInv'
<1>1. /\ pc[Poller] = "cancel" /\ Pledge("cancel")
      /\ "uncertain" \in Positions /\ "asking" \in Positions /\ "awaiting" \in Positions
  BY DEF Cancel, IInv, Positions
<1>2. CASE SourceRaises  BY <1>1, <1>2, RaisedSource
<1>3. CASE ReadRaises(Poller, "uncertain")  BY <1>1, <1>3, PollerSkips
<1>4. CASE NotExact  BY <1>1, <1>4, NotExactStep
<1>5. CASE Skip(Poller, "awaiting")
  <2>1. UNCHANGED <<seen, change>> /\ at' = at  BY <1>5 DEF Skip, Go, mail, files
  <2>2. Pledge("awaiting")'
    BY <1>1, <2>1 DEF Pledge, Item, Booked, Applied, Asking, Confirming, Updating
  <2> QED  BY <1>1, <1>5, <2>2, PollerSkips
<1>6. CASE /\ Exact /\ request.status = "none"
           /\ Fenced(Poller, SetRequest(Proposal), Go(Poller, "asking"))
  <2>1. HasPage  BY <1>6, LenProperties DEF IInv, Data, PagesTyped, HasPage, Exact
  <2>2. CASE SetRequest(Proposal) /\ UNCHANGED services /\ Fine /\ Go(Poller, "asking")
    <3> DEFINE r == Proposal
    <3>1. /\ r \in [status : {"PENDING", "APPROVED", "REJECTED", "EXECUTED", "RETRY"},
                    cleanings : SUBSET DOMAIN cleanings, events : SUBSET DOMAIN events]
          /\ r.status = "PENDING" /\ SetRequest(r)
      BY <2>2, ProposalForm DEF IInv, Data
    <3> HIDE DEF r
    <3>2. /\ Data' /\ request' = r
          /\ seen' = seen /\ change' = change
          /\ reservations' = reservations /\ cleanings' = cleanings /\ events' = events
          /\ finance' = finance /\ stored' = stored /\ told' = told
      BY <1>6, <2>1, <2>2, <3>1, RequestWritten DEF Elsewhere, services
    <3>3. stored' = stored /\ told' = told /\ finance' = finance  BY <2>2 DEF services
    <3>4. BotUndisturbed  BY <1>6, <3>2, <3>3 DEF BotUndisturbed
    <3>5. told["approval"] = 0  BY <1>6 DEF IInv, Data, Said
    <3>6. Pledge("asking")'
      <4>1. ~reopened'  BY <1>6, <2>2, Bounded DEF IInv, Heard
      <4> QED
        BY <1>1, <2>2, <3>1, <3>2, <3>3, <3>5, <4>1
        DEF Pledge, Item, Booked, Applied, Asking, Confirming, Updating, Go
    <3> QED  BY <1>1, <2>2, <3>2, <3>4, <3>6, PollerSteps
  <2>3. CASE UNCHANGED <<files, services>> /\ Fine /\ Leave(Poller)
    <3>1. seen' = seen /\ change' = change  BY <2>3 DEF mail, files
    <3> QED  BY <1>1, <2>3, <3>1, Still, PollerSteps
  <2> QED  BY <1>6, <2>2, <2>3 DEF Fenced
<1> QED  BY <1>2, <1>3, <1>4, <1>5, <1>6 DEF Cancel

LEMMA AskApprovalStep ==
    ASSUME IInv, AskApproval, UNCHANGED mail
    PROVE  IInv'
<1>1. /\ pc[Poller] = "asking" /\ Pledge("asking") /\ request.status = "PENDING" /\ told["approval"] = 0
      /\ "asked" \in Positions /\ "approval" \in Told
  BY DEF AskApproval, IInv, Pledge, Asking, Positions, Told
<1>2. /\ FilesStand
      /\ \/ Tell("approval") /\ Fine /\ Go(Poller, "asked")
         \/ (Tell("approval") \/ UNCHANGED services) /\ Trouble /\ Go(Poller, "uncertain")
         \/ UNCHANGED services /\ Fine /\ Leave(Poller)
  BY DEF AskApproval, Request, FilesStand
<1>3. seen' = seen /\ change' = change /\ request' = request  BY <1>2, FilesForm
<1>4. Tell("approval") => Data' /\ BotUndisturbed  BY <1>1, <1>2, Spoken
<1>5. UNCHANGED services => Data' /\ BotUndisturbed  BY <1>2, Still DEF FilesStand
<1>6. ASSUME Go(Poller, "asked") PROVE Pledge("asked")'
  <2>1. reopened' = reopened  BY <1>2, Bounded DEF IInv
  <2> QED
    BY <1>1, <1>3, <1>6, <2>1 DEF Pledge, Item, Booked, Applied, Asking, Confirming, Updating, Go
<1> QED  BY <1>1, <1>2, <1>3, <1>4, <1>5, <1>6, PollerSteps

\* While the poller has the lease nobody has answered, and the status it writes is the one
\* there is.  If the lease ran out after the assertion, an answer is undone at most once.
LEMMA AskedStep ==
    ASSUME IInv, Asked, UNCHANGED mail
    PROVE  IInv'
<1> DEFINE T == [status : {"PENDING", "APPROVED", "REJECTED", "EXECUTED", "RETRY"},
                 cleanings : SUBSET DOMAIN cleanings, events : SUBSET DOMAIN events]
           r == [request EXCEPT !.status = "PENDING"]
<1>1. /\ pc[Poller] = "asked" /\ Pledge("asked") /\ "awaiting" \in Positions
      /\ request.status # "none" /\ ~reopened
  BY DEF Asked, IInv, Positions, Pledge, Asking
<1>2. CASE Cleared(Poller) /\ WriteBack
  <2>1. /\ SetRequest(r) /\ UNCHANGED services /\ troubles' = troubles /\ Go(Poller, "awaiting")
        /\ reopened' = (Poller \in passed /\ request.status # "PENDING")
    BY <1>1, <1>2 DEF WriteBack
  <2>2. r \in T /\ r.status = "PENDING"  BY <1>1 DEF IInv, Data, FilesTyped
  <2>3. HasPage  BY <1>1 DEF IInv, Data, Cancelled
  <2> HIDE DEF r, T
  <2>4. /\ Data' /\ request' = r /\ request'.status = "PENDING"
        /\ seen' = seen /\ change' = change
        /\ reservations' = reservations /\ cleanings' = cleanings /\ events' = events
        /\ finance' = finance /\ stored' = stored /\ told' = told
    BY <2>1, <2>2, <2>3, RequestWritten DEF Elsewhere, T
  <2>5. request.status # "PENDING" => reopened'
    BY <1>1, <1>2, <2>1 DEF Pledge, Asking, Cleared, Current
  <2>6. told["cleaner"] \in Nat /\ told["cleaner"] <= 1 /\ (~reopened' => told["cleaner"] = 0)
    BY <1>1, <2>5 DEF IInv, Data, PagesTyped, Heard, Allowed, Told
  <2>7. Heard'  BY <2>4, <2>6 DEF Heard, Allowed
  <2>8. ControlTyped' /\ pc'[Poller] = "awaiting" /\ pc'[OpsBot] = pc[OpsBot] /\ at' = at
    BY <1>1, <2>1, Actors DEF IInv, ControlTyped, Go, Proceed, WriterTypeOK
  <2>9. Duty(pc[OpsBot])'
    <3> DEFINE l == pc[OpsBot]
    <3>1. Duty(l) /\ l' = l  BY <2>8 DEF IInv
    <3>2. l \in Executing => request.status = "APPROVED" /\ reopened'
      BY <1>1, <2>5, <3>1 DEF Duty, Ordered
    <3>3. l \in Executing \ {"record", "failed"} => told["cleaner"] = 0
      BY <1>1, <2>6, <3>1 DEF Duty, Untold, Allowed
    <3>4. request'.cleanings = request.cleanings /\ request'.events = request.events
      BY <2>4 DEF r, IInv, Data, FilesTyped
    <3> HIDE DEF l
    <3> QED
      BY <2>4, <3>1, <3>2, <3>3, <3>4
      DEF Duty, Executing, Ordered, Untold, Allowed, CleaningsDone, EventsDone, l
  <2>10. Pledge("awaiting")'
    BY <1>1, <2>4, <2>8 DEF Pledge, Item, Booked, Applied, Asking, Confirming, Updating
  <2> QED  BY <2>4, <2>7, <2>8, <2>9, <2>10 DEF IInv
<1>3. CASE UNCHANGED <<files, services>> /\ Fine /\ Leave(Poller)
  <2>1. seen' = seen /\ change' = change  BY <1>3 DEF mail, files
  <2> QED  BY <1>1, <1>3, <2>1, Still, PollerSteps
<1> QED  BY <1>2, <1>3 DEF Asked

-----------------------------------------------------------------------------
(* The bot's steps                                                         *)

LEMMA AtRest == Pledge("idle")' /\ Duty("idle")'
BY DEF Pledge, Item, Booked, Applied, Asking, Confirming, Updating, Duty, Executing

LEMMA BotSteps ==
    ASSUME IInv, Fine \/ Trouble, Data', Unspoken \/ Heard', PollerUndisturbed,
           (\E l \in Positions : Go(OpsBot, l) /\ Duty(l)') \/ Leave(OpsBot)
    PROVE  IInv'
<1> Heard'  BY HeardStays
<1>1. CASE \E l \in Positions : Go(OpsBot, l) /\ Duty(l)'
  <2>1. PICK l \in Positions : Go(OpsBot, l) /\ Duty(l)'  BY <1>1
  <2> QED  BY <2>1, BotGoes
<1>2. CASE Leave(OpsBot)  BY <1>2, BotLeaves
<1> QED  BY <1>1, <1>2

LEMMA BotSkips ==
    ASSUME IInv, UNCHANGED mail, NEW l \in Positions, Skip(OpsBot, l), Duty(l)'
    PROVE  IInv'
<1>1. Unspoken  BY DEF Skip, Unspoken, files, services
<1> QED  BY <1>1, Still, BotSteps DEF Skip

\* The order the bot executes stands while it works.
LEMMA OrderStays ==
    ASSUME IInv, Fine \/ Trouble, request' = request
    PROVE  /\ Ordered => Ordered' /\ Duty("failed")'
           /\ Untold /\ told'["cleaner"] = told["cleaner"] => Untold'
<1>1. reopened' = reopened  BY Bounded DEF IInv
<1> QED  BY <1>1 DEF Ordered, Untold, Allowed, Duty, Executing

LEMMA AnswerPromptStep ==
    ASSUME IInv, AnswerPrompt
    PROVE  IInv'
<1>1. Data' /\ BotUndisturbed /\ PollerUndisturbed  BY Still DEF AnswerPrompt
<1>2. WriterTypeOK' /\ ~Current(Poller)'  BY EnterForm, Actors DEF AnswerPrompt, IInv
<1>3. /\ pc' = [pc EXCEPT ![OpsBot] = "relay"] /\ at' = at /\ plan' = plan /\ history' = history
      /\ "relay" \in Positions
  BY DEF AnswerPrompt, Positions
<1>4. ControlTyped' /\ pc'[Poller] = pc[Poller] /\ pc'[OpsBot] = "relay"
  BY <1>2, <1>3, Actors DEF IInv, ControlTyped, history
<1>5. Duty("relay")'  BY DEF Duty, Executing
<1>6. reopened' = reopened /\ Heard'  BY <1>1, <1>3, <1>4 DEF history, IInv, Heard, Allowed, AnswerPrompt, files, services
<1> QED  BY <1>1, <1>2, <1>3, <1>4, <1>5, <1>6, PledgeStays DEF IInv

LEMMA RelayCodeStep ==
    ASSUME IInv, RelayCode, UNCHANGED mail
    PROVE  IInv'
<1>1. /\ FilesStand
      /\ \/ Tell("code") /\ Fine /\ Go(OpsBot, "store")
         \/ (Tell("code") \/ UNCHANGED services) /\ Trouble /\ Leave(OpsBot)
  BY DEF RelayCode, FilesStand
<1>2. Tell("code") => Data' /\ PollerUndisturbed
  <2>1. "code" \in Told  BY DEF Told
  <2> QED  BY <1>1, <2>1, Spoken
<1>3. UNCHANGED services => Data' /\ PollerUndisturbed  BY <1>1, Still DEF FilesStand
<1>4. "store" \in Positions /\ Duty("store")'  BY DEF Positions, Duty, Executing
<1>5. Unspoken
  <2>1. Tell("code") \/ UNCHANGED services  BY <1>1
  <2>2. told'["cleaner"] = told["cleaner"]  BY <2>1 DEF Tell, services, IInv, Data, PagesTyped, Told
  <2> QED  BY <1>1, <2>2, FilesForm DEF Unspoken
<1> QED  BY <1>1, <1>2, <1>3, <1>4, <1>5, BotSteps

LEMMA StoreCodeStep ==
    ASSUME IInv, StoreCode, UNCHANGED mail
    PROVE  IInv'
<1> DEFINE Store == stored' = TRUE /\ UNCHANGED <<reservations, cleanings, events, finance, told>>
<1>1. /\ FilesStand
      /\ \/ Store /\ Fine /\ Go(OpsBot, "stored")
         \/ (Store \/ UNCHANGED services) /\ Trouble /\ Go(OpsBot, "unstored")
  BY DEF StoreCode, FilesStand
<1>2. Store => Data' /\ PollerUndisturbed  BY <1>1, RowOrCode
<1>3. UNCHANGED services => Data' /\ PollerUndisturbed  BY <1>1, Still DEF FilesStand
<1>4. "stored" \in Positions /\ "unstored" \in Positions  BY DEF Positions
<1>5. Duty("unstored")' /\ (Store => Duty("stored")')  BY DEF Duty, Executing
<1>6. Unspoken  BY <1>1, FilesForm DEF Unspoken, services
<1> QED  BY <1>1, <1>2, <1>3, <1>4, <1>5, <1>6, BotSteps

LEMMA RecordCodeStep ==
    ASSUME IInv, RecordCode, UNCHANGED mail
    PROVE  IInv'
<1>1. CASE pc[OpsBot] = "stored" /\ Unfenced(SetDoor("SYNCED"), Leave(OpsBot))
  <2>1. stored  BY <1>1 DEF IInv, Duty
  <2>2. Data' /\ PollerUndisturbed  BY <1>1, <2>1, DoorWritten DEF Unfenced, Elsewhere
  <2>3. Unspoken  BY <1>1 DEF Unspoken, Unfenced, SetDoor, services
  <2> QED  BY <1>1, <2>2, <2>3, BotSteps DEF Unfenced
<1>2. CASE pc[OpsBot] = "unstored" /\ Unfenced(SetDoor("FAILED_RETRY_REQUIRED"), Leave(OpsBot))
  <2>1. Data' /\ PollerUndisturbed  BY <1>2, DoorWritten DEF Unfenced, Elsewhere
  <2>2. Unspoken  BY <1>2 DEF Unspoken, Unfenced, SetDoor, services
  <2> QED  BY <1>2, <2>1, <2>2, BotSteps DEF Unfenced
<1> QED  BY <1>1, <1>2 DEF RecordCode

\* An answer finds the request pending, and the poller without the lease.
LEMMA PressStep ==
    ASSUME IInv, Press
    PROVE  IInv'
<1> DEFINE T == [status : {"PENDING", "APPROVED", "REJECTED", "EXECUTED", "RETRY"},
                 cleanings : SUBSET DOMAIN cleanings, events : SUBSET DOMAIN events]
<1>1. /\ pc[OpsBot] = "idle" /\ told["approval"] > 0 /\ request.status = "PENDING"
      /\ UNCHANGED mail /\ UNCHANGED services /\ at' = at /\ plan' = plan
      /\ reopened' = reopened /\ troubles' = troubles
  BY DEF Press, history
<1>2. HasPage /\ told["cleaner"] < Allowed  BY <1>1 DEF IInv, Data, Cancelled, Heard
<1>3. ASSUME NEW s \in {"APPROVED", "REJECTED"}, SetRequest([request EXCEPT !.status = s]), ~Current(Poller)'
      PROVE  /\ Data' /\ Heard' /\ PollerUndisturbed
             /\ request'.status = s /\ told' = told
  <2> DEFINE r == [request EXCEPT !.status = s]
  <2>1. r \in T /\ r.status = s  BY DEF IInv, Data, FilesTyped
  <2>2. SetRequest(r)  BY <1>3
  <2> HIDE DEF r, T
  <2>3. /\ Data' /\ request' = r
        /\ seen' = seen /\ change' = change /\ notices' = notices /\ offered' = offered /\ door' = door
        /\ reservations' = reservations /\ cleanings' = cleanings /\ events' = events
        /\ finance' = finance /\ stored' = stored /\ told' = told
    BY <1>1, <1>2, <2>1, <2>2, RequestWritten DEF Elsewhere, T
  <2>4. Heard'  BY <1>1, <2>1, <2>3 DEF IInv, Heard, Allowed
  <2>5. PollerUndisturbed  BY <1>1, <1>3, <2>1, <2>3 DEF PollerUndisturbed, Prompted
  <2> QED  BY <2>1, <2>3, <2>4, <2>5
<1>4. CASE /\ Enter(OpsBot)
           /\ SetRequest([request EXCEPT !.status = "APPROVED"])
           /\ pc' = [pc EXCEPT ![OpsBot] = "cancelPage"]
  <2>1. WriterTypeOK' /\ ~Current(Poller)'  BY <1>4, EnterForm, Actors DEF IInv
  <2>2. ControlTyped' /\ pc'[Poller] = pc[Poller] /\ pc'[OpsBot] = "cancelPage"
    BY <1>1, <1>4, <2>1, Actors DEF IInv, ControlTyped, Positions
  <2>3. Data' /\ Heard' /\ PollerUndisturbed /\ request'.status = "APPROVED" /\ told' = told
    BY <1>3, <1>4, <2>1
  <2>4. Duty("cancelPage")'  BY <1>1, <1>2, <2>3 DEF Duty, Executing, Ordered, Untold, Allowed
  <2> QED  BY <1>1, <2>1, <2>2, <2>3, <2>4, PledgeStays DEF IInv
<1>5. CASE /\ lease = Nobody /\ UNCHANGED <<writerVars, pc>>
           /\ SetRequest([request EXCEPT !.status = "REJECTED"])
  <2>1. ~Current(Poller)'  BY <1>5, Actors DEF Current, writerVars
  <2>2. ControlTyped'  BY <1>1, <1>5 DEF IInv, ControlTyped, WriterTypeOK, writerVars
  <2>3. Data' /\ Heard' /\ PollerUndisturbed  BY <1>3, <1>5, <2>1
  <2>4. Pledge(pc[Poller])' /\ Duty(pc[OpsBot])'
    BY <1>1, <1>5, <2>1, <2>3, PledgeStays, AtRest
  <2> QED  BY <2>2, <2>3, <2>4 DEF IInv
<1> QED  BY <1>4, <1>5 DEF Press

LEMMA CancelReservationStep ==
    ASSUME IInv, CancelReservation, UNCHANGED mail
    PROVE  IInv'
<1> DEFINE A == /\ reservations' = [reservations EXCEPT ![1].live = FALSE]
                /\ UNCHANGED <<cleanings, events, finance, stored, told>>
           r == [reservations[1] EXCEPT !.live = FALSE]
<1>1. /\ pc[OpsBot] = "cancelPage" /\ Duty("cancelPage") /\ Ordered
      /\ Untold /\ HasPage
      /\ "cancelCleanings" \in Positions /\ "failed" \in Positions
  BY DEF CancelReservation, IInv, Duty, Executing, Ordered, Data, Cancelled, Positions
<1>2. /\ FilesStand
      /\ \/ A /\ Fine /\ Go(OpsBot, "cancelCleanings")
         \/ (A \/ UNCHANGED services) /\ Trouble /\ Go(OpsBot, "failed")
         \/ UNCHANGED services /\ Fine /\ Leave(OpsBot)
  BY DEF CancelReservation, Request, FilesStand
<1>3. /\ r \in [live : BOOLEAN, review : BOOLEAN, guests : {"booked", "requested"}]
      /\ r.live = FALSE /\ r.guests = reservations[1].guests
  BY <1>1, Entries DEF IInv, Data
<1>4. A => /\ reservations' = [reservations EXCEPT ![1] = r]
           /\ UNCHANGED <<cleanings, events, finance, stored, told>>
  BY <1>1, Pages DEF IInv, Data, PagesTyped
<1>5. request' = request  BY <1>2, FilesForm
<1>6. A \/ UNCHANGED services => told' = told  BY DEF services
<1> HIDE DEF A, r
<1>7. A => Data' /\ PollerUndisturbed /\ ~reservations'[1].live
  BY <1>1, <1>2, <1>3, <1>4, PagePatched
<1>8. UNCHANGED services => Data' /\ PollerUndisturbed  BY <1>2, Still DEF FilesStand
<1>9. Unspoken  BY <1>2, <1>5, <1>6 DEF Unspoken
<1>10. Duty("failed")' /\ Ordered' /\ Untold'  BY <1>1, <1>2, <1>9, OrderStays DEF Unspoken
<1>11. A => Duty("cancelCleanings")'  BY <1>7, <1>10 DEF Duty, Executing
<1> QED  BY <1>1, <1>2, <1>7, <1>8, <1>9, <1>10, <1>11, BotSteps

LEMMA CancelCleaningsStep ==
    ASSUME IInv, CancelCleanings, UNCHANGED mail
    PROVE  IInv'
<1> DEFINE left == {c \in request.cleanings : cleanings[c].state = "open"}
           A == /\ cleanings' = [cleanings EXCEPT ![First(left)].state = "cancelled"]
                /\ UNCHANGED <<reservations, events, finance, stored, told>>
<1>1. /\ pc[OpsBot] = "cancelCleanings" /\ Ordered
      /\ Untold /\ ~reservations[1].live
      /\ "cancelCleanings" \in Positions /\ "failed" \in Positions /\ "markEvents" \in Positions
      /\ request.cleanings \subseteq DOMAIN cleanings
  BY DEF CancelCleanings, IInv, Duty, Executing, Data, FilesTyped, Positions
<1>2. \/ left = {} /\ Skip(OpsBot, "markEvents")
      \/ left # {} /\ Request(OpsBot, A, "cancelCleanings", "failed")
  BY DEF CancelCleanings
<1>3. CASE left = {} /\ Skip(OpsBot, "markEvents")
  <2>1. UNCHANGED files /\ UNCHANGED services  BY <1>3 DEF Skip
  <2>2. CleaningsDone  BY <1>3 DEF CleaningsDone
  <2>3. Ordered' /\ Untold'  BY <1>1, <1>3, <2>1, OrderStays DEF Skip, files, services
  <2>4. Duty("markEvents")'  BY <1>1, <2>1, <2>2, <2>3 DEF Duty, Executing, CleaningsDone, files, services
  <2> QED  BY <1>1, <1>3, <2>4, BotSkips
<1>4. CASE left # {} /\ Request(OpsBot, A, "cancelCleanings", "failed")
  <2>1. /\ FilesStand
        /\ \/ A /\ Fine /\ Go(OpsBot, "cancelCleanings")
           \/ (A \/ UNCHANGED services) /\ Trouble /\ Go(OpsBot, "failed")
           \/ UNCHANGED services /\ Fine /\ Leave(OpsBot)
    BY <1>4 DEF Request, FilesStand
  <2>2. HasCleaning /\ First(left) = 1
    <3>1. left = {1} /\ HasCleaning  BY <1>1, <1>4, Pages DEF IInv, Data, HasCleaning
    <3> QED  BY <3>1, FirstOfOne
  <2>3. A => /\ cleanings' = [cleanings EXCEPT ![1].state = "cancelled"]
             /\ UNCHANGED <<reservations, events, finance, stored, told>>
    BY <2>2
  <2>4. request' = request  BY <2>1, FilesForm
  <2>5. Unspoken  BY <2>1, <2>4 DEF Unspoken, services
  <2> HIDE DEF A
  <2>6. A => Data' /\ PollerUndisturbed  BY <1>1, <2>1, <2>2, <2>3, CleaningEnded
  <2>7. UNCHANGED services => Data' /\ PollerUndisturbed  BY <2>1, Still DEF FilesStand
  <2>8. Duty("failed")' /\ Ordered' /\ Untold'  BY <1>1, <2>1, <2>5, OrderStays DEF Unspoken
  <2>9. A => Duty("cancelCleanings")'  BY <1>1, <2>3, <2>8 DEF Duty, Executing
  <2> QED  BY <1>1, <2>1, <2>5, <2>6, <2>7, <2>8, <2>9, BotSteps
<1> QED  BY <1>2, <1>3, <1>4

LEMMA MarkEventsStep ==
    ASSUME IInv, MarkEvents, UNCHANGED mail
    PROVE  IInv'
<1> DEFINE left == {e \in request.events : ~events[e].cancelled}
           A == /\ events' = [events EXCEPT ![First(left)].cancelled = TRUE]
                /\ UNCHANGED <<reservations, cleanings, finance, stored, told>>
<1>1. /\ pc[OpsBot] = "markEvents" /\ Ordered
      /\ Untold /\ ~reservations[1].live /\ CleaningsDone
      /\ "markEvents" \in Positions /\ "failed" \in Positions /\ "adjust" \in Positions
      /\ request.events \subseteq DOMAIN events
  BY DEF MarkEvents, IInv, Duty, Executing, Data, FilesTyped, Positions
<1>2. \/ left = {} /\ Skip(OpsBot, "adjust")
      \/ left # {} /\ Request(OpsBot, A, "markEvents", "failed")
  BY DEF MarkEvents
<1>3. CASE left = {} /\ Skip(OpsBot, "adjust")
  <2>1. UNCHANGED files /\ UNCHANGED services  BY <1>3 DEF Skip
  <2>2. EventsDone  BY <1>3 DEF EventsDone
  <2>3. Ordered' /\ Untold'  BY <1>1, <1>3, <2>1, OrderStays DEF Skip, files, services
  <2>4. Duty("adjust")'  BY <1>1, <2>1, <2>2, <2>3 DEF Duty, Executing, CleaningsDone, EventsDone, files, services
  <2> QED  BY <1>1, <1>3, <2>4, BotSkips
<1>4. CASE left # {} /\ Request(OpsBot, A, "markEvents", "failed")
  <2>1. /\ FilesStand
        /\ \/ A /\ Fine /\ Go(OpsBot, "markEvents")
           \/ (A \/ UNCHANGED services) /\ Trouble /\ Go(OpsBot, "failed")
           \/ UNCHANGED services /\ Fine /\ Leave(OpsBot)
    BY <1>4 DEF Request, FilesStand
  <2>2. HasEvent /\ First(left) = 1
    <3>1. left = {1} /\ HasEvent  BY <1>1, <1>4, Pages DEF IInv, Data, HasEvent
    <3> QED  BY <3>1, FirstOfOne
  <2>3. A => /\ events' = [events EXCEPT ![1].cancelled = TRUE]
             /\ UNCHANGED <<reservations, cleanings, finance, stored, told>>
    BY <2>2
  <2>4. request' = request  BY <2>1, FilesForm
  <2>5. Unspoken  BY <2>1, <2>4 DEF Unspoken, services
  <2> HIDE DEF A
  <2>6. A => Data' /\ PollerUndisturbed  BY <2>1, <2>2, <2>3, EventEnded
  <2>7. UNCHANGED services => Data' /\ PollerUndisturbed  BY <2>1, Still DEF FilesStand
  <2>8. Duty("failed")' /\ Ordered' /\ Untold'  BY <1>1, <2>1, <2>5, OrderStays DEF Unspoken
  <2>9. A => Duty("markEvents")'  BY <1>1, <2>3, <2>4, <2>8 DEF Duty, Executing, CleaningsDone
  <2> QED  BY <1>1, <2>1, <2>5, <2>6, <2>7, <2>8, <2>9, BotSteps
<1> QED  BY <1>2, <1>3, <1>4

LEMMA AdjustStep ==
    ASSUME IInv, Adjust, UNCHANGED mail
    PROVE  IInv'
<1> DEFINE A == finance' = finance + 1 /\ UNCHANGED <<reservations, cleanings, events, stored, told>>
<1>1. /\ pc[OpsBot] = "adjust" /\ Ordered
      /\ Untold /\ ~reservations[1].live /\ CleaningsDone /\ EventsDone
      /\ "tellCleaner" \in Positions /\ "failed" \in Positions
  BY DEF Adjust, IInv, Duty, Executing, Positions
<1>2. CASE finance > 0 /\ Skip(OpsBot, "tellCleaner")
  <2>1. UNCHANGED files /\ UNCHANGED services  BY <1>2 DEF Skip
  <2>2. finance = 1  BY <1>2 DEF IInv, Data, Single, PagesTyped
  <2>3. Ordered' /\ Untold'  BY <1>1, <1>2, <2>1, OrderStays DEF Skip, files, services
  <2>4. Duty("tellCleaner")'  BY <1>1, <2>1, <2>2, <2>3 DEF Duty, Executing, CleaningsDone, EventsDone, files, services
  <2> QED  BY <1>1, <1>2, <2>4, BotSkips
<1>3. CASE finance = 0 /\ Request(OpsBot, A, "tellCleaner", "failed")
  <2>1. /\ FilesStand
        /\ \/ A /\ Fine /\ Go(OpsBot, "tellCleaner")
           \/ (A \/ UNCHANGED services) /\ Trouble /\ Go(OpsBot, "failed")
           \/ UNCHANGED services /\ Fine /\ Leave(OpsBot)
    BY <1>3 DEF Request, FilesStand
  <2>2. request' = request  BY <2>1, FilesForm
  <2>3. A => Data' /\ PollerUndisturbed  BY <1>3, <2>1, RowOrCode
  <2>4. UNCHANGED services => Data' /\ PollerUndisturbed  BY <2>1, Still DEF FilesStand
  <2>5. Unspoken  BY <2>1, <2>2 DEF Unspoken, services
  <2>6. Duty("failed")' /\ Ordered' /\ Untold'  BY <1>1, <2>1, <2>5, OrderStays DEF Unspoken
  <2>7. A => Duty("tellCleaner")'
    BY <1>1, <1>3, <2>2, <2>6 DEF Duty, Executing, CleaningsDone, EventsDone
  <2> HIDE DEF A
  <2> QED  BY <1>1, <2>1, <2>3, <2>4, <2>5, <2>6, <2>7, BotSteps
<1> QED  BY <1>2, <1>3 DEF Adjust

LEMMA TellCleanerStep ==
    ASSUME IInv, TellCleaner, UNCHANGED mail
    PROVE  IInv'
<1>1. /\ pc[OpsBot] = "tellCleaner" /\ Ordered
      /\ Untold /\ ~reservations[1].live /\ CleaningsDone /\ EventsDone /\ finance = 1
      /\ "record" \in Positions /\ "failed" \in Positions /\ "cleaner" \in Told
  BY DEF TellCleaner, IInv, Duty, Executing, Positions, Told
<1>2. CASE Skip(OpsBot, "record")
  <2>1. UNCHANGED files /\ UNCHANGED services  BY <1>2 DEF Skip
  <2>2. Ordered'  BY <1>1, <1>2, <2>1, OrderStays DEF Skip, files
  <2>3. Duty("record")'
    BY <1>1, <2>1, <2>2 DEF Duty, Executing, CleaningsDone, EventsDone, files, services
  <2> QED  BY <1>1, <1>2, <2>3, BotSkips
<1>3. CASE Request(OpsBot, Tell("cleaner"), "record", "failed")
  <2>1. /\ FilesStand
        /\ \/ Tell("cleaner") /\ Fine /\ Go(OpsBot, "record")
           \/ (Tell("cleaner") \/ UNCHANGED services) /\ Trouble /\ Go(OpsBot, "failed")
           \/ UNCHANGED services /\ Fine /\ Leave(OpsBot)
    BY <1>3 DEF Request, FilesStand
  <2>2. request' = request  BY <2>1, FilesForm
  <2>3. Tell("cleaner") => Data' /\ PollerUndisturbed  BY <1>1, <2>1, Spoken
  <2>4. UNCHANGED services => Data' /\ PollerUndisturbed  BY <2>1, Still DEF FilesStand
  <2>5. Duty("failed")' /\ Ordered'  BY <1>1, <2>1, <2>2, OrderStays
  <2>6. Tell("cleaner") => Duty("record")'
    BY <1>1, <2>2, <2>5 DEF Duty, Executing, CleaningsDone, EventsDone, Tell
  <2>7. Heard'
    <3>1. reopened' = reopened  BY <2>1, Bounded DEF IInv
    <3>2. told["cleaner"] \in Nat /\ told'["cleaner"] \in {told["cleaner"], told["cleaner"] + 1}
      BY <2>1 DEF Tell, services, IInv, Data, PagesTyped, Told
    <3> QED  BY <1>1, <2>2, <3>1, <3>2 DEF Ordered, Untold, IInv, Heard, Allowed
  <2> QED  BY <1>1, <2>1, <2>3, <2>4, <2>5, <2>6, <2>7, BotSteps
<1> QED  BY <1>2, <1>3 DEF TellCleaner

LEMMA RecordExecutionStep ==
    ASSUME IInv, RecordExecution, UNCHANGED mail
    PROVE  IInv'
<1> DEFINE T == [status : {"PENDING", "APPROVED", "REJECTED", "EXECUTED", "RETRY"},
                 cleanings : SUBSET DOMAIN cleanings, events : SUBSET DOMAIN events]
<1>1. ASSUME NEW s \in {"EXECUTED", "RETRY"}, SetRequest([request EXCEPT !.status = s]), UNCHANGED services,
             Fine, Leave(OpsBot), Ordered,
             s = "EXECUTED" => ~reservations[1].live /\ CleaningsDone /\ EventsDone /\ finance = 1
      PROVE  IInv'
  <2> DEFINE r == [request EXCEPT !.status = s]
  <2>1. r \in T /\ r.status = s /\ r.cleanings = request.cleanings /\ r.events = request.events
    BY DEF IInv, Data, FilesTyped
  <2>2. SetRequest(r) /\ HasPage  BY <1>1 DEF IInv, Data, Cancelled, Ordered
  <2> HIDE DEF r, T
  <2>3. /\ Data' /\ request' = r
        /\ seen' = seen /\ change' = change /\ notices' = notices /\ offered' = offered /\ door' = door
        /\ reservations' = reservations /\ cleanings' = cleanings /\ events' = events
        /\ finance' = finance /\ stored' = stored /\ told' = told
    BY <1>1, <2>1, <2>2, RequestWritten DEF Elsewhere, T
  <2>4. PollerUndisturbed  BY <1>1, <2>1, <2>3 DEF PollerUndisturbed, Prompted, Ordered
  <2>5. reopened' = reopened  BY <1>1, Bounded DEF IInv
  <2>6. Heard'  BY <2>1, <2>3, <2>5 DEF IInv, Heard, Allowed
  <2> QED  BY <1>1, <2>3, <2>4, <2>6, BotSteps
<1>2. CASE /\ pc[OpsBot] = "record"
           /\ Fenced(OpsBot, SetRequest([request EXCEPT !.status = "EXECUTED"]), Leave(OpsBot))
  <2>1. Ordered /\ ~reservations[1].live /\ CleaningsDone /\ EventsDone /\ finance = 1
    BY <1>2 DEF IInv, Duty, Executing
  <2>2. CASE /\ SetRequest([request EXCEPT !.status = "EXECUTED"]) /\ UNCHANGED services
             /\ Fine /\ Leave(OpsBot)
    BY <1>1, <2>1, <2>2
  <2>3. CASE UNCHANGED <<files, services>> /\ Fine /\ Leave(OpsBot)
    BY <2>3, Still, BotSteps DEF Unspoken, files, services
  <2> QED  BY <1>2, <2>2, <2>3 DEF Fenced
<1>3. CASE /\ pc[OpsBot] = "failed"
           /\ Unfenced(SetRequest([request EXCEPT !.status = "RETRY"]), Leave(OpsBot))
  <2>1. Ordered  BY <1>3 DEF IInv, Duty, Executing
  <2>2. /\ SetRequest([request EXCEPT !.status = "RETRY"]) /\ UNCHANGED services
        /\ Fine /\ Leave(OpsBot)
    BY <1>3 DEF Unfenced
  <2> QED  BY <1>1, <2>1, <2>2
<1> QED  BY <1>2, <1>3 DEF RecordExecution

-----------------------------------------------------------------------------
(* The mails, the walk and the operator                                    *)

\* Mails arrive and are taken note of; a poll that dies forgets only what it had not saved.
LEMMA MailMoves ==
    ASSUME IInv, UNCHANGED <<files, services>>, inbox' \in 0..Len(Story), inbox <= inbox',
           seen \subseteq seen', seen' \subseteq Mails, polled' \subseteq Mails
    PROVE  /\ Data' /\ BotUndisturbed
           /\ seen' = seen => PollerUndisturbed
<1>1. /\ queue' = queue /\ change' = change /\ notices' = notices
      /\ offered' = offered /\ door' = door /\ request' = request
      /\ reservations' = reservations /\ cleanings' = cleanings /\ events' = events
      /\ finance' = finance /\ stored' = stored /\ told' = told
  BY DEF files, services
<1>2. FilesTyped' /\ PagesTyped' /\ Single'
  BY <1>1 DEF IInv, Data, FilesTyped, PagesTyped, Single
<1>3. Arrived \subseteq Arrived'
  <2>1. inbox \in Nat /\ inbox' \in Nat  BY BookingAssumption, LenProperties DEF IInv, Data, FilesTyped
  <2>2. 1..inbox \subseteq 1..inbox'  BY <2>1
  <2> QED  BY <2>2 DEF Arrived
<1>4. Changed'
  <2>1. change' # "none" => "requested" \in Arrived'  BY <1>1, <1>3 DEF IInv, Data, Changed
  <2>2. change' = "APPLIED" => "requested" \in seen'  BY <1>1 DEF IInv, Data, Changed
  <2>3. told'["applied"] > 0 => change' = "APPLIED" /\ HasPage' /\ reservations'[1].guests = "requested"
    BY <1>1 DEF IInv, Data, Changed, HasPage
  <2> QED  BY <2>1, <2>2, <2>3 DEF Changed
<1>5. Said' /\ Queued' /\ Cancelled'
  BY <1>1 DEF IInv, Data, Said, Queued, Ready, Prompted, Cancelled, CleaningsDone, EventsDone,
     HasPage, HasCleaning, HasEvent
<1>6. BotUndisturbed /\ (seen' = seen => PollerUndisturbed)
  BY <1>1 DEF BotUndisturbed, PollerUndisturbed, Prompted
<1> QED  BY <1>1, <1>2, <1>4, <1>5, <1>6 DEF Data

LEMMA ControlStands ==
    ASSUME ControlTyped, UNCHANGED <<writerVars, local, history>>
    PROVE  /\ ControlTyped' /\ pc' = pc /\ at' = at
           /\ Current(Poller)' => Current(Poller)
           /\ reopened' = reopened
BY DEF ControlTyped, WriterTypeOK, writerVars, local, history, Current

LEMMA ArriveStep ==
    ASSUME IInv, Arrive
    PROVE  IInv'
<1>1. /\ ControlTyped' /\ pc' = pc /\ at' = at /\ reopened' = reopened
      /\ Current(Poller)' => Current(Poller)
  BY ControlStands DEF IInv, Arrive
<1>2. inbox' \in 0..Len(Story) /\ inbox <= inbox'
  BY BookingAssumption, LenProperties DEF IInv, Data, FilesTyped, Arrive
<1>3. Data' /\ BotUndisturbed /\ PollerUndisturbed
  BY <1>2, MailMoves DEF Arrive, IInv, Data, FilesTyped
<1> QED  BY <1>1, <1>3, OthersStep

\* Only a mail that was not saved as processed is recorded, so a change that was applied is not
\* made pending again.
LEMMA PollStep ==
    ASSUME IInv, Poll
    PROVE  IInv'
<1>1. PICK i \in 1..inbox : /\ Story[i] \notin seen \cup polled
                            /\ Recorded(Story[i])
                            /\ polled' = polled \cup {Story[i]}
  BY DEF Poll
<1>2. Story[i] \in Mails /\ Story[i] \in Arrived
  <2>1. i \in 1..Len(Story)  BY BookingAssumption, LenProperties DEF IInv, Data, FilesTyped
  <2> QED  BY <2>1, ElementOfSeq, BookingAssumption DEF Arrived
<1>3. /\ pc[Poller] = "idle" /\ UNCHANGED <<writerVars, local, history>>
      /\ inbox' = inbox /\ seen' = seen /\ polled' \subseteq Mails
      /\ reservations' = reservations /\ cleanings' = cleanings /\ events' = events
      /\ finance' = finance /\ stored' = stored /\ told' = told
  BY <1>1, <1>2 DEF Poll, services, IInv, Data, FilesTyped
<1>4. ControlTyped' /\ pc' = pc /\ at' = at /\ reopened' = reopened  BY <1>3, ControlStands DEF IInv
<1>5. /\ notices' = notices /\ offered' = offered /\ door' = door /\ request' = request
      /\ \/ /\ Story[i] # "requested" /\ change' = change
            /\ queue' = [queue EXCEPT ![Story[i]] = "PENDING_NOTION_READ"]
         \/ Story[i] = "requested" /\ change' = "PENDING_CONFIRMATION" /\ queue' = queue
  BY <1>1 DEF Recorded, ParsedAs, SetItem
<1>6. FilesTyped' /\ PagesTyped' /\ Single'
  BY <1>2, <1>3, <1>5 DEF IInv, Data, FilesTyped, PagesTyped, Single, Statuses
<1>7. Changed'
  <2>1. change' # change => "requested" \in Arrived /\ change # "APPLIED" /\ change' = "PENDING_CONFIRMATION"
    BY <1>1, <1>2, <1>5 DEF IInv, Data, Changed
  <2>2. Arrived' = Arrived  BY <1>3 DEF Arrived
  <2> QED  BY <1>3, <2>1, <2>2 DEF IInv, Data, Changed, HasPage
<1>8. Queued'
  BY <1>2, <1>3, <1>5 DEF IInv, Data, FilesTyped, Queued, Ready, Prompted, HasPage, HasCleaning, HasEvent, Mails
<1>9. Said' /\ Cancelled'
  BY <1>3, <1>5 DEF IInv, Data, Said, Cancelled, CleaningsDone, EventsDone, HasPage, HasCleaning
<1>10. BotUndisturbed  BY <1>3, <1>5 DEF BotUndisturbed
<1> QED  BY <1>3, <1>4, <1>6, <1>7, <1>8, <1>9, <1>10, AtRest, DutyStays DEF IInv, Data

LEMMA SaveStateStep ==
    ASSUME IInv, SaveState
    PROVE  IInv'
<1>1. /\ pc[Poller] = "idle" /\ Arrived \subseteq seen'
      /\ UNCHANGED <<writerVars, files, services, plan, history>> /\ inbox' = inbox
      /\ seen' = seen \cup polled /\ polled' = {}
      /\ pc' = [pc EXCEPT ![Poller] = "walk"] /\ at' = 1
  BY DEF SaveState
<1>2. ControlTyped' /\ pc'[Poller] = "walk" /\ pc'[OpsBot] = pc[OpsBot] /\ reopened' = reopened
  <2>1. 1 \in 1..Len(ByHash) + 1  BY BookingAssumption, LenProperties
  <2> QED  BY <1>1, <2>1, Actors DEF IInv, ControlTyped, WriterTypeOK, writerVars, history, Positions
<1>3. inbox <= inbox' /\ inbox' \in 0..Len(Story)
  BY <1>1, BookingAssumption, LenProperties DEF IInv, Data, FilesTyped
<1>4. Data' /\ BotUndisturbed  BY <1>1, <1>3, MailMoves DEF IInv, Data, FilesTyped
<1>5. change' # "none" => "requested" \in seen'
  <2>1. change' = change  BY <1>1 DEF files
  <2> QED  BY <1>1, <2>1 DEF IInv, Data, Changed
<1>6. Pledge("walk")'
  BY <1>5 DEF Pledge, Item, Booked, Applied, Asking, Confirming, Updating
<1> QED  BY <1>2, <1>4, <1>6, DutyStays DEF IInv

\* An item that is worked on is not a change request's: no change request is in the queue.
LEMMA TakeItemStep ==
    ASSUME IInv, TakeItem
    PROVE  IInv'
<1>1. pc[Poller] = "walk" /\ UNCHANGED <<mail, files, services, plan>>  BY DEF TakeItem
<1>2. Data' /\ BotUndisturbed /\ seen' = seen /\ change' = change /\ queue' = queue
  BY <1>1, Still DEF mail, files
<1>3. CASE at > Len(ByHash) /\ pc' = [pc EXCEPT ![Poller] = "idle"] /\ at' = 1 /\ UNCHANGED <<writerVars, history>>
  <2>1. 1 \in 1..Len(ByHash) + 1  BY BookingAssumption, LenProperties
  <2>2. ControlTyped' /\ pc'[Poller] = "idle" /\ pc'[OpsBot] = pc[OpsBot] /\ reopened' = reopened
    BY <1>1, <1>3, <2>1, Actors DEF IInv, ControlTyped, WriterTypeOK, writerVars, history, Positions
  <2> QED  BY <1>2, <2>2, AtRest, DutyStays DEF IInv
<1>4. CASE at <= Len(ByHash) /\ at' = at + 1 /\ UNCHANGED <<writerVars, pc, history>>
  <2>1. at' \in 1..Len(ByHash) + 1  BY <1>4, BookingAssumption, LenProperties DEF IInv, ControlTyped
  <2>2. ControlTyped' /\ pc' = pc /\ reopened' = reopened
    BY <1>1, <1>4, <2>1 DEF IInv, ControlTyped, WriterTypeOK, writerVars, history
  <2>3. Pledge("walk")'
    BY <1>1, <1>2 DEF IInv, Pledge, Item, Booked, Applied, Asking, Confirming, Updating
  <2> QED  BY <1>1, <1>2, <2>2, <2>3, DutyStays DEF IInv
<1>5. CASE /\ at <= Len(ByHash) /\ Eligible(ByHash[at]) /\ Enter(Poller)
           /\ pc' = [pc EXCEPT ![Poller] = FirstStep(ByHash[at])] /\ UNCHANGED <<at, history>>
  <2> DEFINE l == FirstStep(ByHash[at])
  <2>1. at \in DOMAIN ByHash /\ ByHash[at] \in Mails /\ ByHash[at] # "requested"
    <3>1. at \in 1..Len(ByHash) /\ DOMAIN ByHash = 1..Len(ByHash)
      BY <1>5, BookingAssumption, LenProperties DEF IInv, ControlTyped
    <3> QED  BY <1>5, <3>1, ElementOfSeq, BookingAssumption DEF Eligible, IInv, Data, Queued
  <2>2. \/ l = "reserve" /\ ByHash[at] = "confirmed"
        \/ l = "update" /\ ByHash[at] = "updated"
        \/ l = "cancel" /\ ByHash[at] = "cancelled"
    BY <2>1 DEF FirstStep, Mails
  <2>3. l \in Positions  BY <2>2 DEF Positions
  <2>4. WriterTypeOK'  BY <1>5, EnterForm, Actors DEF IInv
  <2> HIDE DEF l
  <2>5. ControlTyped' /\ pc'[Poller] = l /\ pc'[OpsBot] = pc[OpsBot] /\ reopened' = reopened
    BY <1>1, <1>5, <2>3, <2>4, Actors DEF IInv, ControlTyped, history, l
  <2>6. Pledge(pc[Poller])'
    <3>1. change' # "none" => "requested" \in seen'  BY <1>1, <1>2 DEF IInv, Pledge, Applied
    <3> QED
      BY <1>5, <2>1, <2>2, <2>5, <3>1 DEF Pledge, Item, Booked, Applied, Asking, Confirming, Updating
  <2> QED  BY <1>2, <2>5, <2>6, DutyStays DEF IInv
<1> QED  BY <1>3, <1>4, <1>5 DEF TakeItem

LEMMA RefusedStep ==
    ASSUME IInv, NEW p \in {Poller, Desk}, Refused(p)
    PROVE  IInv'
<1>1. /\ UNCHANGED <<mail, files, services>> /\ at' = at
      /\ pc' = [pc EXCEPT ![p] = "idle"] /\ plan' = IF p = Desk THEN {} ELSE plan
      /\ Fine \/ Trouble
      /\ UNCHANGED writerVars \/ EnterInVain(p)
  BY DEF Refused
<1>2. p \in Writers /\ p # OpsBot  BY Actors
<1>3. WriterTypeOK' /\ inside' = inside /\ (Current(Poller)' => Current(Poller))
  <2>1. CASE UNCHANGED writerVars  BY <2>1 DEF IInv, ControlTyped, WriterTypeOK, writerVars, Current
  <2>2. CASE EnterInVain(p)
    BY <1>2, <2>2, Actors DEF EnterInVain, IInv, ControlTyped, WriterTypeOK, Current
  <2> QED  BY <1>1, <2>1, <2>2
<1>4. troubles' \in 0..MaxTroubles /\ reopened' = reopened  BY <1>1, Bounded DEF IInv
<1>5. ControlTyped'  BY <1>1, <1>2, <1>3, <1>4 DEF IInv, ControlTyped, Positions
<1>6. Data' /\ BotUndisturbed /\ PollerUndisturbed  BY <1>1, Still
<1>7. pc'[p] = "idle" /\ \A q \in Writers \ {p} : pc'[q] = pc[q]
  BY <1>1, <1>2 DEF IInv, ControlTyped
<1>8. CASE p = Poller
  BY <1>2, <1>4, <1>5, <1>6, <1>7, <1>8, Actors, AtRest, DutyStays DEF IInv
<1>9. CASE p = Desk
  BY <1>1, <1>2, <1>3, <1>4, <1>5, <1>6, <1>7, <1>9, Actors, OthersStep
<1> QED  BY <1>8, <1>9

LEMMA CrashStep ==
    ASSUME IInv, NEW p \in Writers, Crash(p)
    PROVE  IInv'
<1>1. /\ UNCHANGED <<files, services>> /\ inbox' = inbox /\ seen' = seen /\ at' = at
      /\ polled' = IF p = Poller THEN {} ELSE polled
      /\ plan' = IF p = Desk THEN {} ELSE plan
      /\ pc' = [pc EXCEPT ![p] = "idle"]
      /\ Trouble /\ Die(p)
  BY DEF Crash
<1>2. WriterTypeOK' /\ (Current(Poller)' => Current(Poller))
  BY <1>1 DEF Die, IInv, ControlTyped, WriterTypeOK, Current
<1>3. troubles' \in 0..MaxTroubles /\ reopened' = reopened  BY <1>1, Bounded DEF IInv
<1>4. ControlTyped'  BY <1>1, <1>2, <1>3 DEF IInv, ControlTyped, Positions
<1>5. Data' /\ BotUndisturbed /\ PollerUndisturbed
  <2>1. inbox <= inbox' /\ inbox' \in 0..Len(Story) /\ polled' \subseteq Mails
    BY <1>1, BookingAssumption, LenProperties DEF IInv, Data, FilesTyped
  <2> QED  BY <1>1, <2>1, MailMoves DEF IInv, Data, FilesTyped
<1>6. pc'[p] = "idle" /\ \A q \in Writers \ {p} : pc'[q] = pc[q]  BY <1>1 DEF IInv, ControlTyped
<1>7. CASE p = Poller
  BY <1>3, <1>4, <1>5, <1>6, <1>7, Actors, AtRest, DutyStays DEF IInv
<1>8. CASE p = OpsBot
  <2>1. Heard'  BY <1>1, HeardStays DEF Unspoken, files, services
  <2> QED  BY <1>1, <1>2, <1>3, <1>4, <1>5, <1>6, <1>8, <2>1, Actors, AtRest, PledgeStays DEF IInv
<1>9. CASE p = Desk
  BY <1>1, <1>2, <1>3, <1>4, <1>5, <1>6, <1>9, Actors, OthersStep
<1> QED  BY <1>7, <1>8, <1>9, Actors

LEMMA PlanReconciliationStep ==
    ASSUME IInv, PlanReconciliation
    PROVE  IInv'
<1>1. /\ UNCHANGED <<writerVars, mail, files, services, at, history>>
      /\ plan' \subseteq Mails /\ pc' = [pc EXCEPT ![Desk] = "planned"]
  BY DEF PlanReconciliation, Unreconciled, Mails
<1>2. /\ ControlTyped' /\ pc'[Poller] = pc[Poller] /\ pc'[OpsBot] = pc[OpsBot] /\ at' = at
      /\ Current(Poller)' => Current(Poller)
      /\ reopened' = reopened
  BY <1>1, Actors DEF IInv, ControlTyped, WriterTypeOK, writerVars, history, Positions, Current
<1> QED  BY <1>1, <1>2, Still, OthersStep

LEMMA StartReconciliationStep ==
    ASSUME IInv, StartReconciliation
    PROVE  IInv'
<1>1. /\ UNCHANGED <<mail, files, services, at, plan, history>> /\ Enter(Desk)
      /\ pc' = [pc EXCEPT ![Desk] = "strike"]
  BY DEF StartReconciliation
<1>2. WriterTypeOK' /\ ~Current(Poller)'  BY <1>1, EnterForm, Actors DEF IInv
<1>3. /\ ControlTyped' /\ pc'[Poller] = pc[Poller] /\ pc'[OpsBot] = pc[OpsBot] /\ at' = at
      /\ reopened' = reopened
  BY <1>1, <1>2, Actors DEF IInv, ControlTyped, history, Positions
<1> QED  BY <1>1, <1>2, <1>3, Still, OthersStep

LEMMA StrikeStep ==
    ASSUME IInv, Strike
    PROVE  IInv'
<1>1. /\ UNCHANGED <<mail, services, history>> /\ SetItem(NextToStrike, "CANCELLED_PRE_INGEST")
      /\ Leave(Desk) \/ (plan' = plan \ {NextToStrike} /\ Proceed(Desk) /\ UNCHANGED <<pc, at>>)
  BY DEF Strike
<1>2. NextToStrike \in Mails /\ NextToStrike # "requested" /\ "CANCELLED_PRE_INGEST" \in Statuses
  BY DEF NextToStrike, Mails, Statuses
<1>3. Data' /\ BotUndisturbed /\ PollerUndisturbed  BY <1>1, <1>2, ItemWritten DEF Elsewhere
<1>4. /\ ControlTyped' /\ pc'[Poller] = pc[Poller] /\ pc'[OpsBot] = pc[OpsBot] /\ at' = at
      /\ Current(Poller)' => Current(Poller)
      /\ reopened' = reopened
  <2>1. CASE Leave(Desk)
    <3>1. Fine  BY <1>1 DEF Fine
    <3> QED  BY <2>1, <3>1, LeaveForm, Actors DEF IInv
  <2>2. CASE plan' = plan \ {NextToStrike} /\ Proceed(Desk) /\ UNCHANGED <<pc, at>>
    BY <1>1, <2>2 DEF IInv, ControlTyped, WriterTypeOK, Proceed, history, Current
  <2> QED  BY <1>1, <2>1, <2>2
<1> QED  BY <1>3, <1>4, OthersStep

LEMMA CompleteCleaningStep ==
    ASSUME IInv, CompleteCleaning
    PROVE  IInv'
<1>1. PICK c \in offered : cleanings' = [cleanings EXCEPT ![c].state = "done"]  BY DEF CompleteCleaning
<1>2. c = 1 /\ HasCleaning  BY Pages DEF IInv, Data, FilesTyped, HasCleaning
<1>3. /\ FilesStand /\ UNCHANGED <<reservations, events, finance, stored, told>>
      /\ UNCHANGED <<writerVars, local, history>>
  BY DEF CompleteCleaning, FilesStand
<1>4. Data' /\ BotUndisturbed /\ PollerUndisturbed  BY <1>1, <1>2, <1>3, CleaningEnded
<1>5. /\ ControlTyped' /\ pc' = pc /\ at' = at /\ reopened' = reopened
      /\ Current(Poller)' => Current(Poller)
  BY <1>3, ControlStands DEF IInv
<1> QED  BY <1>4, <1>5, OthersStep

LEMMA LeaseLapseStep ==
    ASSUME IInv, LeaseLapse
    PROVE  IInv'
<1>1. UNCHANGED <<mail, files, services>> /\ UNCHANGED <<pc, at, plan, history>> /\ Lapse
  BY DEF LeaseLapse, local
<1>2. WriterTypeOK' /\ ~Current(Poller)'
  BY <1>1, Actors, WritersAssumption DEF Lapse, IInv, ControlTyped, WriterTypeOK, Current
<1>3. ControlTyped' /\ reopened' = reopened  BY <1>1, <1>2 DEF IInv, ControlTyped, history
<1> QED  BY <1>1, <1>2, <1>3, Still, OthersStep

-----------------------------------------------------------------------------
(* The invariant, and what follows from it                                 *)

LEMMA InitIInv == Init => IInv
<1> SUFFICES ASSUME Init PROVE IInv  OBVIOUS
<1>1. WriterTypeOK /\ inbox = 0 /\ seen = {} /\ polled = {}
  BY WritersAssumption DEF Init, WriterInit, WriterTypeOK
<1>2. ControlTyped
  <2>1. 1 \in 1..Len(ByHash) + 1 /\ 0 \in 0..MaxTroubles  BY BookingAssumption, LenProperties
  <2> QED  BY <1>1, <2>1 DEF Init, ControlTyped, Positions
<1>3. DOMAIN reservations = {} /\ DOMAIN cleanings = {} /\ DOMAIN events = {}
      /\ Len(reservations) = 0 /\ Len(cleanings) = 0 /\ Len(events) = 0
  BY DEF Init
<1>4. FilesTyped
  <2>1. inbox \in 0..Len(Story)  BY <1>1, BookingAssumption, LenProperties
  <2> QED  BY <1>1, <1>3, <2>1 DEF Init, FilesTyped, Statuses
<1>5. PagesTyped  BY <1>3, EmptySeq DEF Init, PagesTyped
<1>6. Single /\ Said  BY <1>3 DEF Init, Single, Said, Told
<1>7. Changed /\ Queued /\ Cancelled
  BY <1>3 DEF Init, Changed, Queued, Cancelled, Mails, Told, HasCleaning
<1>8. Pledge(pc[Poller]) /\ Duty(pc[OpsBot])
  <2>1. pc[Poller] = "idle" /\ pc[OpsBot] = "idle"  BY Actors DEF Init
  <2> QED  BY <2>1 DEF Pledge, Item, Booked, Applied, Asking, Confirming, Updating, Duty, Executing
<1>9. Heard  BY DEF Init, Heard, Allowed, Told
<1> QED  BY <1>2, <1>4, <1>5, <1>6, <1>7, <1>8, <1>9 DEF IInv, Data

LEMMA BridgeStep ==
    ASSUME IInv, Bridge
    PROVE  IInv'
<1>1. CASE Reserve \/ Clean \/ Book \/ Bind
  BY <1>1, ReserveStep, CleanStep, BookStep, BindStep DEF Bridge
<1>2. CASE Offer \/ SendOffer \/ Prompt \/ SendPrompt
  BY <1>2, OfferStep, SendOfferStep, PromptStep, SendPromptStep DEF Bridge
<1>3. CASE Update \/ MarkApplied  BY <1>3, UpdateStep, MarkAppliedStep DEF Bridge
<1>4. CASE SendChangeReview
  BY <1>4, NoticeStep DEF Bridge, SendChangeReview
<1>5. CASE SendChangeApplied
  BY <1>5, NoticeStep DEF Bridge, SendChangeApplied
<1>6. CASE Cancel \/ AskApproval \/ Asked \/ Finish \/ Uncertain
  BY <1>6, CancelStep, AskApprovalStep, AskedStep, FinishStep, UncertainStep DEF Bridge
<1> QED  BY <1>1, <1>2, <1>3, <1>4, <1>5, <1>6 DEF Bridge

LEMMA ExecuteStep ==
    ASSUME IInv, Execute
    PROVE  IInv'
BY CancelReservationStep, CancelCleaningsStep, MarkEventsStep, AdjustStep, TellCleanerStep,
   RecordExecutionStep, RelayCodeStep, StoreCodeStep, RecordCodeStep DEF Execute

LEMMA NextIInv ==
    ASSUME IInv, [Next]_vars
    PROVE  IInv'
<1>1. CASE UNCHANGED vars
  <2>1. UNCHANGED <<mail, files, services>> /\ UNCHANGED <<writerVars, local, history>>  BY <1>1 DEF vars
  <2>2. /\ ControlTyped' /\ pc' = pc /\ at' = at /\ reopened' = reopened
        /\ Current(Poller)' => Current(Poller)
    BY <2>1, ControlStands DEF IInv
  <2> QED  BY <2>1, <2>2, Still, OthersStep
<1>2. CASE Arrive \/ Poll \/ SaveState \/ TakeItem
  BY <1>2, ArriveStep, PollStep, SaveStateStep, TakeItemStep
<1>3. CASE Bridge  BY <1>3, BridgeStep
<1>4. CASE Press \/ AnswerPrompt  BY <1>4, PressStep, AnswerPromptStep
<1>5. CASE Execute  BY <1>5, ExecuteStep
<1>6. CASE PlanReconciliation \/ StartReconciliation \/ Strike
  BY <1>6, PlanReconciliationStep, StartReconciliationStep, StrikeStep
<1>7. ASSUME NEW p \in {Poller, Desk}, Refused(p) PROVE IInv'  BY <1>7, RefusedStep
<1>8. ASSUME NEW p \in Writers, Crash(p) PROVE IInv'  BY <1>8, CrashStep
<1>9. CASE CompleteCleaning \/ LeaseLapse  BY <1>9, CompleteCleaningStep, LeaseLapseStep
<1> QED  BY <1>1, <1>2, <1>3, <1>4, <1>5, <1>6, <1>7, <1>8, <1>9 DEF Next

\* What the poller and the bot have established at their places, and what pages and files say,
\* holds in every state.
THEOREM Invariant == Spec => []IInv
BY InitIInv, NextIInv, PTL DEF Spec

\* Every variable keeps its type, and what a request or a cleaning names exists.
THEOREM TypeCorrect == Spec => []TypeOK
<1>1. IInv => TypeOK  BY DEF IInv, Data, ControlTyped, FilesTyped, PagesTyped, TypeOK
<1> QED  BY <1>1, Invariant, PTL

\* However often the bridge starts again over half-done items, lost answers and lost leases, the
\* booking has one page, one cleaning, one event and one adjustment row.
THEOREM NothingTwice == Spec => []OneOfEach
<1>1. IInv => OneOfEach
  <2> SUFFICES ASSUME IInv PROVE OneOfEach  OBVIOUS
  <2>1. PagesTyped /\ Single  BY DEF IInv, Data
  <2>2. ASSUME NEW r \in DOMAIN reservations
        PROVE  Cardinality(EventsOf(r)) <= 1 /\ Report(r) # "CONFLICT"
    <3>1. r = 1 /\ HasPage  BY <2>1, Pages DEF HasPage
    <3>2. CleaningsOf(1) \subseteq {1} /\ EventsOf(1) \subseteq {1}  BY <2>1, <3>1, Queries, Pages
    <3>3. \A S : S \subseteq {1} => Cardinality(S) \in {0, 1} /\ (S # {} => Cardinality(S) = 1)
      <4> SUFFICES ASSUME NEW S, S \subseteq {1}
                   PROVE  Cardinality(S) \in {0, 1} /\ (S # {} => Cardinality(S) = 1)
        OBVIOUS
      <4>1. S = {} \/ S = {1}  OBVIOUS
      <4>2. Cardinality({}) = 0 /\ Cardinality({1}) = 1  BY FS_EmptySet, FS_Singleton
      <4> QED  BY <4>1, <4>2
    <3>4. Cardinality(EventsOf(1)) \in {0, 1}  BY <3>2, <3>3
    <3>5. Report(1) # "CONFLICT"  BY <3>2, <3>3 DEF Report
    <3> QED  BY <3>1, <3>4, <3>5
  <2> QED  BY <2>1, <2>2 DEF OneOfEach, Single
<1> QED  BY <1>1, Invariant, PTL

\* Nobody is told the same thing twice, whatever is done again, the door code apart; and the
\* cleaner a second time, and no third, only after a poller whose lease had run out put an
\* answered approval back to PENDING.
THEOREM NothingSaidTwice == Spec => []SaidOnce
<1>1. IInv => SaidOnce  BY DEF IInv, Data, Said, Heard, Allowed, SaidOnce
<1> QED  BY <1>1, Invariant, PTL

\* A completed confirmation, an applied change and a synced door code are what they say.
THEOREM RecordsStand == Spec => []RecordsAreTrue
<1>1. IInv => CompleteMeansReady
  <2> SUFFICES ASSUME IInv, queue["confirmed"] = "COMPLETE"
               PROVE  /\ reservations # << >>
                      /\ Report(TheReservation) # "MISSING"
                      /\ CleaningsOf(TheReservation) # {}
                      /\ cleanings[TheCleaning].event \in EventsOf(TheReservation)
                      /\ TheCleaning \in offered /\ Prompted
    BY DEF CompleteMeansReady
  <2>1. PagesTyped /\ Single /\ Ready  BY DEF IInv, Data, Queued
  <2>2. HasPage /\ HasCleaning /\ HasEvent /\ cleanings[1].event = 1 /\ 1 \in offered /\ Prompted
    BY <2>1 DEF Ready
  <2>3. /\ TheReservation = 1 /\ TheCleaning = 1
        /\ CleaningsOf(1) = {1} /\ EventsOf(1) = {1} /\ reservations # << >>
    BY <2>1, <2>2, Queries, Pages
  <2>4. Report(1) # "MISSING"  BY <2>3 DEF Report
  <2> QED  BY <2>2, <2>3, <2>4
<1>2. IInv => ReportsAreTrue  BY DEF IInv, Data, Changed, Cancelled, ReportsAreTrue
<1> QED  BY <1>1, <1>2, Invariant, PTL DEF RecordsAreTrue

\* An executed cancellation reached all it named, and nothing it named is cancelled under a
\* reservation that is still live.
THEOREM NothingHalfCancelled == Spec => []CancellationIsWhole
<1>1. IInv => CancellationIsWhole
  <2> SUFFICES ASSUME IInv PROVE CancellationIsWhole  OBVIOUS
  <2>1. \A c \in DOMAIN cleanings : cleanings[c].state = "cancelled" => ~reservations[cleanings[c].of].live
    <3> SUFFICES ASSUME NEW c \in DOMAIN cleanings, cleanings[c].state = "cancelled"
                 PROVE  ~reservations[cleanings[c].of].live
      OBVIOUS
    <3>1. c = 1 /\ HasCleaning  BY Pages DEF IInv, Data, HasCleaning
    <3>2. cleanings[1].of = 1  BY <3>1, Entries DEF IInv, Data
    <3> QED  BY <3>1, <3>2 DEF IInv, Data, Cancelled
  <2> QED  BY <2>1 DEF IInv, Data, Cancelled, CleaningsDone, EventsDone, CancellationIsWhole
<1> QED  BY <1>1, Invariant, PTL

=============================================================================
