--------------------------- MODULE PropertyAccess ---------------------------
(***************************************************************************)
(* A cleaner asks for a property, an operator decides, and each side is    *)
(* told by Telegram.                                                       *)
(*                                                                         *)
(*   cleaner_property_access.py                 requests, decisions        *)
(*   ops_property_access_notifications.py       telling the operators      *)
(*   cleaner_property_access_notifications.py   telling the cleaner        *)
(*   cleaner_bot_runtime.py, ops_bot_runtime.py the two processes          *)
(*                                                                         *)
(* Two processes, each handling one update or one delivery at a time under *)
(* the writer lease: Cleaner (W03) takes requests and tells the cleaner,   *)
(* Ops (W02) tells the operators and takes decisions.  Any button may be   *)
(* pressed at any time, again too.                                         *)
(*                                                                         *)
(* One pair of a cleaner and a property: its rows in the Notion ledger     *)
(* (every query filters by the pair or by its key), its entry in           *)
(* cleaners.json, its delivery records.  A Notion request that raises may  *)
(* have been applied, may be applied later, or never (lost).               *)
(***************************************************************************)
EXTENDS GlobalWriter, Sequences

CONSTANTS
    Cleaner, Ops,  \* the two writers
    Chats,         \* the operators' allowlist
    MaxLost,       \* bound: Notion requests that raise
    MaxCrashes     \* bound: crashes of the two processes

Letters == Chats \cup {"approval", "rejection"}
Pages == 1..(MaxLost + 1)

ASSUME AccessAssumption ==
    /\ Writers = {Cleaner, Ops}
    /\ Cleaner # Ops
    /\ Chats \cap {"approval", "rejection"} = {}
    /\ MaxLost \in Nat
    /\ MaxCrashes \in Nat

VARIABLES
    rows,     \* the pair's Access rows, in the order of their creation
    lost,     \* Notion requests that raised and may yet be applied
    failures, \* how many raised
    roster,   \* whether cleaners.json gives the cleaner the property
    record,   \* a page's delivery records: ops chats, approval, rejection
    sent,     \* messages Telegram took for a page
    pc,       \* where a process is
    page,     \* the Access page it works on
    letter,   \* the message it delivers
    crashes

ledger == <<rows, lost, failures>>
delivery == <<record, sent>>
local == <<pc, page, letter>>
vars == <<writerVars, ledger, roster, delivery, local, crashes>>

Statuses == {"REQUESTED", "APPROVED", "REJECTED"}
Syncs == {"NOT_REQUIRED", "PENDING", "SYNCED", "FAILED"}
Rows == [status : Statuses, sync : Syncs]
Positions == {"idle", "create", "approve", "approved", "again", "pending", "project", "sync",
              "unsync", "reject", "resolved", "send", "sent", "unanswered"}

-----------------------------------------------------------------------------
(* The Notion ledger                                                       *)

\* The row both queries find, and the only one.
Unique(g) == Len(rows) = 1 /\ g = 1

\* Page 0 is a page yet to be created; "SAME" leaves the status as it is.
NewRequest == [page |-> 0, status |-> "REQUESTED", sync |-> "NOT_REQUIRED"]
Approval(g) == [page |-> g, status |-> "APPROVED", sync |-> "PENDING"]
Rejection(g) == [page |-> g, status |-> "REJECTED", sync |-> "NOT_REQUIRED"]
SyncStatus(g, s) == [page |-> g, status |-> "SAME", sync |-> s]

Applied(req) ==
    IF req.page = 0
    THEN Append(rows, [status |-> req.status, sync |-> req.sync])
    ELSE [rows EXCEPT ![req.page] =
             [status |-> IF req.status = "SAME" THEN @.status ELSE req.status, sync |-> req.sync]]

Answered(req) ==
    /\ rows' = Applied(req)
    /\ UNCHANGED <<lost, failures>>

Raises(req) ==
    /\ failures < MaxLost
    /\ failures' = failures + 1
    /\ lost' = lost \cup {req}
    /\ UNCHANGED rows

\* A request that raised reaches the ledger after all.
Land ==
    \E req \in lost :
        /\ rows' = Applied(req)
        /\ lost' = lost \ {req}
        /\ UNCHANGED <<writerVars, failures, roster, delivery, local, crashes>>

-----------------------------------------------------------------------------

\* What a delivery file may say of a letter, and of one operators' chat.
LetterRecords == {"none", "attempting", "uncertain", "delivered"}
ChatRecords == {"none", "attempting", "delivered"}

Goto(p, l) == pc' = [pc EXCEPT ![p] = l] /\ UNCHANGED <<page, letter>>

\* The scope is left and the process looks for other work.
Done(p) == Exit(p) /\ Goto(p, "idle")

\* A ledger write, asserted first; an exception ends the handler.
Call(p, req, then) ==
    \/ /\ Cleared(p)
       /\ Answered(req)
       /\ Goto(p, then)
       /\ Proceed(p)
    \/ /\ IF Cleared(p) THEN Raises(req) ELSE UNCHANGED ledger
       /\ Done(p)

\* The last write of a handler: what the read after it finds only goes into a message.
LastCall(p, req) ==
    /\ IF Cleared(p) THEN Answered(req) \/ Raises(req) ELSE UNCHANGED ledger
    /\ Done(p)

-----------------------------------------------------------------------------
(* The cleaner asks                                                        *)

\* A press of the request button: with a row of any status there is nothing to do.
RequestAccess ==
    /\ pc[Cleaner] = "idle"
    /\ rows = << >>
    /\ Enter(Cleaner)
    /\ Goto(Cleaner, "create")
    /\ UNCHANGED <<ledger, roster, delivery, crashes>>

CreateRequest ==
    /\ pc[Cleaner] = "create"
    /\ LastCall(Cleaner, NewRequest)
    /\ UNCHANGED <<roster, delivery, crashes>>

-----------------------------------------------------------------------------
(* The operator decides                                                    *)

\* A button of page g: the scope is entered and the row is read, once.
Press(g, l) ==
    /\ pc[Ops] = "idle"
    /\ Unique(g)
    /\ Enter(Ops)
    /\ pc' = [pc EXCEPT ![Ops] = l]
    /\ page' = [page EXCEPT ![Ops] = g]
    /\ UNCHANGED <<ledger, roster, delivery, letter, crashes>>

PressApprove ==
    \E g \in DOMAIN rows :
        \/ rows[g].status = "REQUESTED" /\ Press(g, "approve")
        \/ /\ rows[g].status = "APPROVED"
           /\ ~(rows[g].sync = "SYNCED" /\ roster)
           /\ Press(g, "again")

Approve ==
    /\ pc[Ops] = "approve"
    /\ Call(Ops, Approval(page[Ops]), "approved")
    /\ UNCHANGED <<roster, delivery, crashes>>

\* An approved row that is not in effect goes through PENDING again.
ApproveAgain ==
    /\ pc[Ops] = "again"
    /\ Call(Ops, SyncStatus(page[Ops], "PENDING"), "pending")
    /\ UNCHANGED <<roster, delivery, crashes>>

ReadBack ==
    /\ \/ /\ pc[Ops] = "approved"
          /\ rows[page[Ops]] = [status |-> "APPROVED", sync |-> "PENDING"]
          /\ Goto(Ops, "project") /\ Proceed(Ops)
       \/ /\ pc[Ops] = "pending"
          /\ rows[page[Ops]].sync = "PENDING"
          /\ Goto(Ops, "project") /\ Proceed(Ops)
       \/ pc[Ops] \in {"approved", "pending"} /\ Done(Ops)
    /\ UNCHANGED <<ledger, roster, delivery, crashes>>

\* Mutant: a roster that was not written counts as projected.
ProjectAnyway ==
    /\ pc[Ops] = "project"
    /\ roster' \in {roster, Cleared(Ops)}
    /\ Goto(Ops, "sync")
    /\ Proceed(Ops)
    /\ UNCHANGED <<ledger, delivery, crashes>>

\* cleaners.json is rewritten and read back.
Project ==
    /\ pc[Ops] = "project"
    /\ \/ Cleared(Ops) /\ roster' = TRUE /\ Goto(Ops, "sync")
       \/ roster' = roster /\ Goto(Ops, "unsync")
    /\ Proceed(Ops)
    /\ UNCHANGED <<ledger, delivery, crashes>>

Sync ==
    /\ \/ pc[Ops] = "sync" /\ LastCall(Ops, SyncStatus(page[Ops], "SYNCED"))
       \/ pc[Ops] = "unsync" /\ LastCall(Ops, SyncStatus(page[Ops], "FAILED"))
    /\ UNCHANGED <<roster, delivery, crashes>>

PressReject ==
    \E g \in DOMAIN rows : rows[g].status = "REQUESTED" /\ Press(g, "reject")

Reject ==
    /\ pc[Ops] = "reject"
    /\ LastCall(Ops, Rejection(page[Ops]))
    /\ UNCHANGED <<roster, delivery, crashes>>

-----------------------------------------------------------------------------
(* Telling the two sides                                                   *)

\* Mutant: a message that may have been sent is sent again.
Failed(g, l) == record[g][l] # "delivered"

\* Nothing was sent, as far as the delivery record knows.
Unsent(g, l) == record[g][l] = "none"

\* The pump of p finds message l of page g due: read before the scope is entered.
Resolve(p, g, l) ==
    /\ pc[p] = "idle"
    /\ g \in DOMAIN rows
    /\ Unique(g)
    /\ Unsent(g, l)
    /\ pc' = [pc EXCEPT ![p] = "resolved"]
    /\ page' = [page EXCEPT ![p] = g]
    /\ letter' = [letter EXCEPT ![p] = l]
    /\ UNCHANGED <<writerVars, ledger, roster, delivery, crashes>>

ResolveRequested ==
    \E g \in DOMAIN rows, c \in Chats :
        rows[g].status = "REQUESTED" /\ Resolve(Ops, g, c)

ResolveApproved ==
    \E g \in DOMAIN rows :
        /\ rows[g] = [status |-> "APPROVED", sync |-> "SYNCED"]
        /\ Resolve(Cleaner, g, "approval")

ResolveRejected ==
    \E g \in DOMAIN rows :
        /\ rows[g] = [status |-> "REJECTED", sync |-> "NOT_REQUIRED"]
        /\ Resolve(Cleaner, g, "rejection")

Mark(p, s) == record' = [record EXCEPT ![page[p]][letter[p]] = s]

\* The attempt is recorded before the message is sent.
RecordAttempt(p) ==
    /\ pc[p] = "resolved"
    /\ Unsent(page[p], letter[p])
    /\ Enter(p)
    /\ Mark(p, "attempting")
    /\ Goto(p, "send")
    /\ UNCHANGED <<ledger, roster, sent, crashes>>

\* The lease is another's; or the pump's own record forbids the message.
GiveUp(p) ==
    /\ pc[p] = "resolved"
    /\ lease # Nobody \/ ~Unsent(page[p], letter[p])
    /\ Goto(p, "idle")
    /\ UNCHANGED <<writerVars, ledger, roster, delivery, crashes>>

\* Telegram takes the message or not, and answers or not.
Send(p) ==
    /\ pc[p] = "send"
    /\ \/ /\ Cleared(p)
          /\ sent' = [sent EXCEPT ![page[p]][letter[p]] = @ + 1]
          /\ pc' = [pc EXCEPT ![p] = "sent"]
          /\ Proceed(p)
       \/ /\ Cleared(p)
          /\ \/ sent' = [sent EXCEPT ![page[p]][letter[p]] = @ + 1]
             \/ sent' = sent
          /\ pc' = [pc EXCEPT ![p] = "unanswered"]
          /\ Proceed(p)
       \/ /\ ~Cleared(p)
          /\ pc' = [pc EXCEPT ![p] = "idle"]
          /\ Exit(p)
          /\ UNCHANGED sent
    /\ UNCHANGED <<ledger, roster, record, page, letter, crashes>>

\* A delivery is recorded, under the lease; the operators' pump goes on to the next chat
\* with what it read for the first.
RecordDelivery(p) ==
    /\ pc[p] = "sent"
    /\ Exit(p)
    /\ IF Cleared(p) THEN Mark(p, "delivered") ELSE UNCHANGED record
    /\ \/ Goto(p, "idle")
       \/ /\ p = Ops /\ Cleared(p)
          /\ \E c \in Chats \ {letter[p]} :
                /\ Unsent(page[p], c)
                /\ letter' = [letter EXCEPT ![p] = c]
          /\ pc' = [pc EXCEPT ![p] = "resolved"]
          /\ UNCHANGED page
    /\ UNCHANGED <<ledger, roster, sent, crashes>>

\* Mutant: the operators' record is made uncertain too.
RecordAnyUncertain(p) ==
    /\ pc[p] = "unanswered"
    /\ IF Cleared(p) THEN Mark(p, "uncertain") ELSE UNCHANGED record
    /\ Done(p)
    /\ UNCHANGED <<ledger, roster, sent, crashes>>

\* Without an answer the cleaner's record says so; the operators' stays as it is.
RecordUncertain(p) ==
    /\ pc[p] = "unanswered"
    /\ IF Cleared(p) /\ p = Cleaner THEN Mark(p, "uncertain") ELSE UNCHANGED record
    /\ Done(p)
    /\ UNCHANGED <<ledger, roster, sent, crashes>>

Deliver(p) == RecordAttempt(p) \/ GiveUp(p) \/ Send(p) \/ RecordDelivery(p) \/ RecordUncertain(p)

TellOperators == Deliver(Ops)
TellApproval == letter[Cleaner] = "approval" /\ Deliver(Cleaner)
TellRejection == letter[Cleaner] = "rejection" /\ Deliver(Cleaner)
TellCleaner == TellApproval \/ TellRejection

-----------------------------------------------------------------------------

\* The process dies; its files and its lease stay.
Crash(p) ==
    /\ pc[p] # "idle"
    /\ crashes < MaxCrashes
    /\ crashes' = crashes + 1
    /\ Die(p)
    /\ Goto(p, "idle")
    /\ UNCHANGED <<ledger, roster, delivery>>

\* The lease server's doings.
LeaseMoves ==
    /\ Lapse \/ \E p \in Writers : pc[p] = "idle" /\ EnterInVain(p)
    /\ UNCHANGED <<ledger, roster, delivery, local, crashes>>

Init ==
    /\ WriterInit
    /\ rows = << >>
    /\ lost = {}
    /\ failures = 0
    /\ roster = FALSE
    /\ record = [g \in Pages |-> [l \in Letters |-> "none"]]
    /\ sent = [g \in Pages |-> [l \in Letters |-> 0]]
    /\ pc = [p \in Writers |-> "idle"]
    /\ page = [p \in Writers |-> 1]
    /\ letter = [p \in Writers |-> "approval"]
    /\ crashes = 0

\* The cleaner's button, the operators' buttons, and the cleaner's letters.
HandleRequest == RequestAccess \/ CreateRequest
Decide == PressApprove \/ Approve \/ ApproveAgain \/ ReadBack \/ Project \/ Sync \/ PressReject \/ Reject

Next ==
    \/ HandleRequest \/ Decide
    \/ ResolveRequested \/ ResolveApproved \/ ResolveRejected
    \/ TellOperators \/ TellCleaner
    \/ \E p \in Writers : Crash(p)
    \/ Land
    \/ LeaseMoves

Spec == Init /\ [][Next]_vars

-----------------------------------------------------------------------------

TypeOK ==
    /\ WriterTypeOK
    /\ rows \in Seq(Rows) /\ Len(rows) <= MaxLost + 1
    /\ failures \in 0..MaxLost
    /\ roster \in BOOLEAN
    /\ record \in [Pages -> [Letters -> LetterRecords]]
    /\ \A g \in Pages, c \in Chats : record[g][c] \in ChatRecords
    /\ sent \in [Pages -> [Letters -> Nat]]
    /\ pc \in [Writers -> Positions]
    /\ page \in [Writers -> Pages]
    /\ letter \in [Writers -> Letters]
    /\ \A p \in Writers : pc[p] \notin {"idle", "resolved"} => p \in inside
    /\ crashes \in 0..MaxCrashes

\* No message about an Access page goes out twice, whatever crashes, is pressed again
\* or stays unanswered: the attempt is on record before the message leaves.
ToldAtMostOnce == \A g \in Pages, l \in Letters : sent[g][l] <= 1

\* A cleaner is told of an approval only once the roster that offers jobs has the property.
ApprovalNoticeIsTrue == \A g \in Pages : sent[g]["approval"] > 0 => roster
=============================================================================
