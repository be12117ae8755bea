----------------------- MODULE LegacyAssignmentProofs -----------------------
(***************************************************************************)
(* Proofs about LegacyAssignment, for every roster and every bound: the    *)
(* cleaning never has two assignments in force, at most one offer is open, *)
(* and what ended or was decided is final.                                 *)
(*                                                                         *)
(* Everything turns on who may still be booked, a Claim: an assignment in  *)
(* force, one whose receipt or decision is there but whose row is not, and *)
(* one whose acceptance is being written.  There is never more than one,   *)
(* it is newer than every row, an offer's claim keeps the page from every  *)
(* other offer, and a button to leave that was shown for the page as it is *)
(* belongs to the claim itself.                                            *)
(***************************************************************************)
EXTENDS LegacyAssignment, TLAPS, SequenceTheorems, WellFoundedInduction

CleanerPlaces == {"execute", "patched", "receipt", "history", "decline", "next", "send",
                  "end", "project", "route", "ask", "file"}
OpsPlaces == {"supersede", "rebook", "reproject", "resolve", "settle",
              "cancel", "release", "withdraw"}

\* The values of the variables: the two processes ...
ControlTyped ==
    /\ WriterTypeOK
    /\ lock \in Writers \cup {Nobody}
    /\ lock # Nobody => pc[lock] # "idle"
    /\ pc \in [Writers -> Positions]
    /\ \A p \in Writers : pc[p] # "idle" <=> p \in inside
    /\ job \in [Writers -> Actions]

\* ... and what they work on.
DataTyped ==
    /\ page \in [cancelled : BOOLEAN, acceptance : Acceptances, assignee : Cleaners \cup {NoOne},
                 edition : Nat]
    /\ reservation \in BOOLEAN
    /\ row \in [Actions -> [hold : {"none", "booked", "released"},
                            reason : {"none", "unavailable", "cancelled"},
                            request : {"none", "requested", "reassigned", "continued"}]]
    /\ actions \in Seq(Action) /\ Len(actions) \in Actions
    /\ leave \in [Actions -> [at : Leaving, edition : Nat, asked : BOOLEAN]]
    /\ notice \in BOOLEAN
    /\ failures \in 0..MaxLost
    /\ crashes \in 0..MaxCrashes

\* An offer was made for a page that waited for one; a decision is about one earlier
\* assignment, and no two are about the same.
Kinds ==
    /\ \A g \in DOMAIN actions :
          IF actions[g].decides = 0
          THEN /\ actions[g].status \in OfferStatuses
               /\ actions[g].expects \in {"offered", "vacant"}
          ELSE /\ actions[g].status \in DecisionStatuses
               /\ actions[g].decides < g
               /\ ~actions[g].receipt
    /\ \A d, e \in DOMAIN actions :
          actions[d].decides = actions[e].decides /\ actions[d].decides # 0 => d = e

\* Only the latest offer can be open.
Offers ==
    \A g, h \in DOMAIN actions : IsOffer(g) /\ IsOffer(h) /\ g < h => ~Open(g)

At(p, places) == pc[p] \in places

\* What the cleaners' process may rely on at each point of its handlers.
CleanerAt ==
    /\ At(CleanerBot, CleanerPlaces \cup {"idle"})
    /\ job[CleanerBot] \in DOMAIN actions
    /\ At(CleanerBot, {"execute", "patched", "receipt", "history", "decline", "next"}) =>
          actions[job[CleanerBot]].decides = 0
    /\ At(CleanerBot, {"send"}) => actions[Len(actions)].decides = 0
    /\ At(CleanerBot, {"next"}) => actions[job[CleanerBot]].rest # {}
    /\ At(CleanerBot, {"execute", "patched", "receipt", "history"}) => lock = CleanerBot
    /\ At(CleanerBot, {"execute"}) =>
          /\ ~OriginalCommitted
          /\ \A h \in DOMAIN actions : actions[h].decides = 0 => h <= job[CleanerBot]
    /\ At(CleanerBot, {"ask", "file"}) => row[job[CleanerBot]].hold = "released"
    /\ At(CleanerBot, {"end"}) =>
          /\ leave[job[CleanerBot]].at = "clock"
          /\ Current(CleanerBot) => Booked(job[CleanerBot])
    /\ At(CleanerBot, {"project"}) => leave[job[CleanerBot]].at = "ended"

\* The same for the operators' process.
OpsAt ==
    /\ At(OpsBot, OpsPlaces \cup {"idle"})
    /\ job[OpsBot] \in DOMAIN actions
    /\ At(OpsBot, OpsPlaces) => lock = OpsBot
    /\ At(OpsBot, {"supersede", "rebook", "reproject", "resolve", "settle"}) =>
          actions[job[OpsBot]].decides # 0
    /\ At(OpsBot, {"supersede", "rebook", "reproject", "resolve"}) =>
          actions[job[OpsBot]].status = "REASSIGN"

Authorised(g) == g \in DOMAIN actions /\ Authority(g)

\* Every row has its receipt or decision; what was left, asked for or decided about has ended.
Rows ==
    /\ \A g \in Actions : row[g].hold # "none" => Authorised(g)
    /\ \A d \in DOMAIN actions : actions[d].decides # 0 => row[actions[d].decides].hold = "released"
    /\ \A g \in Actions : leave[g].asked \/ leave[g].at = "ended" => row[g].hold = "released"

\* Assignment g is in force or may still be put into force.
Claim(g) ==
    \/ Booked(g)
    \/ row[g].hold = "none" /\ Authorised(g)
    \/ pc[CleanerBot] = "patched" /\ job[CleanerBot] = g

\* One claim, and newer than every row; a decision's, while its row is missing, is about the
\* newest of them.
SoleClaim ==
    /\ \A g, h \in Actions : Claim(g) /\ Claim(h) => g = h
    /\ \A g, h \in Actions : Claim(g) /\ row[h].hold # "none" => h <= g
    /\ \A d \in DOMAIN actions, h \in Actions :
          actions[d].decides # 0 /\ Claim(d) /\ row[d].hold = "none" /\ row[h].hold # "none" =>
              h <= actions[d].decides

\* While an offer's claim stands the page waits for nobody.
PageTaken ==
    \A g \in DOMAIN actions :
        actions[g].decides = 0 /\ Claim(g) => page.acceptance \in {"accepted", "withdrawn"}

\* A button to leave that is bound to the page as it is belongs to the claim.
ButtonsMatch ==
    \A h \in Actions :
        /\ leave[h].edition <= page.edition
        /\ /\ leave[h].at \in {"shown", "clock", "ended"}
           /\ leave[h].edition = page.edition
           /\ page.acceptance = "accepted"
           => \A g \in Actions : Claim(g) => g = h

IInv ==
    /\ ControlTyped /\ DataTyped
    /\ Kinds /\ Offers
    /\ CleanerAt /\ OpsAt
    /\ Rows
    /\ SoleClaim /\ PageTaken /\ ButtonsMatch

\* What no step takes back.
ActionsGrow ==
    /\ DOMAIN actions \subseteq DOMAIN actions'
    /\ \A g \in DOMAIN actions :
          /\ actions'[g].decides = actions[g].decides
          /\ actions'[g].to = actions[g].to
          /\ actions[g].receipt => actions'[g].receipt
          /\ actions[g].status \in {"REASSIGN", "CONTINUE"} => actions'[g].status = actions[g].status

RowsGrow ==
    \A g \in Actions :
        /\ row[g].hold = "released" =>
              row'[g].hold = "released" /\ row'[g].reason = row[g].reason
        /\ row[g].hold # "none" => row'[g].hold # "none"

Grows == ActionsGrow /\ RowsGrow

-----------------------------------------------------------------------------
(* The two processes                                                       *)

LEMMA Actors ==
    /\ CleanerBot \in Writers /\ OpsBot \in Writers
    /\ \A p \in Writers : p = CleanerBot \/ p = OpsBot
    /\ CleanerBot # OpsBot
    /\ Nobody \notin Writers
BY AssignmentAssumption, WritersAssumption

\* The other process stands where it stood and has what it had.
Others(p) ==
    \A q \in Writers \ {p} :
        /\ pc'[q] = pc[q]
        /\ job'[q] = job[q]
        /\ lock = q => lock' = q
        /\ Current(q)' => Current(q)

LEMMA EndForm ==
    ASSUME ControlTyped, NEW p \in Writers, End(p)
    PROVE  /\ ControlTyped'
           /\ pc'[p] = "idle" /\ job'[p] = 1
           /\ Others(p)
           /\ \A q \in Writers : Current(p) => ~Current(q)'
<1>1. 1 \in Actions  BY AssignmentAssumption DEF Actions
<1>2. pc' \in [Writers -> Positions] /\ job' \in [Writers -> Actions]
  BY <1>1 DEF End, ControlTyped, Positions
<1>3. /\ pc'[p] = "idle" /\ job'[p] = 1
      /\ \A q \in Writers \ {p} : pc'[q] = pc[q] /\ job'[q] = job[q]
  BY DEF End, ControlTyped
<1>4. /\ lock' \in Writers \cup {Nobody}
      /\ lock' # Nobody => lock' = lock /\ lock # p
      /\ \A q \in Writers \ {p} : lock = q => lock' = q
  BY Actors DEF End, Unlocked, ControlTyped
<1>5. WriterTypeOK' /\ inside' = inside \ {p} /\ (lease' = lease \/ (lease' = Nobody /\ lease = p))
  BY DEF End, Exit, ControlTyped, WriterTypeOK
<1>6. lock' # Nobody => pc'[lock'] # "idle"  BY <1>3, <1>4 DEF ControlTyped
<1>7. \A q \in Writers : pc'[q] # "idle" <=> q \in inside'  BY <1>3, <1>5 DEF ControlTyped
<1>8. ControlTyped'  BY <1>2, <1>4, <1>5, <1>6, <1>7 DEF ControlTyped
<1>9. Others(p)  BY <1>3, <1>4, <1>5, Actors DEF Others, Current
<1>10. \A q \in Writers : Current(p) => ~Current(q)'  BY <1>5, Actors DEF Current
<1> QED  BY <1>3, <1>8, <1>9, <1>10

LEMMA GoForm ==
    ASSUME ControlTyped, NEW p \in Writers, pc[p] # "idle", NEW l \in Positions, l # "idle", Go(p, l)
    PROVE  /\ ControlTyped'
           /\ pc'[p] = l /\ job' = job /\ lock' = lock
           /\ Others(p)
           /\ \A q \in Writers : Current(q)' = Current(q)
<1>1. pc' \in [Writers -> Positions] /\ pc'[p] = l /\ \A q \in Writers \ {p} : pc'[q] = pc[q]
  BY DEF Go, ControlTyped
<1>2. job' = job /\ lock' = lock /\ lease' = lease /\ inside' = inside /\ passed' = passed /\ lapses' = lapses
  BY DEF Go, writerVars
<1>3. ControlTyped'  BY <1>1, <1>2 DEF ControlTyped, WriterTypeOK
<1> QED  BY <1>1, <1>2, <1>3 DEF Others, Current

LEMMA EnterForm ==
    ASSUME ControlTyped, NEW p \in Writers, NEW g \in Actions, NEW l \in Positions, l # "idle",
           Begin(p, g, l) \/ BeginLocked(p, g, l)
    PROVE  /\ ControlTyped'
           /\ pc'[p] = l /\ job'[p] = g
           /\ Others(p)
           /\ pc[p] = "idle" /\ lock # p
           /\ BeginLocked(p, g, l) => lock = Nobody /\ lock' = p
<1>1. /\ pc' \in [Writers -> Positions] /\ pc'[p] = l
      /\ job' \in [Writers -> Actions] /\ job'[p] = g
      /\ \A q \in Writers \ {p} : pc'[q] = pc[q] /\ job'[q] = job[q]
  BY DEF Begin, BeginLocked, ControlTyped
<1>2. pc[p] = "idle" /\ lock # p  BY Actors DEF Begin, BeginLocked, ControlTyped
<1>3. lease' = p /\ inside' = inside \cup {p} /\ passed' = passed /\ lapses' = lapses
  BY DEF Begin, BeginLocked, Enter
<1>4. WriterTypeOK'  BY <1>3 DEF ControlTyped, WriterTypeOK
<1>5. lock' = lock \/ (lock = Nobody /\ lock' = p)  BY DEF Begin, BeginLocked
<1>6. lock' \in Writers \cup {Nobody} /\ (lock' # Nobody => pc'[lock'] # "idle")
  BY <1>1, <1>2, <1>5 DEF ControlTyped
<1>7. \A q \in Writers : pc'[q] # "idle" <=> q \in inside'  BY <1>1, <1>3 DEF ControlTyped
<1>8. ControlTyped'  BY <1>1, <1>4, <1>6, <1>7 DEF ControlTyped
<1>9. Others(p)  BY <1>1, <1>3, <1>5, Actors DEF Others, Current
<1> QED  BY <1>1, <1>2, <1>8, <1>9 DEF BeginLocked

LEMMA CrashForm ==
    ASSUME ControlTyped, NEW p \in Writers, Crash(p)
    PROVE  ControlTyped' /\ pc'[p] = "idle" /\ job'[p] = 1 /\ Others(p)
<1>1. 1 \in Actions  BY AssignmentAssumption DEF Actions
<1>2. /\ pc' \in [Writers -> Positions] /\ job' \in [Writers -> Actions]
      /\ pc'[p] = "idle" /\ job'[p] = 1
      /\ \A q \in Writers \ {p} : pc'[q] = pc[q] /\ job'[q] = job[q]
  BY <1>1 DEF Crash, ControlTyped, Positions
<1>3. /\ lock' \in Writers \cup {Nobody}
      /\ lock' # Nobody => lock' = lock /\ lock # p
      /\ \A q \in Writers \ {p} : lock = q => lock' = q
  BY Actors DEF Crash, Unlocked, ControlTyped
<1>4. WriterTypeOK' /\ inside' = inside \ {p} /\ lease' = lease
  BY DEF Crash, Die, ControlTyped, WriterTypeOK
<1>5. lock' # Nobody => pc'[lock'] # "idle"  BY <1>2, <1>3 DEF ControlTyped
<1>6. \A q \in Writers : pc'[q] # "idle" <=> q \in inside'  BY <1>2, <1>4 DEF ControlTyped
<1>7. ControlTyped'  BY <1>2, <1>3, <1>4, <1>5, <1>6 DEF ControlTyped
<1>8. Others(p)  BY <1>2, <1>3, <1>4, Actors DEF Others, Current
<1> QED  BY <1>2, <1>7, <1>8

-----------------------------------------------------------------------------
(* What a step leaves as it was                                            *)

LEMMA Numbers ==
    ASSUME DataTyped
    PROVE  /\ DOMAIN actions = 1..Len(actions) /\ DOMAIN actions \subseteq Actions
           /\ 1 \in DOMAIN actions /\ Len(actions) \in DOMAIN actions
           /\ \A g \in DOMAIN actions : actions[g] \in Action
BY LenProperties, ElementOfSeq, AssignmentAssumption DEF DataTyped, Actions

\* The operators' process is not disturbed by what only grows.
LEMMA OpsStands ==
    ASSUME IInv, Others(CleanerBot), Grows
    PROVE  OpsAt'
<1>1. pc'[OpsBot] = pc[OpsBot] /\ job'[OpsBot] = job[OpsBot] /\ (lock = OpsBot => lock' = OpsBot)
  BY Actors DEF Others
<1> QED  BY <1>1 DEF IInv, OpsAt, At, Grows, ActionsGrow, RowsGrow

\* The cleaners' process is not disturbed by a step of the operators' or of the world: the rows
\* change only while its lease is not current, and no decision falls while it has the lock.
LEMMA CleanerStands ==
    ASSUME IInv, Grows, leave' = leave,
           pc'[CleanerBot] = pc[CleanerBot], job'[CleanerBot] = job[CleanerBot],
           lock = CleanerBot => lock' = CleanerBot,
           Current(CleanerBot)' => Current(CleanerBot) /\ row' = row,
           Len(actions') = Len(actions), DOMAIN actions' = DOMAIN actions,
           \A g \in DOMAIN actions : actions'[g].rest = actions[g].rest,
           lock = CleanerBot /\ OriginalCommitted' => OriginalCommitted
    PROVE  CleanerAt'
<1> USE DEF IInv, CleanerAt, At
<1>1. Len(actions) \in DOMAIN actions /\ job[CleanerBot] \in Actions
  BY Numbers DEF ControlTyped
<1>2. At(CleanerBot, {"end"}) /\ Current(CleanerBot)' => Booked(job[CleanerBot])'
  BY DEF Booked
<1>3. At(CleanerBot, {"ask", "file"}) => row'[job[CleanerBot]].hold = "released"
  BY <1>1 DEF Grows, ActionsGrow, RowsGrow
<1>5. At(CleanerBot, {"execute"}) =>
         ~OriginalCommitted' /\ \A h \in DOMAIN actions' : actions'[h].decides = 0 => h <= job[CleanerBot]
  BY DEF Grows, ActionsGrow, RowsGrow
<1>6. /\ At(CleanerBot, {"execute", "patched", "receipt", "history", "decline", "next"}) =>
            actions'[job[CleanerBot]].decides = 0
      /\ At(CleanerBot, {"send"}) => actions'[Len(actions')].decides = 0
      /\ At(CleanerBot, {"next"}) => actions'[job[CleanerBot]].rest # {}
  BY <1>1 DEF Grows, ActionsGrow, RowsGrow
<1> QED  BY <1>1, <1>2, <1>3, <1>5, <1>6

\* A handler that ends leaves nothing to rely on.
LEMMA CleanerRests ==
    ASSUME DataTyped', pc'[CleanerBot] = "idle", job'[CleanerBot] = 1
    PROVE  CleanerAt'
<1>1. 1 \in DOMAIN actions'  BY LenProperties, AssignmentAssumption DEF DataTyped, Actions
<1> QED  BY <1>1 DEF CleanerAt, At

LEMMA OpsRests ==
    ASSUME DataTyped', pc'[OpsBot] = "idle", job'[OpsBot] = 1
    PROVE  OpsAt'
<1>1. 1 \in DOMAIN actions'  BY LenProperties, AssignmentAssumption DEF DataTyped, Actions
<1> QED  BY <1>1 DEF OpsAt, OpsPlaces, At

LEMMA AuthorityStays ==
    ASSUME Grows, NEW g, Authorised(g)
    PROVE  Authorised(g)'
BY DEF Grows, ActionsGrow, RowsGrow, Authorised, Authority, AcceptedByReceipt

\* Rows: what becomes a row is authorised, what is newly ended, asked for or decided about has
\* ended.
LEMMA RowsStay ==
    ASSUME IInv, Grows,
           \A g \in Actions : row'[g].hold # "none" => row[g].hold # "none" \/ Authorised(g)',
           \A g \in Actions : (leave'[g].asked \/ leave'[g].at = "ended") =>
               leave[g].asked \/ leave[g].at = "ended" \/ row'[g].hold = "released",
           \A d \in DOMAIN actions' : d \in DOMAIN actions \/ actions'[d].decides = 0
                                         \/ row'[actions'[d].decides].hold = "released"
    PROVE  Rows'
<1>1. ASSUME NEW g \in Actions, row'[g].hold # "none" PROVE Authorised(g)'
  BY <1>1, AuthorityStays DEF IInv, Rows
<1>2. ASSUME NEW d \in DOMAIN actions', actions'[d].decides # 0
      PROVE  row'[actions'[d].decides].hold = "released"
  <2>1. CASE d \in DOMAIN actions
    <3>1. actions'[d].decides = actions[d].decides  BY <2>1 DEF Grows, ActionsGrow, RowsGrow
    <3>2. actions[d] \in Action /\ d \in Actions  BY <2>1, Numbers DEF IInv
    <3>3. actions[d].decides \in Actions
      BY <1>2, <3>1, <3>2, AssignmentAssumption DEF Action, Actions
    <3> QED  BY <1>2, <2>1, <3>1, <3>3 DEF IInv, Rows, Grows, ActionsGrow, RowsGrow
  <2>2. CASE d \notin DOMAIN actions  BY <1>2, <2>2
  <2> QED  BY <2>1, <2>2
<1>3. ASSUME NEW g \in Actions, leave'[g].asked \/ leave'[g].at = "ended"
      PROVE  row'[g].hold = "released"
  BY <1>3 DEF IInv, Rows, Grows, ActionsGrow, RowsGrow
<1> QED  BY <1>1, <1>2, <1>3 DEF Rows

\* Only an offer or a decision claims.
LEMMA ClaimIsAction ==
    ASSUME IInv, NEW g \in Actions, Claim(g)
    PROVE  g \in DOMAIN actions
BY DEF IInv, Claim, Booked, Rows, Authorised, CleanerAt

\* Claims: nobody gains one, and a row is only made of the claim.
LEMMA ClaimStays ==
    ASSUME IInv, DataTyped', Grows,
           \A g \in Actions : Claim(g)' => Claim(g),
           \A h \in Actions : row'[h].hold # "none" => row[h].hold # "none" \/ Claim(h)
    PROVE  SoleClaim'
<1> USE DEF IInv, SoleClaim
<1>1. \A g, h \in Actions : Claim(g)' /\ Claim(h)' => g = h  OBVIOUS
<1>2. ASSUME NEW g \in Actions, NEW h \in Actions, Claim(g)', row'[h].hold # "none" PROVE h <= g
  <2>1. Claim(g) /\ (row[h].hold # "none" \/ h = g)  BY <1>2
  <2> QED  BY <2>1 DEF Actions
<1>3. ASSUME NEW d \in DOMAIN actions', NEW h \in Actions, d \in Actions, actions'[d].decides # 0,
             Claim(d)', row'[d].hold = "none", row'[h].hold # "none"
      PROVE  h <= actions'[d].decides
  <2>1. Claim(d) /\ d \in DOMAIN actions  BY <1>3, ClaimIsAction
  <2>2. actions'[d].decides = actions[d].decides /\ row[d].hold = "none"  BY <1>3, <2>1 DEF Grows, ActionsGrow, RowsGrow
  <2>3. row[h].hold # "none" \/ h = d  BY <1>3, <2>1
  <2> QED  BY <1>3, <2>1, <2>2, <2>3
<1>4. DOMAIN actions' \subseteq Actions
  BY LenProperties, AssignmentAssumption DEF DataTyped, Actions
<1> QED  BY <1>1, <1>2, <1>3, <1>4

\* The page, as far as it says who may be asked and which buttons hold.
SamePage == page'.acceptance = page.acceptance /\ page'.edition = page.edition

FewerClaims == \A g \in Actions : Claim(g)' => Claim(g)

LEMMA PageTakenStays ==
    ASSUME IInv, DataTyped', Grows, SamePage, FewerClaims
    PROVE  PageTaken'
<1> SUFFICES ASSUME NEW g \in DOMAIN actions', actions'[g].decides = 0, Claim(g)'
             PROVE  page'.acceptance \in {"accepted", "withdrawn"}
  BY DEF PageTaken
<1>1. g \in Actions  BY LenProperties, AssignmentAssumption DEF DataTyped, Actions
<1>2. Claim(g) /\ g \in DOMAIN actions  BY <1>1, ClaimIsAction DEF FewerClaims
<1> QED  BY <1>2 DEF IInv, PageTaken, SamePage, Grows, ActionsGrow

Active == {"shown", "clock", "ended"}

\* A button is shown again only for the claim.
LEMMA ButtonsStay ==
    ASSUME IInv, SamePage, FewerClaims,
           \A h \in Actions :
               \/ leave'[h].edition = leave[h].edition
                     /\ (leave'[h].at \in Active => leave[h].at \in Active)
               \/ leave'[h].edition = page.edition /\ (leave'[h].at \in Active => Claim(h))
    PROVE  ButtonsMatch'
<1> SUFFICES ASSUME NEW h \in Actions
             PROVE  /\ leave'[h].edition <= page'.edition
                    /\ /\ leave'[h].at \in Active
                       /\ leave'[h].edition = page'.edition
                       /\ page'.acceptance = "accepted"
                       => \A g \in Actions : Claim(g)' => g = h
  BY DEF ButtonsMatch, Active
<1>1. page.edition \in Nat  BY DEF IInv, DataTyped
<1>2. CASE leave'[h].edition = leave[h].edition /\ (leave'[h].at \in Active => leave[h].at \in Active)
  BY <1>2 DEF IInv, ButtonsMatch, SamePage, FewerClaims, Active
<1>3. CASE leave'[h].edition = page.edition /\ (leave'[h].at \in Active => Claim(h))
  BY <1>1, <1>3 DEF IInv, SoleClaim, SamePage, FewerClaims
<1> QED  BY <1>2, <1>3

\* Entry g is amended, what it is about stays.
Amended(g) ==
    /\ actions' \in Seq(Action)
    /\ Len(actions') = Len(actions) /\ DOMAIN actions' = DOMAIN actions
    /\ \A h \in DOMAIN actions :
          /\ actions'[h].decides = actions[h].decides /\ actions'[h].to = actions[h].to
          /\ actions'[h].rest = actions[h].rest /\ actions'[h].expects = actions[h].expects
          /\ h # g => actions'[h] = actions[h]

LEMMA AmendForm ==
    ASSUME DataTyped, NEW g \in DOMAIN actions, NEW e \in Action,
           e.decides = actions[g].decides, e.to = actions[g].to,
           e.rest = actions[g].rest, e.expects = actions[g].expects,
           actions' = [actions EXCEPT ![g] = e]
    PROVE  Amended(g) /\ actions'[g] = e
<1>1. actions \in Seq(Action) /\ DOMAIN actions = 1..Len(actions)  BY Numbers DEF DataTyped
<1>2. /\ actions' \in Seq(Action) /\ Len(actions') = Len(actions)
      /\ \A h \in 1..Len(actions) : actions'[h] = IF h = g THEN e ELSE actions[h]
  BY <1>1, ExceptSeq
<1>3. DOMAIN actions' = 1..Len(actions)  BY <1>2, LenProperties
<1> QED  BY <1>1, <1>2, <1>3 DEF Amended

LEMMA StatusForm ==
    ASSUME DataTyped, NEW g \in DOMAIN actions,
           NEW s \in OfferStatuses \cup DecisionStatuses, SetStatus(g, s)
    PROVE  /\ Amended(g) /\ actions'[g].status = s
           /\ actions'[g].receipt = actions[g].receipt
           /\ actions'[g].due = actions[g].due
<1> DEFINE e == [actions[g] EXCEPT !.status = s]
<1>1. actions[g] \in Action  BY Numbers
<1>2. /\ e \in Action /\ e.status = s
      /\ e.decides = actions[g].decides /\ e.to = actions[g].to
      /\ e.rest = actions[g].rest /\ e.expects = actions[g].expects
      /\ e.receipt = actions[g].receipt /\ e.due = actions[g].due
  BY <1>1 DEF Action
<1>3. actions' = [actions EXCEPT ![g] = e]  BY DEF SetStatus
<1> HIDE DEF e
<1>4. Amended(g) /\ actions'[g] = e  BY <1>2, <1>3, AmendForm
<1> QED  BY <1>2, <1>4

LEMMA AppendForm ==
    ASSUME DataTyped, Room, NEW e \in Action, actions' = Append(actions, e)
    PROVE  /\ actions' \in Seq(Action) /\ Len(actions') = Len(actions) + 1 /\ Len(actions') \in Actions
           /\ DOMAIN actions' = DOMAIN actions \cup {Len(actions) + 1}
           /\ Len(actions) + 1 \notin DOMAIN actions
           /\ \A h \in DOMAIN actions : actions'[h] = actions[h] /\ h < Len(actions) + 1
           /\ actions'[Len(actions) + 1] = e
<1>1. actions \in Seq(Action) /\ Len(actions) \in Nat /\ DOMAIN actions = 1..Len(actions)
  BY Numbers, LenProperties DEF DataTyped
<1>2. /\ actions' \in Seq(Action) /\ Len(actions') = Len(actions) + 1
      /\ \A h \in 1..Len(actions) : actions'[h] = actions[h]
      /\ actions'[Len(actions) + 1] = e
  BY <1>1, AppendProperties
<1>3. DOMAIN actions' = 1..(Len(actions) + 1)  BY <1>2, LenProperties
<1>4. Len(actions') \in Actions  BY <1>1, <1>2, AssignmentAssumption DEF Room, Actions
<1> QED  BY <1>1, <1>2, <1>3, <1>4

\* An offer that is amended is not opened again.
LEMMA AmendKeeps ==
    ASSUME IInv, NEW g \in DOMAIN actions, Amended(g),
           actions'[g].status \in IF actions[g].decides = 0 THEN OfferStatuses ELSE DecisionStatuses,
           actions'[g].status = "PENDING" => actions[g].status = "PENDING",
           actions'[g].receipt => actions[g].decides = 0
    PROVE  Kinds' /\ Offers'
<1>1. Kinds'
  <2>1. ASSUME NEW h \in DOMAIN actions'
        PROVE  IF actions'[h].decides = 0
               THEN /\ actions'[h].status \in OfferStatuses
                    /\ actions'[h].expects \in {"offered", "vacant"}
               ELSE /\ actions'[h].status \in DecisionStatuses
                    /\ actions'[h].decides < h
                    /\ ~actions'[h].receipt
    <3>1. CASE h = g  BY <3>1 DEF IInv, Kinds, Amended
    <3>2. CASE h # g  BY <3>2 DEF IInv, Kinds, Amended
    <3> QED  BY <3>1, <3>2
  <2>2. \A d, e \in DOMAIN actions' :
           actions'[d].decides = actions'[e].decides /\ actions'[d].decides # 0 => d = e
    BY DEF IInv, Kinds, Amended
  <2> QED  BY <2>1, <2>2 DEF Kinds
<1>2. \A h \in DOMAIN actions' : h \in DOMAIN actions /\ (Open(h)' => Open(h)) /\ (IsOffer(h)' => IsOffer(h))
  BY DEF Amended, Open, IsOffer
<1>3. Offers'  BY <1>2 DEF IInv, Offers
<1> QED  BY <1>1, <1>3

LEMMA SameActions ==
    ASSUME IInv, actions' = actions
    PROVE  Kinds' /\ Offers' /\ ActionsGrow
BY DEF IInv, Kinds, Offers, Open, IsOffer, ActionsGrow

\* No assignment is authorised anew.
NoAuthority == \A g \in Actions : Authorised(g)' => Authorised(g)

\* A row is made of the claim and of nothing else.
RowsOfClaims ==
    \A g \in Actions :
        /\ row'[g].hold # "none" => row[g].hold # "none" \/ (Claim(g) /\ Authorised(g)')
        /\ Booked(g)' => Claim(g)

\* A new decision is about an assignment that ended.
DecidesEnded ==
    \A d \in DOMAIN actions' : \/ d \in DOMAIN actions
                              \/ actions'[d].decides = 0
                              \/ row'[actions'[d].decides].hold = "released"

\* Buttons are shown for the claim, and what ended or was asked for has ended.
LeaveStands ==
    \A h \in Actions :
        /\ \/ /\ leave'[h].edition = leave[h].edition
              /\ leave'[h].at \in Active => leave[h].at \in Active
           \/ /\ leave'[h].edition = page.edition
              /\ leave'[h].at \in Active => Claim(h)
        /\ leave'[h].at = "ended" => leave[h].at = "ended" \/ row'[h].hold = "released"
        /\ leave'[h].asked => leave[h].asked \/ row'[h].hold = "released"

LEMMA Fewer ==
    ASSUME IInv, Grows, RowsOfClaims, NoAuthority,
           pc'[CleanerBot] = "patched" => pc[CleanerBot] = "patched" /\ job'[CleanerBot] = job[CleanerBot]
    PROVE  FewerClaims
BY DEF FewerClaims, Claim, RowsOfClaims, NoAuthority, Grows, RowsGrow

LEMMA SameRows ==
    ASSUME IInv, \A g \in Actions : row'[g].hold = row[g].hold /\ row'[g].reason = row[g].reason
    PROVE  RowsGrow /\ RowsOfClaims
BY DEF RowsGrow, RowsOfClaims, Claim, Booked

LEMMA SameAuthority ==
    ASSUME actions' = actions
    PROVE  NoAuthority
BY DEF NoAuthority, Authorised, Authority, AcceptedByReceipt

\* A step that gives nobody a claim and changes neither page nor buttons.
LEMMA QuietStep ==
    ASSUME IInv, ControlTyped', DataTyped', Grows, SamePage, FewerClaims, RowsOfClaims, LeaveStands,
           DecidesEnded, Kinds', Offers', CleanerAt', OpsAt'
    PROVE  IInv'
<1>1. Rows'  BY RowsStay DEF RowsOfClaims, LeaveStands, DecidesEnded
<1>2. SoleClaim'  BY ClaimStays DEF FewerClaims, RowsOfClaims
<1>3. PageTaken'  BY PageTakenStays
<1>4. ButtonsMatch'  BY ButtonsStay DEF LeaveStands
<1> QED  BY <1>1, <1>2, <1>3, <1>4 DEF IInv

\* The cleaners' handler ends, and the offers at most were amended.
LEMMA CleanerQuits ==
    ASSUME IInv, End(CleanerBot), DataTyped', Grows, SamePage, RowsOfClaims, LeaveStands,
           DecidesEnded, NoAuthority, Kinds', Offers'
    PROVE  IInv'
<1>1. /\ ControlTyped' /\ pc'[CleanerBot] = "idle" /\ job'[CleanerBot] = 1
      /\ Others(CleanerBot)
  BY Actors, EndForm DEF IInv
<1>2. CleanerAt'  BY <1>1, CleanerRests
<1>3. OpsAt'  BY <1>1, OpsStands
<1>4. FewerClaims  BY <1>1, Fewer
<1> QED  BY <1>1, <1>2, <1>3, <1>4, QuietStep

\* Nothing was done.
LEMMA CleanerGivesUp ==
    ASSUME IInv, End(CleanerBot), UNCHANGED <<notion, files, crashes>>, failures' \in 0..MaxLost
    PROVE  IInv' /\ Grows
<1>1. DataTyped'  BY DEF IInv, DataTyped, notion, files
<1>2. actions' = actions /\ row' = row /\ page' = page /\ leave' = leave  BY DEF notion, files
<1>3. Grows /\ RowsOfClaims  BY <1>2, SameActions, SameRows DEF Grows
<1>4. SamePage /\ LeaveStands /\ DecidesEnded  BY <1>2 DEF SamePage, LeaveStands, DecidesEnded
<1> QED  BY <1>1, <1>2, <1>3, <1>4, SameActions, SameAuthority, CleanerQuits

\* An offer gets another status, and the handler ends.
LEMMA CleanerMarks ==
    ASSUME IInv, End(CleanerBot), NEW g \in DOMAIN actions, actions[g].decides = 0,
           NEW s \in OfferStatuses \ {"PENDING"}, SetStatus(g, s),
           UNCHANGED <<notion, leave, notice, crashes>>, failures' \in 0..MaxLost
    PROVE  IInv' /\ Grows
<1>1. /\ Amended(g) /\ actions'[g].status = s
      /\ actions'[g].receipt = actions[g].receipt
  BY StatusForm DEF IInv, OfferStatuses
<1>2. row' = row /\ page' = page /\ leave' = leave /\ reservation' = reservation  BY DEF notion
<1>3. DataTyped'  BY <1>1, <1>2 DEF IInv, DataTyped, Amended
<1>4. s \notin {"REASSIGN", "CONTINUE"}  BY DEF OfferStatuses
<1>5. actions[g].status \in OfferStatuses  BY DEF IInv, Kinds
<1>6. ActionsGrow /\ NoAuthority /\ DecidesEnded
  BY <1>1, <1>4, <1>5 DEF ActionsGrow, NoAuthority, DecidesEnded, Amended, Authorised, Authority,
     AcceptedByReceipt, OfferStatuses
<1>7. Kinds' /\ Offers'  BY <1>1, AmendKeeps
<1>8. Grows /\ RowsOfClaims /\ SamePage /\ LeaveStands
  BY <1>2, <1>6, SameRows DEF Grows, SamePage, LeaveStands
<1> QED  BY <1>3, <1>6, <1>7, <1>8, CleanerQuits

-----------------------------------------------------------------------------
(* An offer is accepted                                                    *)

\* Entry g got another status, no decision was committed.
LEMMA MarkForm ==
    ASSUME IInv, NEW g \in DOMAIN actions, NEW s, SetStatus(g, s),
           IF actions[g].decides = 0 THEN s \in OfferStatuses \ {"PENDING"} ELSE s = "CONTINUE",
           actions[g].decides # 0 => actions[g].status \notin {"REASSIGN", "CONTINUE"}
    PROVE  /\ Amended(g) /\ actions'[g].status = s /\ actions'[g].receipt = actions[g].receipt
           /\ ActionsGrow /\ NoAuthority /\ DecidesEnded
           /\ Kinds' /\ Offers'
           /\ OriginalCommitted' => OriginalCommitted
<1>1. s \in OfferStatuses \cup DecisionStatuses  BY DEF OfferStatuses, DecisionStatuses
<1>2. /\ Amended(g) /\ actions'[g].status = s
      /\ actions'[g].receipt = actions[g].receipt
  BY <1>1, StatusForm DEF IInv
<1>3. s # "REASSIGN" /\ s # "PENDING"  BY DEF OfferStatuses
<1>4. actions[g].decides = 0 => actions[g].status \in OfferStatuses  BY DEF IInv, Kinds
<1>5. ActionsGrow /\ NoAuthority /\ DecidesEnded
  BY <1>2, <1>3, <1>4 DEF ActionsGrow, NoAuthority, DecidesEnded, Amended, Authorised, Authority,
     AcceptedByReceipt, OfferStatuses
<1>6. s \in IF actions[g].decides = 0 THEN OfferStatuses ELSE DecisionStatuses
  BY DEF DecisionStatuses
<1>7. actions'[g].receipt => actions[g].decides = 0  BY <1>2 DEF IInv, Kinds
<1>8. Kinds' /\ Offers'  BY <1>2, <1>3, <1>6, <1>7, AmendKeeps
<1>9. OriginalCommitted' => OriginalCommitted  BY <1>2, <1>3 DEF OriginalCommitted, Amended
<1> QED  BY <1>2, <1>5, <1>8, <1>9

LEMMA OfferPressed ==
    ASSUME IInv, NEW g, Open(g)
    PROVE  /\ g \in DOMAIN actions /\ g \in Actions /\ actions[g].decides = 0
           /\ actions[g].status = "PENDING"
           /\ \A h \in DOMAIN actions : actions[h].decides = 0 => h <= g
<1>1. /\ g \in DOMAIN actions /\ g \in Actions /\ actions[g].decides = 0
      /\ actions[g].status = "PENDING"
  BY Numbers DEF IInv, Open, IsOffer
<1>2. ASSUME NEW h \in DOMAIN actions, actions[h].decides = 0 PROVE h <= g
  <2>1. g \in Nat /\ h \in Nat  BY <1>1, Numbers DEF IInv, Actions
  <2>2. ~ (g < h)  BY <1>1, <1>2 DEF IInv, Offers, IsOffer
  <2> QED  BY <2>1, <2>2
<1> QED  BY <1>1, <1>2

LEMMA PressAcceptStep ==
    ASSUME IInv, NEW g \in Actions, PressAccept(g)
    PROVE  IInv' /\ Grows
<1>1. /\ g \in DOMAIN actions /\ actions[g].decides = 0
      /\ \A h \in DOMAIN actions : actions[h].decides = 0 => h <= g
  BY OfferPressed DEF PressAccept
<1>2. /\ Amended(g) /\ ActionsGrow /\ NoAuthority /\ DecidesEnded /\ Kinds' /\ Offers'
      /\ OriginalCommitted' => OriginalCommitted
  BY <1>1, MarkForm DEF PressAccept, OfferStatuses
<1>3. UNCHANGED <<page, reservation, row, leave, notice, failures, crashes>>
  BY DEF PressAccept, notion, faults
<1>4. /\ ControlTyped' /\ pc'[CleanerBot] = "execute" /\ job'[CleanerBot] = g
      /\ Others(CleanerBot) /\ lock' = CleanerBot
  BY Actors, EnterForm DEF PressAccept, IInv, Positions
<1>5. DataTyped'  BY <1>2, <1>3 DEF IInv, DataTyped, Amended
<1>6. Grows /\ RowsOfClaims /\ SamePage /\ LeaveStands
  BY <1>2, <1>3, SameRows DEF Grows, SamePage, LeaveStands
<1>7. FewerClaims  BY <1>2, <1>4, <1>6, Fewer
<1>8. CleanerAt'
  <2>1. ~OriginalCommitted'  BY <1>2 DEF PressAccept
  <2>2. g \in DOMAIN actions' /\ actions'[g].decides = 0
        /\ \A h \in DOMAIN actions' : actions'[h].decides = 0 => h <= g
    BY <1>1, <1>2 DEF Amended
  <2> QED  BY <1>4, <2>1, <2>2 DEF CleanerAt, At, CleanerPlaces
<1>9. OpsAt'  BY <1>4, <1>6, OpsStands
<1> QED  BY <1>2, <1>4, <1>5, <1>6, <1>7, <1>8, <1>9, QuietStep

\* The page got another edition: no button holds any more, and none was shown meanwhile.
LEMMA FreshPage ==
    ASSUME IInv, page'.edition = page.edition + 1,
           \A h \in Actions : \/ leave'[h].edition = leave[h].edition
                              \/ leave'[h].edition = page.edition + 1 /\ leave'[h].at \notin Active
    PROVE  ButtonsMatch'
<1>1. page.edition \in Nat /\ \A h \in Actions : leave[h].edition \in Nat  BY DEF IInv, DataTyped
<1> SUFFICES ASSUME NEW h \in Actions
             PROVE  /\ leave'[h].edition <= page'.edition
                    /\ leave'[h].at \in Active => leave'[h].edition # page'.edition
  BY DEF ButtonsMatch, Active
<1>2. leave[h].edition <= page.edition  BY DEF IInv, ButtonsMatch
<1> QED  BY <1>1, <1>2

LEMMA PatchForm ==
    ASSUME IInv, NEW a \in Acceptances, NEW c \in Cleaners \cup {NoOne}, PatchPage(a, c)
    PROVE  /\ page' \in [cancelled : BOOLEAN, acceptance : Acceptances,
                         assignee : Cleaners \cup {NoOne}, edition : Nat]
           /\ page'.acceptance = a /\ page'.edition = page.edition + 1
<1>1. page \in [cancelled : BOOLEAN, acceptance : Acceptances,
                assignee : Cleaners \cup {NoOne}, edition : Nat]
  BY DEF IInv, DataTyped
<1>2. page' = [cancelled |-> page.cancelled, acceptance |-> a, assignee |-> c,
               edition |-> page.edition + 1]
  BY <1>1 DEF PatchPage
<1> QED  BY <1>1, <1>2

\* A page that waits for somebody has no offer's claim.
LEMMA WaitingPage ==
    ASSUME IInv, page.acceptance \in {"offered", "vacant"}, NEW g \in Actions, Claim(g)
    PROVE  actions[g].decides # 0 /\ actions[g].status = "REASSIGN"
<1>1. g \in DOMAIN actions  BY ClaimIsAction
<1>2. actions[g].decides # 0  BY <1>1 DEF IInv, PageTaken
<1>3. ~ (pc[CleanerBot] = "patched" /\ job[CleanerBot] = g)  BY <1>2 DEF IInv, CleanerAt, At
<1>4. Authorised(g)  BY <1>3 DEF IInv, Rows, Claim, Booked
<1> QED  BY <1>2, <1>4 DEF Authorised, Authority, AcceptedByReceipt

\* The page becomes g's, and with it the only claim.
LEMMA PatchedStep ==
    ASSUME IInv, pc[CleanerBot] = "execute", NEW g, g = job[CleanerBot], AsOffered(g),
           PatchPage("accepted", actions[g].to), Go(CleanerBot, "patched"),
           UNCHANGED <<reservation, row, actions, leave, notice, failures, crashes>>
    PROVE  IInv' /\ Grows
<1>1. /\ g \in DOMAIN actions /\ g \in Actions /\ actions[g].decides = 0 /\ lock = CleanerBot
      /\ ~OriginalCommitted
      /\ \A h \in DOMAIN actions : actions[h].decides = 0 => h <= g
  BY Numbers DEF IInv, CleanerAt, At
<1>2. actions[g].to \in Cleaners  BY <1>1, Numbers DEF IInv, Action
<1>3. /\ page' \in [cancelled : BOOLEAN, acceptance : Acceptances,
                    assignee : Cleaners \cup {NoOne}, edition : Nat]
      /\ page'.acceptance = "accepted" /\ page'.edition = page.edition + 1
  BY <1>2, PatchForm DEF Acceptances
<1>4. /\ ControlTyped' /\ pc'[CleanerBot] = "patched" /\ job' = job /\ lock' = lock
      /\ Others(CleanerBot)
  BY Actors, GoForm DEF IInv, Positions
<1>5. DataTyped'  BY <1>3 DEF IInv, DataTyped
<1>6. Grows /\ RowsOfClaims /\ LeaveStands /\ DecidesEnded /\ NoAuthority /\ Kinds' /\ Offers'
  BY SameActions, SameRows, SameAuthority DEF Grows, LeaveStands, DecidesEnded
<1>7. page.acceptance \in {"offered", "vacant"}  BY <1>1 DEF AsOffered, IInv, Kinds
<1>8. \A h \in Actions : ~Claim(h)
  BY <1>1, <1>7, WaitingPage, ClaimIsAction DEF OriginalCommitted
<1>9. \A h \in Actions : Claim(h)' => h = g
  BY <1>4, <1>8 DEF Claim, Booked, Authorised, Authority, AcceptedByReceipt
<1>10. SoleClaim'
  <2>1. ASSUME NEW h \in Actions, row[h].hold # "none" PROVE h <= g
    <3>1. h \in DOMAIN actions /\ Authority(h)  BY <2>1 DEF IInv, Rows, Authorised
    <3>2. actions[h].decides = 0
      BY <1>1, <3>1 DEF Authority, AcceptedByReceipt, OriginalCommitted
    <3> QED  BY <1>1, <3>1, <3>2
  <2> QED  BY <1>1, <1>9, <2>1, Numbers DEF SoleClaim, IInv
<1>11. PageTaken'  BY <1>3 DEF PageTaken
<1>12. ButtonsMatch'  BY <1>3, FreshPage
<1>13. CleanerAt'  BY <1>1, <1>4 DEF CleanerAt, At, CleanerPlaces, IInv
<1>14. OpsAt'  BY <1>4, <1>6, OpsStands
<1>15. Rows'  BY <1>6, RowsStay DEF RowsOfClaims, LeaveStands, DecidesEnded
<1> QED  BY <1>4, <1>5, <1>6, <1>10, <1>11, <1>12, <1>13, <1>14, <1>15 DEF IInv

\* A handler of an offer stops after a patch that was applied although its answer is missing.
LEMMA CleanerLosesPatch ==
    ASSUME IInv, End(CleanerBot), NEW g \in DOMAIN actions, actions[g].decides = 0,
           NEW a \in Acceptances, NEW c \in Cleaners \cup {NoOne}, PatchPage(a, c),
           page.acceptance \in {"offered", "vacant"} \/ a = page.acceptance,
           SetStatus(g, "RETRY"), UNCHANGED <<reservation, row, leave, notice, crashes>>,
           failures' \in 0..MaxLost
    PROVE  IInv' /\ Grows
<1>1. /\ Amended(g) /\ ActionsGrow /\ NoAuthority /\ DecidesEnded /\ Kinds' /\ Offers'
  BY MarkForm DEF OfferStatuses
<1>2. /\ page' \in [cancelled : BOOLEAN, acceptance : Acceptances,
                    assignee : Cleaners \cup {NoOne}, edition : Nat]
      /\ page'.acceptance = a /\ page'.edition = page.edition + 1
  BY PatchForm
<1>3. DataTyped'  BY <1>1, <1>2 DEF IInv, DataTyped, Amended
<1>4. Grows /\ RowsOfClaims /\ LeaveStands  BY <1>1, SameRows DEF Grows, LeaveStands
<1>5. /\ ControlTyped' /\ pc'[CleanerBot] = "idle" /\ job'[CleanerBot] = 1
      /\ Others(CleanerBot)
  BY Actors, EndForm DEF IInv
<1>6. CleanerAt' /\ OpsAt'  BY <1>3, <1>4, <1>5, CleanerRests, OpsStands
<1>7. FewerClaims  BY <1>1, <1>4, <1>5, Fewer
<1>8. PageTaken'
  <2> SUFFICES ASSUME NEW h \in DOMAIN actions', actions'[h].decides = 0, Claim(h)'
               PROVE  page'.acceptance \in {"accepted", "withdrawn"}
    BY DEF PageTaken
  <2>1. h \in Actions /\ h \in DOMAIN actions /\ actions[h].decides = 0
    BY <1>1, Numbers DEF Amended, IInv
  <2>2. Claim(h)  BY <1>7, <2>1 DEF FewerClaims
  <2>3. page.acceptance \in {"accepted", "withdrawn"}  BY <2>1, <2>2 DEF IInv, PageTaken
  <2> QED  BY <1>2, <2>3
<1>9. ButtonsMatch'  BY <1>2, FreshPage
<1>10. Rows'  BY <1>4, <1>1, RowsStay DEF RowsOfClaims, LeaveStands, DecidesEnded
<1>11. SoleClaim'  BY <1>3, <1>4, <1>7, ClaimStays DEF FewerClaims, RowsOfClaims
<1> QED  BY <1>1, <1>3, <1>4, <1>5, <1>6, <1>8, <1>9, <1>10, <1>11 DEF IInv

LEMMA AcceptStep == IInv /\ Accept => IInv' /\ Grows
<1> SUFFICES ASSUME IInv, Accept PROVE IInv' /\ Grows  OBVIOUS
<1> DEFINE g == job[CleanerBot]
<1>1. pc[CleanerBot] = "execute" /\ UNCHANGED <<leave, notice, crashes>>  BY DEF Accept
<1>2. g \in DOMAIN actions /\ g \in Actions /\ actions[g].decides = 0
  BY <1>1, Numbers DEF IInv, CleanerAt, At
<1>3. failures \in 0..MaxLost /\ MaxLost \in Nat /\ actions[g].to \in Cleaners
  BY <1>2, Numbers, AssignmentAssumption DEF IInv, DataTyped, Action
<1>4. AsOffered(g) => page.acceptance \in {"offered", "vacant"}  BY <1>2 DEF AsOffered, IInv, Kinds
<1>5. CASE End(CleanerBot) /\ UNCHANGED <<notion, actions, failures>>
  BY <1>1, <1>3, <1>5, CleanerGivesUp DEF files
<1>6. CASE /\ AsOffered(g) /\ PatchPage("accepted", actions[g].to) /\ Go(CleanerBot, "patched")
           /\ UNCHANGED <<reservation, row, actions, failures>>
  BY <1>1, <1>6, PatchedStep
<1>7. CASE SetStatus(g, "RETRY") /\ End(CleanerBot) /\ UNCHANGED notion /\ failures' \in 0..MaxLost
  BY <1>1, <1>2, <1>7, CleanerMarks DEF OfferStatuses
<1>8. CASE /\ AsOffered(g) /\ PatchPage("accepted", actions[g].to) /\ UNCHANGED <<reservation, row>>
           /\ SetStatus(g, "RETRY") /\ End(CleanerBot) /\ failures' \in 0..MaxLost
  BY <1>1, <1>2, <1>3, <1>4, <1>8, CleanerLosesPatch DEF Acceptances
<1>9. failures < MaxLost => failures + 1 \in 0..MaxLost  BY <1>3
<1> QED  BY <1>3, <1>5, <1>6, <1>7, <1>8, <1>9 DEF Accept, Write

LEMMA WriteReceiptStep == IInv /\ WriteReceipt => IInv' /\ Grows
<1> SUFFICES ASSUME IInv, WriteReceipt PROVE IInv' /\ Grows  OBVIOUS
<1> DEFINE g == job[CleanerBot]
           e == [actions[g] EXCEPT !.receipt = TRUE]
<1>1. /\ pc[CleanerBot] = "patched" /\ Go(CleanerBot, "receipt")
      /\ UNCHANGED <<page, reservation, row, leave, notice, failures, crashes>>
  BY DEF WriteReceipt, notion, faults
<1>2. g \in DOMAIN actions /\ g \in Actions /\ actions[g].decides = 0 /\ lock = CleanerBot
  BY <1>1, Numbers DEF IInv, CleanerAt, At
<1>3. /\ e \in Action /\ e.decides = actions[g].decides /\ e.to = actions[g].to
      /\ e.rest = actions[g].rest /\ e.expects = actions[g].expects
      /\ e.status = actions[g].status /\ e.receipt
  BY <1>2, Numbers DEF IInv, Action
<1>4. actions' = [actions EXCEPT ![g] = e]  BY DEF WriteReceipt
<1> HIDE DEF e
<1>5. Amended(g) /\ actions'[g] = e  BY <1>2, <1>3, <1>4, AmendForm DEF IInv
<1>6. /\ ControlTyped' /\ pc'[CleanerBot] = "receipt" /\ job' = job /\ lock' = lock
      /\ Others(CleanerBot)
  BY <1>1, Actors, GoForm DEF IInv, Positions
<1>7. Kinds' /\ Offers'  BY <1>2, <1>3, <1>5, AmendKeeps DEF IInv, Kinds
<1>8. ActionsGrow /\ DecidesEnded
  BY <1>3, <1>5 DEF ActionsGrow, DecidesEnded, Amended
<1>9. DataTyped'  BY <1>1, <1>5 DEF IInv, DataTyped, Amended
<1>10. Grows /\ RowsOfClaims /\ SamePage /\ LeaveStands
  BY <1>1, <1>8, SameRows DEF Grows, SamePage, LeaveStands
<1>11. FewerClaims
  <2> SUFFICES ASSUME NEW h \in Actions, Claim(h)' PROVE Claim(h)  BY DEF FewerClaims
  <2>1. CASE h = g  BY <1>1, <2>1 DEF Claim
  <2>2. CASE h # g
    <3>1. Authorised(h)' => Authorised(h)
      BY <1>5, <2>2 DEF Amended, Authorised, Authority, AcceptedByReceipt
    <3> QED  BY <1>1, <1>6, <3>1 DEF Claim, Booked
  <2> QED  BY <2>1, <2>2
<1>12. CleanerAt'  BY <1>2, <1>5, <1>6 DEF CleanerAt, At, CleanerPlaces, Amended
<1>13. OpsAt'  BY <1>6, <1>10, OpsStands
<1> QED  BY <1>6, <1>7, <1>8, <1>9, <1>10, <1>11, <1>12, <1>13, QuietStep

\* The cleaners' process takes a button, or goes on, and gives nobody a claim.
LEMMA CleanerGoes ==
    ASSUME IInv, NEW l \in Positions \ {"idle", "patched"},
           \/ pc[CleanerBot] # "idle" /\ Go(CleanerBot, l)
           \/ \E g \in Actions : Begin(CleanerBot, g, l) \/ BeginLocked(CleanerBot, g, l),
           DataTyped', Grows, SamePage, RowsOfClaims, LeaveStands,
           DecidesEnded, NoAuthority, Kinds', Offers', CleanerAt'
    PROVE  IInv'
<1>1. ControlTyped' /\ pc'[CleanerBot] = l /\ Others(CleanerBot)
  <2>1. CASE pc[CleanerBot] # "idle" /\ Go(CleanerBot, l)  BY <2>1, Actors, GoForm DEF IInv
  <2>2. ASSUME NEW g \in Actions, Begin(CleanerBot, g, l) \/ BeginLocked(CleanerBot, g, l)
        PROVE  ControlTyped' /\ pc'[CleanerBot] = l /\ Others(CleanerBot)
    BY <2>2, Actors, EnterForm DEF IInv
  <2> QED  BY <2>1, <2>2
<1>2. OpsAt'  BY <1>1, OpsStands
<1>3. FewerClaims  BY <1>1, Fewer
<1> QED  BY <1>1, <1>2, <1>3, QuietStep

LEMMA PublishExecutedStep == IInv /\ PublishExecuted => IInv' /\ Grows
<1> SUFFICES ASSUME IInv, PublishExecuted PROVE IInv' /\ Grows  OBVIOUS
<1> DEFINE g == job[CleanerBot]
<1>1. /\ pc[CleanerBot] = "receipt"
      /\ UNCHANGED <<page, reservation, row, leave, notice, failures, crashes>>
  BY DEF PublishExecuted, notion, faults
<1>2. g \in DOMAIN actions /\ g \in Actions /\ actions[g].decides = 0 /\ lock = CleanerBot
  BY <1>1, Numbers DEF IInv, CleanerAt, At
<1>3. CASE UNCHANGED actions /\ End(CleanerBot)
  <2>1. failures' \in 0..MaxLost  BY <1>1 DEF IInv, DataTyped
  <2> QED  BY <1>1, <1>3, <2>1, CleanerGivesUp DEF notion, files
<1>4. CASE SetStatus(g, "EXECUTED") /\ Go(CleanerBot, "history")
  <2>1. /\ Amended(g) /\ ActionsGrow /\ NoAuthority /\ DecidesEnded /\ Kinds' /\ Offers'
    BY <1>2, <1>4, MarkForm DEF OfferStatuses
  <2>2. DataTyped'  BY <1>1, <2>1 DEF IInv, DataTyped, Amended
  <2>3. Grows /\ RowsOfClaims /\ SamePage /\ LeaveStands
    BY <1>1, <2>1, SameRows DEF Grows, SamePage, LeaveStands
  <2>4. pc'[CleanerBot] = "history" /\ job' = job /\ lock' = lock
    BY <1>1, <1>4, Actors, GoForm DEF IInv, Positions
  <2>5. CleanerAt'  BY <1>2, <2>1, <2>4 DEF CleanerAt, At, CleanerPlaces, Amended
  <2> QED  BY <1>1, <1>4, <2>1, <2>2, <2>3, <2>5, CleanerGoes DEF Positions
<1> QED  BY <1>3, <1>4 DEF PublishExecuted

\* A row is made of a claim, and one that is there is not touched.
LEMMA MaterialiseForm ==
    ASSUME IInv, NEW g \in DOMAIN actions, Materialise(g) \/ row' = row, actions' = actions
    PROVE  /\ row' \in [Actions -> [hold : {"none", "booked", "released"},
                                    reason : {"none", "unavailable", "cancelled"},
                                    request : {"none", "requested", "reassigned", "continued"}]]
           /\ RowsGrow /\ RowsOfClaims
<1>1. g \in Actions  BY Numbers DEF IInv
<1>2. CASE row' = row
  <2>1. RowsGrow /\ RowsOfClaims  BY <1>2, SameRows
  <2> QED  BY <1>2, <2>1 DEF IInv, DataTyped
<1>3. CASE row[g].hold = "none" /\ Authority(g) /\ row' = [row EXCEPT ![g].hold = "booked"]
  <2>1. /\ row[g] \in [hold : {"none", "booked", "released"},
                       reason : {"none", "unavailable", "cancelled"},
                       request : {"none", "requested", "reassigned", "continued"}]
    BY <1>1 DEF IInv, DataTyped
  <2>2. row' \in [Actions -> [hold : {"none", "booked", "released"},
                              reason : {"none", "unavailable", "cancelled"},
                              request : {"none", "requested", "reassigned", "continued"}]]
    BY <1>3, <2>1 DEF IInv, DataTyped
  <2>3. \A h \in Actions : h # g => row'[h] = row[h]  BY <1>3 DEF IInv, DataTyped
  <2>4. Claim(g) /\ Authorised(g)'
    BY <1>3 DEF Claim, Authorised, Authority, AcceptedByReceipt
  <2>5. RowsOfClaims  BY <2>3, <2>4 DEF RowsOfClaims, Claim, Booked
  <2>6. row'[g].hold = "booked"  BY <1>1, <1>3 DEF IInv, DataTyped
  <2>7. RowsGrow  BY <1>3, <2>3, <2>6 DEF RowsGrow
  <2> QED  BY <2>2, <2>5, <2>7
<1> QED  BY <1>2, <1>3 DEF Materialise, Book

LEMMA RecordAcceptedStep == IInv /\ RecordAccepted => IInv' /\ Grows
<1> SUFFICES ASSUME IInv, RecordAccepted PROVE IInv' /\ Grows  OBVIOUS
<1> DEFINE g == job[CleanerBot]
<1>1. /\ pc[CleanerBot] = "history" /\ End(CleanerBot)
      /\ UNCHANGED <<page, reservation, actions, leave, notice, crashes>>
  BY DEF RecordAccepted, files
<1>2. g \in DOMAIN actions  BY DEF IInv, CleanerAt
<1>3. (Materialise(g) \/ row' = row) /\ (failures' = failures \/ (failures < MaxLost /\ failures' = failures + 1))
  BY DEF RecordAccepted, Write
<1>4. failures' \in 0..MaxLost
  BY <1>3, AssignmentAssumption DEF IInv, DataTyped
<1>5. /\ row' \in [Actions -> [hold : {"none", "booked", "released"},
                               reason : {"none", "unavailable", "cancelled"},
                               request : {"none", "requested", "reassigned", "continued"}]]
      /\ RowsGrow /\ RowsOfClaims
  BY <1>1, <1>2, <1>3, MaterialiseForm
<1>6. DataTyped'  BY <1>1, <1>4, <1>5 DEF IInv, DataTyped
<1>7. Kinds' /\ Offers' /\ ActionsGrow /\ NoAuthority  BY <1>1, SameActions, SameAuthority
<1>8. Grows /\ SamePage /\ LeaveStands /\ DecidesEnded
  BY <1>1, <1>5, <1>7 DEF Grows, SamePage, LeaveStands, DecidesEnded
<1> QED  BY <1>1, <1>5, <1>6, <1>7, <1>8, CleanerQuits

\* A button of the cleaners that changes no file begins.
LEMMA CleanerBegins ==
    ASSUME IInv, NEW g \in DOMAIN actions, NEW l \in Positions \ {"idle", "patched"},
           Begin(CleanerBot, g, l) \/ BeginLocked(CleanerBot, g, l),
           UNCHANGED <<notion, files, faults>>, CleanerAt'
    PROVE  IInv' /\ Grows
<1>1. actions' = actions /\ row' = row /\ page' = page /\ leave' = leave  BY DEF notion, files
<1>2. DataTyped'  BY DEF IInv, DataTyped, notion, files, faults
<1>3. Grows /\ RowsOfClaims  BY <1>1, SameActions, SameRows DEF Grows
<1>4. SamePage /\ LeaveStands /\ DecidesEnded  BY <1>1 DEF SamePage, LeaveStands, DecidesEnded
<1>5. g \in Actions  BY Numbers DEF IInv
<1> QED  BY <1>1, <1>2, <1>3, <1>4, <1>5, SameActions, SameAuthority, CleanerGoes

LEMMA ReplayStep ==
    ASSUME IInv, NEW g \in Actions, Replay(g)
    PROVE  IInv' /\ Grows
<1>1. g \in DOMAIN actions /\ actions[g].decides = 0 /\ UNCHANGED <<notion, files, faults>>
  BY DEF Replay, IsOffer
<1>2. PICK l \in {"history", "receipt"} : BeginLocked(CleanerBot, g, l)  BY DEF Replay
<1>3. pc'[CleanerBot] = l /\ job'[CleanerBot] = g /\ lock' = CleanerBot
  BY <1>2, Actors, EnterForm DEF IInv, Positions
<1>4. CleanerAt'
  BY <1>1, <1>2, <1>3 DEF CleanerAt, At, CleanerPlaces, files
<1> QED  BY <1>1, <1>2, <1>4, CleanerBegins DEF Positions

-----------------------------------------------------------------------------
(* An offer is declined; the next one is made                              *)

LEMMA PressDeclineStep ==
    ASSUME IInv, NEW g \in Actions, PressDecline(g)
    PROVE  IInv' /\ Grows
<1>1. g \in DOMAIN actions /\ actions[g].decides = 0  BY OfferPressed DEF PressDecline
<1>2. Amended(g) /\ ActionsGrow /\ NoAuthority /\ DecidesEnded /\ Kinds' /\ Offers'
  BY <1>1, MarkForm DEF PressDecline, OfferStatuses
<1>3. UNCHANGED <<page, reservation, row, leave, notice, failures, crashes>>
      /\ Begin(CleanerBot, g, "decline")
  BY DEF PressDecline, notion, faults
<1>4. DataTyped'  BY <1>2, <1>3 DEF IInv, DataTyped, Amended
<1>5. Grows /\ RowsOfClaims /\ SamePage /\ LeaveStands
  BY <1>2, <1>3, SameRows DEF Grows, SamePage, LeaveStands
<1>6. pc'[CleanerBot] = "decline" /\ job'[CleanerBot] = g
  BY <1>3, Actors, EnterForm DEF IInv, Positions
<1>7. CleanerAt'  BY <1>1, <1>2, <1>6 DEF CleanerAt, At, CleanerPlaces, Amended
<1> QED  BY <1>2, <1>3, <1>4, <1>5, <1>7, CleanerGoes DEF Positions

LEMMA DeclinedStep ==
    ASSUME IInv, pc[CleanerBot] = "decline", NEW g, g = job[CleanerBot],
           NEW a \in {"offered", "vacant"}, PatchPage(a, page.assignee),
           page.acceptance \in {"offered", "vacant"},
           actions' = [actions EXCEPT ![g].edition = page.edition + 1],
           IF actions[g].rest = {} THEN End(CleanerBot) ELSE Go(CleanerBot, "next"),
           UNCHANGED <<reservation, row, leave, notice, failures, crashes>>
    PROVE  IInv' /\ Grows
<1> DEFINE e == [actions[g] EXCEPT !.edition = page.edition + 1]
<1>1. g \in DOMAIN actions /\ g \in Actions /\ actions[g].decides = 0
  BY Numbers DEF IInv, CleanerAt, At
<1>2. page.assignee \in Cleaners \cup {NoOne} /\ page.edition \in Nat  BY DEF IInv, DataTyped
<1>3. /\ page' \in [cancelled : BOOLEAN, acceptance : Acceptances,
                    assignee : Cleaners \cup {NoOne}, edition : Nat]
      /\ page'.acceptance = a /\ page'.edition = page.edition + 1
  BY <1>2, PatchForm DEF Acceptances
<1>4. /\ e \in Action /\ e.decides = actions[g].decides /\ e.to = actions[g].to
      /\ e.rest = actions[g].rest /\ e.expects = actions[g].expects
      /\ e.status = actions[g].status /\ e.receipt = actions[g].receipt
  BY <1>1, <1>2, Numbers DEF IInv, Action
<1>5. actions' = [actions EXCEPT ![g] = e]  OBVIOUS
<1> HIDE DEF e
<1>6. Amended(g) /\ actions'[g] = e  BY <1>1, <1>4, <1>5, AmendForm DEF IInv
<1>7. Kinds' /\ Offers'  BY <1>1, <1>4, <1>6, AmendKeeps DEF IInv, Kinds
<1>8. ActionsGrow /\ DecidesEnded /\ NoAuthority
  BY <1>4, <1>6 DEF ActionsGrow, DecidesEnded, NoAuthority, Amended, Authorised, Authority, AcceptedByReceipt
<1>9. DataTyped'  BY <1>3, <1>6 DEF IInv, DataTyped, Amended
<1>10. Grows /\ RowsOfClaims /\ LeaveStands
  BY <1>8, SameRows DEF Grows, LeaveStands
<1>11. ControlTyped' /\ Others(CleanerBot) /\ pc'[CleanerBot] # "patched" /\ CleanerAt'
  <2>1. CASE End(CleanerBot)
    BY <1>9, <2>1, Actors, EndForm, CleanerRests DEF IInv
  <2>2. CASE Go(CleanerBot, "next") /\ actions[g].rest # {}
    <3>1. /\ ControlTyped' /\ Others(CleanerBot) /\ pc'[CleanerBot] = "next" /\ job' = job
      BY <2>2, Actors, GoForm DEF IInv, Positions
    <3>2. CleanerAt'  BY <1>1, <1>6, <2>2, <3>1 DEF CleanerAt, At, CleanerPlaces, Amended
    <3> QED  BY <3>1, <3>2
  <2> QED  BY <2>1, <2>2
<1>12. OpsAt'  BY <1>10, <1>11, OpsStands
<1>13. FewerClaims  BY <1>8, <1>10, <1>11, Fewer
<1>14. PageTaken'
  <2> SUFFICES ASSUME NEW h \in DOMAIN actions', actions'[h].decides = 0, Claim(h)' PROVE FALSE
    BY DEF PageTaken
  <2>1. h \in Actions /\ h \in DOMAIN actions /\ actions[h].decides = 0
    BY <1>6, Numbers DEF Amended, IInv
  <2> QED  BY <1>13, <2>1, WaitingPage DEF FewerClaims
<1>15. ButtonsMatch'  BY <1>3, FreshPage
<1>16. Rows'  BY <1>10, <1>8, RowsStay DEF RowsOfClaims, LeaveStands, DecidesEnded
<1>17. SoleClaim'  BY <1>9, <1>10, <1>13, ClaimStays DEF FewerClaims, RowsOfClaims
<1> QED  BY <1>7, <1>9, <1>10, <1>11, <1>12, <1>14, <1>15, <1>16, <1>17 DEF IInv

LEMMA DeclineStep == IInv /\ Decline => IInv' /\ Grows
<1> SUFFICES ASSUME IInv, Decline PROVE IInv' /\ Grows  OBVIOUS
<1> DEFINE g == job[CleanerBot]
<1>1. pc[CleanerBot] = "decline" /\ UNCHANGED <<leave, notice, crashes>>  BY DEF Decline
<1>2. g \in DOMAIN actions /\ g \in Actions /\ actions[g].decides = 0
  BY <1>1, Numbers DEF IInv, CleanerAt, At
<1>3. failures \in 0..MaxLost /\ MaxLost \in Nat /\ page.assignee \in Cleaners \cup {NoOne}
  BY AssignmentAssumption DEF IInv, DataTyped
<1>4. AsOffered(g) => page.acceptance \in {"offered", "vacant"}  BY <1>2 DEF AsOffered, IInv, Kinds
<1>5. PICK a \in {"offered", "vacant"} : a = IF actions[g].rest = {} THEN "vacant" ELSE "offered"
  OBVIOUS
<1>6. CASE End(CleanerBot) /\ UNCHANGED <<notion, actions, failures>>
  BY <1>1, <1>3, <1>6, CleanerGivesUp DEF files
<1>7. CASE /\ AsOffered(g) /\ PatchPage(a, page.assignee)
           /\ actions' = [actions EXCEPT ![g].edition = page.edition + 1]
           /\ IF actions[g].rest = {} THEN End(CleanerBot) ELSE Go(CleanerBot, "next")
           /\ UNCHANGED <<reservation, row, failures>>
  BY <1>1, <1>4, <1>7, DeclinedStep
<1>8. CASE SetStatus(g, "RETRY") /\ End(CleanerBot) /\ UNCHANGED notion /\ failures' \in 0..MaxLost
  BY <1>1, <1>2, <1>8, CleanerMarks DEF OfferStatuses
<1>9. CASE /\ AsOffered(g) /\ PatchPage(a, page.assignee) /\ UNCHANGED <<reservation, row>>
           /\ SetStatus(g, "RETRY") /\ End(CleanerBot) /\ failures' \in 0..MaxLost
  BY <1>1, <1>2, <1>3, <1>4, <1>9, CleanerLosesPatch DEF Acceptances
<1>10. failures < MaxLost => failures + 1 \in 0..MaxLost  BY <1>3
<1> QED  BY <1>3, <1>5, <1>6, <1>7, <1>8, <1>9, <1>10 DEF Decline, Write

\* A set of natural numbers that is not empty has a least element, the first.
LEMMA FirstIsThere ==
    ASSUME NEW places \in SUBSET Nat, places # {}
    PROVE  First(places) \in places
<1> DEFINE R == OpToRel(<, Nat)
<1>1. IsWellFoundedOn(R, Nat)  BY NatLessThanWellFounded
<1>2. \A x, y \in Nat : <<x, y>> \in R <=> x < y  BY DEF OpToRel
<1> HIDE DEF R
<1>3. PICK x \in places : \A y \in places : ~ (<<y, x>> \in R)  BY <1>1, WFMin
<1>4. ASSUME NEW y \in places PROVE x <= y
  <2>1. x \in Nat /\ y \in Nat  OBVIOUS
  <2>2. ~ (y < x)  BY <1>2, <1>3, <2>1
  <2> QED  BY <2>1, <2>2
<1>5. \E i \in places : \A j \in places : i <= j  BY <1>4
<1> QED  BY <1>5 DEF First

LEMMA OfferForm ==
    ASSUME NEW places \in SUBSET DOMAIN Roster, places # {}, NEW x \in {"offered", "vacant"},
           NEW n \in Nat, NEW told \in BOOLEAN
    PROVE  /\ Offer(places, x, n, told) \in Action
           /\ Offer(places, x, n, told).decides = 0 /\ Offer(places, x, n, told).expects = x
           /\ Offer(places, x, n, told).status = "PENDING" /\ ~Offer(places, x, n, told).receipt
<1>1. DOMAIN Roster \subseteq Nat  BY LenProperties, AssignmentAssumption
<1>2. First(places) \in places  BY <1>1, FirstIsThere
<1>3. Roster[First(places)] \in Cleaners  BY <1>2 DEF Cleaners
<1>4. 0 \in 0..MaxActions  BY AssignmentAssumption
<1> QED  BY <1>2, <1>3, <1>4 DEF Offer, Action, Acceptances, OfferStatuses

LEMMA AskStep ==
    ASSUME IInv, pc[CleanerBot] # "idle",
           NEW places \in SUBSET DOMAIN Roster, places # {}, NEW x \in {"offered", "vacant"},
           NEW n \in Nat, Ask(CleanerBot, Offer(places, x, n, FALSE)),
           UNCHANGED <<notion, leave, notice, faults>>
    PROVE  IInv' /\ Grows
<1> DEFINE offer == Offer(places, x, n, FALSE)
           new == Len(actions) + 1
<1>1. CASE UNCHANGED actions /\ End(CleanerBot)
  <2>1. failures' \in 0..MaxLost  BY DEF IInv, DataTyped, faults
  <2> QED  BY <1>1, <2>1, CleanerGivesUp DEF files, faults
<1>2. CASE ~PendingExists /\ Room /\ actions' = Append(actions, offer) /\ Go(CleanerBot, "send")
  <2>1. /\ offer \in Action /\ offer.decides = 0 /\ offer.expects = x
        /\ offer.status = "PENDING" /\ ~offer.receipt
    BY OfferForm
  <2> HIDE DEF offer
  <2>2. /\ actions' \in Seq(Action) /\ Len(actions') = new /\ Len(actions') \in Actions
        /\ DOMAIN actions' = DOMAIN actions \cup {new} /\ new \notin DOMAIN actions
        /\ \A h \in DOMAIN actions : actions'[h] = actions[h] /\ h < new
        /\ actions'[new] = offer
    BY <1>2, <2>1, AppendForm DEF IInv
  <2> HIDE DEF new
  <2>3. \A h \in DOMAIN actions : ~(actions[h].decides = 0 /\ actions[h].status = "PENDING")
    BY <1>2 DEF PendingExists, Open, IsOffer
  <2>4. Kinds'
    <3>1. ASSUME NEW h \in DOMAIN actions'
          PROVE  IF actions'[h].decides = 0
                 THEN /\ actions'[h].status \in OfferStatuses
                      /\ actions'[h].expects \in {"offered", "vacant"}
                 ELSE /\ actions'[h].status \in DecisionStatuses
                      /\ actions'[h].decides < h
                      /\ ~actions'[h].receipt
      <4>1. CASE h = new  BY <2>1, <2>2, <4>1 DEF OfferStatuses
      <4>2. CASE h \in DOMAIN actions  BY <2>2, <4>2 DEF IInv, Kinds
      <4> QED  BY <2>2, <4>1, <4>2
    <3>2. ASSUME NEW d \in DOMAIN actions', NEW k \in DOMAIN actions',
                 actions'[d].decides = actions'[k].decides, actions'[d].decides # 0
          PROVE  d = k
      <4>1. d \in DOMAIN actions /\ k \in DOMAIN actions  BY <2>1, <2>2, <3>2
      <4> QED  BY <2>2, <3>2, <4>1 DEF IInv, Kinds
    <3> QED  BY <3>1, <3>2 DEF Kinds
  <2>5. Offers'
    <3> SUFFICES ASSUME NEW h \in DOMAIN actions', NEW k \in DOMAIN actions', h < k, Open(h)'
                 PROVE  FALSE
      BY DEF Offers
    <3>1. h \notin DOMAIN actions  BY <2>2, <2>3 DEF Open, IsOffer
    <3>2. h = new /\ (k = new \/ k < new)  BY <2>2, <3>1
    <3>3. new \in Nat /\ (k \in DOMAIN actions => k \in Nat)
      BY <2>2, Numbers DEF IInv, Actions
    <3> QED  BY <2>2, <3>2, <3>3
  <2>6. UNCHANGED <<page, reservation, row, leave, notice, failures, crashes>>
    BY DEF notion, faults
  <2>7. ActionsGrow /\ DecidesEnded /\ NoAuthority
    BY <2>1, <2>2 DEF ActionsGrow, DecidesEnded, NoAuthority, Authorised, Authority, AcceptedByReceipt
  <2>8. DataTyped'  BY <2>2, <2>6 DEF IInv, DataTyped
  <2>9. Grows /\ RowsOfClaims /\ SamePage /\ LeaveStands
    BY <2>6, <2>7, SameRows DEF Grows, SamePage, LeaveStands
  <2>10. pc'[CleanerBot] = "send" /\ job' = job
    BY <1>2, Actors, GoForm DEF IInv, Positions
  <2>11. CleanerAt'  BY <2>1, <2>2, <2>10 DEF IInv, CleanerAt, At, CleanerPlaces
  <2> QED  BY <1>2, <2>4, <2>5, <2>7, <2>8, <2>9, <2>11, CleanerGoes DEF Positions
<1> QED  BY <1>1, <1>2 DEF Ask

LEMMA AskNextStep == IInv /\ AskNext => IInv' /\ Grows
<1> SUFFICES ASSUME IInv, AskNext PROVE IInv' /\ Grows  OBVIOUS
<1> DEFINE offer == actions[job[CleanerBot]]
<1>1. pc[CleanerBot] = "next" /\ UNCHANGED <<notion, leave, notice, faults>>  BY DEF AskNext
<1>2. offer \in Action /\ offer.rest # {}  BY <1>1, Numbers DEF IInv, CleanerAt, At
<1>3. offer.rest \in SUBSET DOMAIN Roster /\ offer.edition \in Nat  BY <1>2 DEF Action
<1>4. Ask(CleanerBot, Offer(offer.rest, "offered", offer.edition, FALSE))  BY DEF AskNext
<1> HIDE DEF offer
<1> QED  BY <1>1, <1>2, <1>3, <1>4, AskStep

\* How far g's leaving has come.
LEMMA LeaveForm ==
    ASSUME DataTyped, NEW g \in Actions, NEW at \in Leaving, leave' = [leave EXCEPT ![g].at = at]
    PROVE  /\ leave' \in [Actions -> [at : Leaving, edition : Nat, asked : BOOLEAN]]
           /\ leave'[g].at = at
           /\ leave'[g].edition = leave[g].edition /\ leave'[g].asked = leave[g].asked
           /\ \A h \in Actions \ {g} : leave'[h] = leave[h]
<1>1. leave \in [Actions -> [at : Leaving, edition : Nat, asked : BOOLEAN]]  BY DEF DataTyped
<1>2. /\ DOMAIN leave' = Actions /\ leave' = [h \in Actions |-> leave'[h]]
      /\ leave'[g] = [leave[g] EXCEPT !.at = at]
      /\ \A h \in Actions \ {g} : leave'[h] = leave[h]
  BY <1>1
<1>3. leave[g] \in [at : Leaving, edition : Nat, asked : BOOLEAN]  BY <1>1
<1>4. /\ leave'[g] \in [at : Leaving, edition : Nat, asked : BOOLEAN]
      /\ leave'[g].at = at
      /\ leave'[g].edition = leave[g].edition /\ leave'[g].asked = leave[g].asked
  BY <1>2, <1>3
<1> QED  BY <1>1, <1>2, <1>4

LEMMA LeaveFormAt ==
    ASSUME DataTyped, NEW g \in Actions, NEW at \in Leaving, NEW n \in Nat,
           leave' = [leave EXCEPT ![g].at = at, ![g].edition = n]
    PROVE  /\ leave' \in [Actions -> [at : Leaving, edition : Nat, asked : BOOLEAN]]
           /\ leave'[g].at = at
           /\ leave'[g].edition = n /\ leave'[g].asked = leave[g].asked
           /\ \A h \in Actions \ {g} : leave'[h] = leave[h]
<1>1. leave \in [Actions -> [at : Leaving, edition : Nat, asked : BOOLEAN]]  BY DEF DataTyped
<1> DEFINE e == [leave[g] EXCEPT !.at = at]
<1>2. leave[g] \in [at : Leaving, edition : Nat, asked : BOOLEAN]  BY <1>1
<1>3. e \in [at : Leaving, edition : Nat, asked : BOOLEAN] /\ e.at = at /\ e.asked = leave[g].asked
  BY <1>2
<1>4. /\ DOMAIN leave' = Actions /\ leave' = [h \in Actions |-> leave'[h]]
      /\ leave'[g] = [e EXCEPT !.edition = n]
      /\ \A h \in Actions \ {g} : leave'[h] = leave[h]
  BY <1>1
<1> HIDE DEF e
<1>5. /\ leave'[g] \in [at : Leaving, edition : Nat, asked : BOOLEAN]
      /\ leave'[g].at = at
      /\ leave'[g].edition = n /\ leave'[g].asked = leave[g].asked
  BY <1>3, <1>4
<1> QED  BY <1>1, <1>4, <1>5

LEMMA SendOfferStep == IInv /\ SendOffer => IInv' /\ Grows
<1> SUFFICES ASSUME IInv, SendOffer PROVE IInv' /\ Grows  OBVIOUS
<1> DEFINE new == Len(actions)
           g == job[CleanerBot]
           e == [actions[new] EXCEPT !.told = TRUE]
<1>1. /\ pc[CleanerBot] = "send" /\ End(CleanerBot)
      /\ UNCHANGED <<page, reservation, row, notice, crashes>>
  BY DEF SendOffer, notion
<1>2. failures' \in 0..MaxLost
  BY AssignmentAssumption DEF SendOffer, Write, IInv, DataTyped
<1>3. CASE UNCHANGED <<actions, leave>>  BY <1>1, <1>2, <1>3, CleanerGivesUp DEF files, notion
<1>4. CASE /\ actions' = [actions EXCEPT ![new].told = TRUE]
           /\ leave' = [leave EXCEPT ![g].at = IF @ = "projected" THEN "done" ELSE @]
  <2>1. new \in DOMAIN actions /\ actions[new] \in Action /\ g \in Actions
    BY Numbers DEF IInv, ControlTyped, CleanerAt
  <2>2. /\ e \in Action /\ e.decides = actions[new].decides /\ e.to = actions[new].to
        /\ e.rest = actions[new].rest /\ e.expects = actions[new].expects
        /\ e.status = actions[new].status /\ e.receipt = actions[new].receipt
    BY <2>1 DEF Action
  <2>3. actions' = [actions EXCEPT ![new] = e]  BY <1>4
  <2> HIDE DEF e, new
  <2>4. Amended(new) /\ actions'[new] = e  BY <2>1, <2>2, <2>3, AmendForm DEF IInv
  <2>5. Kinds' /\ Offers'  BY <2>1, <2>2, <2>4, AmendKeeps DEF IInv, Kinds
  <2>6. ActionsGrow /\ DecidesEnded /\ NoAuthority
    BY <2>2, <2>4 DEF ActionsGrow, DecidesEnded, NoAuthority, Amended, Authorised, Authority, AcceptedByReceipt
  <2>7. leave' \in [Actions -> [at : Leaving, edition : Nat, asked : BOOLEAN]] /\ LeaveStands
    <3> DEFINE at == IF leave[g].at = "projected" THEN "done" ELSE leave[g].at
    <3>1. leave' = [leave EXCEPT ![g].at = at]  BY <1>4
    <3>2. leave[g].at \in Leaving  BY <2>1 DEF IInv, DataTyped
    <3>3. at \in Leaving /\ (at \in Active => leave[g].at \in Active) /\ (at = "ended" => leave[g].at = "ended")
      BY <3>2 DEF Leaving, Active
    <3> HIDE DEF at
    <3>4. /\ leave' \in [Actions -> [at : Leaving, edition : Nat, asked : BOOLEAN]]
          /\ leave'[g].at = at
          /\ leave'[g].edition = leave[g].edition /\ leave'[g].asked = leave[g].asked
          /\ \A h \in Actions \ {g} : leave'[h] = leave[h]
      BY <2>1, <3>1, <3>3, LeaveForm DEF IInv
    <3> QED  BY <3>3, <3>4 DEF LeaveStands
  <2>8. DataTyped'  BY <1>1, <1>2, <2>4, <2>7 DEF IInv, DataTyped, Amended
  <2>9. Grows /\ RowsOfClaims /\ SamePage  BY <1>1, <2>6, SameRows DEF Grows, SamePage
  <2> QED  BY <1>1, <2>5, <2>6, <2>7, <2>8, <2>9, CleanerQuits
<1> QED  BY <1>3, <1>4 DEF SendOffer, Write

-----------------------------------------------------------------------------
(* The assigned cleaner becomes unavailable                                *)

\* A button is shown or put away while the cleaners' process waits.
LEMMA ButtonStep ==
    ASSUME IInv, pc[CleanerBot] = "idle",
           UNCHANGED <<writerVars, notion, actions, notice, local, faults>>, LeaveStands,
           leave' \in [Actions -> [at : Leaving, edition : Nat, asked : BOOLEAN]]
    PROVE  IInv' /\ Grows
<1>1. /\ page' = page /\ row' = row /\ actions' = actions /\ reservation' = reservation /\ notice' = notice
      /\ pc' = pc /\ job' = job /\ lock' = lock /\ failures' = failures /\ crashes' = crashes
      /\ lease' = lease /\ inside' = inside /\ passed' = passed /\ lapses' = lapses
  BY DEF notion, local, faults, writerVars
<1>2. ControlTyped'  BY <1>1 DEF IInv, ControlTyped, WriterTypeOK
<1>3. DataTyped'  BY <1>1 DEF IInv, DataTyped
<1>4. Grows /\ RowsOfClaims  BY <1>1, SameActions, SameRows DEF Grows
<1>5. SamePage /\ DecidesEnded /\ Others(CleanerBot)
  BY <1>1 DEF SamePage, DecidesEnded, Others, Current
<1>6. NoAuthority  BY <1>1, SameAuthority
<1>7. FewerClaims  BY <1>1, <1>4, <1>6, Fewer
<1>8. CleanerAt'  BY <1>1 DEF IInv, CleanerAt, At
<1>9. OpsAt'  BY <1>4, <1>5, OpsStands
<1>10. Kinds' /\ Offers'  BY <1>1, SameActions
<1> QED  BY <1>2, <1>3, <1>4, <1>5, <1>7, <1>8, <1>9, <1>10, QuietStep

LEMMA ShowAssignmentStep ==
    ASSUME IInv, NEW g \in Actions, ShowAssignment(g) \/ Keep(g)
    PROVE  IInv' /\ Grows
<1>1. pc[CleanerBot] = "idle" /\ UNCHANGED <<writerVars, notion, actions, notice, local, faults>>
  BY DEF ShowAssignment, Keep
<1>2. page.edition \in Nat  BY DEF IInv, DataTyped
<1>3. CASE Booked(g) /\ leave' = [leave EXCEPT ![g].at = "shown", ![g].edition = page.edition]
  <2>1. /\ leave' \in [Actions -> [at : Leaving, edition : Nat, asked : BOOLEAN]]
        /\ leave'[g].at = "shown"
        /\ leave'[g].edition = page.edition /\ leave'[g].asked = leave[g].asked
        /\ \A h \in Actions \ {g} : leave'[h] = leave[h]
    BY <1>2, <1>3, LeaveFormAt DEF IInv, Leaving
  <2>2. LeaveStands  BY <1>3, <2>1 DEF LeaveStands, Claim
  <2> QED  BY <1>1, <2>1, <2>2, ButtonStep
<1>4. CASE leave' = [leave EXCEPT ![g].at = "none"]
  <2>1. /\ leave' \in [Actions -> [at : Leaving, edition : Nat, asked : BOOLEAN]]
        /\ leave'[g].at = "none"
        /\ leave'[g].edition = leave[g].edition /\ leave'[g].asked = leave[g].asked
        /\ \A h \in Actions \ {g} : leave'[h] = leave[h]
    BY <1>4, LeaveForm DEF IInv, Leaving
  <2>2. LeaveStands  BY <2>1 DEF LeaveStands, Active
  <2> QED  BY <1>1, <2>1, <2>2, ButtonStep
<1> QED  BY <1>3, <1>4 DEF ShowAssignment, Keep

LEMMA PressUnavailableStep ==
    ASSUME IInv, NEW g \in Actions, PressUnavailable(g)
    PROVE  IInv' /\ Grows
<1>1. g \in DOMAIN actions /\ UNCHANGED <<notion, actions, notice, faults>>  BY DEF PressUnavailable
<1>2. CASE /\ leave[g].at \in {"shown", "clock"} /\ Booked(g)
           /\ SetLeave(g, "clock") /\ Begin(CleanerBot, g, "end")
  <2>1. /\ leave' \in [Actions -> [at : Leaving, edition : Nat, asked : BOOLEAN]]
        /\ leave'[g].at = "clock"
        /\ leave'[g].edition = leave[g].edition /\ leave'[g].asked = leave[g].asked
        /\ \A h \in Actions \ {g} : leave'[h] = leave[h]
    BY <1>2, LeaveForm DEF IInv, Leaving, SetLeave
  <2>2. LeaveStands  BY <1>2, <2>1 DEF LeaveStands, Active
  <2>3. UNCHANGED <<page, reservation, row, actions, notice, failures, crashes>>
    BY <1>1 DEF notion, faults
  <2>4. DataTyped'  BY <2>1, <2>3 DEF IInv, DataTyped
  <2>5. Grows /\ RowsOfClaims  BY <2>3, SameActions, SameRows DEF Grows
  <2>6. SamePage /\ DecidesEnded /\ NoAuthority /\ Kinds' /\ Offers'
    BY <2>3, SameActions, SameAuthority DEF SamePage, DecidesEnded
  <2>7. pc'[CleanerBot] = "end" /\ job'[CleanerBot] = g
    BY <1>2, Actors, EnterForm DEF IInv, Positions
  <2>8. CleanerAt'  BY <1>1, <1>2, <2>1, <2>3, <2>7 DEF CleanerAt, At, CleanerPlaces, Booked
  <2> QED  BY <1>2, <2>2, <2>4, <2>5, <2>6, <2>8, CleanerGoes DEF Positions
<1>3. ASSUME NEW l \in {"project", "route"}, UNCHANGED leave, Begin(CleanerBot, g, l),
             l = "project" => leave[g].at = "ended"
      PROVE  IInv' /\ Grows
  <2>1. pc'[CleanerBot] = l /\ job'[CleanerBot] = g
    BY <1>3, Actors, EnterForm DEF IInv, Positions
  <2>2. UNCHANGED <<notion, files, faults>>  BY <1>1, <1>3 DEF files
  <2>3. CleanerAt'  BY <1>1, <1>3, <2>1 DEF CleanerAt, At, CleanerPlaces
  <2> QED  BY <1>1, <1>3, <2>2, <2>3, CleanerBegins DEF Positions
<1> QED  BY <1>2, <1>3 DEF PressUnavailable

\* An assignment in force ends.
LEMMA ReleaseForm ==
    ASSUME IInv, NEW g \in Actions, Booked(g), NEW why \in {"unavailable", "cancelled"}, Release(g, why)
    PROVE  /\ row' \in [Actions -> [hold : {"none", "booked", "released"},
                                    reason : {"none", "unavailable", "cancelled"},
                                    request : {"none", "requested", "reassigned", "continued"}]]
           /\ row'[g].hold = "released"
           /\ RowsGrow /\ RowsOfClaims
<1> DEFINE Row == [hold : {"none", "booked", "released"},
                   reason : {"none", "unavailable", "cancelled"},
                   request : {"none", "requested", "reassigned", "continued"}]
           e == [row[g] EXCEPT !.hold = "released"]
<1>1. row \in [Actions -> Row] /\ row[g] \in Row  BY DEF IInv, DataTyped
<1>2. e \in Row /\ e.hold = "released"  BY <1>1
<1>3. /\ DOMAIN row' = Actions /\ row' = [h \in Actions |-> row'[h]]
      /\ row'[g] = [e EXCEPT !.reason = why]
      /\ \A h \in Actions \ {g} : row'[h] = row[h]
  BY <1>1 DEF Release
<1> HIDE DEF e
<1>4. row'[g] \in Row /\ row'[g].hold = "released"  BY <1>2, <1>3
<1>5. row' \in [Actions -> Row]  BY <1>1, <1>3, <1>4
<1>6. RowsGrow  BY <1>3, <1>4 DEF RowsGrow, Booked
<1>7. RowsOfClaims  BY <1>3, <1>4 DEF RowsOfClaims, Claim, Booked
<1> QED  BY <1>4, <1>5, <1>6, <1>7

\* The rows at most changed, the cleaners' handler ends.
LEMMA CleanerRows ==
    ASSUME IInv, End(CleanerBot), UNCHANGED <<page, reservation, actions, leave, notice, crashes>>,
           failures' \in 0..MaxLost, RowsGrow, RowsOfClaims,
           row' \in [Actions -> [hold : {"none", "booked", "released"},
                                 reason : {"none", "unavailable", "cancelled"},
                                 request : {"none", "requested", "reassigned", "continued"}]]
    PROVE  IInv' /\ Grows
<1>1. DataTyped'  BY DEF IInv, DataTyped
<1>2. Kinds' /\ Offers' /\ ActionsGrow /\ NoAuthority  BY SameActions, SameAuthority
<1>3. Grows /\ SamePage /\ LeaveStands /\ DecidesEnded
  BY <1>2 DEF Grows, SamePage, LeaveStands, DecidesEnded
<1> QED  BY <1>1, <1>2, <1>3, CleanerQuits

LEMMA EndAssignmentStep == IInv /\ EndAssignment => IInv' /\ Grows
<1> SUFFICES ASSUME IInv, EndAssignment PROVE IInv' /\ Grows  OBVIOUS
<1> DEFINE g == job[CleanerBot]
<1>1. pc[CleanerBot] = "end" /\ UNCHANGED <<page, reservation, actions, notice, crashes>>
  BY DEF EndAssignment
<1>2. g \in DOMAIN actions /\ g \in Actions /\ leave[g].at = "clock"
      /\ (Current(CleanerBot) => Booked(g))
  BY <1>1, Numbers DEF IInv, CleanerAt, At
<1>3. failures \in 0..MaxLost /\ MaxLost \in Nat  BY AssignmentAssumption DEF IInv, DataTyped
<1>4. CASE /\ Booked(g) /\ UNCHANGED failures
           /\ Release(g, "unavailable") /\ SetLeave(g, "ended") /\ Go(CleanerBot, "project")
  <2>1. /\ row' \in [Actions -> [hold : {"none", "booked", "released"},
                                 reason : {"none", "unavailable", "cancelled"},
                                 request : {"none", "requested", "reassigned", "continued"}]]
        /\ row'[g].hold = "released"
        /\ RowsGrow /\ RowsOfClaims
    BY <1>2, <1>4, ReleaseForm
  <2>2. /\ leave' \in [Actions -> [at : Leaving, edition : Nat, asked : BOOLEAN]]
        /\ leave'[g].at = "ended"
        /\ leave'[g].edition = leave[g].edition /\ leave'[g].asked = leave[g].asked
        /\ \A h \in Actions \ {g} : leave'[h] = leave[h]
    BY <1>2, <1>4, LeaveForm DEF IInv, Leaving, SetLeave
  <2>3. LeaveStands  BY <1>2, <2>1, <2>2 DEF LeaveStands, Active
  <2>4. DataTyped'  BY <1>1, <1>4, <2>1, <2>2 DEF IInv, DataTyped
  <2>5. Grows /\ SamePage /\ DecidesEnded /\ NoAuthority /\ Kinds' /\ Offers'
    BY <1>1, <2>1, SameActions, SameAuthority DEF Grows, SamePage, DecidesEnded
  <2>6. pc'[CleanerBot] = "project" /\ job' = job
    BY <1>1, <1>4, Actors, GoForm DEF IInv, Positions
  <2>7. CleanerAt'  BY <1>1, <1>2, <2>2, <2>6 DEF CleanerAt, At, CleanerPlaces
  <2> QED  BY <1>1, <1>4, <2>1, <2>3, <2>4, <2>5, <2>7, CleanerGoes DEF Positions
<1>5. CASE /\ Booked(g) /\ failures' \in 0..MaxLost /\ Release(g, "unavailable")
           /\ UNCHANGED leave /\ End(CleanerBot)
  BY <1>1, <1>2, <1>5, ReleaseForm, CleanerRows
<1>6. CASE UNCHANGED <<row, leave>> /\ failures' \in 0..MaxLost /\ End(CleanerBot)
  BY <1>1, <1>6, CleanerGivesUp DEF notion, files
<1>7. failures < MaxLost => failures + 1 \in 0..MaxLost  BY <1>3
<1> QED  BY <1>2, <1>3, <1>4, <1>5, <1>6, <1>7 DEF EndAssignment, Write

\* A step that gives nobody a claim and puts a new edition on the page.
LEMMA EditedStep ==
    ASSUME IInv, ControlTyped', DataTyped', Grows, FewerClaims, RowsOfClaims, DecidesEnded,
           Kinds', Offers', CleanerAt', OpsAt', PageTaken', page'.edition = page.edition + 1,
           \A h \in Actions :
               /\ \/ leave'[h].edition = leave[h].edition
                  \/ leave'[h].edition = page.edition + 1 /\ leave'[h].at \notin Active
               /\ leave'[h].at = "ended" => leave[h].at = "ended"
               /\ leave'[h].asked => leave[h].asked
    PROVE  IInv'
<1>1. ButtonsMatch'  BY FreshPage
<1>2. Rows'  BY RowsStay DEF RowsOfClaims, DecidesEnded
<1>3. SoleClaim'  BY ClaimStays DEF FewerClaims, RowsOfClaims
<1> QED  BY <1>1, <1>2, <1>3 DEF IInv

LEMMA ProjectUnavailableStep == IInv /\ ProjectUnavailable => IInv' /\ Grows
<1> SUFFICES ASSUME IInv, ProjectUnavailable PROVE IInv' /\ Grows  OBVIOUS
<1> DEFINE g == job[CleanerBot]
           Projected(e) == leave' = [leave EXCEPT ![g].at = "projected", ![g].edition = e]
           Stay == UNCHANGED leave /\ End(CleanerBot)
<1>1. pc[CleanerBot] = "project" /\ UNCHANGED <<reservation, row, actions, notice, crashes>>
  BY DEF ProjectUnavailable
<1>2. g \in DOMAIN actions /\ g \in Actions /\ leave[g].at = "ended" /\ row[g].hold = "released"
  BY <1>1, Numbers DEF IInv, CleanerAt, At, Rows
<1>3. failures \in 0..MaxLost /\ MaxLost \in Nat /\ page.edition \in Nat
  BY AssignmentAssumption DEF IInv, DataTyped
<1>4. /\ Kinds' /\ Offers' /\ ActionsGrow /\ NoAuthority
      /\ RowsGrow /\ RowsOfClaims /\ DecidesEnded
  BY <1>1, SameActions, SameRows, SameAuthority DEF DecidesEnded
<1>5. CASE Stay /\ UNCHANGED page /\ failures' \in 0..MaxLost
  BY <1>1, <1>5, CleanerGivesUp DEF notion, files
<1>6. CASE Projected(page.edition) /\ Go(CleanerBot, "route") /\ UNCHANGED <<page, failures>>
  <2>1. /\ leave' \in [Actions -> [at : Leaving, edition : Nat, asked : BOOLEAN]]
        /\ leave'[g].at = "projected"
        /\ leave'[g].edition = page.edition /\ leave'[g].asked = leave[g].asked
        /\ \A h \in Actions \ {g} : leave'[h] = leave[h]
    BY <1>2, <1>3, <1>6, LeaveFormAt DEF IInv, Leaving
  <2>2. LeaveStands /\ SamePage  BY <1>6, <2>1 DEF LeaveStands, Active, SamePage
  <2>3. DataTyped'  BY <1>1, <1>6, <2>1 DEF IInv, DataTyped
  <2>4. pc'[CleanerBot] = "route" /\ job' = job
    BY <1>1, <1>6, Actors, GoForm DEF IInv, Positions
  <2>5. CleanerAt'  BY <1>1, <1>2, <2>4 DEF CleanerAt, At, CleanerPlaces
  <2> QED  BY <1>1, <1>4, <1>6, <2>2, <2>3, <2>5, CleanerGoes DEF Positions, Grows
<1>7. CASE /\ MayLeave(g) /\ PatchPage("vacant", NoOne) /\ failures' \in 0..MaxLost
           /\ \/ Projected(page.edition + 1) /\ Go(CleanerBot, "route")
              \/ Stay
  <2>1. \A h \in Actions : ~Claim(h)
    <3>1. page.acceptance = "accepted" /\ leave[g].edition = page.edition
      BY <1>7 DEF MayLeave, Reads
    <3>2. \A h \in Actions : Claim(h) => h = g  BY <1>2, <3>1 DEF IInv, ButtonsMatch
    <3>3. ~Claim(g)  BY <1>1, <1>2 DEF Claim, Booked
    <3> QED  BY <3>2, <3>3
  <2>2. /\ page' \in [cancelled : BOOLEAN, acceptance : Acceptances,
                      assignee : Cleaners \cup {NoOne}, edition : Nat]
        /\ page'.edition = page.edition + 1
    BY <1>7, PatchForm DEF Acceptances
  <2>3. /\ leave' \in [Actions -> [at : Leaving, edition : Nat, asked : BOOLEAN]]
        /\ \A h \in Actions :
              /\ \/ leave'[h].edition = leave[h].edition
                 \/ leave'[h].edition = page.edition + 1 /\ leave'[h].at \notin Active
              /\ leave'[h].at = "ended" => leave[h].at = "ended"
              /\ leave'[h].asked => leave[h].asked
    <3>1. CASE UNCHANGED leave  BY <3>1 DEF IInv, DataTyped
    <3>2. CASE Projected(page.edition + 1)
      <4>1. page.edition + 1 \in Nat  BY <1>3
      <4>2. /\ leave' \in [Actions -> [at : Leaving, edition : Nat, asked : BOOLEAN]]
            /\ leave'[g].at = "projected"
            /\ leave'[g].edition = page.edition + 1 /\ leave'[g].asked = leave[g].asked
            /\ \A h \in Actions \ {g} : leave'[h] = leave[h]
        BY <1>2, <3>2, <4>1, LeaveFormAt DEF IInv, Leaving
      <4> QED  BY <4>2 DEF Active
    <3> QED  BY <1>7, <3>1, <3>2
  <2>4. DataTyped'  BY <1>1, <1>7, <2>2, <2>3 DEF IInv, DataTyped
  <2>5. /\ ControlTyped' /\ Others(CleanerBot) /\ CleanerAt'
        /\ pc'[CleanerBot] # "patched"
    <3>1. CASE Stay  BY <2>4, <3>1, Actors, EndForm, CleanerRests DEF IInv
    <3>2. CASE Go(CleanerBot, "route")
      <4>1. /\ ControlTyped' /\ Others(CleanerBot)
            /\ pc'[CleanerBot] = "route" /\ job' = job
        BY <1>1, <3>2, Actors, GoForm DEF IInv, Positions
      <4>2. CleanerAt'  BY <1>1, <1>2, <4>1 DEF CleanerAt, At, CleanerPlaces
      <4> QED  BY <4>1, <4>2
    <3> QED  BY <1>7, <3>1, <3>2
  <2>6. Grows  BY <1>4 DEF Grows
  <2>7. OpsAt'  BY <2>5, <2>6, OpsStands
  <2>8. FewerClaims  BY <1>4, <2>5, <2>6, Fewer
  <2>9. PageTaken'
    <3>1. DOMAIN actions' \subseteq Actions  BY <1>1, Numbers DEF IInv
    <3> QED  BY <2>1, <2>8, <3>1 DEF PageTaken, FewerClaims
  <2> QED  BY <1>4, <2>2, <2>3, <2>4, <2>5, <2>6, <2>7, <2>8, <2>9, EditedStep
<1>8. failures < MaxLost => failures + 1 \in 0..MaxLost  BY <1>3
<1> QED  BY <1>3, <1>5, <1>6, <1>7, <1>8 DEF ProjectUnavailable, Write

LEMMA RouteReplacementStep == IInv /\ RouteReplacement => IInv' /\ Grows
<1> SUFFICES ASSUME IInv, RouteReplacement PROVE IInv' /\ Grows  OBVIOUS
<1> DEFINE g == job[CleanerBot]
<1>1. pc[CleanerBot] = "route" /\ UNCHANGED <<notion, notice, faults>>  BY DEF RouteReplacement
<1>2. g \in Actions  BY Numbers DEF IInv, CleanerAt
<1>3. failures' = failures /\ crashes' = crashes /\ failures' \in 0..MaxLost
  BY <1>1 DEF IInv, DataTyped, faults
<1>4. CASE UNCHANGED <<actions, leave>> /\ End(CleanerBot)
  BY <1>1, <1>3, <1>4, CleanerGivesUp DEF files
<1>5. CASE SetLeave(g, "done") /\ UNCHANGED actions /\ End(CleanerBot)
  <2>1. /\ leave' \in [Actions -> [at : Leaving, edition : Nat, asked : BOOLEAN]]
        /\ leave'[g].at = "done"
        /\ leave'[g].edition = leave[g].edition /\ leave'[g].asked = leave[g].asked
        /\ \A h \in Actions \ {g} : leave'[h] = leave[h]
    BY <1>2, <1>5, LeaveForm DEF IInv, Leaving, SetLeave
  <2>2. LeaveStands  BY <2>1 DEF LeaveStands, Active
  <2>3. page' = page /\ reservation' = reservation /\ row' = row /\ notice' = notice
    BY <1>1 DEF notion
  <2>4. DataTyped'  BY <1>3, <1>5, <2>1, <2>3 DEF IInv, DataTyped
  <2>5. /\ Kinds' /\ Offers' /\ ActionsGrow /\ NoAuthority /\ SamePage
        /\ RowsGrow /\ RowsOfClaims /\ DecidesEnded
    BY <1>5, <2>3, SameActions, SameRows, SameAuthority DEF DecidesEnded, SamePage
  <2> QED  BY <1>5, <2>2, <2>4, <2>5, CleanerQuits DEF Grows
<1>6. CASE /\ Fresh(g) # {} /\ UNCHANGED leave
           /\ Ask(CleanerBot, Offer(Fresh(g), "vacant", leave[g].edition, FALSE))
  <2>1. Fresh(g) \in SUBSET DOMAIN Roster  BY DEF Fresh
  <2>2. leave[g].edition \in Nat  BY <1>2 DEF IInv, DataTyped
  <2> QED  BY <1>1, <1>6, <2>1, <2>2, AskStep
<1> QED  BY <1>4, <1>5, <1>6 DEF RouteReplacement

-----------------------------------------------------------------------------
(* The cleaner who left asks to come back                                  *)

LEMMA PressComeBackStep ==
    ASSUME IInv, NEW g \in Actions, PressComeBack(g)
    PROVE  IInv' /\ Grows
<1>1. g \in DOMAIN actions /\ UNCHANGED <<notion, files, faults>>  BY DEF PressComeBack
<1>2. PICK l \in {"ask", "file"} : Begin(CleanerBot, g, l) /\ (leave[g].asked \/ Left(g))
  BY DEF PressComeBack
<1>3. row'[g].hold = "released" /\ actions' = actions
  BY <1>1, <1>2 DEF IInv, Rows, Left, notion, files
<1>4. pc'[CleanerBot] = l /\ job'[CleanerBot] = g
  BY <1>2, Actors, EnterForm DEF IInv, Positions
<1>5. CleanerAt'  BY <1>1, <1>2, <1>3, <1>4 DEF CleanerAt, At, CleanerPlaces
<1> QED  BY <1>1, <1>2, <1>5, CleanerBegins DEF Positions

\* A wish is put on a row, or answered there.
LEMMA RequestForm ==
    ASSUME IInv, NEW g \in Actions, NEW r \in {"requested", "reassigned", "continued"},
           row' = [row EXCEPT ![g].request = r]
    PROVE  /\ row' \in [Actions -> [hold : {"none", "booked", "released"},
                                    reason : {"none", "unavailable", "cancelled"},
                                    request : {"none", "requested", "reassigned", "continued"}]]
           /\ \A h \in Actions : row'[h].hold = row[h].hold /\ row'[h].reason = row[h].reason
           /\ RowsGrow /\ RowsOfClaims
<1> DEFINE Row == [hold : {"none", "booked", "released"},
                   reason : {"none", "unavailable", "cancelled"},
                   request : {"none", "requested", "reassigned", "continued"}]
<1>1. row \in [Actions -> Row] /\ row[g] \in Row  BY DEF IInv, DataTyped
<1>2. /\ DOMAIN row' = Actions /\ row' = [h \in Actions |-> row'[h]]
      /\ row'[g] = [row[g] EXCEPT !.request = r]
      /\ \A h \in Actions \ {g} : row'[h] = row[h]
  BY <1>1
<1>3. row'[g] \in Row /\ row'[g].hold = row[g].hold /\ row'[g].reason = row[g].reason
  BY <1>1, <1>2
<1>4. row' \in [Actions -> Row]  BY <1>1, <1>2, <1>3
<1>5. \A h \in Actions : row'[h].hold = row[h].hold /\ row'[h].reason = row[h].reason
  BY <1>2, <1>3
<1> QED  BY <1>4, <1>5, SameRows

LEMMA AskBackStep == IInv /\ AskBack => IInv' /\ Grows
<1> SUFFICES ASSUME IInv, AskBack PROVE IInv' /\ Grows  OBVIOUS
<1> DEFINE g == job[CleanerBot]
           Requested == row' = [row EXCEPT ![g].request = "requested"]
           Asked == leave' = [leave EXCEPT ![g].asked = TRUE] /\ Go(CleanerBot, "file")
           Stay == UNCHANGED leave /\ End(CleanerBot)
<1>1. pc[CleanerBot] = "ask" /\ UNCHANGED <<page, reservation, actions, notice, crashes>>
  BY DEF AskBack
<1>2. g \in DOMAIN actions /\ g \in Actions /\ row[g].hold = "released"
  BY <1>1, Numbers DEF IInv, CleanerAt, At
<1>3. failures \in 0..MaxLost /\ MaxLost \in Nat  BY AssignmentAssumption DEF IInv, DataTyped
<1>4. ASSUME Requested \/ UNCHANGED row
      PROVE  /\ row' \in [Actions -> [hold : {"none", "booked", "released"},
                                      reason : {"none", "unavailable", "cancelled"},
                                      request : {"none", "requested", "reassigned", "continued"}]]
             /\ row'[g].hold = "released"
             /\ RowsGrow /\ RowsOfClaims
  <2>1. CASE Requested  BY <1>2, <2>1, RequestForm
  <2>2. CASE UNCHANGED row  BY <1>2, <2>2, SameRows DEF IInv, DataTyped
  <2> QED  BY <1>4, <2>1, <2>2
<1>5. CASE (Requested \/ UNCHANGED row) /\ Stay /\ failures' \in 0..MaxLost
  BY <1>1, <1>4, <1>5, CleanerRows
<1>6. CASE (Requested \/ UNCHANGED row) /\ Asked /\ UNCHANGED failures
  <2>1. /\ row' \in [Actions -> [hold : {"none", "booked", "released"},
                                 reason : {"none", "unavailable", "cancelled"},
                                 request : {"none", "requested", "reassigned", "continued"}]]
        /\ row'[g].hold = "released"
        /\ RowsGrow /\ RowsOfClaims
    BY <1>4, <1>6
  <2>2. /\ leave' \in [Actions -> [at : Leaving, edition : Nat, asked : BOOLEAN]]
        /\ leave'[g].at = leave[g].at /\ leave'[g].edition = leave[g].edition
        /\ \A h \in Actions \ {g} : leave'[h] = leave[h]
    <3>1. /\ leave \in [Actions -> [at : Leaving, edition : Nat, asked : BOOLEAN]]
          /\ leave[g] \in [at : Leaving, edition : Nat, asked : BOOLEAN]
      BY <1>2 DEF IInv, DataTyped
    <3>2. /\ DOMAIN leave' = Actions /\ leave' = [h \in Actions |-> leave'[h]]
          /\ leave'[g] = [leave[g] EXCEPT !.asked = TRUE]
          /\ \A h \in Actions \ {g} : leave'[h] = leave[h]
      BY <1>2, <1>6, <3>1
    <3>3. /\ leave'[g] \in [at : Leaving, edition : Nat, asked : BOOLEAN]
          /\ leave'[g].at = leave[g].at /\ leave'[g].edition = leave[g].edition
      BY <3>1, <3>2
    <3> QED  BY <3>1, <3>2, <3>3
  <2>3. LeaveStands  BY <1>2, <2>1, <2>2 DEF LeaveStands
  <2>4. DataTyped'  BY <1>1, <1>6, <2>1, <2>2 DEF IInv, DataTyped
  <2>5. Grows /\ SamePage /\ DecidesEnded /\ NoAuthority /\ Kinds' /\ Offers'
    BY <1>1, <2>1, SameActions, SameAuthority DEF Grows, SamePage, DecidesEnded
  <2>6. pc'[CleanerBot] = "file" /\ job' = job
    BY <1>1, <1>6, Actors, GoForm DEF IInv, Positions
  <2>7. CleanerAt'  BY <1>1, <1>2, <2>1, <2>6 DEF CleanerAt, At, CleanerPlaces
  <2> QED  BY <1>1, <1>6, <2>1, <2>3, <2>4, <2>5, <2>7, CleanerGoes DEF Positions
<1>7. failures < MaxLost => failures + 1 \in 0..MaxLost  BY <1>3
<1> QED  BY <1>3, <1>5, <1>6, <1>7 DEF AskBack, Write

LEMMA FileDecisionStep == IInv /\ FileDecision => IInv' /\ Grows
<1> SUFFICES ASSUME IInv, FileDecision PROVE IInv' /\ Grows  OBVIOUS
<1> DEFINE g == job[CleanerBot]
           new == Len(actions) + 1
           entry == Decision(g)
<1>1. /\ pc[CleanerBot] = "file" /\ End(CleanerBot)
      /\ UNCHANGED <<page, reservation, row, leave, notice, failures, crashes>>
  BY DEF FileDecision, notion, faults
<1>2. g \in DOMAIN actions /\ g \in Actions /\ row[g].hold = "released" /\ actions[g] \in Action
  BY <1>1, Numbers DEF IInv, CleanerAt, At
<1>3. CASE UNCHANGED actions
  <2>1. failures' \in 0..MaxLost  BY <1>1 DEF IInv, DataTyped
  <2> QED  BY <1>1, <1>3, <2>1, CleanerGivesUp DEF notion, files
<1>4. CASE /\ Room /\ ~\E d \in DOMAIN actions : actions[d].decides = g
           /\ actions' = Append(actions, entry)
  <2>1. /\ entry \in Action /\ entry.decides = g /\ entry.status = "PENDING" /\ ~entry.receipt
    <3>1. g \in 0..MaxActions  BY <1>2, AssignmentAssumption DEF Actions
    <3> QED  BY <1>2, <3>1 DEF Decision, Action, Acceptances, OfferStatuses
  <2>2. g # 0 /\ g \in Nat  BY <1>2, AssignmentAssumption DEF Actions
  <2> HIDE DEF entry
  <2>3. /\ actions' \in Seq(Action) /\ Len(actions') = new /\ Len(actions') \in Actions
        /\ DOMAIN actions' = DOMAIN actions \cup {new} /\ new \notin DOMAIN actions
        /\ \A h \in DOMAIN actions : actions'[h] = actions[h] /\ h < new
        /\ actions'[new] = entry
    BY <1>4, <2>1, AppendForm DEF IInv
  <2> HIDE DEF new
  <2>4. Kinds'
    <3>1. ASSUME NEW h \in DOMAIN actions'
          PROVE  IF actions'[h].decides = 0
                 THEN /\ actions'[h].status \in OfferStatuses
                      /\ actions'[h].expects \in {"offered", "vacant"}
                 ELSE /\ actions'[h].status \in DecisionStatuses
                      /\ actions'[h].decides < h
                      /\ ~actions'[h].receipt
      <4>1. CASE h = new  BY <1>2, <2>1, <2>2, <2>3, <4>1 DEF DecisionStatuses
      <4>2. CASE h \in DOMAIN actions  BY <2>3, <4>2 DEF IInv, Kinds
      <4> QED  BY <2>3, <4>1, <4>2
    <3>2. ASSUME NEW d \in DOMAIN actions', NEW k \in DOMAIN actions',
                 actions'[d].decides = actions'[k].decides, actions'[d].decides # 0
          PROVE  d = k
      <4>1. CASE d \in DOMAIN actions /\ k \in DOMAIN actions
        BY <2>3, <3>2, <4>1 DEF IInv, Kinds
      <4>2. CASE d = new \/ k = new  BY <1>4, <2>1, <2>3, <3>2, <4>2
      <4> QED  BY <2>3, <4>1, <4>2
    <3> QED  BY <3>1, <3>2 DEF Kinds
  <2>5. Offers'
    <3>1. \A h \in DOMAIN actions' :
             /\ Open(h)' => h \in DOMAIN actions /\ Open(h)
             /\ IsOffer(h)' => h \in DOMAIN actions /\ IsOffer(h)
      BY <2>1, <2>2, <2>3 DEF Open, IsOffer
    <3> QED  BY <3>1 DEF IInv, Offers
  <2>6. ActionsGrow /\ DecidesEnded /\ NoAuthority
    BY <1>1, <1>2, <2>1, <2>3
    DEF ActionsGrow, DecidesEnded, NoAuthority, Authorised, Authority, AcceptedByReceipt
  <2>7. DataTyped'  BY <1>1, <2>3 DEF IInv, DataTyped
  <2>8. Grows /\ RowsOfClaims /\ SamePage /\ LeaveStands
    BY <1>1, <2>6, SameRows DEF Grows, SamePage, LeaveStands
  <2> QED  BY <1>1, <2>4, <2>5, <2>6, <2>7, <2>8, CleanerQuits
<1> QED  BY <1>3, <1>4 DEF FileDecision

-----------------------------------------------------------------------------
(* The operators' process                                                  *)

\* There are the same entries for the same candidates, and no new decision.
SameEntries ==
    /\ Len(actions') = Len(actions) /\ DOMAIN actions' = DOMAIN actions
    /\ \A g \in DOMAIN actions : actions'[g].rest = actions[g].rest
    /\ OriginalCommitted' => OriginalCommitted

\* What the operators' process may rely on once it is at l about d.
Decided(l, d) ==
    /\ l \in {"supersede", "rebook", "reproject", "resolve", "settle"} => actions[d].decides # 0
    /\ l \in {"supersede", "rebook", "reproject", "resolve"} => actions[d].status = "REASSIGN"

LEMMA NothingFiled ==
    ASSUME IInv, actions' = actions
    PROVE  SameEntries /\ NoAuthority /\ DecidesEnded /\ Kinds' /\ Offers' /\ ActionsGrow
BY SameActions, SameAuthority DEF SameEntries, OriginalCommitted, DecidesEnded

\* A step that is not the cleaners' leaves them where they were.
LEMMA CleanerWaits ==
    ASSUME IInv, Grows, leave' = leave, SameEntries,
           \/ Others(OpsBot)
           \/ pc' = pc /\ job' = job /\ lock' = lock /\ \A q \in Writers : Current(q)' => Current(q),
           Current(CleanerBot)' => row' = row
    PROVE  CleanerAt'
<1>1. /\ pc'[CleanerBot] = pc[CleanerBot] /\ job'[CleanerBot] = job[CleanerBot]
      /\ lock = CleanerBot => lock' = CleanerBot
      /\ Current(CleanerBot)' => Current(CleanerBot)
  BY Actors DEF Others
<1> QED  BY <1>1, CleanerStands DEF SameEntries

\* The operators' process ends its handler or goes on; the rows change only under its lease.
LEMMA OpsControl ==
    ASSUME IInv, DataTyped', Grows, pc[OpsBot] # "idle",
           \/ End(OpsBot)
           \/ \E l \in OpsPlaces : Go(OpsBot, l) /\ Decided(l, job[OpsBot])',
           row' = row \/ Current(OpsBot)
    PROVE  /\ ControlTyped' /\ Others(OpsBot) /\ OpsAt'
           /\ Current(CleanerBot)' => row' = row
<1>1. Current(OpsBot) => ~Current(CleanerBot)  BY Actors DEF Current
<1>2. CASE End(OpsBot)
  <2>1. /\ ControlTyped' /\ Others(OpsBot) /\ pc'[OpsBot] = "idle" /\ job'[OpsBot] = 1
        /\ Current(OpsBot) => ~Current(CleanerBot)'
    BY <1>2, Actors, EndForm DEF IInv
  <2>2. OpsAt'  BY <2>1, OpsRests
  <2> QED  BY <2>1, <2>2
<1>3. ASSUME NEW l \in OpsPlaces, Go(OpsBot, l), Decided(l, job[OpsBot])'
      PROVE  /\ ControlTyped' /\ Others(OpsBot) /\ OpsAt'
             /\ Current(CleanerBot)' => row' = row
  <2>1. l \in Positions /\ l # "idle"  BY DEF OpsPlaces, Positions
  <2>2. /\ ControlTyped' /\ Others(OpsBot) /\ pc'[OpsBot] = l /\ job' = job /\ lock' = lock
        /\ Current(CleanerBot)' = Current(CleanerBot)
    BY <1>3, <2>1, Actors, GoForm DEF IInv
  <2>3. job'[OpsBot] \in DOMAIN actions' /\ lock' = OpsBot
    BY <2>2 DEF IInv, OpsAt, At, Grows, ActionsGrow
  <2>4. OpsAt'  BY <1>3, <2>2, <2>3 DEF OpsAt, At, Decided
  <2> QED  BY <1>1, <2>2, <2>4
<1> QED  BY <1>2, <1>3

\* A step of the operators' process that gives nobody a claim.
LEMMA OpsQuiet ==
    ASSUME IInv, ControlTyped', Others(OpsBot), DataTyped', Grows, SamePage, leave' = leave,
           Current(CleanerBot)' => row' = row, RowsOfClaims, NoAuthority, SameEntries,
           Kinds', Offers', OpsAt'
    PROVE  IInv'
<1>1. CleanerAt'  BY CleanerWaits
<1>2. LeaveStands /\ DecidesEnded  BY DEF LeaveStands, DecidesEnded, SameEntries
<1>3. pc'[CleanerBot] = pc[CleanerBot] /\ job'[CleanerBot] = job[CleanerBot]
  BY Actors DEF Others
<1>4. FewerClaims  BY <1>3, Fewer
<1> QED  BY <1>1, <1>2, <1>4, QuietStep

\* The same without a change of the files.
LEMMA OpsWorks ==
    ASSUME IInv, pc[OpsBot] # "idle",
           \/ End(OpsBot)
           \/ \E l \in OpsPlaces : Go(OpsBot, l) /\ Decided(l, job[OpsBot]),
           row' = row \/ Current(OpsBot),
           UNCHANGED <<page, files, crashes>>, reservation' \in BOOLEAN, failures' \in 0..MaxLost,
           RowsGrow, RowsOfClaims,
           row' \in [Actions -> [hold : {"none", "booked", "released"},
                                 reason : {"none", "unavailable", "cancelled"},
                                 request : {"none", "requested", "reassigned", "continued"}]]
    PROVE  IInv' /\ Grows
<1>1. actions' = actions /\ leave' = leave /\ notice' = notice /\ page' = page  BY DEF files
<1>2. DataTyped'  BY <1>1 DEF IInv, DataTyped
<1>3. SameEntries /\ NoAuthority /\ Kinds' /\ Offers' /\ ActionsGrow  BY <1>1, NothingFiled
<1>4. Grows /\ SamePage  BY <1>1, <1>3 DEF Grows, SamePage
<1>5. \/ End(OpsBot)
      \/ \E l \in OpsPlaces : Go(OpsBot, l) /\ Decided(l, job[OpsBot])'
  <2>1. ASSUME NEW l \in OpsPlaces, Go(OpsBot, l), Decided(l, job[OpsBot])
        PROVE  Decided(l, job[OpsBot])'
    BY <1>1, <2>1 DEF Decided, Go
  <2> QED  BY <2>1
<1>6. /\ ControlTyped' /\ Others(OpsBot) /\ OpsAt'
      /\ Current(CleanerBot)' => row' = row
  BY <1>2, <1>4, <1>5, OpsControl
<1> QED  BY <1>1, <1>2, <1>3, <1>4, <1>6, OpsQuiet

\* An operator's button begins.
LEMMA OpsBegins ==
    ASSUME IInv, DataTyped', Grows, NEW g \in DOMAIN actions, NEW l \in OpsPlaces,
           BeginLocked(OpsBot, g, l), Decided(l, g)', row' = row
    PROVE  /\ ControlTyped' /\ Others(OpsBot) /\ OpsAt'
           /\ pc'[CleanerBot] = pc[CleanerBot] /\ job'[CleanerBot] = job[CleanerBot]
           /\ lock = Nobody /\ lock' = OpsBot
<1>1. l \in Positions /\ l # "idle" /\ g \in Actions
  BY Numbers DEF IInv, OpsPlaces, Positions
<1>2. /\ ControlTyped' /\ Others(OpsBot) /\ pc'[OpsBot] = l /\ job'[OpsBot] = g
      /\ lock = Nobody /\ lock' = OpsBot
  BY <1>1, Actors, EnterForm DEF IInv
<1>3. g \in DOMAIN actions'  BY DEF Grows, ActionsGrow
<1>4. OpsAt'  BY <1>2, <1>3 DEF OpsAt, At, Decided
<1> QED  BY <1>2, <1>4, Actors DEF Others

-----------------------------------------------------------------------------
(* The operator decides                                                    *)

LEMMA DecisionPressed ==
    ASSUME IInv, NEW d, IsDecision(d)
    PROVE  /\ d \in DOMAIN actions /\ d \in Actions
           /\ actions[d].decides \in Actions /\ actions[d].decides # 0 /\ actions[d].decides < d
           /\ actions[d].status \in DecisionStatuses /\ ~actions[d].receipt
           /\ row[actions[d].decides].hold = "released"
<1>1. d \in DOMAIN actions /\ d \in Actions /\ actions[d] \in Action /\ actions[d].decides # 0
  BY Numbers DEF IInv, IsDecision
<1>2. actions[d].decides \in Actions
  BY <1>1, AssignmentAssumption DEF Action, Actions
<1> QED  BY <1>1, <1>2 DEF IInv, Kinds, Rows

\* When nobody followed the one who left and the page is vacant, nobody claims.
LEMMA NobodyClaims ==
    ASSUME IInv, NEW d, IsDecision(d), actions[d].status = "PENDING",
           page.acceptance = "vacant", ~NewerAccepted(actions[d].decides)
    PROVE  \A h \in Actions : ~Claim(h)
<1> DEFINE g == actions[d].decides
<1>1. /\ d \in DOMAIN actions /\ g \in Actions /\ g \in Nat /\ g # 0 /\ row[g].hold = "released"
  BY DecisionPressed DEF Actions
<1> SUFFICES ASSUME NEW h \in Actions, Claim(h) PROVE FALSE  OBVIOUS
<1>2. h \in DOMAIN actions /\ actions[h].decides # 0 /\ actions[h].status = "REASSIGN"
  BY WaitingPage, ClaimIsAction
<1>3. IsDecision(h)  BY <1>2 DEF IsDecision
<1>4. /\ actions[h].decides \in Actions /\ row[actions[h].decides].hold = "released"
  BY <1>3, DecisionPressed
<1>5. h \in Nat /\ actions[h].decides \in Nat  BY <1>4 DEF Actions
<1>6. \A k \in Actions : row[k].hold # "none" => ~ (k > g)  BY DEF NewerAccepted
<1>7. CASE row[h].hold = "none"
  <2>1. g <= actions[h].decides  BY <1>1, <1>2, <1>7 DEF IInv, SoleClaim
  <2>2. ~ (actions[h].decides > g)  BY <1>4, <1>6
  <2>3. actions[h].decides = g  BY <1>1, <1>5, <2>1, <2>2
  <2>4. h = d  BY <1>1, <1>2, <2>3 DEF IInv, Kinds
  <2> QED  BY <1>2, <2>4
<1>8. CASE row[h].hold # "none"
  <2>1. ~ (h > g)  BY <1>6, <1>8
  <2>2. g <= h  BY <1>1 DEF IInv, SoleClaim
  <2>3. g = h  BY <1>1, <1>5, <2>1, <2>2
  <2> QED  BY <1>1, <1>2, <2>3 DEF Claim, Booked, IInv, CleanerAt, At
<1> QED  BY <1>7, <1>8

LEMMA PressReassignStep ==
    ASSUME IInv, NEW d \in Actions, PressReassign(d)
    PROVE  IInv' /\ Grows
<1> DEFINE g == actions[d].decides
<1>1. /\ IsDecision(d) /\ BeginLocked(OpsBot, d, "supersede")
      /\ UNCHANGED <<page, reservation, row, leave, notice, failures, crashes>>
  BY DEF PressReassign, notion, faults
<1>2. /\ d \in DOMAIN actions /\ g \in Actions /\ g # 0 /\ g < d
      /\ actions[d].status \in DecisionStatuses /\ ~actions[d].receipt
      /\ row[g].hold = "released"
  BY <1>1, DecisionPressed
<1>3. CASE actions[d].status = "REASSIGN" /\ UNCHANGED actions
  <2>1. SameEntries /\ NoAuthority /\ Kinds' /\ Offers' /\ ActionsGrow  BY <1>3, NothingFiled
  <2>2. DataTyped'  BY <1>1, <1>3 DEF IInv, DataTyped
  <2>3. Grows /\ RowsOfClaims /\ SamePage  BY <1>1, <2>1, SameRows DEF Grows, SamePage
  <2>4. Decided("supersede", d)'  BY <1>2, <1>3 DEF Decided
  <2>5. ControlTyped' /\ Others(OpsBot) /\ OpsAt'
    BY <1>1, <1>2, <2>2, <2>3, <2>4, OpsBegins DEF OpsPlaces
  <2> QED  BY <1>1, <2>1, <2>2, <2>3, <2>5, OpsQuiet
<1>4. CASE /\ actions[d].status = "PENDING" /\ Reads("vacant", NoOne)
           /\ ~NewerAccepted(g) /\ SetStatus(d, "REASSIGN")
  <2>1. /\ Amended(d) /\ actions'[d].status = "REASSIGN"
        /\ actions'[d].receipt = actions[d].receipt
    BY <1>2, <1>4, StatusForm DEF IInv, DecisionStatuses
  <2>2. Kinds' /\ Offers'  BY <1>2, <2>1, AmendKeeps DEF DecisionStatuses
  <2>3. ActionsGrow  BY <1>4, <2>1 DEF ActionsGrow, Amended
  <2>4. DataTyped'  BY <1>1, <2>1 DEF IInv, DataTyped, Amended
  <2>5. Grows /\ RowsOfClaims  BY <1>1, <2>3, SameRows DEF Grows
  <2>6. Decided("supersede", d)'  BY <1>2, <2>1 DEF Decided, Amended
  <2>7. /\ ControlTyped' /\ Others(OpsBot) /\ OpsAt'
        /\ pc'[CleanerBot] = pc[CleanerBot] /\ job'[CleanerBot] = job[CleanerBot]
        /\ lock = Nobody
    BY <1>1, <1>2, <2>4, <2>5, <2>6, OpsBegins DEF OpsPlaces
  <2>8. CleanerAt'
    <3>1. lock # CleanerBot  BY <2>7, Actors
    <3>2. Current(CleanerBot)' => Current(CleanerBot)  BY <2>7, Actors DEF Others
    <3> QED  BY <1>1, <2>1, <2>5, <2>7, <3>1, <3>2, CleanerStands DEF Amended
  <2>9. page.acceptance = "vacant"  BY <1>4 DEF Reads
  <2>10. \A h \in Actions : ~Claim(h)  BY <1>1, <1>4, <2>9, NobodyClaims
  <2>11. \A h \in Actions : Claim(h)' => h = d
    <3> SUFFICES ASSUME NEW h \in Actions, h # d, Claim(h)' PROVE Claim(h)  BY <2>10
    <3>1. Authorised(h)' => Authorised(h)
      BY <2>1 DEF Amended, Authorised, Authority, AcceptedByReceipt
    <3> QED  BY <1>1, <2>7, <3>1 DEF Claim, Booked
  <2>12. \A h \in Actions : row[h].hold # "none" => h <= g
    BY <1>2, <1>4 DEF NewerAccepted, Actions
  <2>13. DOMAIN actions' \subseteq Actions  BY <2>1, Numbers DEF Amended, IInv
  <2>14. SoleClaim'
    <3>1. \A h, k \in Actions : Claim(h)' /\ Claim(k)' => h = k  BY <2>11
    <3>2. ASSUME NEW h \in Actions, NEW k \in Actions, Claim(h)', row'[k].hold # "none" PROVE k <= h
      <4>1. h = d /\ k <= g  BY <1>1, <2>11, <2>12, <3>2
      <4>2. k \in Nat /\ g \in Nat /\ d \in Nat  BY <1>2 DEF Actions
      <4> QED  BY <1>2, <4>1, <4>2
    <3>3. ASSUME NEW e \in DOMAIN actions', NEW k \in Actions, Claim(e)', row'[k].hold # "none"
          PROVE  k <= actions'[e].decides
      <4>1. e = d /\ k <= g  BY <1>1, <2>11, <2>12, <2>13, <3>3
      <4> QED  BY <1>2, <2>1, <4>1 DEF Amended
    <3> QED  BY <3>1, <3>2, <3>3 DEF SoleClaim
  <2>15. PageTaken'  BY <1>2, <2>1, <2>11, <2>13 DEF PageTaken, Amended
  <2>16. ButtonsMatch'  BY <1>1, <2>9 DEF IInv, ButtonsMatch
  <2>17. Rows'
    <3>1. DecidesEnded /\ LeaveStands  BY <1>1, <2>1 DEF DecidesEnded, Amended, LeaveStands
    <3> QED  BY <2>5, <3>1, RowsStay DEF RowsOfClaims, DecidesEnded, LeaveStands
  <2> QED  BY <2>2, <2>4, <2>5, <2>7, <2>8, <2>14, <2>15, <2>16, <2>17 DEF IInv
<1> QED  BY <1>3, <1>4 DEF PressReassign

LEMMA SupersedeStep == IInv /\ Supersede => IInv' /\ Grows
<1> SUFFICES ASSUME IInv, Supersede PROVE IInv' /\ Grows  OBVIOUS
<1> DEFINE entry(g) == IF Open(g) /\ ~actions[g].due /\ actions[g].to # actions[job[OpsBot]].to
                       THEN [actions[g] EXCEPT !.status = "SUPERSEDED"]
                       ELSE actions[g]
<1>1. /\ pc[OpsBot] = "supersede" /\ Go(OpsBot, "rebook")
      /\ UNCHANGED <<page, reservation, row, leave, notice, failures, crashes>>
      /\ actions' = [g \in DOMAIN actions |-> entry(g)]
  BY DEF Supersede, notion, faults
<1>2. \A g \in DOMAIN actions : actions[g] \in Action  BY Numbers DEF IInv
<1>3. \A g \in DOMAIN actions :
         /\ entry(g) \in Action
         /\ entry(g).decides = actions[g].decides /\ entry(g).to = actions[g].to
         /\ entry(g).rest = actions[g].rest /\ entry(g).expects = actions[g].expects
         /\ entry(g).receipt = actions[g].receipt
         /\ \/ entry(g).status = actions[g].status
            \/ /\ entry(g).status = "SUPERSEDED"
               /\ actions[g].decides = 0 /\ actions[g].status = "PENDING"
  BY <1>2 DEF Action, Open, IsOffer, OfferStatuses
<1> HIDE DEF entry
<1>4. /\ DOMAIN actions' = DOMAIN actions
      /\ \A g \in DOMAIN actions : actions'[g] = entry(g)
  BY <1>1
<1>5. actions' \in Seq(Action) /\ Len(actions') = Len(actions)
  <2>1. DOMAIN actions = 1..Len(actions) /\ Len(actions) \in Nat  BY LenProperties DEF IInv, DataTyped
  <2>2. actions' \in [1..Len(actions) -> Action]  BY <1>1, <1>3, <2>1
  <2>3. actions' \in Seq(Action)  BY <2>1, <2>2, SeqDef
  <2> QED  BY <1>4, <2>1, <2>3, LenProperties
<1>6. Kinds'
  <2>1. ASSUME NEW h \in DOMAIN actions'
        PROVE  IF actions'[h].decides = 0
               THEN /\ actions'[h].status \in OfferStatuses
                    /\ actions'[h].expects \in {"offered", "vacant"}
               ELSE /\ actions'[h].status \in DecisionStatuses
                    /\ actions'[h].decides < h
                    /\ ~actions'[h].receipt
    <3>1. h \in DOMAIN actions /\ actions'[h] = entry(h)  BY <1>4
    <3> QED  BY <1>3, <3>1 DEF IInv, Kinds, OfferStatuses
  <2>2. \A d, e \in DOMAIN actions' :
           actions'[d].decides = actions'[e].decides /\ actions'[d].decides # 0 => d = e
    BY <1>3, <1>4 DEF IInv, Kinds
  <2> QED  BY <2>1, <2>2 DEF Kinds
<1>7. Offers'
  <2>1. \A h \in DOMAIN actions' :
           h \in DOMAIN actions /\ (Open(h)' => Open(h)) /\ (IsOffer(h)' => IsOffer(h))
    BY <1>3, <1>4 DEF Open, IsOffer
  <2> QED  BY <2>1 DEF IInv, Offers
<1>8. ActionsGrow  BY <1>3, <1>4 DEF ActionsGrow
<1>9. NoAuthority /\ SameEntries
  BY <1>3, <1>4, <1>5 DEF NoAuthority, Authorised, Authority, AcceptedByReceipt, SameEntries,
     OriginalCommitted
<1>10. DataTyped'  BY <1>1, <1>5 DEF IInv, DataTyped
<1>11. Grows /\ RowsOfClaims /\ SamePage  BY <1>1, <1>8, SameRows DEF Grows, SamePage
<1>12. Decided("rebook", job[OpsBot])'
  <2>1. job' = job /\ job[OpsBot] \in DOMAIN actions /\ actions[job[OpsBot]].decides # 0
        /\ actions[job[OpsBot]].status = "REASSIGN"
    BY <1>1 DEF Go, IInv, OpsAt, At
  <2> QED  BY <1>3, <1>4, <2>1 DEF Decided
<1>13. ControlTyped' /\ Others(OpsBot) /\ OpsAt'
  BY <1>1, <1>10, <1>11, <1>12, OpsControl DEF OpsPlaces
<1> QED  BY <1>1, <1>6, <1>7, <1>9, <1>10, <1>11, <1>13, OpsQuiet

LEMMA RebookStep == IInv /\ Rebook => IInv' /\ Grows
<1> SUFFICES ASSUME IInv, Rebook PROVE IInv' /\ Grows  OBVIOUS
<1> DEFINE d == job[OpsBot]
<1>1. pc[OpsBot] = "rebook" /\ UNCHANGED <<page, reservation, files, crashes>>  BY DEF Rebook
<1>2. /\ d \in DOMAIN actions /\ actions[d].decides # 0 /\ actions[d].status = "REASSIGN"
  BY <1>1 DEF IInv, OpsAt, At
<1>3. failures \in 0..MaxLost /\ MaxLost \in Nat /\ reservation' \in BOOLEAN
  BY <1>1, AssignmentAssumption DEF IInv, DataTyped
<1>4. failures < MaxLost => failures + 1 \in 0..MaxLost  BY <1>3
<1>5. /\ failures' \in 0..MaxLost
      /\ \/ Materialise(d) /\ Go(OpsBot, "reproject")
         \/ row' = row /\ End(OpsBot)
      /\ row' = row \/ Current(OpsBot)
  BY <1>3, <1>4 DEF Rebook, Write, Materialise
<1>6. /\ row' \in [Actions -> [hold : {"none", "booked", "released"},
                               reason : {"none", "unavailable", "cancelled"},
                               request : {"none", "requested", "reassigned", "continued"}]]
      /\ RowsGrow /\ RowsOfClaims
  BY <1>1, <1>2, <1>5, MaterialiseForm DEF files
<1>7. Decided("reproject", d)  BY <1>2 DEF Decided
<1> QED  BY <1>1, <1>3, <1>5, <1>6, <1>7, OpsWorks DEF OpsPlaces

\* The operators' process puts a new edition on the page, which waits for nobody any more.
LEMMA OpsEdits ==
    ASSUME IInv, pc[OpsBot] # "idle",
           \/ End(OpsBot)
           \/ \E l \in OpsPlaces : Go(OpsBot, l) /\ Decided(l, job[OpsBot]),
           page' \in [cancelled : BOOLEAN, acceptance : Acceptances,
                      assignee : Cleaners \cup {NoOne}, edition : Nat],
           page'.acceptance \in {"accepted", "withdrawn"}, page'.edition = page.edition + 1,
           UNCHANGED <<reservation, row, files, crashes>>, failures' \in 0..MaxLost
    PROVE  IInv' /\ Grows
<1>1. actions' = actions /\ leave' = leave /\ notice' = notice  BY DEF files
<1>2. DataTyped'  BY <1>1 DEF IInv, DataTyped
<1>3. SameEntries /\ NoAuthority /\ DecidesEnded /\ Kinds' /\ Offers' /\ ActionsGrow
  BY <1>1, NothingFiled
<1>4. Grows /\ RowsOfClaims  BY <1>3, SameRows DEF Grows
<1>5. \/ End(OpsBot)
      \/ \E l \in OpsPlaces : Go(OpsBot, l) /\ Decided(l, job[OpsBot])'
  <2>1. ASSUME NEW l \in OpsPlaces, Go(OpsBot, l), Decided(l, job[OpsBot])
        PROVE  Decided(l, job[OpsBot])'
    BY <1>1, <2>1 DEF Decided, Go
  <2> QED  BY <2>1
<1>6. ControlTyped' /\ Others(OpsBot) /\ OpsAt'  BY <1>2, <1>4, <1>5, OpsControl
<1>7. CleanerAt'  BY <1>1, <1>3, <1>4, <1>6, CleanerWaits
<1>8. pc'[CleanerBot] = pc[CleanerBot] /\ job'[CleanerBot] = job[CleanerBot]
  BY <1>6, Actors DEF Others
<1>9. FewerClaims  BY <1>3, <1>4, <1>8, Fewer
<1>10. PageTaken'  BY DEF PageTaken
<1> QED  BY <1>1, <1>2, <1>3, <1>4, <1>6, <1>7, <1>9, <1>10, EditedStep

\* Nothing was done but to go on or to stop.
LEMMA OpsMoves ==
    ASSUME IInv, pc[OpsBot] # "idle",
           \/ End(OpsBot)
           \/ \E l \in OpsPlaces : Go(OpsBot, l) /\ Decided(l, job[OpsBot]),
           UNCHANGED <<page, row, files, crashes>>, reservation' \in BOOLEAN, failures' \in 0..MaxLost
    PROVE  IInv' /\ Grows
<1>1. RowsGrow /\ RowsOfClaims  BY SameRows
<1>2. row' \in [Actions -> [hold : {"none", "booked", "released"},
                            reason : {"none", "unavailable", "cancelled"},
                            request : {"none", "requested", "reassigned", "continued"}]]
  BY DEF IInv, DataTyped
<1> QED  BY <1>1, <1>2, OpsWorks

LEMMA ReprojectStep == IInv /\ Reproject => IInv' /\ Grows
<1> SUFFICES ASSUME IInv, Reproject PROVE IInv' /\ Grows  OBVIOUS
<1> DEFINE d == job[OpsBot]
           back == actions[d].to
           Moved == End(OpsBot) \/ Go(OpsBot, "resolve")
<1>1. pc[OpsBot] = "reproject" /\ UNCHANGED <<reservation, row, files, crashes>>
  BY DEF Reproject
<1>2. /\ d \in DOMAIN actions /\ actions[d].decides # 0 /\ actions[d].status = "REASSIGN"
      /\ back \in Cleaners
  BY <1>1, Numbers DEF IInv, OpsAt, At, Action
<1>3. failures \in 0..MaxLost /\ MaxLost \in Nat /\ reservation' \in BOOLEAN
  BY <1>1, AssignmentAssumption DEF IInv, DataTyped
<1>4. failures < MaxLost => failures + 1 \in 0..MaxLost  BY <1>3
<1>5. Moved /\ failures' \in 0..MaxLost /\ (UNCHANGED page \/ PatchPage("accepted", back))
  BY <1>3, <1>4 DEF Reproject, Write
<1>6. \/ End(OpsBot)
      \/ \E l \in OpsPlaces : Go(OpsBot, l) /\ Decided(l, d)
  BY <1>2, <1>5 DEF Decided, OpsPlaces
<1>7. CASE UNCHANGED page  BY <1>1, <1>3, <1>5, <1>6, <1>7, OpsMoves
<1>8. CASE PatchPage("accepted", back)
  <2>1. /\ page' \in [cancelled : BOOLEAN, acceptance : Acceptances,
                      assignee : Cleaners \cup {NoOne}, edition : Nat]
        /\ page'.acceptance = "accepted" /\ page'.edition = page.edition + 1
    BY <1>2, <1>8, PatchForm DEF Acceptances
  <2> QED  BY <1>1, <1>5, <1>6, <2>1, OpsEdits
<1> QED  BY <1>5, <1>7, <1>8

LEMMA PressContinueStep ==
    ASSUME IInv, NEW d \in Actions, PressContinue(d)
    PROVE  IInv' /\ Grows
<1>1. /\ IsDecision(d) /\ BeginLocked(OpsBot, d, "settle")
      /\ UNCHANGED <<page, reservation, row, leave, notice, failures, crashes>>
  BY DEF PressContinue, notion, faults
<1>2. d \in DOMAIN actions /\ actions[d].decides # 0  BY <1>1, DecisionPressed
<1>3. CASE UNCHANGED actions
  <2>1. SameEntries /\ NoAuthority /\ Kinds' /\ Offers' /\ ActionsGrow  BY <1>3, NothingFiled
  <2>2. DataTyped'  BY <1>1, <1>3 DEF IInv, DataTyped
  <2>3. Grows /\ RowsOfClaims /\ SamePage  BY <1>1, <2>1, SameRows DEF Grows, SamePage
  <2>4. Decided("settle", d)'  BY <1>2, <1>3 DEF Decided
  <2>5. ControlTyped' /\ Others(OpsBot) /\ OpsAt'
    BY <1>1, <1>2, <2>2, <2>3, <2>4, OpsBegins DEF OpsPlaces
  <2> QED  BY <1>1, <2>1, <2>2, <2>3, <2>5, OpsQuiet
<1>4. CASE actions[d].status = "PENDING" /\ SetStatus(d, "CONTINUE")
  <2>1. /\ Amended(d) /\ ActionsGrow /\ NoAuthority /\ Kinds' /\ Offers'
        /\ OriginalCommitted' => OriginalCommitted
    BY <1>2, <1>4, MarkForm
  <2>2. SameEntries  BY <2>1 DEF Amended, SameEntries
  <2>3. DataTyped'  BY <1>1, <2>1 DEF IInv, DataTyped, Amended
  <2>4. Grows /\ RowsOfClaims /\ SamePage  BY <1>1, <2>1, SameRows DEF Grows, SamePage
  <2>5. Decided("settle", d)'  BY <1>2, <2>1 DEF Decided, Amended
  <2>6. ControlTyped' /\ Others(OpsBot) /\ OpsAt'
    BY <1>1, <1>2, <2>3, <2>4, <2>5, OpsBegins DEF OpsPlaces
  <2> QED  BY <1>1, <2>1, <2>2, <2>3, <2>4, <2>6, OpsQuiet
<1> QED  BY <1>3, <1>4 DEF PressContinue

LEMMA ResolveStep == IInv /\ Resolve => IInv' /\ Grows
<1> SUFFICES ASSUME IInv, Resolve PROVE IInv' /\ Grows  OBVIOUS
<1> DEFINE g == actions[job[OpsBot]].decides
<1>1. /\ End(OpsBot) /\ UNCHANGED <<page, reservation, files, crashes>>
      /\ At(OpsBot, {"resolve", "settle"})
  BY DEF Resolve, At
<1>2. /\ job[OpsBot] \in DOMAIN actions /\ g # 0 /\ pc[OpsBot] # "idle"
  BY <1>1 DEF IInv, OpsAt, At
<1>3. g \in Actions  BY <1>2, DecisionPressed DEF IsDecision
<1>4. failures \in 0..MaxLost /\ MaxLost \in Nat /\ reservation' \in BOOLEAN
  BY <1>1, AssignmentAssumption DEF IInv, DataTyped
<1>5. failures < MaxLost => failures + 1 \in 0..MaxLost  BY <1>4
<1>6. PICK l \in {<<"resolve", "reassigned">>, <<"settle", "continued">>} :
         /\ failures' \in 0..MaxLost
         /\ row' = row \/ (Current(OpsBot) /\ row' = [row EXCEPT ![g].request = l[2]])
  BY <1>4, <1>5 DEF Resolve, Write
<1>7. CASE row' = row  BY <1>1, <1>2, <1>4, <1>6, <1>7, OpsMoves
<1>8. CASE Current(OpsBot) /\ row' = [row EXCEPT ![g].request = l[2]]
  <2>1. PICK r \in {"requested", "reassigned", "continued"} : r = l[2]  OBVIOUS
  <2>2. row' = [row EXCEPT ![g].request = r]  BY <1>8, <2>1
  <2>3. /\ row' \in [Actions -> [hold : {"none", "booked", "released"},
                                 reason : {"none", "unavailable", "cancelled"},
                                 request : {"none", "requested", "reassigned", "continued"}]]
        /\ RowsGrow /\ RowsOfClaims
    BY <1>3, <2>2, RequestForm
  <2> QED  BY <1>1, <1>2, <1>4, <1>6, <1>8, <2>3, OpsWorks
<1> QED  BY <1>6, <1>7, <1>8

-----------------------------------------------------------------------------
(* The reservation is cancelled                                            *)

LEMMA PressCancelStep == IInv /\ PressCancel => IInv' /\ Grows
<1> SUFFICES ASSUME IInv, PressCancel PROVE IInv' /\ Grows  OBVIOUS
<1>1. /\ BeginLocked(OpsBot, 1, "cancel") /\ notice' = FALSE
      /\ UNCHANGED <<page, reservation, row, actions, leave, failures, crashes>>
  BY DEF PressCancel, notion, faults
<1>2. SameEntries /\ NoAuthority /\ Kinds' /\ Offers' /\ ActionsGrow  BY <1>1, NothingFiled
<1>3. DataTyped'  BY <1>1 DEF IInv, DataTyped
<1>4. Grows /\ RowsOfClaims /\ SamePage  BY <1>1, <1>2, SameRows DEF Grows, SamePage
<1>5. Decided("cancel", 1)'  BY DEF Decided
<1>6. 1 \in DOMAIN actions  BY Numbers DEF IInv
<1>7. ControlTyped' /\ Others(OpsBot) /\ OpsAt'
  BY <1>1, <1>3, <1>4, <1>5, <1>6, OpsBegins DEF OpsPlaces
<1> QED  BY <1>1, <1>2, <1>3, <1>4, <1>7, OpsQuiet

LEMMA CancelReservationStep == IInv /\ CancelReservation => IInv' /\ Grows
<1> SUFFICES ASSUME IInv, CancelReservation PROVE IInv' /\ Grows  OBVIOUS
<1>1. pc[OpsBot] = "cancel" /\ UNCHANGED <<page, row, files, crashes>>  BY DEF CancelReservation
<1>2. failures \in 0..MaxLost /\ MaxLost \in Nat /\ reservation \in BOOLEAN
  BY AssignmentAssumption DEF IInv, DataTyped
<1>3. failures < MaxLost => failures + 1 \in 0..MaxLost  BY <1>2
<1>4. /\ End(OpsBot) \/ Go(OpsBot, "release")
      /\ reservation' \in BOOLEAN /\ failures' \in 0..MaxLost
  BY <1>2, <1>3 DEF CancelReservation, Write
<1>5. Decided("release", job[OpsBot])  BY DEF Decided
<1> QED  BY <1>1, <1>4, <1>5, OpsMoves DEF OpsPlaces

LEMMA ReleaseCancelledStep == IInv /\ ReleaseCancelled => IInv' /\ Grows
<1> SUFFICES ASSUME IInv, ReleaseCancelled PROVE IInv' /\ Grows  OBVIOUS
<1>1. pc[OpsBot] = "release" /\ UNCHANGED <<page, reservation, files, crashes>>
  BY DEF ReleaseCancelled
<1>2. failures \in 0..MaxLost /\ MaxLost \in Nat /\ reservation' \in BOOLEAN
  BY <1>1, AssignmentAssumption DEF IInv, DataTyped
<1>3. failures < MaxLost => failures + 1 \in 0..MaxLost  BY <1>2
<1>4. /\ End(OpsBot) \/ Go(OpsBot, "withdraw")
      /\ failures' \in 0..MaxLost
      /\ \/ row' = row
         \/ Current(OpsBot) /\ \E g \in Actions : Booked(g) /\ Release(g, "cancelled")
  BY <1>2, <1>3 DEF ReleaseCancelled, Write
<1>5. \/ End(OpsBot)
      \/ \E l \in OpsPlaces : Go(OpsBot, l) /\ Decided(l, job[OpsBot])
  BY <1>4 DEF Decided, OpsPlaces
<1>6. CASE row' = row  BY <1>1, <1>2, <1>4, <1>5, <1>6, OpsMoves
<1>7. ASSUME NEW g \in Actions, Current(OpsBot), Booked(g), Release(g, "cancelled")
      PROVE  IInv' /\ Grows
  <2>1. /\ row' \in [Actions -> [hold : {"none", "booked", "released"},
                                 reason : {"none", "unavailable", "cancelled"},
                                 request : {"none", "requested", "reassigned", "continued"}]]
        /\ RowsGrow /\ RowsOfClaims
    BY <1>7, ReleaseForm
  <2> QED  BY <1>1, <1>2, <1>4, <1>5, <1>7, <2>1, OpsWorks
<1> QED  BY <1>4, <1>6, <1>7

LEMMA WithdrawStep == IInv /\ Withdraw => IInv' /\ Grows
<1> SUFFICES ASSUME IInv, Withdraw PROVE IInv' /\ Grows  OBVIOUS
<1>1. /\ pc[OpsBot] = "withdraw" /\ End(OpsBot)
      /\ UNCHANGED <<reservation, row, files, crashes>>
  BY DEF Withdraw
<1>2. failures \in 0..MaxLost /\ MaxLost \in Nat /\ reservation' \in BOOLEAN
  BY <1>1, AssignmentAssumption DEF IInv, DataTyped
<1>3. failures < MaxLost => failures + 1 \in 0..MaxLost  BY <1>2
<1>4. /\ failures' \in 0..MaxLost
      /\ \/ UNCHANGED page
         \/ page' = [page EXCEPT !.cancelled = TRUE, !.acceptance = "withdrawn", !.edition = @ + 1]
  BY <1>2, <1>3 DEF Withdraw, Write
<1>5. CASE UNCHANGED page  BY <1>1, <1>2, <1>4, <1>5, OpsMoves
<1>6. CASE page' = [page EXCEPT !.cancelled = TRUE, !.acceptance = "withdrawn", !.edition = @ + 1]
  <2>1. page \in [cancelled : BOOLEAN, acceptance : Acceptances,
                  assignee : Cleaners \cup {NoOne}, edition : Nat]
    BY DEF IInv, DataTyped
  <2>2. page' = [cancelled |-> TRUE, acceptance |-> "withdrawn", assignee |-> page.assignee,
                 edition |-> page.edition + 1]
    BY <1>6, <2>1
  <2>3. /\ page' \in [cancelled : BOOLEAN, acceptance : Acceptances,
                      assignee : Cleaners \cup {NoOne}, edition : Nat]
        /\ page'.acceptance = "withdrawn" /\ page'.edition = page.edition + 1
    BY <2>1, <2>2 DEF Acceptances
  <2> QED  BY <1>1, <1>4, <2>3, OpsEdits
<1> QED  BY <1>4, <1>5, <1>6

-----------------------------------------------------------------------------
(* Time, crashes and the lease                                             *)

\* Neither process moves, and neither the page nor a row changes.
LEMMA WorldStep ==
    ASSUME IInv, ControlTyped', pc' = pc, job' = job, lock' = lock,
           \A q \in Writers : Current(q)' => Current(q),
           UNCHANGED <<page, row, leave>>, DataTyped', ActionsGrow, NoAuthority, SameEntries,
           Kinds', Offers'
    PROVE  IInv' /\ Grows
<1>1. RowsGrow /\ RowsOfClaims  BY SameRows
<1>2. Grows /\ SamePage /\ LeaveStands /\ DecidesEnded
  BY <1>1 DEF Grows, SamePage, LeaveStands, DecidesEnded, SameEntries
<1>3. Others(CleanerBot)  BY DEF Others
<1>4. OpsAt'  BY <1>2, <1>3, OpsStands
<1>5. CleanerAt'  BY <1>2, CleanerWaits
<1>6. FewerClaims  BY <1>1, <1>2, Fewer
<1> QED  BY <1>1, <1>2, <1>4, <1>5, <1>6, QuietStep

LEMMA TimeOutStep == IInv /\ TimeOut => IInv' /\ Grows
<1> SUFFICES ASSUME IInv, NEW g \in DOMAIN actions,
                    actions' = [actions EXCEPT ![g].due = TRUE],
                    UNCHANGED <<writerVars, notion, leave, notice, local, faults>>
             PROVE  IInv' /\ Grows
  BY DEF TimeOut
<1> DEFINE e == [actions[g] EXCEPT !.due = TRUE]
<1>1. actions[g] \in Action  BY Numbers DEF IInv
<1>2. /\ e \in Action /\ e.decides = actions[g].decides /\ e.to = actions[g].to
      /\ e.rest = actions[g].rest /\ e.expects = actions[g].expects
      /\ e.status = actions[g].status /\ e.receipt = actions[g].receipt
  BY <1>1 DEF Action
<1>3. actions' = [actions EXCEPT ![g] = e]  OBVIOUS
<1> HIDE DEF e
<1>4. Amended(g) /\ actions'[g] = e  BY <1>2, <1>3, AmendForm DEF IInv
<1>5. Kinds' /\ Offers'  BY <1>2, <1>4, AmendKeeps DEF IInv, Kinds
<1>6. ActionsGrow /\ NoAuthority /\ SameEntries
  BY <1>2, <1>4 DEF ActionsGrow, NoAuthority, SameEntries, Amended, Authorised, Authority,
     AcceptedByReceipt, OriginalCommitted
<1>7. /\ page' = page /\ row' = row /\ reservation' = reservation /\ notice' = notice /\ leave' = leave
      /\ pc' = pc /\ job' = job /\ lock' = lock /\ failures' = failures /\ crashes' = crashes
      /\ lease' = lease /\ inside' = inside /\ passed' = passed /\ lapses' = lapses
  BY DEF notion, local, faults, writerVars
<1>8. ControlTyped' /\ \A q \in Writers : Current(q)' => Current(q)
  BY <1>7 DEF IInv, ControlTyped, WriterTypeOK, Current
<1>9. DataTyped'  BY <1>4, <1>7 DEF IInv, DataTyped, Amended
<1> QED  BY <1>5, <1>6, <1>7, <1>8, <1>9, WorldStep

LEMMA LeaseMovesStep == IInv /\ LeaseMoves => IInv' /\ Grows
<1> SUFFICES ASSUME IInv, LeaseMoves PROVE IInv' /\ Grows  OBVIOUS
<1>1. UNCHANGED <<notion, files, local, faults>>  BY DEF LeaseMoves
<1>2. /\ page' = page /\ row' = row /\ leave' = leave /\ actions' = actions
      /\ pc' = pc /\ job' = job /\ lock' = lock
  BY <1>1 DEF notion, files, local
<1>3. WriterTypeOK' /\ inside' = inside /\ \A q \in Writers : Current(q)' => Current(q)
  <2>1. WriterTypeOK /\ MaxLapses \in Nat  BY WritersAssumption DEF IInv, ControlTyped
  <2>2. CASE Lapse
    <3>1. lapses' \in 0..MaxLapses  BY <2>1, <2>2 DEF Lapse, WriterTypeOK
    <3> QED  BY <2>1, <2>2, <3>1, Actors DEF Lapse, WriterTypeOK, Current
  <2>3. ASSUME NEW p \in Writers, EnterInVain(p)
        PROVE  WriterTypeOK' /\ inside' = inside /\ \A q \in Writers : Current(q)' => Current(q)
    BY <2>1, <2>3 DEF EnterInVain, WriterTypeOK, Current
  <2> QED  BY <2>2, <2>3 DEF LeaseMoves
<1>4. ControlTyped'  BY <1>2, <1>3 DEF IInv, ControlTyped
<1>5. DataTyped'  BY <1>1 DEF IInv, DataTyped, notion, files, faults
<1>6. SameEntries /\ NoAuthority /\ Kinds' /\ Offers' /\ ActionsGrow  BY <1>2, NothingFiled
<1> QED  BY <1>2, <1>3, <1>4, <1>5, <1>6, WorldStep

LEMMA CrashStep ==
    ASSUME IInv, NEW p \in Writers, Crash(p)
    PROVE  IInv' /\ Grows
<1>1. /\ ControlTyped' /\ pc'[p] = "idle" /\ job'[p] = 1 /\ Others(p)
  BY CrashForm DEF IInv
<1>2. /\ page' = page /\ row' = row /\ leave' = leave /\ actions' = actions
      /\ reservation' = reservation /\ notice' = notice /\ failures' = failures
  BY DEF Crash, notion, files
<1>3. crashes' \in 0..MaxCrashes  BY AssignmentAssumption DEF Crash, IInv, DataTyped
<1>4. DataTyped'  BY <1>2, <1>3 DEF IInv, DataTyped
<1>5. SameEntries /\ NoAuthority /\ DecidesEnded /\ Kinds' /\ Offers' /\ ActionsGrow
  BY <1>2, NothingFiled
<1>6. Grows /\ RowsOfClaims  BY <1>2, <1>5, SameRows DEF Grows
<1>7. SamePage /\ LeaveStands  BY <1>2 DEF SamePage, LeaveStands
<1>8. CASE p = CleanerBot
  <2>1. CleanerAt'  BY <1>1, <1>4, <1>8, CleanerRests
  <2>2. OpsAt'  BY <1>1, <1>6, <1>8, OpsStands
  <2>3. FewerClaims  BY <1>1, <1>5, <1>6, <1>8, Fewer
  <2> QED  BY <1>1, <1>4, <1>5, <1>6, <1>7, <2>1, <2>2, <2>3, QuietStep
<1>9. CASE p = OpsBot
  <2>1. OpsAt'  BY <1>1, <1>4, <1>9, OpsRests
  <2> QED  BY <1>1, <1>2, <1>4, <1>5, <1>6, <1>7, <1>9, <2>1, OpsQuiet
<1> QED  BY <1>8, <1>9, Actors

-----------------------------------------------------------------------------

LEMMA InitIInv == Init => IInv
<1> SUFFICES ASSUME Init PROVE IInv  OBVIOUS
<1> DEFINE offer == Offer(DOMAIN Roster, "offered", 0, TRUE)
<1>1. DOMAIN Roster # {}
  <2>1. Roster \in Seq(Cleaners) /\ Roster # << >>  BY AssignmentAssumption
  <2>2. Len(Roster) \in Nat /\ DOMAIN Roster = 1..Len(Roster)  BY <2>1, LenProperties
  <2>3. Len(Roster) # 0  BY <2>1, EmptySeq
  <2>4. 1 \in DOMAIN Roster  BY <2>2, <2>3
  <2> QED  BY <2>4
<1>2. /\ offer \in Action /\ offer.decides = 0 /\ offer.expects = "offered"
      /\ offer.status = "PENDING" /\ ~offer.receipt
  BY <1>1, OfferForm
<1>3. actions = <<offer>>  BY DEF Init
<1> HIDE DEF offer
<1>4. /\ actions \in Seq(Action) /\ Len(actions) = 1 /\ DOMAIN actions = {1} /\ actions[1] = offer
  BY <1>2, <1>3
<1>5. 1 \in Actions /\ MaxLost \in Nat /\ MaxCrashes \in Nat /\ MaxLapses \in Nat
  BY AssignmentAssumption, WritersAssumption DEF Actions
<1>6. /\ page = [cancelled |-> FALSE, acceptance |-> "offered", assignee |-> NoOne, edition |-> 0]
      /\ reservation = TRUE /\ notice = TRUE /\ lock = Nobody /\ failures = 0 /\ crashes = 0
      /\ row = [g \in Actions |-> [hold |-> "none", reason |-> "none", request |-> "none"]]
      /\ leave = [g \in Actions |-> [at |-> "none", edition |-> 0, asked |-> FALSE]]
      /\ pc = [p \in Writers |-> "idle"] /\ job = [p \in Writers |-> 1]
      /\ lease = Nobody /\ inside = {} /\ passed = {} /\ lapses = 0
  BY DEF Init, WriterInit
<1>7. ControlTyped
  BY <1>5, <1>6 DEF ControlTyped, WriterTypeOK, Positions
<1>8. DataTyped
  <2>1. page \in [cancelled : BOOLEAN, acceptance : Acceptances,
                  assignee : Cleaners \cup {NoOne}, edition : Nat]
    BY <1>6 DEF Acceptances
  <2>2. row \in [Actions -> [hold : {"none", "booked", "released"},
                             reason : {"none", "unavailable", "cancelled"},
                             request : {"none", "requested", "reassigned", "continued"}]]
    BY <1>6
  <2>3. leave \in [Actions -> [at : Leaving, edition : Nat, asked : BOOLEAN]]
    BY <1>6 DEF Leaving
  <2> QED  BY <1>4, <1>5, <1>6, <2>1, <2>2, <2>3 DEF DataTyped
<1>9. Kinds /\ Offers  BY <1>2, <1>4 DEF Kinds, Offers, OfferStatuses
<1>10. \A g \in Actions : row[g].hold = "none" /\ leave[g].at = "none" /\ ~leave[g].asked
                            /\ leave[g].edition = 0
  BY <1>6
<1>11. pc[CleanerBot] = "idle" /\ pc[OpsBot] = "idle" /\ job[CleanerBot] = 1 /\ job[OpsBot] = 1
  BY <1>6, Actors
<1>12. CleanerAt /\ OpsAt  BY <1>4, <1>11 DEF CleanerAt, OpsAt, At, OpsPlaces
<1>13. Rows  BY <1>2, <1>4, <1>10 DEF Rows
<1>14. \A g : ~Authorised(g)  BY <1>2, <1>4 DEF Authorised, Authority, AcceptedByReceipt
<1>15. \A g \in Actions : ~Claim(g)  BY <1>10, <1>11, <1>14 DEF Claim, Booked
<1>16. SoleClaim /\ PageTaken /\ ButtonsMatch
  BY <1>4, <1>5, <1>6, <1>10, <1>15 DEF SoleClaim, PageTaken, ButtonsMatch
<1> QED  BY <1>7, <1>8, <1>9, <1>12, <1>13, <1>16 DEF IInv

LEMMA NextIInv == IInv /\ [Next]_vars => IInv' /\ Grows
<1> SUFFICES ASSUME IInv, [Next]_vars PROVE IInv' /\ Grows  OBVIOUS
<1>1. ASSUME NEW g \in Actions,
             \/ PressAccept(g) \/ Replay(g) \/ PressDecline(g)
             \/ ShowAssignment(g) \/ Keep(g) \/ PressUnavailable(g) \/ PressComeBack(g)
             \/ PressReassign(g) \/ PressContinue(g)
      PROVE  IInv' /\ Grows
  BY <1>1, PressAcceptStep, ReplayStep, PressDeclineStep, ShowAssignmentStep,
     PressUnavailableStep, PressComeBackStep, PressReassignStep, PressContinueStep
<1>2. CASE Work
  BY <1>2, AcceptStep, WriteReceiptStep, PublishExecutedStep, RecordAcceptedStep, DeclineStep,
     AskNextStep, SendOfferStep, EndAssignmentStep, ProjectUnavailableStep, RouteReplacementStep,
     AskBackStep, FileDecisionStep, SupersedeStep, RebookStep, ReprojectStep, ResolveStep,
     CancelReservationStep, ReleaseCancelledStep, WithdrawStep
  DEF Work
<1>3. CASE UNCHANGED vars
  <2>1. /\ page' = page /\ reservation' = reservation /\ row' = row /\ actions' = actions
        /\ leave' = leave /\ notice' = notice /\ lock' = lock /\ pc' = pc /\ job' = job
        /\ failures' = failures /\ crashes' = crashes
        /\ lease' = lease /\ inside' = inside /\ passed' = passed /\ lapses' = lapses
    BY <1>3 DEF vars, notion, files, local, faults, writerVars
  <2>2. ControlTyped' /\ \A q \in Writers : Current(q)' => Current(q)
    BY <2>1 DEF IInv, ControlTyped, WriterTypeOK, Current
  <2>3. DataTyped'  BY <2>1 DEF IInv, DataTyped
  <2>4. SameEntries /\ NoAuthority /\ Kinds' /\ Offers' /\ ActionsGrow  BY <2>1, NothingFiled
  <2> QED  BY <2>1, <2>2, <2>3, <2>4, WorldStep
<1>4. ASSUME NEW p \in Writers, Crash(p) PROVE IInv' /\ Grows  BY <1>4, CrashStep
<1> QED  BY <1>1, <1>2, <1>3, <1>4, PressCancelStep, TimeOutStep, LeaseMovesStep DEF Next, Press

\* There is one claim at any time, and what every part of the model relies on: the inductive
\* invariant, for every roster, any number of offers, decisions, crashes and lost requests.
THEOREM Invariant == Spec => []IInv
BY InitIInv, NextIInv, PTL DEF Spec

\* Every variable keeps to its values (the files, the pages and the two handlers).
THEOREM TypeCorrect == Spec => []TypeOK
<1>1. IInv => TypeOK
  <2> SUFFICES ASSUME IInv PROVE TypeOK  OBVIOUS
  <2>1. Len(actions) <= MaxActions  BY AssignmentAssumption DEF IInv, DataTyped, Actions
  <2>2. \A g \in DOMAIN actions :
           actions[g].status \in IF actions[g].decides = 0 THEN OfferStatuses ELSE DecisionStatuses
    BY DEF IInv, Kinds
  <2> QED  BY <2>1, <2>2 DEF IInv, ControlTyped, DataTyped, TypeOK
<1> QED  BY <1>1, Invariant, PTL

\* The cleaning never has two assignments in force at once, whatever is replayed, answered too
\* late or decided after a crash.
THEOREM SoleBookings == Spec => []SoleBooking
<1>1. IInv => SoleBooking  BY DEF IInv, SoleClaim, Claim, SoleBooking
<1> QED  BY <1>1, Invariant, PTL

\* At most one offer of a cleaning can be accepted at any time.
THEOREM OneOffer == Spec => []OneOpenOffer
<1>1. IInv => OneOpenOffer
  <2> SUFFICES ASSUME IInv, NEW g \in DOMAIN actions, NEW h \in DOMAIN actions, Open(g), Open(h)
               PROVE  g = h
    BY DEF OneOpenOffer
  <2>1. h <= g /\ g <= h /\ g \in Nat /\ h \in Nat
    BY OfferPressed, Numbers DEF IInv, Actions
  <2> QED  BY <2>1
<1> QED  BY <1>1, Invariant, PTL

\* What a step leaves of the assignment history and of the decisions: the body of HistoryIsFinal.
Final ==
    /\ \A g \in Actions :
          row[g].hold = "released" => row'[g].hold = "released" /\ row'[g].reason = row[g].reason
    /\ \A d \in DOMAIN actions :
          actions[d].status \in {"REASSIGN", "CONTINUE"} => actions'[d].status = actions[d].status

\* An assignment that ended stays ended for the reason first recorded, and a committed decision
\* is never turned round.
THEOREM HistoryStands == Spec => HistoryIsFinal
<1>1. Grows => Final  BY DEF Grows, ActionsGrow, RowsGrow, Final
<1>2. IInv /\ [Next]_vars => Final  BY <1>1, NextIInv
<1>3. HistoryIsFinal <=> [][Final]_vars  BY DEF HistoryIsFinal, Final
<1> QED  BY <1>2, <1>3, Invariant, PTL DEF Spec

=============================================================================
