-------------------------- MODULE AccessAndLoadProofs --------------------------
(***************************************************************************)
(* What is proved of two components that share no name and no state.       *)
(*                                                                         *)
(* StageBBackfill.  For any number of assignment pages, windows, captures  *)
(* and edits of the sources: a row the load wrote is the record of the     *)
(* manifest its binding names, and a reservation's version counts every    *)
(* change of the chain of manifests once; nobody else's change is          *)
(* overwritten; a clean report means what it says.  The invariant ties     *)
(* each source key to one row of one table (a row's identity gives the     *)
(* key), and a row to its binding exactly while nobody else wrote it.      *)
(*                                                                         *)
(* PropertyAccess.  For any operators' chats, any number of lost requests, *)
(* crashes and lapses: no message about an Access page goes out twice, and *)
(* a cleaner is told of an approval only once the roster has the property. *)
(* A message leaves from "send" alone, so the first is a fact about who    *)
(* stands there (MayTell); the second follows the word SYNCED from the     *)
(* roster to the ledger, through requests that land late (SyncedIsTrue).   *)
(***************************************************************************)
EXTENDS PropertyAccess, StageBBackfill, SequenceTheorems, FiniteSetTheorems,
        WellFoundedInduction, TLAPS

-----------------------------------------------------------------------------
(* The load: what the scans, the manifests, a run and the tables hold.     *)

SourceStates ==
  [reservation : ReservationStatuses, window : Windows \cup {NoWindow},
   stage : [AssignmentPages -> Stages]]

Texts == Windows \cup ReservationStatuses \cup
  {NoWindow, "-", "CLOSED", "HARD_BOOKED", "RELEASED", "DECIDED"}

\* The types of the found each source gives; no two sources share one.
TypesOf ==
  <<{"reservation"}, {"cleaning_job", "cleaning_schedule_revision"},
    {"cleaning_offer_campaign", "cleaning_assignment"},
    {"cleaner_unavailability_case", "cleaner_reassignment_request"}>>
Upto(n) == UNION {TypesOf[k] : k \in 1..n}
Paged == TypesOf[3] \cup TypesOf[4]

SourceRows == [type : Upto(4), page : 0..Assignments, fixed : Texts, free : Texts, no : Nat]

\* SourceRows as one reading of the first n sources gives them, whatever is edited
\* between two of the sources: no source key twice.
OncePerKey(found) ==
  /\ found \subseteq SourceRows
  /\ \A r \in found : r.page = 0 <=> r.type \notin Paged
  /\ \A r, q \in found : Key(r) = Key(q) => r = q
FromFirst(n, found) == OncePerKey(found) /\ \A r \in found : r.type \in Upto(n) /\ r.no = 0

LogOK ==
  /\ log \in Seq(SourceStates) /\ Len(log) \in Nat \ {0}
  /\ ~Freezing => Len(log) = 1

ManifestsOK ==
  /\ manifests \in Seq([records : SUBSET SourceRows, pred : Nat])
  /\ \A i \in DOMAIN manifests :
       manifests[i].pred \in 0..(i - 1) /\ OncePerKey(manifests[i].records)

Scans ==
  [at : {"scan"}, purpose : {"freeze", "apply"}, manifest : 0..Len(manifests),
   next : 1..4, got : SUBSET SourceRows, previous : SUBSET (SUBSET SourceRows), passes : Nat,
   mark : 1..Len(log)]
Loads == [at : {"apply"}, manifest : DOMAIN manifests, todo : Seq(SourceRows)]
Reports == [at : {"report"}, manifest : DOMAIN manifests]

RunOK ==
  \/ run = Idle
  \/ /\ run \in Scans
     /\ run.purpose = "apply" => run.manifest \in DOMAIN manifests
     /\ FromFirst(run.next - 1, run.got)
  \/ /\ run \in Loads
     /\ \A n \in DOMAIN run.todo : run.todo[n] \in manifests[run.manifest].records
  \/ run \in Reports

\* What a source key is bound to: the row as it was loaded, from the manifest
\* whose receipt there is; the table still holds it unless somebody else wrote.
IdOf(key) == Id(binding[key].hash)
LoadedFrom(key, r) ==
  LET row == binding[key].target
  IN /\ Key(r) = key /\ Id(r) = IdOf(key)
     /\ row.fixed = r.fixed /\ row.no = r.no
     /\ row.free \in {r.free, Bootstrap(r).free}
BoundOK(key) ==
  /\ Key(binding[key].hash) = key
  /\ binding[key].snapshot \in DOMAIN manifests
  /\ <<binding[key].snapshot, key>> \in receipts
  /\ IdOf(key) \in DOMAIN target
  /\ StoredRow(binding[key].target)
  /\ binding[key].target = target[IdOf(key)] <=> IdOf(key) \notin DOMAIN foreign
  /\ \E r \in manifests[binding[key].snapshot].records : LoadedFrom(key, r)
VersionOK(key) ==
  key[1] = "reservation" => binding[key].target.version = 1 + Cardinality(Changes(key))

\* Every row of a table was loaded for a source key or written by somebody else.
TablesOK ==
  /\ \A id \in DOMAIN target : StoredRow(target[id])
  /\ \A id \in DOMAIN target : id \in DOMAIN foreign \/ \E key \in DOMAIN binding : IdOf(key) = id
  /\ \A id \in DOMAIN foreign : id \in DOMAIN target /\ target[id] = foreign[id]
  /\ receipts \subseteq (DOMAIN manifests) \X UNION {DOMAIN binding, {<<"snapshot", 0>>}}

Stored == TablesOK /\ \A key \in DOMAIN binding : BoundOK(key) /\ VersionOK(key)

LoadInv == LogOK /\ ManifestsOK /\ RunOK /\ Stored

-----------------------------------------------------------------------------
(* What the adapters give.                                                 *)

LEMMA TypesAre ==
  /\ TypesOf[1] = {"reservation"}
  /\ TypesOf[2] = {"cleaning_job", "cleaning_schedule_revision"}
  /\ TypesOf[3] = {"cleaning_offer_campaign", "cleaning_assignment"}
  /\ TypesOf[4] = {"cleaner_unavailability_case", "cleaner_reassignment_request"}
  /\ Upto(0) = {}
  /\ \A n \in 0..3 : Upto(n + 1) = Upto(n) \cup TypesOf[n + 1]
  /\ \A n \in 0..3 : TypesOf[n + 1] \cap Upto(n) = {}
  /\ \A n \in 0..4 : Upto(n) \subseteq Upto(4)
<1>1. /\ TypesOf[1] = {"reservation"}
      /\ TypesOf[2] = {"cleaning_job", "cleaning_schedule_revision"}
      /\ TypesOf[3] = {"cleaning_offer_campaign", "cleaning_assignment"}
      /\ TypesOf[4] = {"cleaner_unavailability_case", "cleaner_reassignment_request"}
  BY DEF TypesOf
<1>2. Upto(0) = {} /\ \A n \in 0..3 : Upto(n + 1) = Upto(n) \cup TypesOf[n + 1]
  BY DEF Upto
<1>3. /\ Upto(1) = Upto(0) \cup TypesOf[1] /\ Upto(2) = Upto(1) \cup TypesOf[2]
      /\ Upto(3) = Upto(2) \cup TypesOf[3] /\ Upto(4) = Upto(3) \cup TypesOf[4]
  <2>1. \A n \in 0..3 : Upto(n + 1) = Upto(n) \cup TypesOf[n + 1]  BY <1>2
  <2> QED  BY <2>1
<1>4. \A n \in 0..3 : n = 0 \/ n = 1 \/ n = 2 \/ n = 3  OBVIOUS
<1>5. \A n \in 0..4 : n = 0 \/ n = 1 \/ n = 2 \/ n = 3 \/ n = 4  OBVIOUS
<1>6. \A n \in 0..3 : TypesOf[n + 1] \cap Upto(n) = {}
  BY <1>1, <1>2, <1>3, <1>4
<1>7. \A n \in 0..4 : Upto(n) \subseteq Upto(4)
  BY <1>2, <1>3, <1>5
<1> QED  BY <1>1, <1>2, <1>6, <1>7

\* One source, read at once, gives found of its own types, one per source key.
LEMMA ObserveIs ==
  ASSUME NEW s \in SourceStates, NEW n \in 1..4
  PROVE  LET found == Observe(Sources[n], s)
         IN OncePerKey(found) /\ \A r \in found : r.type \in TypesOf[n] /\ r.no = 0
<1> DEFINE found == Observe(Sources[n], s)
<1> SUFFICES /\ found \subseteq SourceRows
             /\ \A r \in found : r.page = 0 <=> r.type \notin Paged
             /\ \A r, q \in found : Key(r) = Key(q) => r = q
             /\ \A r \in found : r.type \in TypesOf[n] /\ r.no = 0
  BY DEF OncePerKey
<1> USE DEF SourceRows, Row, Key
<1>1. /\ s.reservation \in Texts /\ s.window \in Texts /\ {"-", "CLOSED"} \subseteq Texts
      /\ {"HARD_BOOKED", "RELEASED", "CONFIRMED", "DECIDED"} \subseteq Texts
  BY DEF SourceStates, Texts, ReservationStatuses, NoWindow
<1>2. 0 \in 0..Assignments /\ AssignmentPages \subseteq 0..Assignments /\ 0 \notin AssignmentPages
  BY BoundsAssumption DEF AssignmentPages
<1>8. \A type \in Upto(4), p \in 0..Assignments, fixed, free \in Texts :
        Row(type, p, fixed, free) \in SourceRows
  OBVIOUS
<1>3. /\ "reservation" \in Upto(4) \ Paged
      /\ "cleaning_job" \in Upto(4) \ Paged /\ "cleaning_schedule_revision" \in Upto(4) \ Paged
      /\ TypesOf[3] \subseteq Upto(4) \cap Paged /\ TypesOf[4] \subseteq Upto(4) \cap Paged
  <2>1. \A k \in 1..4 : TypesOf[k] \subseteq Upto(4)  BY DEF Upto
  <2> QED  BY <2>1, TypesAre DEF Paged
<1>4. CASE n = 1
  <2>1. found = {Row("reservation", 0, "-", s.reservation)}
    BY <1>4 DEF Observe, Sources, Reservations
  <2> QED  BY <1>1, <1>2, <1>3, <1>4, <2>1, TypesAre
<1>5. CASE n = 2
  <2>1. found = Cleanings(s)  BY <1>5 DEF Observe, Sources
  <2>2. \A r \in found : r = Row("cleaning_job", 0, "-", s.window)
                        \/ r = Row("cleaning_schedule_revision", 0, s.window, "-")
    BY <2>1 DEF Cleanings
  <2> HIDE DEF found
  <2> QED  BY <1>1, <1>2, <1>3, <1>5, <2>2, TypesAre
<1>6. CASE n = 3
  <2>1. found = AssignmentRows(s)  BY <1>6 DEF Observe, Sources
  <2>2. \A r \in found : \E a \in AssignmentPages :
           \/ r = Row("cleaning_offer_campaign", a, s.window, "CLOSED")
           \/ r = Row("cleaning_assignment", a, s.window, Hold(s.stage[a]))
    BY <2>1 DEF AssignmentRows, Ancestry
  <2>3. \A a : Hold(s.stage[a]) \in Texts  BY <1>1 DEF Hold
  <2>4. "cleaning_offer_campaign" \in TypesOf[3] /\ "cleaning_assignment" \in TypesOf[3]
    BY TypesAre
  <2> HIDE DEF found
  <2>5. /\ found \subseteq SourceRows
        /\ \A r \in found : r.page \in AssignmentPages /\ r.type \in TypesOf[n] /\ r.no = 0
    <3>1. SUFFICES ASSUME NEW r \in found
                   PROVE  /\ r \in SourceRows /\ r.page \in AssignmentPages
                          /\ r.type \in TypesOf[n] /\ r.no = 0
      OBVIOUS
    <3>2. PICK a \in AssignmentPages :
             \/ r = Row("cleaning_offer_campaign", a, s.window, "CLOSED")
             \/ r = Row("cleaning_assignment", a, s.window, Hold(s.stage[a]))
      BY <2>2
    <3>3. /\ s.window \in Texts /\ "CLOSED" \in Texts /\ Hold(s.stage[a]) \in Texts
          /\ a \in 0..Assignments
      BY <1>1, <1>2, <2>3
    <3>4. /\ "cleaning_offer_campaign" \in TypesOf[n] /\ "cleaning_assignment" \in TypesOf[n]
          /\ TypesOf[n] \subseteq Upto(4)
      BY <1>3, <1>6, <2>4
    <3>5. r \in SourceRows  BY <1>8, <3>2, <3>3, <3>4
    <3> QED  BY <3>2, <3>4, <3>5
  <2>6. \A r, q \in found : Key(r) = Key(q) => r = q
    BY <2>2
  <2> QED  BY <1>2, <1>3, <1>6, <2>5, <2>6
<1>7. CASE n = 4
  <2>1. found = CaseRows(s) \cup RequestRows(s)  BY <1>7 DEF Observe, Sources
  <2>2. \A r \in found : \E a \in AssignmentPages :
           \/ r = Row("cleaner_unavailability_case", a, s.window, "CONFIRMED")
           \/ r = Row("cleaner_reassignment_request", a, s.window, "DECIDED")
    BY <2>1 DEF CaseRows, RequestRows
  <2>3. /\ "cleaner_unavailability_case" \in TypesOf[4]
        /\ "cleaner_reassignment_request" \in TypesOf[4]
    BY TypesAre
  <2> HIDE DEF found
  <2>5. /\ found \subseteq SourceRows
        /\ \A r \in found : r.page \in AssignmentPages /\ r.type \in TypesOf[n] /\ r.no = 0
    <3>1. SUFFICES ASSUME NEW r \in found
                   PROVE  /\ r \in SourceRows /\ r.page \in AssignmentPages
                          /\ r.type \in TypesOf[n] /\ r.no = 0
      OBVIOUS
    <3>2. PICK a \in AssignmentPages :
             \/ r = Row("cleaner_unavailability_case", a, s.window, "CONFIRMED")
             \/ r = Row("cleaner_reassignment_request", a, s.window, "DECIDED")
      BY <2>2
    <3>3. s.window \in Texts /\ "CONFIRMED" \in Texts /\ "DECIDED" \in Texts /\ a \in 0..Assignments
      BY <1>1, <1>2
    <3>4. /\ "cleaner_unavailability_case" \in TypesOf[n]
          /\ "cleaner_reassignment_request" \in TypesOf[n]
          /\ TypesOf[n] \subseteq Upto(4)
      BY <1>3, <1>7, <2>3
    <3>5. r \in SourceRows  BY <1>8, <3>2, <3>3, <3>4
    <3> QED  BY <3>2, <3>4, <3>5
  <2>6. \A r, q \in found : Key(r) = Key(q) => r = q
    BY <2>2
  <2> QED  BY <1>2, <1>3, <1>7, <2>5, <2>6
<1> QED  BY <1>4, <1>5, <1>6, <1>7

\* A scan that goes from source to source stays of that kind, whatever was
\* edited in between.
LEMMA OneSourceMore ==
  ASSUME NEW n \in 0..3, NEW found, FromFirst(n, found), NEW s \in SourceStates
  PROVE  FromFirst(n + 1, found \cup Observe(Sources[n + 1], s))
<1> DEFINE more == Observe(Sources[n + 1], s)
<1>1. n + 1 \in 1..4  OBVIOUS
<1>2. OncePerKey(more) /\ \A r \in more : r.type \in TypesOf[n + 1] /\ r.no = 0
  BY <1>1, ObserveIs
<1>3. Upto(n + 1) = Upto(n) \cup TypesOf[n + 1] /\ TypesOf[n + 1] \cap Upto(n) = {}
  BY TypesAre
<1> HIDE DEF more
<1>4. \A r \in found, q \in more : Key(r) # Key(q)
  BY <1>2, <1>3 DEF FromFirst, Key
<1>5. OncePerKey(found \cup more)
  BY <1>2, <1>4 DEF FromFirst, OncePerKey
<1> QED  BY <1>2, <1>3, <1>5 DEF FromFirst, more

LEMMA RankIs ==
  \A type \in Upto(4) : Rank(type) \in 1..7 /\ Types[Rank(type)] = type
<1>1. \A n \in 0..3 : Upto(n + 1) = Upto(n) \cup TypesOf[n + 1]  BY TypesAre
<1>2. Upto(4) = TypesOf[1] \cup TypesOf[2] \cup TypesOf[3] \cup TypesOf[4]
  <2>1. /\ Upto(1) = Upto(0) \cup TypesOf[1] /\ Upto(2) = Upto(1) \cup TypesOf[2]
        /\ Upto(3) = Upto(2) \cup TypesOf[3] /\ Upto(4) = Upto(3) \cup TypesOf[4]
    BY <1>1
  <2> QED  BY <2>1, TypesAre
<1>3. DOMAIN Types = 1..7  BY DEF Types
<1>4. \A type \in Upto(4) : \E n \in 1..7 : Types[n] = type
  BY <1>2, TypesAre DEF Types
<1> QED  BY <1>3, <1>4 DEF Rank

LEMMA RowsAreFinite ==
  ASSUME NEW found, OncePerKey(found)
  PROVE  IsFiniteSet(found)
<1> DEFINE f == [r \in found |-> <<Rank(r.type), r.page>>]
           T == (1..7) \X (0..Assignments)
<1>1. IsFiniteSet(T)
  <2>1. IsFiniteSet(1..7) /\ IsFiniteSet(0..Assignments)
    <3>1. 0 \in Int /\ 1 \in Int /\ 7 \in Int /\ Assignments \in Int  BY BoundsAssumption
    <3>2. \A a, b \in Int : IsFiniteSet(a..b)  BY FS_Interval
    <3> QED  BY <3>1, <3>2
  <2> QED  BY <2>1, FS_Product
<1>2. \A r \in found : r.type \in Upto(4) /\ r.page \in 0..Assignments
  BY DEF OncePerKey, SourceRows
<1>3. f \in [found -> T]  BY <1>2, RankIs
<1>4. \A r, q \in found : f[r] = f[q] => r = q
  <2>1. SUFFICES ASSUME NEW r \in found, NEW q \in found, f[r] = f[q]
                 PROVE  r = q
    OBVIOUS
  <2>2. Rank(r.type) = Rank(q.type) /\ r.page = q.page  BY <2>1
  <2>3. r.type = q.type  BY <1>2, <2>2, RankIs
  <2> QED  BY <2>2, <2>3 DEF OncePerKey, Key
<1> HIDE DEF f, T
<1>5. f \in Injection(found, T)  BY <1>3, <1>4 DEF Injection, IsInjective
<1> QED  BY <1>1, <1>5, FS_Injection

\* A frozen manifest differs from what was read in its numbers alone.
LEMMA PopulationIs ==
  ASSUME NEW found, OncePerKey(found)
  PROVE  OncePerKey(Population(found))
<1>1. \A row \in found : Number(found, row) \in Nat
  <2>1. SUFFICES ASSUME NEW row \in found PROVE Number(found, row) \in Nat
    OBVIOUS
  <2> DEFINE counted == {r \in found : r.type = row.type /\ r.page <= row.page}
  <2>2. IsFiniteSet(counted)
    <3>1. counted \in SUBSET found  OBVIOUS
    <3> HIDE DEF counted
    <3> QED  BY <3>1, RowsAreFinite, FS_Subset
  <2>3. Cardinality(counted) \in Nat
    <3> HIDE DEF counted
    <3> QED  BY <2>2, FS_CardinalityType
  <2> QED  BY <2>3 DEF Number
<1>2. \A row \in found : LET r == [row EXCEPT !.no = Number(found, row)]
                        IN /\ r \in SourceRows /\ Key(r) = Key(row)
                           /\ r.page = row.page /\ r.type = row.type
  BY <1>1 DEF OncePerKey, SourceRows, Key
<1> HIDE DEF Number
<1>3. \A r \in Population(found) : \E row \in found :
        r = [row EXCEPT !.no = Number(found, row)]
  BY DEF Population
<1>4. Population(found) \subseteq SourceRows  BY <1>2, <1>3
<1>5. \A r \in Population(found) : r.page = 0 <=> r.type \notin Paged
  <2>1. ASSUME NEW r \in Population(found)
        PROVE  \E row \in found : r.page = row.page /\ r.type = row.type
    <3>1. PICK row \in found : r = [row EXCEPT !.no = Number(found, row)]  BY <1>3
    <3>2. r.page = row.page /\ r.type = row.type  BY <1>2, <3>1
    <3> QED  BY <3>2
  <2>2. \A row \in found : row.page = 0 <=> row.type \notin Paged  BY DEF OncePerKey
  <2> QED  BY <2>1, <2>2
<1>6. \A r, q \in Population(found) : Key(r) = Key(q) => r = q
  BY <1>2, <1>3 DEF OncePerKey
<1> QED  BY <1>4, <1>5, <1>6 DEF OncePerKey

\* The order of the load: no two found of a manifest are at the same place.
LEMMA BeforeIsTotal ==
  ASSUME NEW found, OncePerKey(found)
  PROVE  /\ \A r \in found : ~Before(r, r)
         /\ \A r, q, p \in found : Before(r, q) /\ Before(q, p) => Before(r, p)
         /\ \A r, q \in found : r # q => Before(r, q) \/ Before(q, r)
<1>1. \A r \in found : r.type \in Upto(4) /\ r.page \in 0..Assignments
  BY DEF OncePerKey, SourceRows
<1>2. \A r \in found : Rank(r.type) \in Int /\ Types[Rank(r.type)] = r.type
  BY <1>1, RankIs
<1>3. \A r \in found : r.page # 0 => r.page \in 1..Assignments /\ IdRank[r.page] \in Int
  BY <1>1, BoundsAssumption
<1>4. \A r \in found : ~Before(r, r)
  BY <1>2, <1>3 DEF Before
<1>5. \A r, q \in found : r.type = q.type => (r.page = 0 <=> q.page = 0)
  BY DEF OncePerKey
<1>6. \A r, q, p \in found : Before(r, q) /\ Before(q, p) => Before(r, p)
  BY <1>2, <1>3, <1>5 DEF Before
<1>7. \A r, q \in found : r # q => Before(r, q) \/ Before(q, r)
  <2>1. SUFFICES ASSUME NEW r \in found, NEW q \in found, r # q, ~Before(r, q), ~Before(q, r)
                 PROVE  FALSE
    OBVIOUS
  <2>2. Rank(r.type) = Rank(q.type)  BY <1>2, <2>1 DEF Before
  <2>3. r.type = q.type  BY <1>2, <2>2
  <2>4. r.page # q.page  BY <2>1, <2>3 DEF OncePerKey, Key
  <2>5. r.page # 0 /\ q.page # 0  BY <1>5, <2>3, <2>4
  <2>6. IdRank[r.page] # IdRank[q.page]
    BY <1>3, <2>4, <2>5, BoundsAssumption
  <2> QED  BY <1>3, <2>1, <2>3, <2>5, <2>6 DEF Before
<1> QED  BY <1>4, <1>6, <1>7

\* Each place of the order is taken.
LEMMA InOrderIs ==
  ASSUME NEW found, OncePerKey(found)
  PROVE  InOrder(found) \in Seq(found)
<1> DEFINE before(r) == {q \in found : Before(q, r)}
           n == Cardinality(found)
           f == [r \in found |-> Cardinality(before(r))]
<1>1. IsFiniteSet(found) /\ n \in Nat  BY RowsAreFinite, FS_CardinalityType
<1>2. \A r \in found : IsFiniteSet(before(r)) /\ Cardinality(before(r)) \in Nat
  <2>1. \A r \in found : before(r) \in SUBSET found  OBVIOUS
  <2> HIDE DEF before
  <2> QED  BY <1>1, <2>1, FS_Subset, FS_CardinalityType
<1>3. \A r, q \in found : Before(r, q) => Cardinality(before(r)) < Cardinality(before(q))
  <2>1. SUFFICES ASSUME NEW r \in found, NEW q \in found, Before(r, q)
                 PROVE  Cardinality(before(r)) < Cardinality(before(q))
    OBVIOUS
  <2>2. before(r) \in SUBSET before(q)  BY <2>1, BeforeIsTotal
  <2>3. r \in before(q) /\ r \notin before(r)  BY <2>1, BeforeIsTotal
  <2> HIDE DEF before
  <2>4. Cardinality(before(r)) <= Cardinality(before(q)) /\ before(r) # before(q)
    BY <1>2, <2>2, <2>3, FS_Subset
  <2>5. Cardinality(before(r)) # Cardinality(before(q))
    BY <1>2, <2>2, <2>4, FS_Subset
  <2> QED  BY <1>2, <2>4, <2>5
<1>4. \A r \in found : Cardinality(before(r)) \in 0..(n - 1)
  <2>1. SUFFICES ASSUME NEW r \in found PROVE Cardinality(before(r)) \in 0..(n - 1)
    OBVIOUS
  <2>2. before(r) \in SUBSET found /\ r \notin before(r)  BY BeforeIsTotal
  <2> HIDE DEF before
  <2>3. Cardinality(before(r)) <= n /\ Cardinality(before(r)) # n
    BY <1>1, <2>2, FS_Subset
  <2> QED  BY <1>1, <1>2, <2>3
<1>5. f \in [found -> 0..(n - 1)]  BY <1>4
<1>6. \A r, q \in found : f[r] = f[q] => r = q
  <2>1. SUFFICES ASSUME NEW r \in found, NEW q \in found, f[r] = f[q], r # q
                 PROVE  FALSE
    OBVIOUS
  <2>2. Before(r, q) \/ Before(q, r)  BY <2>1, BeforeIsTotal
  <2>3. f[r] = Cardinality(before(r)) /\ f[q] = Cardinality(before(q))  OBVIOUS
  <2> HIDE DEF f
  <2>4. Cardinality(before(r)) = Cardinality(before(q))  BY <2>1, <2>3
  <2>5. \/ Cardinality(before(r)) < Cardinality(before(q))
        \/ Cardinality(before(q)) < Cardinality(before(r))
    <3> HIDE DEF before
    <3> QED  BY <1>3, <2>1, <2>2
  <2>6. Cardinality(before(r)) \in Nat /\ Cardinality(before(q)) \in Nat
    <3> HIDE DEF before
    <3> QED  BY <1>2, <2>1
  <2> HIDE DEF before
  <2> QED  BY <2>4, <2>5, <2>6
<1>7. IsFiniteSet(0..(n - 1)) /\ Cardinality(0..(n - 1)) = n
  <2>1. 0 \in Int /\ n - 1 \in Int  BY <1>1
  <2> HIDE DEF n
  <2> QED  BY <1>1, <2>1, FS_Interval
<1>8. f \in Surjection(found, 0..(n - 1))
  <2>1. f \in Injection(found, 0..(n - 1))
    <3> HIDE DEF f, n
    <3> QED  BY <1>5, <1>6 DEF Injection, IsInjective
  <2> HIDE DEF f
  <2> QED  BY <1>7, <2>1, FS_Injection
<1>9. \A k \in 1..n : \E r \in found : Cardinality(before(r)) = k - 1
  <2>1. \A k \in 0..(n - 1) : \E r \in found : f[r] = k
    <3> HIDE DEF f, n
    <3> QED  BY <1>8 DEF Surjection
  <2>2. \A r \in found : f[r] = Cardinality(before(r))  OBVIOUS
  <2> HIDE DEF f, before
  <2>3. \A k \in 1..n : k - 1 \in 0..(n - 1)  BY <1>1
  <2> QED  BY <2>1, <2>2, <2>3
<1>10. InOrder(found) = [k \in 1..n |-> CHOOSE r \in found : Cardinality(before(r)) = k - 1]
  BY DEF InOrder
<1> HIDE DEF before, n
<1> QED  BY <1>1, <1>9, <1>10

\* A run goes through found of the manifest and nothing else.
LEMMA TodoIs ==
  ASSUME NEW found, OncePerKey(found)
  PROVE  Todo(found) \in Seq(found)
<1> DEFINE jobs == {r \in found : r.type = "cleaning_job"}
<1>1. OncePerKey(jobs)  BY DEF OncePerKey
<1>2. InOrder(jobs) \in Seq(jobs) /\ InOrder(found) \in Seq(found)
  <2> HIDE DEF jobs
  <2> QED  BY <1>1, InOrderIs
<1>3. InOrder(jobs) \in Seq(found)  BY <1>2
<1>4. Todo(found) = InOrder(found) \o InOrder(jobs)  BY DEF Todo
<1> HIDE DEF jobs
<1> QED  BY <1>2, <1>3, <1>4, ConcatProperties

-----------------------------------------------------------------------------
(* The chain of the manifests.                                             *)

Chained(ms) == \A i \in 1..Len(ms) : ms[i].pred \in 0..(i - 1)

Closed(ms, D) == \A k \in D : ms[k].pred # 0 => ms[k].pred \in D
\* The manifests that n follows, itself the first.
Line(ms, n) == {j \in 1..n : \A D \in SUBSET (1..n) : n \in D /\ Closed(ms, D) => j \in D}

LEMMA LineUnfolds ==
  ASSUME NEW ms, Len(ms) \in Nat, Chained(ms), NEW n \in 1..Len(ms)
  PROVE  Line(ms, n) = {n} \cup Line(ms, ms[n].pred)
<1> DEFINE p == ms[n].pred
<1>1. p \in 0..(n - 1) /\ n \in Nat  BY DEF Chained
<1>2. \A k \in 1..n : ms[k].pred \in 0..(k - 1)  BY DEF Chained
<1>3. Line(ms, p) \subseteq 1..p  BY DEF Line
<1> HIDE DEF p
<1>4. Closed(ms, Line(ms, p))
  <2>1. SUFFICES ASSUME NEW k \in Line(ms, p), ms[k].pred # 0
                 PROVE  ms[k].pred \in Line(ms, p)
    BY DEF Closed
  <2>2. ms[k].pred \in 1..p  BY <1>1, <1>2, <1>3, <2>1
  <2>3. \A D \in SUBSET (1..p) : p \in D /\ Closed(ms, D) => ms[k].pred \in D
    BY <2>1 DEF Line, Closed
  <2> QED  BY <2>2, <2>3 DEF Line
<1>5. p # 0 => p \in Line(ms, p)  BY <1>1 DEF Line
<1>6. ASSUME NEW j \in Line(ms, n) PROVE j \in {n} \cup Line(ms, p)
  <2> DEFINE D == {n} \cup Line(ms, p)
  <2>1. D \in SUBSET (1..n) /\ n \in D  BY <1>1, <1>3
  <2>2. Closed(ms, D)  BY <1>4, <1>5 DEF Closed, p
  <2> HIDE DEF D
  <2>3. j \in D  BY <2>1, <2>2 DEF Line
  <2> QED  BY <2>3 DEF D
<1>7. n \in Line(ms, n)  BY <1>1 DEF Line
<1>8. ASSUME NEW j \in Line(ms, p) PROVE j \in Line(ms, n)
  <2>1. j \in 1..p /\ j \in 1..n  BY <1>1, <1>3
  <2>2. SUFFICES ASSUME NEW D \in SUBSET (1..n), n \in D, Closed(ms, D)
                 PROVE  j \in D
    BY <2>1 DEF Line
  <2> DEFINE E == D \cap (1..p)
  <2>3. p \in D  BY <1>1, <2>1, <2>2 DEF Closed, p
  <2>4. p \in E /\ E \in SUBSET (1..p)  BY <1>1, <2>1, <2>3
  <2>5. Closed(ms, E)  BY <1>1, <1>2, <2>2 DEF Closed
  <2> HIDE DEF E
  <2>6. j \in E  BY <2>4, <2>5 DEF Line
  <2> QED  BY <2>6 DEF E
<1> QED  BY <1>6, <1>7, <1>8 DEF p

\* Ancestors is written as a recursive function; that there is one is shown by
\* the set above, that there is no other by the least place they would differ.
LinesOf(ms) ==
  CHOOSE S : S = [n \in 0..Len(ms) |-> IF n = 0 THEN {} ELSE {n} \cup S[ms[n].pred]]

LEMMA LinesAre ==
  ASSUME NEW ms, Len(ms) \in Nat, Chained(ms), NEW n \in 0..Len(ms)
  PROVE  LinesOf(ms)[n] = Line(ms, n)
<1> DEFINE Rec(S) == S = [k \in 0..Len(ms) |-> IF k = 0 THEN {} ELSE {k} \cup S[ms[k].pred]]
           C == CHOOSE S : Rec(S)
           W == [k \in 0..Len(ms) |-> Line(ms, k)]
           missing == {k \in 0..Len(ms) : C[k] # Line(ms, k)}
           R == OpToRel(<, Nat)
<1>1. LinesOf(ms) = C  BY DEF LinesOf
<1>2. \A k \in 1..Len(ms) : ms[k].pred \in 0..(k - 1)  BY DEF Chained
<1>3. Line(ms, 0) = {}  BY DEF Line
<1>4. Rec(W)
  <2>1. \A k \in 0..Len(ms) : k # 0 => /\ ms[k].pred \in 0..Len(ms)
                                      /\ Line(ms, k) = {k} \cup Line(ms, ms[k].pred)
    BY <1>2, LineUnfolds
  <2>2. \A k \in 0..Len(ms) : k # 0 => W[ms[k].pred] = Line(ms, ms[k].pred)
    BY <2>1
  <2>3. \A k \in 0..Len(ms) : Line(ms, k) = IF k = 0 THEN {} ELSE {k} \cup W[ms[k].pred]
    BY <1>3, <2>1, <2>2
  <2> QED  BY <2>3
<1> HIDE DEF W, C, Rec
<1>5. Rec(C)  BY <1>4 DEF C
<1>6. C[0] = {} /\ \A k \in 1..Len(ms) : C[k] = {k} \cup C[ms[k].pred]
  <2>1. C = [k \in 0..Len(ms) |-> IF k = 0 THEN {} ELSE {k} \cup C[ms[k].pred]]
    BY <1>5 DEF Rec
  <2>2. \A k \in 0..Len(ms) : C[k] = IF k = 0 THEN {} ELSE {k} \cup C[ms[k].pred]
    <3> DEFINE F == [k \in 0..Len(ms) |-> IF k = 0 THEN {} ELSE {k} \cup C[ms[k].pred]]
    <3>1. \A k \in 0..Len(ms) : F[k] = IF k = 0 THEN {} ELSE {k} \cup C[ms[k].pred]
      OBVIOUS
    <3> HIDE DEF F
    <3> QED  BY <2>1, <3>1 DEF F
  <2>3. C[0] = {}
    <3>1. 0 \in 0..Len(ms)  OBVIOUS
    <3> QED  BY <2>2, <3>1
  <2>4. ASSUME NEW k \in 1..Len(ms) PROVE C[k] = {k} \cup C[ms[k].pred]
    <3>1. k \in 0..Len(ms) /\ k # 0  OBVIOUS
    <3> QED  BY <2>2, <3>1
  <2> QED  BY <2>3, <2>4
<1>7. missing = {}
  <2>1. SUFFICES ASSUME missing # {} PROVE FALSE  OBVIOUS
  <2>2. missing \in SUBSET Nat  OBVIOUS
  <2>3. IsWellFoundedOn(R, Nat)  BY NatLessThanWellFounded
  <2>4. \A x, y \in Nat : <<x, y>> \in R <=> x < y  BY DEF OpToRel
  <2> HIDE DEF R
  <2>5. PICK x \in missing : \A y \in missing : ~ (<<y, x>> \in R)
    <3> HIDE DEF missing
    <3> QED  BY <2>1, <2>2, <2>3, WFMin
  <2>6. x \in 1..Len(ms)
    <3>1. x \in 0..Len(ms) /\ C[x] # Line(ms, x)  BY <2>5
    <3>2. x # 0  BY <1>3, <1>6, <3>1
    <3> QED  BY <3>1, <3>2
  <2>7. ms[x].pred \in 0..(x - 1) /\ Line(ms, x) = {x} \cup Line(ms, ms[x].pred)
    BY <1>2, <2>6, LineUnfolds
  <2>8. C[x] = {x} \cup C[ms[x].pred]  BY <1>6, <2>6
  <2>9. ms[x].pred \notin missing
    <3>1. ms[x].pred \in Nat /\ x \in Nat /\ ms[x].pred < x  BY <2>6, <2>7
    <3> QED  BY <2>4, <2>5, <3>1
  <2>10. C[ms[x].pred] = Line(ms, ms[x].pred)  BY <2>6, <2>7, <2>9
  <2> QED  BY <2>5, <2>7, <2>8, <2>10
<1> QED  BY <1>1, <1>7

\* A later capture changes nothing of what an earlier one follows.
LEMMA LineStays ==
  ASSUME NEW ms, NEW m, Len(ms) \in Nat, NEW n \in 0..Len(ms),
         \A i \in 1..Len(ms) : m[i] = ms[i]
  PROVE  Line(m, n) = Line(ms, n)
<1>1. \A D \in SUBSET (1..n) : Closed(m, D) <=> Closed(ms, D)
  <2>1. \A k \in 1..n : m[k] = ms[k]  OBVIOUS
  <2> QED  BY <2>1 DEF Closed
<1> QED  BY <1>1 DEF Line

-----------------------------------------------------------------------------
(* Steps that leave the tables alone.                                      *)

FreeIn(ms, i, key) == (CHOOSE r \in ms[i].records : Key(r) = key).free
ChangesOf(ms, rc, i0, key) ==
  {i \in LinesOf(ms)[i0] :
     /\ {<<i, key>>, <<ms[i].pred, key>>} \subseteq rc
     /\ FreeIn(ms, i, key) # FreeIn(ms, ms[i].pred, key)}

LEMMA ChangesAre ==
  \A key : /\ Changes(key) = ChangesOf(manifests, receipts, binding[key].snapshot, key)
           /\ Changes(key)' = ChangesOf(manifests', receipts', (binding')[key].snapshot, key)
BY DEF Changes, ChangesOf, FreeAt, FreeIn, Ancestors, LinesOf

LEMMA StoredStays ==
  ASSUME Stored, UNCHANGED <<manifests, target, binding, receipts, foreign>>
  PROVE  Stored'
<1>1. TablesOK'  BY DEF Stored, TablesOK, StoredRow, IdOf
<1>2. \A key \in DOMAIN binding : BoundOK(key)'
  BY DEF Stored, BoundOK, LoadedFrom, IdOf, StoredRow
<1>3. \A key \in DOMAIN binding : VersionOK(key)'
  <2>1. \A key : Changes(key)' = Changes(key)  BY ChangesAre
  <2> QED  BY <2>1 DEF Stored, VersionOK
<1> QED  BY <1>1, <1>2, <1>3 DEF Stored

LEMMA SourceIs ==
  ASSUME LogOK
  PROVE  Source \in SourceStates /\ Len(log) \in 1..Len(log)
BY DEF LogOK, Source, Last

LEMMA EditKeeps ==
  ASSUME LoadInv, NEW s \in SourceStates, Edit(s)
  PROVE  LoadInv'
<1>1. UNCHANGED <<manifests, run, target, binding, receipts, foreign>>  BY DEF Edit
<1>2. Stored' /\ ManifestsOK'  BY <1>1, StoredStays DEF LoadInv, ManifestsOK
<1>3. log' = IF Freezing THEN Append(log, s) ELSE <<s>>  BY DEF Edit
<1>4. Freezing' <=> Freezing  BY <1>1 DEF Freezing
<1>5. log \in Seq(SourceStates) /\ Len(log) \in Nat \ {0} /\ (~Freezing => Len(log) = 1)
  BY DEF LoadInv, LogOK
<1>6. log' \in Seq(SourceStates) /\ Len(log') \in Nat \ {0} /\ Len(log') >= Len(log)
      /\ (~Freezing => Len(log') = 1)
  <2>1. CASE Freezing
    <3>1. log' = Append(log, s)  BY <1>3, <2>1
    <3>2. log' \in Seq(SourceStates) /\ Len(log') = Len(log) + 1
      BY <1>5, <3>1, AppendProperties
    <3> QED  BY <1>5, <2>1, <3>2
  <2>2. CASE ~Freezing
    <3>1. log' = <<s>> /\ Len(log) = 1  BY <1>3, <1>5, <2>2
    <3> QED  BY <3>1
  <2> QED  BY <2>1, <2>2
<1>7. LogOK'  BY <1>4, <1>6 DEF LogOK
<1>8. RunOK'
  <2>1. 1..Len(log) \subseteq 1..Len(log')  BY <1>5, <1>6
  <2>2. Scans \subseteq Scans'  BY <1>1, <2>1 DEF Scans
  <2>3. Loads' = Loads /\ Reports' = Reports  BY <1>1 DEF Loads, Reports
  <2> QED  BY <1>1, <2>2, <2>3 DEF LoadInv, RunOK
<1> QED  BY <1>2, <1>7, <1>8 DEF LoadInv

LEMMA EditsKeep ==
  ASSUME LoadInv, EditReservation \/ EditCleaning \/ EditAssignment
  PROVE  LoadInv'
<1>1. Source \in SourceStates  BY SourceIs DEF LoadInv
<1>2. CASE EditReservation
  <2>1. PICK v \in ReservationStatuses : Edit([Source EXCEPT !.reservation = v])
    BY <1>2 DEF EditReservation
  <2>2. [Source EXCEPT !.reservation = v] \in SourceStates  BY <1>1 DEF SourceStates
  <2> QED  BY <2>1, <2>2, EditKeeps
<1>3. CASE EditCleaning
  <2>1. PICK w \in Windows : Edit([Source EXCEPT !.window = w])
    BY <1>3 DEF EditCleaning
  <2>2. [Source EXCEPT !.window = w] \in SourceStates  BY <1>1 DEF SourceStates
  <2> QED  BY <2>1, <2>2, EditKeeps
<1>4. CASE EditAssignment
  <2>0. PICK a \in AssignmentPages : \E stage \in NextStage(Source.stage[a]) :
           Edit([Source EXCEPT !.stage[a] = stage])
    BY <1>4 DEF EditAssignment
  <2>1. PICK stage \in NextStage(Source.stage[a]) : Edit([Source EXCEPT !.stage[a] = stage])
    BY <2>0
  <2>2. Source.stage[a] \in Stages  BY <1>1 DEF SourceStates
  <2>3. stage \in Stages  BY <2>1, <2>2 DEF NextStage, Stages
  <2>4. [Source EXCEPT !.stage[a] = stage] \in SourceStates
    BY <1>1, <2>3 DEF SourceStates
  <2> QED  BY <2>1, <2>4, EditKeeps
<1> QED  BY <1>2, <1>3, <1>4

\* A run that begins or ends.
LEMMA StartKeeps ==
  ASSUME LoadInv, Capture \/ Backfill
  PROVE  LoadInv'
<1>1. UNCHANGED <<sources, manifests, target, binding, receipts, foreign>>
  BY DEF Capture, Backfill
<1>2. Stored' /\ ManifestsOK'  BY <1>1, StoredStays DEF LoadInv, ManifestsOK
<1>3. run = Idle  BY DEF Capture, Backfill
<1>4. log \in Seq(SourceStates) /\ Len(log) = 1 /\ log' = log
  BY <1>1, <1>3 DEF LoadInv, LogOK, Freezing, Idle, sources
<1>5. LogOK'
  <2>1. log' \in Seq(SourceStates) /\ Len(log') = 1  BY <1>4
  <2> QED  BY <2>1 DEF LogOK
<1>6. PICK purpose \in {"freeze", "apply"}, i \in 0..Len(manifests) :
        run' = Scan(purpose, i) /\ (purpose = "apply" => i \in DOMAIN manifests)
  BY DEF Capture, Backfill, LoadInv, ManifestsOK
<1>7. OncePerKey({})  BY DEF OncePerKey
<1>8. RunOK'
  <2>1. run' \in Scans' /\ run'.got = {} /\ run'.next = 1
        /\ (run'.purpose = "apply" => run'.manifest \in DOMAIN manifests')
    BY <1>1, <1>4, <1>6 DEF Scan, Scans
  <2> QED  BY <1>7, <2>1 DEF RunOK, FromFirst
<1> QED  BY <1>2, <1>5, <1>8 DEF LoadInv

LEMMA EndKeeps ==
  ASSUME LoadInv, ScanFails \/ RefuseRow \/ Reconcile \/ RunDies
  PROVE  LoadInv'
<1>1. UNCHANGED <<edits, manifests, target, binding, receipts, foreign>> /\ run' = Idle
  BY DEF ScanFails, RefuseRow, Reconcile, RunDies, sources
<1>2. Stored' /\ ManifestsOK'  BY <1>1, StoredStays DEF LoadInv, ManifestsOK
<1>3. RunOK'  BY <1>1 DEF RunOK
<1>4. Source \in SourceStates  BY SourceIs DEF LoadInv
<1>5. CASE log' = <<Source>>
  BY <1>2, <1>3, <1>4, <1>5 DEF LoadInv, LogOK
<1>6. CASE log' = log /\ ~Freezing
  BY <1>2, <1>3, <1>6 DEF LoadInv, LogOK
<1>7. RefuseRow \/ Reconcile => ~Freezing /\ log' = log
  BY DEF RefuseRow, Reconcile, Applying, Freezing, sources
<1>8. ScanFails \/ RunDies => log' = <<Source>>
  BY DEF ScanFails, RunDies
<1> QED  BY <1>5, <1>6, <1>7, <1>8

LEMMA ReadingIs ==
  ASSUME LoadInv, Reading
  PROVE  /\ run \in Scans
         /\ run.purpose = "apply" => run.manifest \in DOMAIN manifests
         /\ FromFirst(run.next, Got) /\ Got \subseteq SourceRows
         /\ ScanStart \in 1..Len(log)
<1>1. /\ run \in Scans
      /\ run.purpose = "apply" => run.manifest \in DOMAIN manifests
      /\ FromFirst(run.next - 1, run.got)
  BY DEF LoadInv, RunOK, Reading, Idle, Loads, Reports
<1>2. Source \in SourceStates /\ Len(log) \in 1..Len(log)  BY SourceIs DEF LoadInv
<1>3. run.next \in 1..4 /\ run.next - 1 \in 0..3 /\ (run.next - 1) + 1 = run.next
      /\ run.mark \in 1..Len(log)
  BY <1>1 DEF Scans
<1>4. FromFirst((run.next - 1) + 1, run.got \cup Observe(Sources[(run.next - 1) + 1], Source))
  BY <1>1, <1>2, <1>3, OneSourceMore
<1>5. FromFirst(run.next, Got)  BY <1>3, <1>4 DEF Got
<1>6. Got \subseteq SourceRows  BY <1>5 DEF FromFirst, OncePerKey
<1>7. ScanStart \in 1..Len(log)  BY <1>2, <1>3 DEF ScanStart
<1> QED  BY <1>1, <1>5, <1>6, <1>7

LEMMA ScanSourceKeeps ==
  ASSUME LoadInv, ScanSource
  PROVE  LoadInv'
<1>1. UNCHANGED <<log, manifests, target, binding, receipts, foreign>> /\ Reading
      /\ ~LastSource /\ run' = [run EXCEPT !.next = @ + 1, !.got = Got, !.mark = ScanStart]
  BY DEF ScanSource, sources, Readable
<1>2. Stored' /\ ManifestsOK'  BY <1>1, StoredStays DEF LoadInv, ManifestsOK
<1>3. /\ run \in Scans
      /\ run.purpose = "apply" => run.manifest \in DOMAIN manifests
      /\ FromFirst(run.next, Got) /\ Got \subseteq SourceRows
      /\ ScanStart \in 1..Len(log)
  BY <1>1, ReadingIs
<1>4. run.next \in 1..3
  BY <1>1, <1>3 DEF LastSource, Sources, Scans
<1>5. /\ run' \in Scans /\ run'.got = Got /\ run'.next = run.next + 1
      /\ run'.purpose = run.purpose /\ run'.manifest = run.manifest /\ run'.at = run.at
  <2>1. run' = [at |-> run.at, purpose |-> run.purpose, manifest |-> run.manifest,
                next |-> run.next + 1, got |-> Got, previous |-> run.previous,
                passes |-> run.passes, mark |-> ScanStart]
    BY <1>1, <1>3 DEF Scans
  <2>2. /\ run.at = "scan" /\ run.purpose \in {"freeze", "apply"}
        /\ run.manifest \in 0..Len(manifests) /\ run.next + 1 \in 1..4
        /\ run.previous \in SUBSET (SUBSET SourceRows) /\ run.passes \in Nat
    BY <1>3, <1>4 DEF Scans
  <2>3. run' \in Scans
    BY ONLY <1>3, <2>1, <2>2 DEF Scans
  <2> QED  BY <2>1, <2>3
<1>6. Scans' = Scans  BY <1>1 DEF Scans
<1>7. run'.next - 1 = run.next  BY <1>4, <1>5
<1>8. RunOK'  BY <1>1, <1>3, <1>5, <1>6, <1>7 DEF RunOK
<1>9. LogOK'  BY <1>1, <1>5 DEF LoadInv, LogOK, Freezing
<1> QED  BY <1>2, <1>8, <1>9 DEF LoadInv

LEMMA ScanAgainKeeps ==
  ASSUME LoadInv, ScanAgain
  PROVE  LoadInv'
<1>1. UNCHANGED <<manifests, target, binding, receipts, foreign>> /\ Reading
      /\ run' = [run EXCEPT !.next = 1, !.got = {}, !.previous = {Got},
                            !.passes = @ + 1, !.mark = 1]
      /\ log' = SubSeq(log, ScanStart, Len(log))
  BY DEF ScanAgain, Readable
<1>2. Stored' /\ ManifestsOK'  BY <1>1, StoredStays DEF LoadInv, ManifestsOK
<1>3. /\ run \in Scans
      /\ run.purpose = "apply" => run.manifest \in DOMAIN manifests
      /\ FromFirst(run.next, Got) /\ Got \subseteq SourceRows
      /\ ScanStart \in 1..Len(log)
  BY <1>1, ReadingIs
<1>4. log \in Seq(SourceStates) /\ Len(log) \in Nat \ {0} /\ (~Freezing => Len(log) = 1)
  BY DEF LoadInv, LogOK
<1>5. /\ log' \in Seq(SourceStates) /\ Len(log') = Len(log) - ScanStart + 1
  <2>1. \A n \in ScanStart..Len(log) : log[n] \in SourceStates  BY <1>3, <1>4
  <2>2. ScanStart \in Int /\ Len(log) \in Int /\ ScanStart <= Len(log)  BY <1>3, <1>4
  <2> HIDE DEF ScanStart
  <2> QED  BY <1>1, <2>1, <2>2, SubSeqProperties
<1>6. Len(log') \in Nat \ {0} /\ (~Freezing => Len(log') = 1) /\ 1 \in 1..Len(log')
  <2>1. Len(log') = Len(log) - ScanStart + 1 /\ ScanStart \in 1..Len(log) /\ Len(log) \in Nat
    BY <1>3, <1>4, <1>5
  <2>2. Len(log') \in Nat \ {0}  BY ONLY <2>1
  <2>3. Len(log) = 1 => Len(log') = 1  BY ONLY <2>1
  <2> QED  BY <1>4, <2>2, <2>3
<1>7. /\ run' \in Scans' /\ run'.got = {} /\ run'.next = 1
      /\ run'.purpose = run.purpose /\ run'.manifest = run.manifest /\ run'.at = run.at
  <2>1. run.passes + 1 \in Nat /\ {Got} \subseteq SUBSET SourceRows  BY <1>3 DEF Scans
  <2>2. run' = [at |-> run.at, purpose |-> run.purpose, manifest |-> run.manifest,
                next |-> 1, got |-> {}, previous |-> {Got}, passes |-> run.passes + 1,
                mark |-> 1]
    BY <1>1, <1>3 DEF Scans
  <2>3. /\ run.at = "scan" /\ run.purpose \in {"freeze", "apply"}
        /\ run.manifest \in 0..Len(manifests) /\ 1 \in 1..4 /\ manifests' = manifests
        /\ {Got} \in SUBSET (SUBSET SourceRows) /\ {} \in SUBSET SourceRows
    BY <1>1, <1>3, <2>1 DEF Scans
  <2>4. run' \in Scans'
    BY ONLY <1>6, <2>1, <2>2, <2>3 DEF Scans
  <2> QED  BY <2>2, <2>4
<1>8. OncePerKey({})  BY DEF OncePerKey
<1>9. RunOK'  BY <1>1, <1>3, <1>7, <1>8 DEF RunOK, FromFirst
<1>10. LogOK'  BY <1>5, <1>6, <1>7 DEF LogOK, Freezing
<1> QED  BY <1>2, <1>9, <1>10 DEF LoadInv

LEMMA ChangesStay ==
  ASSUME NEW ms, NEW m, Len(ms) \in Nat, Len(m) \in Nat, Len(ms) <= Len(m),
         Chained(ms), Chained(m), \A i \in 1..Len(ms) : m[i] = ms[i],
         NEW rc, NEW key, \A i : <<i, key>> \in rc => i \in 1..Len(ms),
         NEW i0 \in 0..Len(ms)
  PROVE  ChangesOf(m, rc, i0, key) = ChangesOf(ms, rc, i0, key)
<1>1. LinesOf(ms)[i0] = Line(ms, i0)  BY LinesAre
<1>2. i0 \in 0..Len(m)  OBVIOUS
<1>3. LinesOf(m)[i0] = Line(m, i0)  BY <1>2, LinesAre
<1>4. Line(m, i0) = Line(ms, i0)  BY LineStays
<1>5. Line(ms, i0) \subseteq 1..Len(ms)  BY DEF Line
<1>6. \A i \in Line(ms, i0) : m[i].pred = ms[i].pred /\ FreeIn(m, i, key) = FreeIn(ms, i, key)
  BY <1>5 DEF FreeIn
<1>7. \A i \in Line(ms, i0) : <<ms[i].pred, key>> \in rc =>
         FreeIn(m, ms[i].pred, key) = FreeIn(ms, ms[i].pred, key)
  BY DEF FreeIn
<1> QED  BY <1>1, <1>3, <1>4, <1>6, <1>7 DEF ChangesOf

LEMMA ManifestsAre ==
  ASSUME ManifestsOK
  PROVE  /\ Len(manifests) \in Nat /\ DOMAIN manifests = 1..Len(manifests)
         /\ Chained(manifests)
         /\ \A i \in DOMAIN manifests : OncePerKey(manifests[i].records)
BY DEF ManifestsOK, Chained

LEMMA BoundAre ==
  ASSUME LoadInv
  PROVE  \A key \in DOMAIN binding : BoundOK(key) /\ VersionOK(key)
BY DEF LoadInv, Stored

LEMMA FreezeKeeps ==
  ASSUME LoadInv, Freeze
  PROVE  LoadInv'
<1> DEFINE new == [records |-> Population(Got), pred |-> run.manifest]
<1>1. UNCHANGED <<target, binding, receipts, foreign>> /\ Reading /\ LastSource
      /\ manifests' = Append(manifests, new) /\ run' = Idle /\ log' = <<Source>>
  BY DEF Freeze, Extracted, Readable
<1>2. run \in Scans /\ FromFirst(run.next, Got)  BY <1>1, ReadingIs
<1>3. OncePerKey(Population(Got))
  <2>1. OncePerKey(Got)  BY <1>2 DEF FromFirst
  <2> QED  BY <2>1, PopulationIs
<1>4. manifests \in Seq([records : SUBSET SourceRows, pred : Nat]) /\ Len(manifests) \in Nat
      /\ DOMAIN manifests = 1..Len(manifests) /\ Chained(manifests)
  BY ManifestsAre DEF LoadInv, ManifestsOK
<1>5. new.records = Population(Got) /\ new.pred \in 0..Len(manifests)
  BY <1>2 DEF Scans
<1>6. new \in [records : SUBSET SourceRows, pred : Nat]
  BY <1>3, <1>4, <1>5 DEF OncePerKey
<1> HIDE DEF new
<1>7. /\ manifests' \in Seq([records : SUBSET SourceRows, pred : Nat])
      /\ Len(manifests') = Len(manifests) + 1
      /\ \A i \in 1..Len(manifests) : manifests'[i] = manifests[i]
      /\ manifests'[Len(manifests) + 1] = new
  BY <1>1, <1>4, <1>6, AppendProperties
<1>8. /\ DOMAIN manifests' = 1..Len(manifests) + 1 /\ Len(manifests') \in Nat
      /\ DOMAIN manifests \subseteq DOMAIN manifests'
      /\ \A i \in DOMAIN manifests' : i \in DOMAIN manifests \/ i = Len(manifests) + 1
  BY <1>4, <1>7
<1>9. ManifestsOK'
  <2>1. \A i \in DOMAIN manifests :
          manifests'[i].pred \in 0..(i - 1) /\ OncePerKey(manifests'[i].records)
    BY <1>4, <1>7 DEF LoadInv, ManifestsOK
  <2>2. manifests'[Len(manifests) + 1].pred \in 0..((Len(manifests) + 1) - 1)
        /\ OncePerKey(manifests'[Len(manifests) + 1].records)
    BY <1>3, <1>4, <1>5, <1>7
  <2> QED  BY <1>7, <1>8, <2>1, <2>2 DEF ManifestsOK
<1>10. TablesOK'
  BY <1>1, <1>8 DEF LoadInv, Stored, TablesOK, StoredRow, IdOf
<1>11. ASSUME NEW key \in DOMAIN binding PROVE BoundOK(key)'
  <2>1. BoundOK(key)  BY DEF LoadInv, Stored
  <2>2. binding[key].snapshot \in DOMAIN manifests /\ binding[key].snapshot \in DOMAIN manifests'
        /\ manifests'[binding[key].snapshot] = manifests[binding[key].snapshot]
    BY <1>4, <1>7, <1>8, <2>1 DEF BoundOK
  <2>3. IdOf(key)' = IdOf(key)  BY <1>1 DEF IdOf
  <2>4. \A r : LoadedFrom(key, r)' <=> LoadedFrom(key, r)  BY <1>1, <2>3 DEF LoadedFrom
  <2> QED  BY <1>1, <2>1, <2>2, <2>3, <2>4 DEF BoundOK
<1>12. ASSUME NEW key \in DOMAIN binding PROVE VersionOK(key)'
  <2>1. VersionOK(key)  BY ONLY LoadInv, BoundAre, key \in DOMAIN binding
  <2>2. Chained(manifests')
    <3>1. \A i \in DOMAIN manifests' : manifests'[i].pred \in 0..(i - 1)
      BY ONLY <1>9 DEF ManifestsOK
    <3>2. DOMAIN manifests' = 1..Len(manifests')  BY ONLY <1>7, <1>8
    <3> QED  BY ONLY <3>1, <3>2 DEF Chained
  <2>3. \A i : <<i, key>> \in receipts => i \in 1..Len(manifests)
    BY <1>4 DEF LoadInv, Stored, TablesOK
  <2>4. binding[key].snapshot \in 0..Len(manifests)
    <3>1. BoundOK(key)  BY DEF LoadInv, Stored
    <3>2. binding[key].snapshot \in 1..Len(manifests)  BY <1>4, <3>1 DEF BoundOK
    <3> QED  BY <3>2
  <2>5. ChangesOf(manifests', receipts, binding[key].snapshot, key)
          = ChangesOf(manifests, receipts, binding[key].snapshot, key)
    <3>1. Len(manifests) <= Len(manifests') /\ Len(manifests') \in Nat  BY <1>4, <1>7, <1>8
    <3> HIDE DEF Chained, ChangesOf
    <3>2. ASSUME NEW m, Len(m) \in Nat, Len(manifests) <= Len(m), Chained(m),
                 \A i \in 1..Len(manifests) : m[i] = manifests[i]
          PROVE  ChangesOf(m, receipts, binding[key].snapshot, key)
                   = ChangesOf(manifests, receipts, binding[key].snapshot, key)
      <4>1. Len(manifests) \in Nat /\ Chained(manifests)  BY <1>4
      <4> QED  BY ONLY <2>3, <2>4, <3>2, <4>1, ChangesStay
    <3> QED  BY <1>7, <2>2, <3>1, <3>2
  <2>6. Changes(key)' = Changes(key)  BY <1>1, <2>5, ChangesAre
  <2> QED  BY <1>1, <2>1, <2>6 DEF VersionOK
<1>13. Stored'  BY <1>1, <1>10, <1>11, <1>12 DEF Stored
<1>14. LogOK' /\ RunOK'
  <2>1. Source \in SourceStates  BY SourceIs DEF LoadInv
  <2> QED  BY <1>1, <2>1 DEF LogOK, RunOK
<1> QED  BY <1>9, <1>13, <1>14 DEF LoadInv

LEMMA ReceiptsStay ==
  ASSUME NEW ms, NEW rc, NEW more, NEW key, NEW i0,
         \A i : <<i, key>> \in more <=> <<i, key>> \in rc
  PROVE  ChangesOf(ms, more, i0, key) = ChangesOf(ms, rc, i0, key)
BY DEF ChangesOf

LEMMA AuthoriseKeeps ==
  ASSUME LoadInv, Authorise
  PROVE  LoadInv'
<1> DEFINE i == run.manifest
           records == manifests[i].records
<1>1. UNCHANGED <<sources, manifests, target, binding, foreign>> /\ Reading
      /\ run.purpose = "apply"
  BY DEF Authorise, Extracted, Readable
<1>2. run \in Scans /\ i \in DOMAIN manifests  BY <1>1, ReadingIs
<1>3. ~Freezing /\ log' = log  BY <1>1 DEF Freezing, sources
<1>4. LogOK'  BY <1>3 DEF LoadInv, LogOK
<1>5. ManifestsOK'  BY <1>1 DEF LoadInv, ManifestsOK
<1>6. CASE run' = Idle /\ UNCHANGED receipts
  <2>1. Stored'  BY <1>1, <1>6, StoredStays DEF LoadInv
  <2> QED  BY <1>4, <1>5, <1>6, <2>1 DEF LoadInv, RunOK
<1>7. CASE /\ receipts' = receipts \cup {SnapshotReceipt(i)}
           /\ run' = [at |-> "apply", manifest |-> i, todo |-> Todo(records)]
  <2>1. OncePerKey(records)  BY <1>2 DEF LoadInv, ManifestsOK
  <2>2. Todo(records) \in Seq(records) /\ records \subseteq SourceRows
    BY <2>1, TodoIs DEF OncePerKey
  <2> HIDE DEF records
  <2>3. run' \in Loads' /\ \A n \in DOMAIN run'.todo : run'.todo[n] \in records
    BY <1>1, <1>2, <1>7, <2>2 DEF Loads
  <2>4. RunOK'  BY <1>1, <1>7, <2>3 DEF RunOK, records
  <2>5. TablesOK'
    BY <1>1, <1>2, <1>7 DEF LoadInv, Stored, TablesOK, StoredRow, IdOf, SnapshotReceipt
  <2>6. \A key \in DOMAIN binding : BoundOK(key)'
    BY <1>1, <1>7 DEF LoadInv, Stored, BoundOK, LoadedFrom, IdOf, StoredRow
  <2>7. \A key \in DOMAIN binding : VersionOK(key)'
    <3>1. SUFFICES ASSUME NEW key \in DOMAIN binding, key[1] = "reservation"
                   PROVE  Changes(key)' = Changes(key)
      BY <1>1 DEF LoadInv, Stored, VersionOK
    <3>2. key # <<"snapshot", 0>>  BY <3>1
    <3>3. \A k : <<k, key>> \in receipts' <=> <<k, key>> \in receipts
      BY <1>7, <3>2 DEF SnapshotReceipt
    <3>4. ChangesOf(manifests, receipts', binding[key].snapshot, key)
            = ChangesOf(manifests, receipts, binding[key].snapshot, key)
      BY <3>3, ReceiptsStay
    <3> QED  BY <1>1, <3>4, ChangesAre
  <2>8. Stored'  BY <1>1, <2>5, <2>6, <2>7 DEF Stored
  <2> QED  BY <1>4, <1>5, <2>4, <2>8 DEF LoadInv
<1> QED  BY <1>6, <1>7 DEF Authorise

LEMMA ApplyingIs ==
  ASSUME LoadInv, Applying
  PROVE  /\ run \in Loads /\ run.manifest \in DOMAIN manifests /\ run.todo \in Seq(SourceRows)
         /\ \A n \in DOMAIN run.todo : run.todo[n] \in manifests[run.manifest].records
BY DEF LoadInv, RunOK, Applying, Idle, Scans, Loads, Reports

LEMMA FinishKeeps ==
  ASSUME LoadInv, FinishApply
  PROVE  LoadInv'
<1>1. UNCHANGED <<sources, manifests, target, binding, receipts, foreign>> /\ Applying
      /\ run' = [at |-> "report", manifest |-> run.manifest]
  BY DEF FinishApply
<1>2. Stored' /\ ManifestsOK'  BY <1>1, StoredStays DEF LoadInv, ManifestsOK
<1>3. LogOK'  BY <1>1 DEF LoadInv, LogOK, Freezing, Applying, sources
<1>4. RunOK'
  <2>1. run' \in Reports'  BY <1>1, ApplyingIs DEF Reports
  <2> QED  BY <2>1 DEF RunOK
<1> QED  BY <1>2, <1>3, <1>4 DEF LoadInv

\* Somebody else's write parts the row from what the migration knows of it.
LEMMA ForeignWriteKeeps ==
  ASSUME LoadInv, ForeignWrite
  PROVE  LoadInv'
<1> DEFINE id == RowId("reservation", 0)
           new == IF id \in DOMAIN target
                  THEN [target[id] EXCEPT !.free = Other(@), !.version = @ + 1]
                  ELSE [fixed |-> "-", free |-> "CONFIRMED", no |-> 0, version |-> 1]
<1>1. /\ UNCHANGED <<sources, manifests, run, binding, receipts>> /\ id \notin DOMAIN foreign
      /\ target' = Put(target, id, new) /\ foreign' = Put(foreign, id, new)
  BY DEF ForeignWrite
<1>2. StoredRow(new) /\ (id \in DOMAIN target => new.version # target[id].version)
  <2>1. CASE id \in DOMAIN target
    <3>1. StoredRow(target[id])  BY <2>1 DEF LoadInv, Stored, TablesOK
    <3>2. new = [target[id] EXCEPT !.free = Other(@), !.version = @ + 1]  BY <2>1
    <3> HIDE DEF new, id
    <3> QED  BY <3>1, <3>2 DEF StoredRow
  <2>2. CASE id \notin DOMAIN target
    <3>1. new = [fixed |-> "-", free |-> "CONFIRMED", no |-> 0, version |-> 1]  BY <2>2
    <3> HIDE DEF new, id
    <3> QED  BY <2>2, <3>1 DEF StoredRow
  <2> QED  BY <2>1, <2>2
<1> HIDE DEF new, id
<1>3. /\ DOMAIN target' = DOMAIN target \cup {id} /\ target'[id] = new
      /\ \A x \in DOMAIN target : x # id => target'[x] = target[x]
      /\ DOMAIN foreign' = DOMAIN foreign \cup {id} /\ foreign'[id] = new
      /\ \A x \in DOMAIN foreign : x # id => foreign'[x] = foreign[x]
  <2>1. /\ DOMAIN Put(target, id, new) = DOMAIN target \cup {id} /\ Put(target, id, new)[id] = new
        /\ \A x \in DOMAIN target : x # id => Put(target, id, new)[x] = target[x]
    BY DEF Put
  <2>2. /\ DOMAIN Put(foreign, id, new) = DOMAIN foreign \cup {id}
        /\ Put(foreign, id, new)[id] = new
        /\ \A x \in DOMAIN foreign : x # id => Put(foreign, id, new)[x] = foreign[x]
    BY DEF Put
  <2> QED  BY <1>1, <2>1, <2>2
<1>4. ManifestsOK' /\ LogOK' /\ RunOK'
  BY <1>1 DEF LoadInv, ManifestsOK, LogOK, RunOK, Freezing, Scans, Loads, Reports, sources
<1>5. \A key : IdOf(key)' = IdOf(key)  BY <1>1 DEF IdOf
<1>6. TablesOK'
  BY <1>1, <1>2, <1>3, <1>5 DEF LoadInv, Stored, TablesOK
<1>7. \A key \in DOMAIN binding : BoundOK(key)'
  <2>1. SUFFICES ASSUME NEW key \in DOMAIN binding PROVE BoundOK(key)'
    OBVIOUS
  <2>2. BoundOK(key)  BY DEF LoadInv, Stored
  <2>3. binding[key].target = target'[IdOf(key)] <=> IdOf(key) \notin DOMAIN foreign'
    <3>1. CASE IdOf(key) = id
      <4>1. binding[key].target = target[id] /\ id \in DOMAIN target
        BY <1>1, <2>2, <3>1 DEF BoundOK
      <4> QED  BY <1>2, <1>3, <3>1, <4>1
    <3>2. CASE IdOf(key) # id
      BY <1>3, <2>2, <3>2 DEF BoundOK
    <3> QED  BY <3>1, <3>2
  <2>4. \A r : LoadedFrom(key, r)' <=> LoadedFrom(key, r)  BY <1>1 DEF LoadedFrom, IdOf
  <2> QED  BY <1>1, <1>3, <1>5, <2>2, <2>3, <2>4 DEF BoundOK
<1>8. \A key \in DOMAIN binding : VersionOK(key)'
  <2>1. \A key : Changes(key)' = Changes(key)  BY <1>1, ChangesAre
  <2> QED  BY <1>1, <2>1 DEF LoadInv, Stored, VersionOK
<1> QED  BY <1>1, <1>4, <1>6, <1>7, <1>8 DEF LoadInv, Stored

-----------------------------------------------------------------------------
(* Loading one row.                                                        *)

LEMMA FreeIs ==
  ASSUME NEW ms, NEW i, OncePerKey(ms[i].records), NEW r \in ms[i].records
  PROVE  FreeIn(ms, i, Key(r)) = r.free
<1>1. \A q \in ms[i].records : Key(q) = Key(r) => q = r  BY DEF OncePerKey
<1>2. (CHOOSE q \in ms[i].records : Key(q) = Key(r)) = r
  <2> HIDE DEF Key
  <2> QED  BY <1>1
<1> QED  BY <1>2 DEF FreeIn

\* The first load of a key is no change.
LEMMA ChangesFirst ==
  ASSUME NEW ms, Len(ms) \in Nat, Chained(ms), NEW i \in 1..Len(ms), NEW rc, NEW key,
         \A j : <<j, key>> \in rc => j = i
  PROVE  ChangesOf(ms, rc, i, key) = {}
<1>1. ms[i].pred # i  BY DEF Chained
<1> QED  BY <1>1 DEF ChangesOf

\* The load of the next manifest of the chain is one, if the row changed.
OneMoreChange(ms, i, rc, more, key) ==
  LET p == ms[i].pred
      old == ChangesOf(ms, rc, p, key)
  IN  /\ IsFiniteSet(old) /\ i \notin old
      /\ ChangesOf(ms, more, i, key) =
           IF FreeIn(ms, i, key) # FreeIn(ms, p, key) THEN old \cup {i} ELSE old

LEMMA ChangesGrow ==
  ASSUME NEW ms, Len(ms) \in Nat, Chained(ms), NEW i \in 1..Len(ms), NEW rc, NEW key,
         <<ms[i].pred, key>> \in rc, NEW more, more = rc \cup {<<i, key>>}
  PROVE  OneMoreChange(ms, i, rc, more, key)
<1> DEFINE p == ms[i].pred
           old == ChangesOf(ms, rc, p, key)
<1>1. p \in 0..(i - 1) /\ p \in 0..Len(ms) /\ i \in 0..Len(ms) /\ i \in Nat  BY DEF Chained
<1>2. LinesOf(ms)[i] = Line(ms, i) /\ LinesOf(ms)[p] = Line(ms, p)
  BY <1>1, LinesAre
<1>3. Line(ms, i) = {i} \cup Line(ms, p)  BY LineUnfolds
<1>4. Line(ms, p) \subseteq 1..p  BY DEF Line
<1>5. old \subseteq Line(ms, p)  BY <1>2 DEF ChangesOf
<1>6. i \notin Line(ms, p)  BY <1>1, <1>4
<1>7. IsFiniteSet(old)
  <2>1. IsFiniteSet(1..p)
    <3>1. \A a, b \in Int : IsFiniteSet(a..b)  BY FS_Interval
    <3> QED  BY <1>1, <3>1
  <2>2. old \in SUBSET (1..p)  BY <1>4, <1>5
  <2> HIDE DEF old, p
  <2> QED  BY <2>1, <2>2, FS_Subset
<1>8. \A j \in Line(ms, p) : /\ <<j, key>> \in more <=> <<j, key>> \in rc
                             /\ <<ms[j].pred, key>> \in more <=> <<ms[j].pred, key>> \in rc
  <2>1. SUFFICES ASSUME NEW j \in Line(ms, p) PROVE j # i /\ ms[j].pred # i
    OBVIOUS
  <2>2. j \in 1..p /\ j \in 1..Len(ms)  BY <1>1, <1>4, <2>1
  <2>3. ms[j].pred \in 0..(j - 1)  BY <2>2 DEF Chained
  <2> QED  BY <1>1, <2>2, <2>3
<1>9. {<<i, key>>, <<p, key>>} \subseteq more  OBVIOUS
<1>10. \A j : j \in ChangesOf(ms, more, i, key) <=>
          \/ j \in old
          \/ j = i /\ FreeIn(ms, i, key) # FreeIn(ms, p, key)
  <2>1. \A j : j \in ChangesOf(ms, more, i, key) <=>
          /\ j \in Line(ms, i) /\ {<<j, key>>, <<ms[j].pred, key>>} \subseteq more
          /\ FreeIn(ms, j, key) # FreeIn(ms, ms[j].pred, key)
    BY <1>2 DEF ChangesOf
  <2>2. \A j : j \in old <=>
          /\ j \in Line(ms, p) /\ {<<j, key>>, <<ms[j].pred, key>>} \subseteq rc
          /\ FreeIn(ms, j, key) # FreeIn(ms, ms[j].pred, key)
    BY <1>2 DEF ChangesOf
  <2> HIDE DEF old
  <2> QED  BY <1>3, <1>8, <1>9, <2>1, <2>2
<1> HIDE DEF old
<1>11. ChangesOf(ms, more, i, key) =
         IF FreeIn(ms, i, key) # FreeIn(ms, p, key) THEN old \cup {i} ELSE old
  <2> HIDE DEF p
  <2>1. CASE FreeIn(ms, i, key) # FreeIn(ms, p, key)
    <3>0. \A j : j \in ChangesOf(ms, more, i, key) <=> j \in old \cup {i}  BY <1>10, <2>1
    <3>1. ChangesOf(ms, more, i, key) = old \cup {i}  BY ONLY <3>0
    <3> QED  BY <2>1, <3>1
  <2>2. CASE FreeIn(ms, i, key) = FreeIn(ms, p, key)
    <3>1. ChangesOf(ms, more, i, key) = old  BY <1>10, <2>2
    <3> QED  BY <2>2, <3>1
  <2> QED  BY <2>1, <2>2
<1> QED  BY <1>5, <1>6, <1>7, <1>11 DEF old, OneMoreChange

\* The row at the head of a run, as the manifest has it and as it is written.
LEMMA RowToLoad ==
  ASSUME LoadInv, Applying, run.todo # <<>>
  PROVE  LET r == Head(run.todo)
             entry == NextRow
         IN  /\ run.manifest \in DOMAIN manifests /\ r \in manifests[run.manifest].records
             /\ Key(entry) = Key(r) /\ Id(entry) = Id(r)
             /\ entry.type = r.type /\ entry.fixed = r.fixed /\ entry.no = r.no
             /\ entry.free \in {r.free, Bootstrap(r).free}
             /\ Key(Hash(r)) = Key(r) /\ Id(Hash(r)) = Id(r)
             /\ Tail(run.todo) \in Seq(SourceRows)
             /\ \A n \in DOMAIN Tail(run.todo) :
                  Tail(run.todo)[n] \in manifests[run.manifest].records
<1> DEFINE r == Head(run.todo)
           records == manifests[run.manifest].records
<1>1. /\ run \in Loads /\ run.manifest \in DOMAIN manifests /\ run.todo \in Seq(SourceRows)
      /\ \A n \in DOMAIN run.todo : run.todo[n] \in records
  BY ApplyingIs
<1>2. run.todo \in Seq(records)  BY <1>1
<1>3. r \in records /\ Tail(run.todo) \in Seq(records)
  BY <1>2, HeadTailProperties
<1>4. records \subseteq SourceRows
  <2>1. OncePerKey(records)  BY <1>1, ManifestsAre DEF LoadInv
  <2> QED  BY <2>1 DEF OncePerKey
<1> HIDE DEF r, records
<1>5. r \in SourceRows  BY <1>3, <1>4
<1>6. Key(Hash(r)) = Key(r) /\ Id(Hash(r)) = Id(r)
  BY <1>5 DEF SourceRows, Hash, Key, Id
<1>7. LET b == Bootstrap(r)
      IN /\ Key(b) = Key(r) /\ Id(b) = Id(r) /\ b.type = r.type
         /\ b.fixed = r.fixed /\ b.no = r.no
  BY <1>5 DEF SourceRows, Bootstrap, Key, Id
<1>8. NextRow = r \/ NextRow = Bootstrap(r)  BY DEF NextRow, r
<1>9. LET entry == NextRow
      IN /\ Key(entry) = Key(r) /\ Id(entry) = Id(r)
         /\ entry.type = r.type /\ entry.fixed = r.fixed /\ entry.no = r.no
         /\ entry.free \in {r.free, Bootstrap(r).free}
  <2> HIDE DEF NextRow, Bootstrap, Key, Id
  <2> QED  BY <1>7, <1>8
<1>10. Tail(run.todo) \in Seq(SourceRows)
       /\ \A n \in DOMAIN Tail(run.todo) : Tail(run.todo)[n] \in records
  BY <1>3, <1>4
<1> QED  BY <1>1, <1>3, <1>6, <1>9, <1>10 DEF r, records

LEMMA IdGivesKey == \A r, q : Id(r) = Id(q) => Key(r) = Key(q)
BY DEF Id, Key

\* Nobody else wrote the row the load replaces.
LEMMA AttributedIs ==
  ASSUME LoadInv, NEW entry, SameTarget(entry), Attributed(entry)
  PROVE  LET key == Key(entry)
             id == Id(entry)
         IN  /\ id \notin DOMAIN foreign
             /\ key \in DOMAIN binding <=> id \in DOMAIN target
             /\ key \in DOMAIN binding =>
                  /\ BoundOK(key) /\ VersionOK(key) /\ IdOf(key) = id
                  /\ binding[key].target = target[id]
<1> DEFINE key == Key(entry)
           id == Id(entry)
<1>1. ASSUME key \in DOMAIN binding
      PROVE  /\ BoundOK(key) /\ VersionOK(key) /\ IdOf(key) = id
             /\ id \in DOMAIN target /\ id \notin DOMAIN foreign
             /\ binding[key].target = target[id]
  <2>1. BoundOK(key) /\ VersionOK(key) /\ IdOf(key) = id
    BY <1>1 DEF LoadInv, Stored, SameTarget, IdOf
  <2>2. id \in DOMAIN target  BY <2>1 DEF BoundOK
  <2>3. binding[key].target = target[id]  BY <2>2 DEF Attributed
  <2> QED  BY <2>1, <2>2, <2>3 DEF BoundOK
<1>2. id \in DOMAIN target => key \in DOMAIN binding  BY DEF Attributed
<1>3. id \in DOMAIN foreign => id \in DOMAIN target  BY DEF LoadInv, Stored, TablesOK
<1> HIDE DEF key, id
<1>4. /\ id \notin DOMAIN foreign
      /\ key \in DOMAIN binding <=> id \in DOMAIN target
  BY <1>1, <1>2, <1>3
<1> QED  BY <1>1, <1>4 DEF key, id

\* What a load leaves in the tables.
Written(key, id, hash, i, new) ==
  /\ DOMAIN target' = DOMAIN target \cup {id} /\ target'[id] = new
  /\ \A x \in DOMAIN target : x # id => target'[x] = target[x]
  /\ DOMAIN binding' = DOMAIN binding \cup {key}
  /\ (binding')[key] = [hash |-> hash, target |-> new, snapshot |-> i]
  /\ \A k \in DOMAIN binding : k # key => binding'[k] = binding[k]
  /\ receipts' = receipts \cup {<<i, key>>}
  /\ manifests' = manifests /\ foreign' = foreign

NewRow(entry) ==
  [fixed |-> entry.fixed, free |-> entry.free, no |-> entry.no, version |-> NextVersion(entry)]

LEMMA ApplyRowWrites ==
  ASSUME ApplyRow
  PROVE  /\ Applying /\ run.todo # <<>> /\ Applicable(NextRow, run.manifest)
         /\ Written(Key(NextRow), Id(NextRow), Hash(Head(run.todo)), run.manifest, NewRow(NextRow))
         /\ run' = [run EXCEPT !.todo = Tail(@)] /\ log' = log
<1> DEFINE key == Key(NextRow)
           id == Id(NextRow)
           new == NewRow(NextRow)
           bound == [hash |-> Hash(Head(run.todo)), target |-> new, snapshot |-> run.manifest]
<1>1. /\ Applying /\ run.todo # <<>> /\ Applicable(NextRow, run.manifest)
      /\ run' = [run EXCEPT !.todo = Tail(@)] /\ log' = log
      /\ manifests' = manifests /\ foreign' = foreign
      /\ receipts' = receipts \cup {<<run.manifest, key>>}
      /\ target' = Put(target, id, new) /\ binding' = Put(binding, key, bound)
  BY DEF ApplyRow, sources, NewRow, KeepReceipt, WriteRow
<1> HIDE DEF key, id, new, bound
<1>2. /\ DOMAIN target' = DOMAIN target \cup {id} /\ target'[id] = new
      /\ \A x \in DOMAIN target : x # id => target'[x] = target[x]
  BY <1>1 DEF Put
<1>3. /\ DOMAIN binding' = DOMAIN binding \cup {key} /\ (binding')[key] = bound
      /\ \A k \in DOMAIN binding : k # key => binding'[k] = binding[k]
  BY <1>1 DEF Put
<1>4. Written(key, id, Hash(Head(run.todo)), run.manifest, new)
  BY <1>1, <1>2, <1>3 DEF Written, bound
<1> QED  BY <1>1, <1>4 DEF key, id, new

\* A reservation's version after the load.
LEMMA VersionMoves ==
  ASSUME LoadInv, Applying, run.todo # <<>>, Applicable(NextRow, run.manifest),
         Key(NextRow)[1] = "reservation"
  PROVE  NextVersion(NextRow) =
           1 + Cardinality(ChangesOf(manifests, receipts \cup {<<run.manifest, Key(NextRow)>>},
                                     run.manifest, Key(NextRow)))
<1> DEFINE entry == NextRow
           r == Head(run.todo)
           i == run.manifest
           key == Key(entry)
           id == Id(entry)
           more == receipts \cup {<<i, key>>}
<1> SUFFICES NextVersion(entry) = 1 + Cardinality(ChangesOf(manifests, more, i, key))
  OBVIOUS
<1>1. /\ i \in DOMAIN manifests /\ r \in manifests[i].records
      /\ key = Key(r) /\ id = Id(r) /\ entry.type = r.type
      /\ entry.free \in {r.free, Bootstrap(r).free}
  BY RowToLoad
<1>2. /\ SameTarget(entry) /\ FollowsOn(entry, i) /\ Attributed(entry)
  BY DEF Applicable
<1>3. /\ key \in DOMAIN binding <=> id \in DOMAIN target
      /\ key \in DOMAIN binding =>
           /\ BoundOK(key) /\ VersionOK(key) /\ IdOf(key) = id
           /\ binding[key].target = target[id]
  BY <1>2, AttributedIs
<1>4. Len(manifests) \in Nat /\ DOMAIN manifests = 1..Len(manifests) /\ Chained(manifests)
      /\ \A j \in DOMAIN manifests : OncePerKey(manifests[j].records)
  BY ManifestsAre DEF LoadInv
<1>5. r.type = "reservation" /\ entry.type = "reservation"  BY <1>1 DEF Key
<1>6. entry.free = r.free  BY <1>1, <1>5 DEF Bootstrap
<1>7. FreeIn(manifests, i, key) = r.free  BY <1>1, <1>4, FreeIs
<1>8. CASE key \notin DOMAIN binding
  <2>1. NextVersion(entry) = 1  BY <1>3, <1>8 DEF NextVersion
  <2>2. key # <<"snapshot", 0>>  OBVIOUS
  <2>3. \A j : <<j, key>> \notin receipts
    <3> HIDE DEF key
    <3> QED  BY <1>8, <2>2 DEF LoadInv, Stored, TablesOK
  <2>4. \A j : <<j, key>> \in more => j = i  BY <2>3
  <2> HIDE DEF key, more, i
  <2>5. ChangesOf(manifests, more, i, key) = {}
    BY <1>1, <1>4, <2>4, ChangesFirst
  <2>6. Cardinality({}) = 0  BY FS_EmptySet
  <2> QED  BY <2>1, <2>5, <2>6
<1>9. CASE key \in DOMAIN binding
  <2> DEFINE p == binding[key].snapshot
             old == target[id]
             before == ChangesOf(manifests, receipts, p, key)
  <2>1. /\ BoundOK(key) /\ VersionOK(key) /\ IdOf(key) = id /\ id \in DOMAIN target
        /\ binding[key].target = old
    BY <1>3, <1>9
  <2>2. p \in DOMAIN manifests /\ <<p, key>> \in receipts  BY <2>1 DEF BoundOK
  <2>3. p \in {i, manifests[i].pred}  BY <1>2, <1>9 DEF FollowsOn
  <2>4. old.version = 1 + Cardinality(before)
    BY <2>1, ChangesAre DEF VersionOK
  <2>5. old.free = FreeIn(manifests, p, key)
    <3>1. PICK q \in manifests[p].records : LoadedFrom(key, q)  BY <2>1 DEF BoundOK
    <3>2. Key(q) = key /\ old.free \in {q.free, Bootstrap(q).free}
      BY <2>1, <3>1 DEF LoadedFrom
    <3>3. q.type = "reservation"  BY <3>2 DEF Key
    <3>4. old.free = q.free  BY <3>2, <3>3 DEF Bootstrap
    <3>5. FreeIn(manifests, p, Key(q)) = q.free  BY <1>4, <2>2, <3>1, FreeIs
    <3> QED  BY <3>2, <3>4, <3>5
  <2>6. NextVersion(entry) = IF old.free # entry.free THEN old.version + 1 ELSE old.version
    BY <1>5, <2>1 DEF NextVersion
  <2>7. CASE p = i
    <3>1. more = receipts  BY <2>2, <2>7
    <3>2. NextVersion(entry) = old.version  BY <1>6, <1>7, <2>5, <2>6, <2>7
    <3> QED  BY <2>4, <2>7, <3>1, <3>2
  <2>8. CASE p = manifests[i].pred
    <3> HIDE DEF key, more, i, p
    <3>1. /\ IsFiniteSet(before) /\ i \notin before
          /\ ChangesOf(manifests, more, i, key) =
               IF FreeIn(manifests, i, key) # FreeIn(manifests, p, key)
               THEN before \cup {i} ELSE before
      <4>1. more = receipts \cup {<<i, key>>}  BY DEF more
      <4>2. i \in 1..Len(manifests) /\ <<manifests[i].pred, key>> \in receipts
        BY <1>1, <1>4, <2>2, <2>8
      <4> HIDE DEF before
      <4>3. OneMoreChange(manifests, i, receipts, more, key)
        BY <1>4, <4>1, <4>2, ChangesGrow
      <4>4. before = ChangesOf(manifests, receipts, manifests[i].pred, key)
        BY <2>8 DEF before
      <4> QED  BY <2>8, <4>3, <4>4 DEF OneMoreChange
    <3> HIDE DEF before, old
    <3>2. Cardinality(before) \in Nat /\ Cardinality(before \cup {i}) = Cardinality(before) + 1
      BY <3>1, FS_CardinalityType, FS_AddElement
    <3>3. CASE FreeIn(manifests, i, key) # FreeIn(manifests, p, key)
      <4>1. NextVersion(entry) = old.version + 1
        BY <1>6, <1>7, <2>5, <2>6, <3>3
      <4>2. ChangesOf(manifests, more, i, key) = before \cup {i}  BY <3>1, <3>3
      <4> QED  BY <2>4, <3>2, <4>1, <4>2
    <3>4. CASE FreeIn(manifests, i, key) = FreeIn(manifests, p, key)
      <4>1. NextVersion(entry) = old.version
        BY <1>6, <1>7, <2>5, <2>6, <3>4
      <4>2. ChangesOf(manifests, more, i, key) = before  BY <3>1, <3>4
      <4> QED  BY <2>4, <4>1, <4>2
    <3> QED  BY <3>3, <3>4
  <2> QED  BY <2>3, <2>7, <2>8
<1> QED  BY <1>8, <1>9

LEMMA StoredAfterLoad ==
  ASSUME LoadInv, NEW key, NEW id, NEW r, NEW i \in DOMAIN manifests, NEW new,
         Written(key, id, Hash(r), i, new),
         r \in manifests[i].records, Key(r) = key, Id(r) = id,
         Key(Hash(r)) = key, Id(Hash(r)) = id,
         id \notin DOMAIN foreign, key \in DOMAIN binding => IdOf(key) = id,
         StoredRow(new),
         new.fixed = r.fixed, new.no = r.no, new.free \in {r.free, Bootstrap(r).free},
         key[1] = "reservation" =>
           new.version = 1 + Cardinality(ChangesOf(manifests, receipts \cup {<<i, key>>}, i, key))
  PROVE  Stored'
<1>1. /\ DOMAIN target' = DOMAIN target \cup {id} /\ target'[id] = new
      /\ \A x \in DOMAIN target : x # id => target'[x] = target[x]
      /\ DOMAIN binding' = DOMAIN binding \cup {key}
      /\ (binding')[key].hash = Hash(r) /\ (binding')[key].target = new
      /\ (binding')[key].snapshot = i
      /\ \A k \in DOMAIN binding : k # key => (binding')[k] = binding[k]
      /\ receipts' = receipts \cup {<<i, key>>}
      /\ manifests' = manifests /\ foreign' = foreign
  BY DEF Written
<1>2. IdOf(key)' = id  BY <1>1 DEF IdOf
<1>3. ASSUME NEW k \in DOMAIN binding, k # key PROVE IdOf(k)' = IdOf(k) /\ IdOf(k) # id
  <2>1. IdOf(k)' = IdOf(k)  BY <1>1, <1>3 DEF IdOf
  <2>2. Key(binding[k].hash) = k
    <3>1. BoundOK(k)  BY DEF LoadInv, Stored
    <3> QED  BY <3>1 DEF BoundOK
  <2>3. Id(binding[k].hash) = Id(r) => k = Key(r)  BY <2>2, IdGivesKey
  <2> QED  BY <1>3, <2>1, <2>3 DEF IdOf
<1>4. TablesOK'
  <2>1. \A x \in DOMAIN target' : StoredRow(target'[x])
    BY <1>1 DEF LoadInv, Stored, TablesOK
  <2>2. ASSUME NEW x \in DOMAIN target'
        PROVE  x \in DOMAIN foreign' \/ \E k \in DOMAIN binding' : IdOf(k)' = x
    <3>1. CASE x = id
      BY <1>1, <1>2, <3>1
    <3>2. CASE x # id
      <4>1. x \in DOMAIN target  BY <1>1, <3>2
      <4>2. CASE x \in DOMAIN foreign  BY <1>1, <4>2
      <4>3. CASE x \notin DOMAIN foreign
        <5>1. PICK k \in DOMAIN binding : IdOf(k) = x
          BY <4>1, <4>3 DEF LoadInv, Stored, TablesOK
        <5>2. k # key  BY <3>2, <5>1
        <5>3. IdOf(k)' = x /\ k \in DOMAIN binding'  BY <1>1, <1>3, <5>1, <5>2
        <5> QED  BY <5>3
      <4> QED  BY <4>2, <4>3
    <3> QED  BY <3>1, <3>2
  <2>3. \A x \in DOMAIN foreign' : x \in DOMAIN target' /\ target'[x] = foreign'[x]
    BY <1>1 DEF LoadInv, Stored, TablesOK
  <2>4. receipts' \subseteq (DOMAIN manifests') \X UNION {DOMAIN binding', {<<"snapshot", 0>>}}
    BY <1>1 DEF LoadInv, Stored, TablesOK
  <2> QED  BY <2>1, <2>2, <2>3, <2>4 DEF TablesOK
<1>5. BoundOK(key)'
  <2>1. LoadedFrom(key, r)'  BY <1>1, <1>2 DEF LoadedFrom
  <2> QED  BY <1>1, <1>2, <2>1 DEF BoundOK
<1>6. VersionOK(key)'
  <2>1. Changes(key)' = ChangesOf(manifests, receipts \cup {<<i, key>>}, i, key)
    BY <1>1, ChangesAre
  <2> QED  BY <1>1, <2>1 DEF VersionOK
<1>7. ASSUME NEW k \in DOMAIN binding, k # key PROVE BoundOK(k)'
  <2>1. BoundOK(k) /\ IdOf(k)' = IdOf(k) /\ IdOf(k) # id /\ (binding')[k] = binding[k]
    BY <1>1, <1>3, <1>7 DEF LoadInv, Stored
  <2>2. \A q : LoadedFrom(k, q)' <=> LoadedFrom(k, q)  BY <2>1 DEF LoadedFrom
  <2> QED  BY <1>1, <2>1, <2>2 DEF BoundOK
<1>8. ASSUME NEW k \in DOMAIN binding, k # key PROVE VersionOK(k)'
  <2>1. VersionOK(k) /\ (binding')[k] = binding[k]
    BY <1>1, <1>8 DEF LoadInv, Stored
  <2>2. \A j : <<j, k>> \in receipts' <=> <<j, k>> \in receipts  BY <1>1, <1>8
  <2>3. Changes(k)' = Changes(k)  BY <1>1, <2>1, <2>2, ChangesAre, ReceiptsStay
  <2> QED  BY <2>1, <2>3 DEF VersionOK
<1>9. \A k \in DOMAIN binding' : BoundOK(k)' /\ VersionOK(k)'
  BY <1>1, <1>5, <1>6, <1>7, <1>8
<1> QED  BY <1>4, <1>9 DEF Stored

LEMMA ApplyRowKeeps ==
  ASSUME LoadInv, ApplyRow
  PROVE  LoadInv'
<1> DEFINE entry == NextRow
           r == Head(run.todo)
           i == run.manifest
           key == Key(entry)
           id == Id(entry)
           new == NewRow(entry)
<1>1. /\ Applying /\ run.todo # <<>> /\ Applicable(entry, i)
      /\ Written(key, id, Hash(r), i, new)
      /\ run' = [run EXCEPT !.todo = Tail(@)] /\ log' = log
  BY ApplyRowWrites
<1>2. /\ i \in DOMAIN manifests /\ r \in manifests[i].records
      /\ key = Key(r) /\ id = Id(r)
      /\ entry.fixed = r.fixed /\ entry.no = r.no
      /\ entry.free \in {r.free, Bootstrap(r).free}
      /\ Key(Hash(r)) = Key(r) /\ Id(Hash(r)) = Id(r)
      /\ Tail(run.todo) \in Seq(SourceRows)
      /\ \A n \in DOMAIN Tail(run.todo) : Tail(run.todo)[n] \in manifests[i].records
  BY <1>1, RowToLoad
<1>3. /\ id \notin DOMAIN foreign
      /\ key \in DOMAIN binding => IdOf(key) = id
  BY <1>1, AttributedIs DEF Applicable
<1>4. run \in Loads /\ Tail(run.todo) \in Seq(SourceRows)  BY <1>1, <1>2, ApplyingIs
<1>5. LogOK'
  <2>1. ~Freezing  BY <1>1 DEF Applying, Freezing
  <2> QED  BY <1>1, <2>1 DEF LoadInv, LogOK
<1>6. manifests' = manifests  BY <1>1 DEF Written
<1>7. ManifestsOK'  BY <1>6 DEF LoadInv, ManifestsOK
<1>8. RunOK'
  <2>1. run' \in Loads' /\ run'.todo = Tail(run.todo) /\ run'.manifest = i
    BY <1>1, <1>4, <1>6 DEF Loads
  <2> QED  BY <1>2, <1>6, <2>1 DEF RunOK
<1>9. StoredRow(new)
  <2>1. NextVersion(entry) \in Nat \ {0}
    <3>1. id \in DOMAIN target => StoredRow(target[id])  BY DEF LoadInv, Stored, TablesOK
    <3> QED  BY <3>1 DEF NextVersion, StoredRow
  <2> HIDE DEF entry
  <2> QED  BY <2>1 DEF StoredRow, NewRow
<1>10. /\ new.fixed = r.fixed /\ new.no = r.no /\ new.free \in {r.free, Bootstrap(r).free}
       /\ new.version = NextVersion(entry)
  <2> HIDE DEF entry, r
  <2> QED  BY <1>2 DEF NewRow
<1>11. key[1] = "reservation" =>
         new.version = 1 + Cardinality(ChangesOf(manifests, receipts \cup {<<i, key>>}, i, key))
  BY <1>1, <1>10, VersionMoves
<1>12. Stored'
  <2> HIDE DEF entry, key, id, new, i, r
  <2> QED  BY <1>1, <1>2, <1>3, <1>9, <1>10, <1>11, StoredAfterLoad
<1> QED  BY <1>5, <1>7, <1>8, <1>12 DEF LoadInv

-----------------------------------------------------------------------------
(* The theorems.                                                           *)

LEMMA LoadInitInv == LoadInit => LoadInv
<1> SUFFICES ASSUME LoadInit PROVE LoadInv  OBVIOUS
<1> USE DEF LoadInit
<1>1. PICK s \in Starts : log = <<s>>  OBVIOUS
<1>2. s \in SourceStates
  BY <1>1, StartsAssumption DEF SourceStates, ReservationStatuses, NoWindow, AssignmentPages, Stages
<1>3. LogOK  BY <1>1, <1>2 DEF LogOK, Freezing, Idle
<1>4. ManifestsOK /\ RunOK  BY DEF ManifestsOK, RunOK
<1>5. Stored  BY DEF Stored, TablesOK
<1> QED  BY <1>3, <1>4, <1>5 DEF LoadInv

LEMMA LoadNextInv == LoadInv /\ [LoadNext]_loadVars => LoadInv'
<1> SUFFICES ASSUME LoadInv, [LoadNext]_loadVars PROVE LoadInv'  OBVIOUS
<1>1. CASE EditReservation \/ EditCleaning \/ EditAssignment  BY <1>1, EditsKeep
<1>2. CASE ForeignWrite  BY <1>2, ForeignWriteKeeps
<1>3. CASE Capture \/ Backfill  BY <1>3, StartKeeps
<1>4. CASE ScanSource  BY <1>4, ScanSourceKeeps
<1>5. CASE ScanAgain  BY <1>5, ScanAgainKeeps
<1>6. CASE Freeze  BY <1>6, FreezeKeeps
<1>7. CASE Authorise  BY <1>7, AuthoriseKeeps
<1>8. CASE ApplyRow  BY <1>8, ApplyRowKeeps
<1>9. CASE FinishApply  BY <1>9, FinishKeeps
<1>10. CASE ScanFails \/ RefuseRow \/ Reconcile \/ RunDies  BY <1>10, EndKeeps
<1>11. CASE UNCHANGED loadVars
  <2>1. UNCHANGED <<log, manifests, run, target, binding, receipts, foreign>>
    BY <1>11 DEF loadVars
  <2>2. Stored' /\ ManifestsOK'  BY <2>1, StoredStays DEF LoadInv, ManifestsOK
  <2>3. LogOK' /\ RunOK'
    BY <2>1 DEF LoadInv, LogOK, RunOK, Freezing, Scans, Loads, Reports
  <2> QED  BY <2>2, <2>3 DEF LoadInv
<1> QED
  BY <1>1, <1>2, <1>3, <1>4, <1>5, <1>6, <1>7, <1>8, <1>9, <1>10, <1>11 DEF LoadNext

LEMMA LoadInductive == LoadSpec => []LoadInv
BY LoadInitInv, LoadNextInv, PTL DEF LoadSpec

\* The sources, the chain of manifests and the tables hold what the adapters
\* and the loader can put there.
THEOREM LoadTypeCorrect == LoadSpec => []LoadTypeOK
<1>1. LoadInv => LoadTypeOK
  <2> SUFFICES ASSUME LoadInv PROVE LoadTypeOK  OBVIOUS
  <2>1. \A k \in DOMAIN log : log[k].reservation \in ReservationStatuses
    <3>1. log \in Seq(SourceStates)  BY DEF LoadInv, LogOK
    <3>2. \A k \in DOMAIN log : log[k] \in SourceStates  BY <3>1
    <3> QED  BY <3>2 DEF SourceStates
  <2>2. \A i \in DOMAIN manifests : manifests[i].pred \in 0..(i - 1)
    BY DEF LoadInv, ManifestsOK
  <2>3. run.at \in {"idle", "scan", "apply", "report"}
    BY DEF LoadInv, RunOK, Idle, Scans, Loads, Reports
  <2>4. \A key \in DOMAIN binding : Id(binding[key].hash) \in DOMAIN target
    BY DEF LoadInv, Stored, BoundOK, IdOf
  <2> QED  BY <2>1, <2>2, <2>3, <2>4 DEF LoadTypeOK, LoadInv, Stored, TablesOK
<1> QED  BY <1>1, LoadInductive, PTL

\* Whatever runs were interrupted, refused or replayed, a row only the
\* migration wrote is the record of the manifest its binding names, and a
\* reservation's version counts each change of the chain once.
THEOREM BoundRowsAreTheManifests == LoadSpec => []BoundRowsMatch
<1>1. LoadInv => BoundRowsMatch
  <2> SUFFICES ASSUME LoadInv, NEW key \in DOMAIN binding,
                      Id(binding[key].hash) \notin DOMAIN foreign
               PROVE  LET row == target[Id(binding[key].hash)]
                      IN \E r \in manifests[binding[key].snapshot].records :
                           /\ Key(r) = key /\ Id(r) = Id(binding[key].hash)
                           /\ row.fixed = r.fixed /\ row.no = r.no
                           /\ row.free \in {r.free, Bootstrap(r).free}
                           /\ key[1] = "reservation" => row.version = 1 + Cardinality(Changes(key))
    BY DEF BoundRowsMatch
  <2>1. BoundOK(key) /\ VersionOK(key)  BY DEF LoadInv, Stored
  <2>2. target[Id(binding[key].hash)] = binding[key].target  BY <2>1 DEF BoundOK, IdOf
  <2>3. PICK r \in manifests[binding[key].snapshot].records : LoadedFrom(key, r)
    BY <2>1 DEF BoundOK
  <2> QED  BY <2>1, <2>2, <2>3 DEF LoadedFrom, IdOf, VersionOK
<1> QED  BY <1>1, LoadInductive, PTL

\* No run ever overwrites what somebody else wrote to a migrated table.
THEOREM ForeignChangesStand == LoadSpec => []ForeignChangeStands
<1>1. LoadInv => ForeignChangeStands
  BY DEF LoadInv, Stored, TablesOK, ForeignChangeStands
<1> QED  BY <1>1, LoadInductive, PTL

\* A clean report is about everything the migration ever wrote: the records of
\* the manifest stand, nobody else's among them, and nothing is left over.
THEOREM CleanReportIsTrue == LoadSpec => []CleanMeansMigrated
<1>1. LoadInv => CleanMeansMigrated
  <2> SUFFICES ASSUME LoadInv, NEW i \in DOMAIN manifests, Clean(i)
               PROVE  LET records == manifests[i].records
                      IN /\ \A r \in records :
                              Id(r) \in DOMAIN target \ DOMAIN foreign /\ Equivalent(r)
                         /\ DOMAIN target \subseteq {Id(r) : r \in records} \cup DOMAIN foreign
    BY DEF CleanMeansMigrated
  <2> DEFINE records == manifests[i].records
  <2>1. /\ \A r \in records : Equivalent(r) /\ Lineage(r, i) /\ UnwrittenSince(r)
        /\ DOMAIN binding \subseteq {Key(r) : r \in records}
    BY DEF Clean, DeltaApplied
  <2> HIDE DEF records
  <2>2. \A r \in records : Key(r) \in DOMAIN binding /\ IdOf(Key(r)) = Id(r)
    BY <2>1 DEF Lineage, IdOf
  <2>3. ASSUME NEW r \in records PROVE Id(r) \in DOMAIN target \ DOMAIN foreign
    <3>1. Id(r) \in DOMAIN target  BY <2>1 DEF Equivalent
    <3>2. binding[Key(r)].target = target[Id(r)]  BY <2>1, <2>2, <3>1 DEF UnwrittenSince
    <3>3. BoundOK(Key(r))  BY <2>2 DEF LoadInv, Stored
    <3>4. binding[Key(r)].target = target[Id(r)] <=> Id(r) \notin DOMAIN foreign
      <4> HIDE DEF Key, Id
      <4> QED  BY <2>2, <3>3 DEF BoundOK
    <3> QED  BY <3>1, <3>2, <3>4
  <2>4. ASSUME NEW id \in DOMAIN target, id \notin DOMAIN foreign
        PROVE  \E r \in records : Id(r) = id
    <3>1. PICK key \in DOMAIN binding : IdOf(key) = id
      BY <2>4 DEF LoadInv, Stored, TablesOK
    <3>2. PICK r \in records : Key(r) = key  BY <2>1
    <3> QED  BY <2>2, <3>1, <3>2
  <2> QED  BY <2>1, <2>3, <2>4 DEF records
<1> QED  BY <1>1, LoadInductive, PTL

-----------------------------------------------------------------------------
(* Access pages: the invariant.                                            *)

USE AccessAssumption, WritersAssumption

\* What a ledger request may be: it is for a row there is, or for a new one.
Asks(req) ==
    \/ req = NewRequest
    \/ \E g \in DOMAIN rows :
          \/ req = Approval(g) \/ req = Rejection(g)
          \/ \E s \in {"PENDING", "SYNCED", "FAILED"} : req = SyncStatus(g, s)

One(condition) == IF condition THEN 1 ELSE 0

\* A second row needs a request for the first that was lost: rows and the requests for rows
\* still under way are at most one more than the requests that raised.
RowsAreFew ==
    /\ Len(rows) + One(NewRequest \in lost) + One(pc[Cleaner] = "create") <= failures + 1
    /\ lost # {} => failures > 0
    /\ \A req \in lost : Asks(req)

\* Whatever says that an approval is in effect was written after the roster.
SyncedIsTrue ==
    roster \/ /\ \A g \in DOMAIN rows : rows[g].sync # "SYNCED"
              /\ \A req \in lost : req.sync # "SYNCED"
              /\ \A p \in Writers : pc[p] # "sync"
              /\ \A p \in Writers : pc[p] \in {"resolved", "send"} => letter[p] # "approval"

Telling == {"resolved", "send", "sent", "unanswered"}

\* Each process tells its own side, of a page there is.
MayTell(p) ==
    /\ pc[p] \notin {"idle", "create"} => page[p] \in DOMAIN rows
    /\ pc[p] \in Telling => letter[p] \in IF p = Ops THEN Chats ELSE {"approval", "rejection"}

\* Who is about to send has said so in the record, and has not sent yet.
MaySend(p) ==
    pc[p] = "send" => record[page[p]][letter[p]] # "none" /\ sent[page[p]][letter[p]] = 0

IInv ==
    /\ TypeOK
    /\ RowsAreFew
    /\ SyncedIsTrue
    /\ \A p \in Writers : MayTell(p) /\ MaySend(p)
    /\ \A g \in Pages, l \in Letters : record[g][l] = "none" => sent[g][l] = 0
    /\ ToldAtMostOnce
    /\ ApprovalNoticeIsTrue

-----------------------------------------------------------------------------
(* The lease and the ledger.                                               *)

\* A step of one process at the lease moves only itself in or out of its scope.
LEMMA WriterMoves ==
  ASSUME WriterTypeOK, NEW p \in Writers,
         Enter(p) \/ EnterInVain(p) \/ Exit(p) \/ Die(p) \/ Proceed(p) \/ Lapse \/ UNCHANGED writerVars
  PROVE  /\ WriterTypeOK'
         /\ \A q \in Writers \ {p} : q \in inside' <=> q \in inside
         /\ Enter(p) => p \in inside'
         /\ EnterInVain(p) \/ Proceed(p) \/ Lapse \/ UNCHANGED writerVars => inside' = inside
  BY DEF WriterTypeOK, Enter, EnterInVain, Exit, Die, Proceed, Lapse, writerVars

\* What a request does to the rows, whether it is answered or lands late.
LEMMA AppliedRows ==
  ASSUME TypeOK, NEW req, Asks(req)
  PROVE  LET next == Applied(req)
         IN  /\ next \in Seq(Rows)
             /\ Len(next) = Len(rows) + One(req = NewRequest)
             /\ DOMAIN rows \subseteq DOMAIN next
             /\ \A g \in DOMAIN next : next[g].sync = "SYNCED" =>
                  req.sync = "SYNCED" \/ (g \in DOMAIN rows /\ rows[g].sync = "SYNCED")
<1> DEFINE next == Applied(req)
<1>1. rows \in Seq(Rows) /\ Len(rows) \in Nat /\ DOMAIN rows = 1..Len(rows)
  BY DEF TypeOK
<1>2. CASE req = NewRequest
  <2> DEFINE row == [status |-> "REQUESTED", sync |-> "NOT_REQUIRED"]
  <2>1. row \in Rows
    BY DEF Rows, Statuses, Syncs
  <2>2. next = Append(rows, row)
    BY <1>2 DEF Applied, NewRequest
  <2>3. /\ next \in Seq(Rows)
        /\ Len(next) = Len(rows) + 1
        /\ DOMAIN next = 1..Len(rows) + 1
        /\ \A g \in DOMAIN rows : next[g] = rows[g]
        /\ next[Len(rows) + 1] = row
    BY <1>1, <2>1, <2>2, AppendProperties
  <2> HIDE DEF next
  <2>4. \A g \in DOMAIN next : g \in DOMAIN rows \/ g = Len(rows) + 1
    BY <1>1, <2>3
  <2> QED
    BY <1>1, <1>2, <2>3, <2>4 DEF One, next
<1>3. CASE req # NewRequest
  <2> DEFINE g == req.page
             row == [status |-> IF req.status = "SAME" THEN rows[g].status ELSE req.status,
                     sync |-> req.sync]
  <2>1. /\ g \in DOMAIN rows
        /\ req.status \in {"SAME", "APPROVED", "REJECTED"}
        /\ req.sync \in Syncs
    BY <1>3 DEF Asks, Approval, Rejection, SyncStatus, Syncs
  <2>2. rows[g] \in Rows /\ g # 0
    BY <1>1, <2>1
  <2>3. row \in Rows
    BY <2>1, <2>2 DEF Rows, Statuses
  <2>4. next = [rows EXCEPT ![g] = row]
    BY <2>1, <2>2 DEF Applied
  <2>5. /\ next \in Seq(Rows)
        /\ Len(next) = Len(rows)
        /\ DOMAIN next = DOMAIN rows
        /\ \A k \in DOMAIN rows : next[k] = IF k = g THEN row ELSE rows[k]
    BY <1>1, <2>1, <2>3, <2>4, ExceptSeq
  <2> HIDE DEF next
  <2>6. row.sync = req.sync
    OBVIOUS
  <2> HIDE DEF row, g
  <2> QED
    BY <1>1, <1>3, <2>5, <2>6 DEF One, next
<1> QED
  BY <1>2, <1>3

\* What IInv says of the ledger.
LedgerOK ==
    /\ rows \in Seq(Rows) /\ Len(rows) <= MaxLost + 1
    /\ failures \in 0..MaxLost
    /\ RowsAreFew

\* The ledger's half of SyncedIsTrue.
NothingSynced ==
    /\ \A g \in DOMAIN rows : rows[g].sync # "SYNCED"
    /\ \A req \in lost : req.sync # "SYNCED"

\* As long as rows are only added, a request stays one that can be made.
LEMMA RequestsStay ==
  ASSUME TypeOK, DOMAIN rows \subseteq DOMAIN rows', NEW req, Asks(req)
  PROVE  Asks(req)'
  BY DEF Asks, NewRequest, Approval, Rejection, SyncStatus

\* RowsAreFew after a step, spelled out.
LEMMA FewAfter ==
  ASSUME Len(rows') + One(NewRequest \in lost') + One(pc'[Cleaner] = "create") <= failures' + 1,
         lost' # {} => failures' > 0,
         \A r \in lost' : Asks(r)'
  PROVE  RowsAreFew'
  BY DEF RowsAreFew, NewRequest, One

\* A step that leaves the ledger alone keeps the count of rows and lost requests: a new
\* request is begun only when there is no row.
LEMMA LedgerStands ==
  ASSUME IInv, UNCHANGED ledger,
         pc'[Cleaner] = "create" => pc[Cleaner] = "create" \/ rows = << >>
  PROVE  LedgerOK' /\ (roster \/ NothingSynced') /\ DOMAIN rows' = DOMAIN rows
<1>1. TypeOK /\ RowsAreFew /\ (roster \/ NothingSynced)
  BY DEF IInv, SyncedIsTrue, NothingSynced
<1>2. rows \in Seq(Rows) /\ Len(rows) \in Nat /\ failures \in 0..MaxLost
  BY <1>1 DEF TypeOK
<1>3. \A r \in lost : Asks(r)'
  BY <1>1, RequestsStay DEF RowsAreFew, ledger
<1>4. rows = << >> => Len(rows) = 0
  OBVIOUS
<1>5. rows' = rows /\ lost' = lost /\ failures' = failures
  BY DEF ledger
<1> DEFINE kept == One(NewRequest \in lost)
           made == One(pc[Cleaner] = "create")
           makes == One(pc'[Cleaner] = "create")
<1>6. kept \in {0, 1} /\ made \in {0, 1} /\ makes \in {0, 1}
  BY DEF One
<1>7. kept = 1 => failures > 0
  BY <1>1 DEF RowsAreFew, One
<1>8. makes = 1 => made = 1 \/ Len(rows) = 0
  BY <1>4 DEF One
<1>9. Len(rows) + kept + made <= failures + 1
  BY <1>1 DEF RowsAreFew
<1>10. Len(rows) + kept + makes <= failures + 1
  <2> HIDE DEF kept, made, makes
  <2> QED
    BY <1>2, <1>6, <1>7, <1>8, <1>9
<1>11. Len(rows') + One(NewRequest \in lost') + One(pc'[Cleaner] = "create") <= failures' + 1
  BY <1>5, <1>10
<1>12. RowsAreFew'
  BY <1>1, <1>3, <1>5, <1>11, FewAfter DEF RowsAreFew
<1> QED
  BY <1>1, <1>2, <1>5, <1>12 DEF LedgerOK, NothingSynced, TypeOK

\* So does a call to the ledger, answered or not.
LEMMA CallMoves ==
  ASSUME IInv, NEW req, Asks(req),
         Answered(req) \/ Raises(req) \/ UNCHANGED ledger,
         req.sync = "SYNCED" => roster,
         req = NewRequest => pc[Cleaner] = "create",
         pc'[Cleaner] = "create" => req # NewRequest /\ pc[Cleaner] = "create"
  PROVE  /\ LedgerOK'
         /\ DOMAIN rows \subseteq DOMAIN rows'
         /\ roster \/ NothingSynced'
<1>1. TypeOK /\ RowsAreFew /\ (roster \/ NothingSynced)
  BY DEF IInv, SyncedIsTrue, NothingSynced
<1>2. rows \in Seq(Rows) /\ Len(rows) \in Nat /\ failures \in 0..MaxLost
  BY <1>1 DEF TypeOK
<1> DEFINE new == One(req = NewRequest)
           kept == One(NewRequest \in lost)
           keeps == One(NewRequest \in lost')
           made == One(pc[Cleaner] = "create")
           makes == One(pc'[Cleaner] = "create")
<1>3. /\ new \in {0, 1} /\ kept \in {0, 1} /\ keeps \in {0, 1}
      /\ made \in {0, 1} /\ makes \in {0, 1}
  BY DEF One
<1>4. new + makes <= made
  BY DEF One
<1>5. Len(rows) + kept + made <= failures + 1
  BY <1>1 DEF RowsAreFew
<1>6. ASSUME lost' \subseteq lost \cup {req}
      PROVE  keeps <= kept + new
  BY <1>6 DEF One
<1>7. CASE Answered(req)
  <2>1. /\ rows' \in Seq(Rows)
        /\ Len(rows') = Len(rows) + One(req = NewRequest)
        /\ DOMAIN rows \subseteq DOMAIN rows'
        /\ \A g \in DOMAIN rows' : rows'[g].sync = "SYNCED" =>
             req.sync = "SYNCED" \/ (g \in DOMAIN rows /\ rows[g].sync = "SYNCED")
        /\ UNCHANGED <<lost, failures>>
    BY <1>1, <1>7, AppliedRows DEF Answered
  <2>2. roster \/ NothingSynced'
    BY <1>1, <2>1 DEF NothingSynced
  <2>3. \A r \in lost : Asks(r)'
    BY <1>1, <2>1, RequestsStay DEF RowsAreFew
  <2>4. keeps = kept /\ Len(rows') = Len(rows) + new
    BY <2>1
  <2>5. Len(rows') \in Nat
    BY <2>1
  <2>6. Len(rows') + keeps + makes <= failures' + 1
    <3> HIDE DEF new, kept, keeps, made, makes
    <3> QED
      BY <1>2, <1>3, <1>4, <1>5, <2>1, <2>4
  <2>7. Len(rows') <= MaxLost + 1
    <3> HIDE DEF new, kept, keeps, made, makes
    <3> QED
      BY <1>2, <1>3, <2>1, <2>5, <2>6
  <2>8. RowsAreFew'
    BY <1>1, <2>1, <2>3, <2>6, FewAfter DEF RowsAreFew
  <2> QED
    BY <1>2, <2>1, <2>2, <2>7, <2>8 DEF LedgerOK
<1>8. CASE Raises(req)
  <2>1. /\ failures' = failures + 1
        /\ failures < MaxLost
        /\ lost' = lost \cup {req}
        /\ rows' = rows
    BY <1>8 DEF Raises
  <2>2. Asks(req)' /\ \A r \in lost : Asks(r)'
    BY <1>1, <2>1, RequestsStay DEF RowsAreFew
  <2>3. Len(rows') + keeps + makes <= failures' + 1
    <3> HIDE DEF new, kept, keeps, made, makes
    <3> QED
      BY <1>2, <1>3, <1>4, <1>5, <1>6, <2>1
  <2>4. RowsAreFew'
    BY <1>2, <2>1, <2>2, <2>3, FewAfter
  <2> QED
    BY <1>1, <1>2, <2>1, <2>4 DEF LedgerOK, NothingSynced, TypeOK
<1>9. CASE UNCHANGED ledger
  BY <1>9, LedgerStands
<1> QED
  BY <1>7, <1>8, <1>9

\* A request that lands late is one fewer under way.
LEMMA LandMoves ==
  ASSUME IInv, NEW req \in lost, rows' = Applied(req), lost' = lost \ {req},
         UNCHANGED <<failures, pc>>
  PROVE  /\ LedgerOK'
         /\ DOMAIN rows \subseteq DOMAIN rows'
         /\ roster \/ NothingSynced'
<1>1. TypeOK /\ RowsAreFew /\ (roster \/ NothingSynced) /\ Asks(req)
  BY DEF IInv, SyncedIsTrue, NothingSynced, RowsAreFew
<1>2. rows \in Seq(Rows) /\ Len(rows) \in Nat /\ failures \in 0..MaxLost
  BY <1>1 DEF TypeOK
<1> DEFINE new == One(req = NewRequest)
           kept == One(NewRequest \in lost)
           keeps == One(NewRequest \in lost')
           made == One(pc[Cleaner] = "create")
<1>3. /\ new \in {0, 1} /\ kept \in {0, 1} /\ keeps \in {0, 1} /\ made \in {0, 1}
      /\ keeps = kept - new
  BY DEF One
<1>4. Len(rows) + kept + made <= failures + 1
  BY <1>1 DEF RowsAreFew
<1>5. /\ rows' \in Seq(Rows)
      /\ Len(rows') = Len(rows) + new
      /\ Len(rows') \in Nat
      /\ DOMAIN rows \subseteq DOMAIN rows'
      /\ \A g \in DOMAIN rows' : rows'[g].sync = "SYNCED" =>
           req.sync = "SYNCED" \/ (g \in DOMAIN rows /\ rows[g].sync = "SYNCED")
  BY <1>1, AppliedRows
<1>6. roster \/ NothingSynced'
  BY <1>1, <1>5 DEF NothingSynced
<1>7. \A r \in lost : Asks(r)'
  BY <1>1, <1>5, RequestsStay DEF RowsAreFew
<1>8. Len(rows') + keeps + One(pc'[Cleaner] = "create") <= failures' + 1
  <2> HIDE DEF new, kept, keeps
  <2>1. Len(rows') + keeps + made <= failures + 1
    <3> HIDE DEF made
    <3> QED
      BY <1>2, <1>3, <1>4, <1>5
  <2> QED
    BY <2>1
<1>9. Len(rows') <= MaxLost + 1
  <2> DEFINE makes == One(pc'[Cleaner] = "create")
  <2>1. makes \in {0, 1}
    BY DEF One
  <2> HIDE DEF new, kept, keeps, made, makes
  <2> QED
    BY <1>2, <1>3, <1>5, <1>8, <2>1 DEF makes
<1>10. RowsAreFew'
  BY <1>1, <1>7, <1>8, FewAfter DEF RowsAreFew
<1> QED
  BY <1>2, <1>5, <1>6, <1>9, <1>10 DEF LedgerOK

-----------------------------------------------------------------------------
(* Where a step leaves a process.                                          *)

\* What IInv says of the delivery files and of what was sent.
DeliveryOK ==
    /\ record \in [Pages -> [Letters -> LetterRecords]]
    /\ \A g \in Pages, c \in Chats : record[g][c] \in ChatRecords
    /\ sent \in [Pages -> [Letters -> Nat]]
    /\ \A g \in Pages, l \in Letters : record[g][l] = "none" => sent[g][l] = 0
    /\ ToldAtMostOnce
    /\ ApprovalNoticeIsTrue

\* p goes to position l with page g and letter m, and may be there.
Moves(p, l, g, m) ==
    /\ pc' = [pc EXCEPT ![p] = l]
    /\ page' = [page EXCEPT ![p] = g]
    /\ letter' = [letter EXCEPT ![p] = m]
    /\ WriterTypeOK'
    /\ \A q \in Writers \ {p} : q \in inside => q \in inside'
    /\ l \notin {"idle", "resolved"} => p \in inside'
    /\ l = "sync" => roster'
    /\ l \in {"resolved", "send"} /\ m = "approval" => roster
    /\ l \notin {"idle", "create"} => g \in DOMAIN rows'
    /\ l \in Telling => m \in IF p = Ops THEN Chats ELSE {"approval", "rejection"}

\* A process that may be where it goes, a ledger and delivery files in order: together the
\* invariant.
LEMMA StepKeeps ==
  ASSUME IInv, LedgerOK', roster \/ NothingSynced', DOMAIN rows \subseteq DOMAIN rows',
         roster' \in BOOLEAN, roster => roster', crashes' \in 0..MaxCrashes,
         NEW p \in Writers, NEW l \in Positions, NEW g \in Pages, NEW m \in Letters,
         Moves(p, l, g, m), DeliveryOK', \A q \in Writers : MaySend(q)'
  PROVE  IInv'
<1>1. TypeOK'
  <2>1. /\ pc' \in [Writers -> Positions]
        /\ page' \in [Writers -> Pages]
        /\ letter' \in [Writers -> Letters]
    BY DEF IInv, TypeOK, Moves
  <2>2. \A q \in Writers : pc'[q] \notin {"idle", "resolved"} => q \in inside'
    BY DEF IInv, TypeOK, Moves
  <2> QED
    BY <2>1, <2>2 DEF TypeOK, LedgerOK, DeliveryOK, Moves
<1>2. SyncedIsTrue'
  BY DEF IInv, TypeOK, SyncedIsTrue, NothingSynced, Moves
<1>3. \A q \in Writers : MayTell(q)'
  <2> SUFFICES ASSUME NEW q \in Writers
               PROVE  MayTell(q)'
    OBVIOUS
  <2>1. MayTell(q) /\ TypeOK
    BY DEF IInv
  <2>2. q # p => pc'[q] = pc[q] /\ page'[q] = page[q] /\ letter'[q] = letter[q]
    BY <2>1 DEF TypeOK, Moves
  <2>3. pc'[p] = l /\ page'[p] = g /\ letter'[p] = m
    BY <2>1 DEF TypeOK, Moves
  <2> QED
    BY <2>1, <2>2, <2>3 DEF MayTell, Moves
<1> QED
  BY <1>1, <1>2, <1>3 DEF IInv, LedgerOK, DeliveryOK

\* The delivery files and what was sent stay as they are.
LEMMA DeliveryStands ==
  ASSUME IInv, UNCHANGED delivery, roster => roster'
  PROVE  DeliveryOK'
  BY DEF IInv, TypeOK, DeliveryOK, delivery, ToldAtMostOnce, ApprovalNoticeIsTrue

\* So a step that only moves p, to anywhere but "send", keeps the invariant.
LEMMA QuietStep ==
  ASSUME IInv, LedgerOK', roster \/ NothingSynced', DOMAIN rows \subseteq DOMAIN rows',
         roster' \in BOOLEAN, roster => roster', crashes' \in 0..MaxCrashes,
         NEW p \in Writers, NEW l \in Positions \ {"send"}, NEW g \in Pages, NEW m \in Letters,
         Moves(p, l, g, m), UNCHANGED delivery
  PROVE  IInv'
<1>1. \A q \in Writers : MaySend(q)'
  BY DEF IInv, TypeOK, MayTell, MaySend, Moves, delivery
<1> QED
  BY <1>1, DeliveryStands, StepKeeps

\* A step of p that keeps page and letter.
LEMMA GotoMoves ==
  ASSUME IInv, NEW p \in Writers, NEW l, Goto(p, l),
         Exit(p) \/ Die(p) \/ Enter(p) \/ Proceed(p) \/ UNCHANGED writerVars,
         l \notin {"idle", "resolved"} => Enter(p) \/ Proceed(p),
         pc[p] \in {"idle", "resolved"} =>
             l \in {"idle", "resolved"} \/ Enter(p),
         l = "sync" => roster',
         l = "resolved" => pc[p] = "resolved",
         l = "send" => pc[p] = "resolved",
         l \in Telling => pc[p] \in Telling,
         l \notin {"idle", "create"} => pc[p] \notin {"idle", "create"},
         DOMAIN rows \subseteq DOMAIN rows'
  PROVE  Moves(p, l, page[p], letter[p]) /\ page[p] \in Pages /\ letter[p] \in Letters
<1>1. TypeOK /\ SyncedIsTrue /\ MayTell(p)
  BY DEF IInv
<1>2. WriterTypeOK /\ page[p] \in Pages /\ letter[p] \in Letters
  BY <1>1 DEF TypeOK
<1>3. /\ WriterTypeOK'
      /\ \A q \in Writers \ {p} : q \in inside' <=> q \in inside
      /\ Enter(p) => p \in inside'
      /\ Proceed(p) => inside' = inside
  BY <1>2, WriterMoves
<1>4. /\ page' = [page EXCEPT ![p] = page[p]]
      /\ letter' = [letter EXCEPT ![p] = letter[p]]
      /\ pc' = [pc EXCEPT ![p] = l]
  BY <1>1 DEF TypeOK, Goto
<1>5. l \notin {"idle", "resolved"} => p \in inside'
  BY <1>1, <1>3 DEF TypeOK
<1>6. l \in {"resolved", "send"} /\ letter[p] = "approval" => roster
  BY <1>1 DEF SyncedIsTrue
<1>7. l \notin {"idle", "create"} => page[p] \in DOMAIN rows'
  BY <1>1 DEF MayTell
<1>8. l \in Telling => letter[p] \in IF p = Ops THEN Chats ELSE {"approval", "rejection"}
  BY <1>1 DEF MayTell
<1> QED
  BY <1>2, <1>3, <1>4, <1>5, <1>6, <1>7, <1>8 DEF Moves

\* A handler that ends leaves its process idle.
LEMMA DoneMoves ==
  ASSUME IInv, NEW p \in Writers, Exit(p) \/ Die(p), Goto(p, "idle"),
         DOMAIN rows \subseteq DOMAIN rows'
  PROVE  Moves(p, "idle", page[p], letter[p]) /\ page[p] \in Pages /\ letter[p] \in Letters
  BY GotoMoves DEF Telling

\* A handler's last call to the ledger.
LEMMA LastCallKeeps ==
  ASSUME IInv, NEW p \in Writers, NEW req, Asks(req), LastCall(p, req),
         req.sync = "SYNCED" => roster,
         req = NewRequest <=> p = Cleaner,
         p = Cleaner => pc[Cleaner] = "create",
         UNCHANGED <<roster, delivery, crashes>>
  PROVE  IInv'
<1>1. TypeOK
  BY DEF IInv
<1>2. Goto(p, "idle") /\ Exit(p) /\ pc' = [pc EXCEPT ![p] = "idle"]
  BY DEF LastCall, Done, Goto
<1>3. Answered(req) \/ Raises(req) \/ UNCHANGED ledger
  BY DEF LastCall
<1>4. pc'[Cleaner] = "create" => p # Cleaner /\ pc[Cleaner] = "create"
  BY <1>1, <1>2 DEF TypeOK
<1>5. /\ LedgerOK'
      /\ DOMAIN rows \subseteq DOMAIN rows'
      /\ roster \/ NothingSynced'
  BY <1>3, <1>4, CallMoves
<1>6. Moves(p, "idle", page[p], letter[p]) /\ page[p] \in Pages /\ letter[p] \in Letters
  BY <1>2, <1>5, DoneMoves
<1>7. roster' \in BOOLEAN /\ crashes' \in 0..MaxCrashes /\ (roster => roster')
  BY <1>1 DEF TypeOK
<1>8. "idle" \in Positions \ {"send"}
  BY DEF Positions
<1> QED
  BY <1>5, <1>6, <1>7, <1>8, QuietStep

\* A call of Ops in the middle of a handler.
LEMMA CallKeeps ==
  ASSUME IInv, NEW req, Asks(req), req # NewRequest, req.sync # "SYNCED",
         NEW l \in {"approved", "pending"}, Call(Ops, req, l),
         pc[Ops] \in {"approve", "again"},
         UNCHANGED <<roster, delivery, crashes>>
  PROVE  IInv'
<1>1. TypeOK
  BY DEF IInv
<1>2. CASE /\ Answered(req)
           /\ Goto(Ops, l)
           /\ Proceed(Ops)
  <2>1. pc'[Cleaner] = pc[Cleaner]
    BY <1>1, <1>2 DEF TypeOK, Goto
  <2>2. /\ LedgerOK'
        /\ DOMAIN rows \subseteq DOMAIN rows'
        /\ roster \/ NothingSynced'
    BY <1>2, <2>1, CallMoves
  <2>3. Moves(Ops, l, page[Ops], letter[Ops]) /\ page[Ops] \in Pages /\ letter[Ops] \in Letters
    BY <1>2, <2>2, GotoMoves DEF Telling
  <2>4. l \in Positions \ {"send"}
    BY DEF Positions
  <2> QED
    BY <1>1, <2>2, <2>3, <2>4, QuietStep DEF TypeOK
<1>3. CASE LastCall(Ops, req)
  BY <1>3, LastCallKeeps
<1>4. Call(Ops, req, l) => LastCall(Ops, req) \/ (Answered(req) /\ Goto(Ops, l) /\ Proceed(Ops))
  BY DEF Call, LastCall
<1> QED
  BY <1>2, <1>3, <1>4

-----------------------------------------------------------------------------
(* Asking and deciding.                                                    *)

LEMMA RequestAccessStep ==
  ASSUME IInv, RequestAccess
  PROVE  IInv'
<1>1. TypeOK
  BY DEF IInv
<1>2. LedgerOK' /\ (roster \/ NothingSynced') /\ DOMAIN rows' = DOMAIN rows
  BY LedgerStands DEF RequestAccess
<1>3. /\ Moves(Cleaner, "create", page[Cleaner], letter[Cleaner])
      /\ page[Cleaner] \in Pages
      /\ letter[Cleaner] \in Letters
  BY <1>2, GotoMoves DEF RequestAccess, Telling
<1>4. "create" \in Positions \ {"send"}
  BY DEF Positions
<1> QED
  BY <1>1, <1>2, <1>3, <1>4, QuietStep DEF RequestAccess, TypeOK

LEMMA CreateRequestStep ==
  ASSUME IInv, CreateRequest
  PROVE  IInv'
<1>1. Asks(NewRequest) /\ NewRequest.sync # "SYNCED"
  BY DEF Asks, NewRequest
<1> QED
  BY <1>1, LastCallKeeps DEF CreateRequest

\* A handler of Ops works on a page there is.
LEMMA OpsPage ==
  ASSUME IInv, pc[Ops] \notin {"idle", "create"}
  PROVE  /\ page[Ops] \in DOMAIN rows
         /\ \A s \in {"PENDING", "SYNCED", "FAILED"} :
              LET req == SyncStatus(page[Ops], s)
              IN  Asks(req) /\ req # NewRequest /\ req.sync = s
         /\ LET req == Approval(page[Ops])
            IN  Asks(req) /\ req # NewRequest /\ req.sync = "PENDING"
         /\ LET req == Rejection(page[Ops])
            IN  Asks(req) /\ req # NewRequest /\ req.sync = "NOT_REQUIRED"
<1>1. page[Ops] \in DOMAIN rows /\ rows \in Seq(Rows)
  BY DEF IInv, MayTell, TypeOK
<1>2. page[Ops] # 0
  BY <1>1
<1> QED
  BY <1>1, <1>2 DEF Asks, NewRequest, SyncStatus, Approval, Rejection

\* A button of a row there is.
LEMMA PressStep ==
  ASSUME IInv, NEW g \in DOMAIN rows, NEW l \in {"approve", "again", "reject"}, Press(g, l)
  PROVE  IInv'
<1>1. TypeOK
  BY DEF IInv
<1>2. LedgerOK' /\ (roster \/ NothingSynced') /\ DOMAIN rows' = DOMAIN rows
  BY <1>1, LedgerStands DEF Press, TypeOK
<1>3. g \in Pages /\ letter[Ops] \in Letters /\ l \in Positions \ {"send"}
  BY <1>1, SMTT(30) DEF TypeOK, Pages, Positions
<1>4. /\ WriterTypeOK'
      /\ \A q \in Writers \ {Ops} : q \in inside' <=> q \in inside
      /\ Ops \in inside'
  BY <1>1, WriterMoves DEF TypeOK, Press
<1>5. Moves(Ops, l, g, letter[Ops])
  BY <1>1, <1>2, <1>4 DEF TypeOK, Press, Moves, Telling
<1> QED
  BY <1>1, <1>2, <1>3, <1>5, QuietStep DEF Press, TypeOK

LEMMA ApproveStep ==
  ASSUME IInv, Approve \/ ApproveAgain
  PROVE  IInv'
<1>1. CASE Approve
  BY <1>1, OpsPage, CallKeeps DEF Approve
<1>2. CASE ApproveAgain
  BY <1>2, OpsPage, CallKeeps DEF ApproveAgain
<1> QED
  BY <1>1, <1>2

LEMMA ReadBackStep ==
  ASSUME IInv, ReadBack
  PROVE  IInv'
<1>1. TypeOK
  BY DEF IInv
<1>2. UNCHANGED <<ledger, roster, delivery, crashes>>
  BY DEF ReadBack
<1>3. pc[Ops] \in {"approved", "pending"} /\ pc'[Cleaner] = pc[Cleaner]
  BY <1>1 DEF ReadBack, TypeOK, Goto, Done
<1>4. LedgerOK' /\ (roster \/ NothingSynced') /\ DOMAIN rows' = DOMAIN rows
  BY <1>2, <1>3, LedgerStands
<1>5. CASE Goto(Ops, "project") /\ Proceed(Ops)
  <2>1. /\ Moves(Ops, "project", page[Ops], letter[Ops])
        /\ page[Ops] \in Pages /\ letter[Ops] \in Letters
    BY <1>3, <1>4, <1>5, GotoMoves DEF Telling
  <2>2. "project" \in Positions \ {"send"}
    BY DEF Positions
  <2> QED
    BY <1>1, <1>2, <1>4, <2>1, <2>2, QuietStep DEF TypeOK
<1>6. CASE Done(Ops)
  <2>1. /\ Moves(Ops, "idle", page[Ops], letter[Ops])
        /\ page[Ops] \in Pages /\ letter[Ops] \in Letters
    BY <1>4, <1>6, DoneMoves DEF Done
  <2>2. "idle" \in Positions \ {"send"}
    BY DEF Positions
  <2> QED
    BY <1>1, <1>2, <1>4, <2>1, <2>2, QuietStep DEF TypeOK
<1> QED
  BY <1>5, <1>6 DEF ReadBack

LEMMA ProjectStep ==
  ASSUME IInv, Project
  PROVE  IInv'
<1>1. TypeOK
  BY DEF IInv
<1>2. Proceed(Ops) /\ UNCHANGED <<ledger, delivery, crashes>> /\ pc[Ops] = "project"
  BY DEF Project
<1>3. PICK l \in {"sync", "unsync"} : Goto(Ops, l) /\ (l = "sync" => roster' = TRUE)
  BY DEF Project
<1>4. pc'[Cleaner] = pc[Cleaner]
  BY <1>1, <1>3 DEF TypeOK, Goto
<1>5. LedgerOK' /\ (roster \/ NothingSynced') /\ DOMAIN rows' = DOMAIN rows
  BY <1>2, <1>4, LedgerStands
<1>6. Moves(Ops, l, page[Ops], letter[Ops]) /\ page[Ops] \in Pages /\ letter[Ops] \in Letters
  BY <1>2, <1>3, <1>5, GotoMoves DEF Telling
<1>7. l \in Positions \ {"send"}
  BY DEF Positions
<1>8. roster' \in BOOLEAN /\ (roster => roster')
  BY <1>1 DEF Project, TypeOK
<1> QED
  BY <1>1, <1>2, <1>5, <1>6, <1>7, <1>8, QuietStep DEF TypeOK

LEMMA SyncStep ==
  ASSUME IInv, Sync \/ Reject
  PROVE  IInv'
<1>1. pc[Ops] \in {"sync", "unsync", "reject"} /\ UNCHANGED <<roster, delivery, crashes>>
  BY DEF Sync, Reject
<1>2. pc[Ops] = "sync" => roster
  BY DEF IInv, SyncedIsTrue
<1> QED
  BY <1>1, <1>2, OpsPage, LastCallKeeps DEF Sync, Reject

-----------------------------------------------------------------------------
(* Telling.                                                                *)

\* A due message is taken up: an approval only when its row says that it is in effect.
LEMMA ResolveStep ==
  ASSUME IInv, ResolveRequested \/ ResolveApproved \/ ResolveRejected
  PROVE  IInv'
<1>1. TypeOK /\ SyncedIsTrue
  BY DEF IInv
<1>2. PICK p \in Writers, g \in DOMAIN rows, m \in Letters :
        /\ Resolve(p, g, m)
        /\ m \in IF p = Ops THEN Chats ELSE {"approval", "rejection"}
        /\ m = "approval" => rows[g].sync = "SYNCED"
  <2>1. CASE ResolveRequested
    BY <2>1 DEF ResolveRequested, Letters
  <2>2. CASE ResolveApproved
    BY <2>2 DEF ResolveApproved, Letters
  <2>3. CASE ResolveRejected
    BY <2>3 DEF ResolveRejected, Letters
  <2> QED
    BY <2>1, <2>2, <2>3
<1>3. UNCHANGED <<writerVars, ledger, roster, delivery, crashes>> /\ pc[p] = "idle"
  BY <1>2 DEF Resolve
<1>4. pc'[Cleaner] # "create" \/ pc[Cleaner] = "create"
  BY <1>1, <1>2 DEF TypeOK, Resolve
<1>5. LedgerOK' /\ (roster \/ NothingSynced') /\ DOMAIN rows' = DOMAIN rows
  BY <1>3, <1>4, LedgerStands
<1>6. WriterTypeOK' /\ inside' = inside
  BY <1>1, <1>3, WriterMoves DEF TypeOK
<1>7. m = "approval" => roster
  BY <1>1, <1>2 DEF SyncedIsTrue
<1>8. Moves(p, "resolved", g, m)
  BY <1>2, <1>5, <1>6, <1>7 DEF Moves, Resolve, Telling
<1>9. g \in Pages /\ "resolved" \in Positions \ {"send"}
  <2>1. rows \in Seq(Rows) /\ Len(rows) <= MaxLost + 1
    BY <1>1 DEF TypeOK
  <2>2. g \in 1..Len(rows)
    BY <2>1
  <2> QED
    BY <2>1, <2>2 DEF Pages, Positions
<1> QED
  BY <1>1, <1>3, <1>5, <1>8, <1>9, QuietStep DEF TypeOK

\* Who tells, tells of a page there is, and only its own side.
LEMMA OwnSide ==
  ASSUME IInv, NEW p \in Writers, pc[p] \in Telling
  PROVE  /\ page[p] \in Pages /\ letter[p] \in Letters
         /\ p = Cleaner => letter[p] \notin Chats
         /\ \A q \in Writers \ {p} : pc[q] \in Telling => letter[q] # letter[p]
<1>1. \A q \in Writers : pc[q] \in Telling =>
        letter[q] \in IF q = Ops THEN Chats ELSE {"approval", "rejection"}
  BY DEF IInv, MayTell
<1> QED
  BY <1>1 DEF IInv, TypeOK

\* A mark in the delivery file never takes an earlier one away.
LEMMA MarkKeeps ==
  ASSUME IInv, NEW p \in Writers, pc[p] \in Telling,
         NEW s \in LetterRecords \ {"none"}, p = Ops => s \in ChatRecords, Mark(p, s),
         UNCHANGED <<sent, roster>>
  PROVE  /\ DeliveryOK'
         /\ \A g \in Pages, l \in Letters : record'[g][l] = "none" => record[g][l] = "none"
         /\ record'[page[p]][letter[p]] # "none"
<1>1. TypeOK
  BY DEF IInv
<1>2. page[p] \in Pages /\ letter[p] \in Letters /\ (p = Cleaner => letter[p] \notin Chats)
  BY OwnSide
<1>3. \A g \in Pages, l \in Letters :
        record'[g][l] = IF g = page[p] /\ l = letter[p] THEN s ELSE record[g][l]
  BY <1>1, <1>2 DEF TypeOK, Mark
<1>4. record' \in [Pages -> [Letters -> LetterRecords]]
  BY <1>1, <1>2 DEF TypeOK, Mark
<1>5. \A g \in Pages, c \in Chats : record'[g][c] \in ChatRecords
  BY <1>1, <1>2, <1>3 DEF TypeOK, Letters
<1>6. \A g \in Pages, l \in Letters : record'[g][l] = "none" => sent'[g][l] = 0
  BY <1>3 DEF IInv
<1> QED
  BY <1>1, <1>2, <1>3, <1>4, <1>5, <1>6
  DEF IInv, DeliveryOK, TypeOK, ToldAtMostOnce, ApprovalNoticeIsTrue

\* What holds of the ledger when a step of the delivery moves p.
LEMMA DeliveryLeavesLedger ==
  ASSUME IInv, NEW p \in Writers, pc[p] \in Telling, UNCHANGED <<ledger, roster, crashes>>,
         NEW l \in Telling \cup {"idle"}, pc' = [pc EXCEPT ![p] = l]
  PROVE  /\ LedgerOK' /\ (roster \/ NothingSynced') /\ DOMAIN rows' = DOMAIN rows
         /\ roster' \in BOOLEAN /\ (roster => roster') /\ crashes' \in 0..MaxCrashes
         /\ l \in Positions
<1>1. TypeOK
  BY DEF IInv
<1>2. pc'[Cleaner] = "create" => pc[Cleaner] = "create"
  BY <1>1 DEF TypeOK, Telling
<1> QED
  BY <1>1, <1>2, LedgerStands DEF TypeOK, Telling, Positions

\* The attempt is on record, and nothing was sent, when p goes on to send.
LEMMA RecordAttemptStep ==
  ASSUME IInv, NEW p \in Writers, RecordAttempt(p)
  PROVE  IInv'
<1>1. TypeOK
  BY DEF IInv
<1>2. /\ pc[p] = "resolved" /\ pc[p] \in Telling /\ Goto(p, "send") /\ Enter(p)
      /\ pc' = [pc EXCEPT ![p] = "send"]
      /\ UNCHANGED <<ledger, roster, sent, crashes, page, letter>>
  BY DEF RecordAttempt, Telling, Goto
<1>3. /\ LedgerOK' /\ (roster \/ NothingSynced') /\ DOMAIN rows' = DOMAIN rows
      /\ roster' \in BOOLEAN /\ (roster => roster') /\ crashes' \in 0..MaxCrashes
      /\ "send" \in Positions
  BY <1>2, DeliveryLeavesLedger DEF Telling
<1>4. Moves(p, "send", page[p], letter[p]) /\ page[p] \in Pages /\ letter[p] \in Letters
  BY <1>2, <1>3, GotoMoves DEF Telling
<1>5. /\ DeliveryOK'
      /\ \A g \in Pages, l \in Letters : record'[g][l] = "none" => record[g][l] = "none"
      /\ record'[page[p]][letter[p]] # "none"
  BY <1>2, MarkKeeps DEF RecordAttempt, LetterRecords, ChatRecords
<1>6. sent[page[p]][letter[p]] = 0
  BY <1>4 DEF IInv, RecordAttempt, Unsent
<1>7. ASSUME NEW q \in Writers
      PROVE  MaySend(q)'
  <2>1. CASE q = p
    BY <1>2, <1>5, <1>6, <2>1 DEF MaySend
  <2>2. CASE q # p
    <3>1. MaySend(q) /\ page[q] \in Pages /\ letter[q] \in Letters /\ pc'[q] = pc[q]
      BY <1>1, <1>2, <2>2 DEF IInv, TypeOK
    <3> QED
      BY <1>2, <1>5, <3>1 DEF MaySend
  <2> QED
    BY <2>1, <2>2
<1> QED
  BY <1>3, <1>4, <1>5, <1>7, StepKeeps

LEMMA GiveUpStep ==
  ASSUME IInv, NEW p \in Writers, GiveUp(p)
  PROVE  IInv'
<1>1. TypeOK
  BY DEF IInv
<1>2. /\ pc[p] = "resolved" /\ Goto(p, "idle") /\ pc' = [pc EXCEPT ![p] = "idle"]
      /\ UNCHANGED <<writerVars, ledger, roster, delivery, crashes>>
  BY DEF GiveUp, Goto
<1>3. /\ LedgerOK' /\ (roster \/ NothingSynced') /\ DOMAIN rows' = DOMAIN rows
      /\ roster' \in BOOLEAN /\ (roster => roster') /\ crashes' \in 0..MaxCrashes
      /\ "idle" \in Positions \ {"send"}
  BY <1>2, DeliveryLeavesLedger DEF Telling
<1>4. Moves(p, "idle", page[p], letter[p]) /\ page[p] \in Pages /\ letter[p] \in Letters
  BY <1>2, <1>3, GotoMoves DEF Telling
<1> QED
  BY <1>2, <1>3, <1>4, QuietStep

\* A message leaves once, since p stands at "send" only while nothing was sent; the other
\* process tells the other side.
LEMMA SendStep ==
  ASSUME IInv, NEW p \in Writers, Send(p)
  PROVE  IInv'
<1>1. TypeOK
  BY DEF IInv
<1>2. /\ pc[p] = "send" /\ pc[p] \in Telling
      /\ UNCHANGED <<ledger, roster, record, page, letter, crashes>>
  BY DEF Send, Telling
<1>3. PICK l \in {"sent", "unanswered", "idle"} :
        /\ Goto(p, l) /\ pc' = [pc EXCEPT ![p] = l]
        /\ IF l = "idle" THEN Exit(p) ELSE Proceed(p)
        /\ sent' = sent \/ sent' = [sent EXCEPT ![page[p]][letter[p]] = @ + 1]
  BY <1>2 DEF Send, Goto
<1>4. /\ LedgerOK' /\ (roster \/ NothingSynced') /\ DOMAIN rows' = DOMAIN rows
      /\ roster' \in BOOLEAN /\ (roster => roster') /\ crashes' \in 0..MaxCrashes
      /\ l \in Positions
  BY <1>2, <1>3, DeliveryLeavesLedger DEF Telling
<1>5. Moves(p, l, page[p], letter[p]) /\ page[p] \in Pages /\ letter[p] \in Letters
  BY <1>2, <1>3, <1>4, GotoMoves DEF Telling
<1>6. record[page[p]][letter[p]] # "none" /\ sent[page[p]][letter[p]] = 0
  BY <1>2 DEF IInv, MaySend
<1>7. letter[p] = "approval" => roster
  BY <1>2 DEF IInv, SyncedIsTrue
<1>8. /\ sent' \in [Pages -> [Letters -> Nat]]
      /\ \A g \in Pages, m \in Letters :
           sent'[g][m] = sent[g][m] \/ (sent'[g][m] = 1 /\ g = page[p] /\ m = letter[p])
  <2>1. sent \in [Pages -> [Letters -> Nat]]
    BY <1>1 DEF TypeOK
  <2>2. sent' = sent \/ sent' = [sent EXCEPT ![page[p]][letter[p]] = 1]
    BY <1>3, <1>5, <1>6, <2>1
  <2> QED
    BY <1>5, <2>1, <2>2
<1>9. DeliveryOK'
  <2>1. \A g \in Pages, m \in Letters : record'[g][m] = "none" => sent'[g][m] = 0
    BY <1>2, <1>6, <1>8 DEF IInv
  <2>2. ToldAtMostOnce'
    BY <1>8 DEF IInv, ToldAtMostOnce
  <2>3. ApprovalNoticeIsTrue'
    BY <1>2, <1>7, <1>8 DEF IInv, ApprovalNoticeIsTrue, Letters
  <2> QED
    BY <1>1, <1>2, <1>8, <2>1, <2>2, <2>3 DEF DeliveryOK, TypeOK
<1>10. ASSUME NEW q \in Writers
       PROVE  MaySend(q)'
  <2>1. q = p => pc'[q] # "send"
    BY <1>1, <1>3 DEF TypeOK
  <2>2. q # p /\ pc[q] = "send" => letter[q] # letter[p]
    BY <1>2, OwnSide DEF Telling
  <2>3. q # p => pc'[q] = pc[q]
    BY <1>1, <1>3 DEF TypeOK
  <2>4. MaySend(q) /\ page[q] \in Pages /\ letter[q] \in Letters
    BY <1>1 DEF IInv, TypeOK
  <2> QED
    BY <1>2, <1>8, <2>1, <2>2, <2>3, <2>4 DEF MaySend
<1> QED
  BY <1>4, <1>5, <1>9, <1>10, StepKeeps

\* What Telegram answered is recorded, or that it did not answer.
LEMMA RecordStep ==
  ASSUME IInv, NEW p \in Writers, RecordDelivery(p) \/ RecordUncertain(p)
  PROVE  IInv'
<1>1. TypeOK
  BY DEF IInv
<1>2. /\ pc[p] \in {"sent", "unanswered"} /\ pc[p] \in Telling /\ Exit(p)
      /\ UNCHANGED <<ledger, roster, sent, crashes>>
  BY DEF RecordDelivery, RecordUncertain, Telling, Done
<1>3. /\ DeliveryOK'
      /\ \A g \in Pages, l \in Letters : record'[g][l] = "none" => record[g][l] = "none"
  <2>1. CASE UNCHANGED record
    BY <1>2, <2>1, DeliveryStands DEF delivery
  <2>2. CASE Mark(p, "delivered")
    BY <1>2, <2>2, MarkKeeps DEF LetterRecords, ChatRecords
  <2>3. CASE Mark(p, "uncertain") /\ p = Cleaner
    BY <1>2, <2>3, MarkKeeps DEF LetterRecords
  <2> QED
    BY <2>1, <2>2, <2>3 DEF RecordDelivery, RecordUncertain
<1>4. PICK l \in {"idle", "resolved"}, m \in Letters :
        /\ pc' = [pc EXCEPT ![p] = l]
        /\ page' = page
        /\ letter' = [letter EXCEPT ![p] = m]
        /\ l = "resolved" => p = Ops /\ m \in Chats
  <2>1. CASE Goto(p, "idle")
    BY <1>1, <2>1 DEF Goto, TypeOK
  <2>2. CASE \E c \in Chats : /\ letter' = [letter EXCEPT ![p] = c]
                              /\ p = Ops
                              /\ pc' = [pc EXCEPT ![p] = "resolved"]
                              /\ page' = page
    BY <2>2 DEF Letters
  <2> QED
    BY <2>1, <2>2 DEF RecordDelivery, RecordUncertain, Done
<1>5. /\ LedgerOK' /\ (roster \/ NothingSynced') /\ DOMAIN rows' = DOMAIN rows
      /\ roster' \in BOOLEAN /\ (roster => roster') /\ crashes' \in 0..MaxCrashes
      /\ l \in Positions
  BY <1>2, <1>4, DeliveryLeavesLedger DEF Telling
<1>6. Moves(p, l, page[p], m) /\ page[p] \in Pages
  <2>1. WriterTypeOK' /\ \A q \in Writers \ {p} : q \in inside' <=> q \in inside
    BY <1>1, <1>2, WriterMoves DEF TypeOK
  <2>2. page[p] \in DOMAIN rows'
    BY <1>2, <1>5 DEF IInv, MayTell
  <2>3. page' = [page EXCEPT ![p] = page[p]] /\ page[p] \in Pages
    BY <1>1, <1>4 DEF TypeOK
  <2> QED
    BY <1>4, <2>1, <2>2, <2>3 DEF Moves, Telling
<1>7. ASSUME NEW q \in Writers
      PROVE  MaySend(q)'
  <2>1. MaySend(q) /\ page[q] \in Pages /\ letter[q] \in Letters
    BY <1>1 DEF IInv, TypeOK
  <2>2. pc'[q] = "send" => q # p /\ pc[q] = "send"
    BY <1>1, <1>4 DEF TypeOK
  <2>3. q # p => letter'[q] = letter[q]
    BY <1>1, <1>4 DEF TypeOK
  <2> QED
    BY <1>2, <1>3, <1>4, <2>1, <2>2, <2>3 DEF MaySend
<1> QED
  BY <1>3, <1>4, <1>5, <1>6, <1>7, StepKeeps

LEMMA DeliverStep ==
  ASSUME IInv, NEW p \in Writers, Deliver(p)
  PROVE  IInv'
  BY RecordAttemptStep, GiveUpStep, SendStep, RecordStep DEF Deliver

-----------------------------------------------------------------------------
(* Crashes, late requests and the lease server.                            *)

LEMMA CrashStep ==
  ASSUME IInv, NEW p \in Writers, Crash(p)
  PROVE  IInv'
<1>1. TypeOK
  BY DEF IInv
<1>2. Die(p) /\ Goto(p, "idle") /\ UNCHANGED <<ledger, roster, delivery>>
  BY DEF Crash
<1>3. crashes' \in 0..MaxCrashes
  BY <1>1 DEF Crash, TypeOK
<1>4. pc'[Cleaner] = "create" => pc[Cleaner] = "create"
  BY <1>1, <1>2 DEF TypeOK, Goto
<1>5. LedgerOK' /\ (roster \/ NothingSynced') /\ DOMAIN rows' = DOMAIN rows
  BY <1>2, <1>4, LedgerStands
<1>6. Moves(p, "idle", page[p], letter[p]) /\ page[p] \in Pages /\ letter[p] \in Letters
  BY <1>2, <1>5, DoneMoves
<1>7. "idle" \in Positions \ {"send"}
  BY DEF Positions
<1> QED
  BY <1>1, <1>2, <1>3, <1>5, <1>6, <1>7, QuietStep DEF TypeOK

\* A step in which no process moves.
LEMMA StandStep ==
  ASSUME IInv, LedgerOK', roster \/ NothingSynced', DOMAIN rows \subseteq DOMAIN rows',
         WriterTypeOK', inside' = inside, UNCHANGED <<roster, delivery, local, crashes>>
  PROVE  IInv'
<1>1. TypeOK
  BY DEF IInv
<1>2. TypeOK'
  BY <1>1 DEF TypeOK, LedgerOK, delivery, local
<1>3. SyncedIsTrue'
  BY DEF IInv, SyncedIsTrue, NothingSynced, local
<1>4. \A p \in Writers : MayTell(p)' /\ MaySend(p)'
  <2> SUFFICES ASSUME NEW p \in Writers
               PROVE  MayTell(p)' /\ MaySend(p)'
    OBVIOUS
  <2>1. MayTell(p) /\ MaySend(p)
    BY DEF IInv
  <2> QED
    BY <2>1 DEF MayTell, MaySend, delivery, local
<1>5. DeliveryOK'
  BY DeliveryStands
<1> QED
  BY <1>2, <1>3, <1>4, <1>5 DEF IInv, LedgerOK, DeliveryOK

LEMMA LandStep ==
  ASSUME IInv, Land
  PROVE  IInv'
<1>1. PICK req \in lost : rows' = Applied(req) /\ lost' = lost \ {req}
  BY DEF Land
<1>2. UNCHANGED <<writerVars, failures, roster, delivery, local, crashes>>
  BY DEF Land
<1>3. LedgerOK' /\ DOMAIN rows \subseteq DOMAIN rows' /\ (roster \/ NothingSynced')
  BY <1>1, <1>2, LandMoves DEF local
<1>4. WriterTypeOK' /\ inside' = inside
  BY <1>2 DEF IInv, TypeOK, WriterTypeOK, writerVars
<1> QED
  BY <1>2, <1>3, <1>4, StandStep

LEMMA LeaseMovesStep ==
  ASSUME IInv, LeaseMoves
  PROVE  IInv'
<1>1. UNCHANGED <<ledger, roster, delivery, local, crashes>>
  BY DEF LeaseMoves
<1>2. LedgerOK' /\ (roster \/ NothingSynced') /\ DOMAIN rows' = DOMAIN rows
  BY <1>1, LedgerStands DEF local
<1>3. WriterTypeOK' /\ inside' = inside
  BY WriterMoves DEF LeaseMoves, IInv, TypeOK
<1> QED
  BY <1>1, <1>2, <1>3, StandStep

-----------------------------------------------------------------------------

LEMMA InitIInv == Init => IInv
<1> SUFFICES ASSUME Init
             PROVE  IInv
  OBVIOUS
<1>1. rows = << >> /\ rows \in Seq(Rows) /\ Len(rows) = 0 /\ DOMAIN rows = {}
  BY DEF Init
<1>2. TypeOK
  <2>1. WriterTypeOK
    BY DEF Init, WriterInit, WriterTypeOK
  <2>2. /\ record \in [Pages -> [Letters -> LetterRecords]]
        /\ \A g \in Pages, c \in Chats : record[g][c] \in ChatRecords
        /\ sent \in [Pages -> [Letters -> Nat]]
    BY DEF Init, Letters, LetterRecords, ChatRecords
  <2>3. 1 \in Pages /\ "idle" \in Positions /\ "approval" \in Letters
    BY DEF Pages, Positions, Letters
  <2>4. /\ pc \in [Writers -> Positions]
        /\ page \in [Writers -> Pages]
        /\ letter \in [Writers -> Letters]
        /\ \A p \in Writers : pc[p] = "idle"
    BY <2>3 DEF Init
  <2>5. Len(rows) <= MaxLost + 1 /\ failures \in 0..MaxLost /\ crashes \in 0..MaxCrashes
    BY <1>1 DEF Init
  <2> QED
    BY <1>1, <2>1, <2>2, <2>4, <2>5 DEF Init, TypeOK
<1>3. RowsAreFew
  BY <1>1 DEF Init, RowsAreFew, One
<1>4. SyncedIsTrue
  BY <1>1 DEF Init, SyncedIsTrue
<1>5. \A p \in Writers : MayTell(p) /\ MaySend(p)
  BY DEF Init, MayTell, MaySend, Telling
<1>6. /\ \A g \in Pages, l \in Letters : record[g][l] = "none" => sent[g][l] = 0
      /\ ToldAtMostOnce
      /\ ApprovalNoticeIsTrue
  BY DEF Init, ToldAtMostOnce, ApprovalNoticeIsTrue, Letters
<1> QED
  BY <1>2, <1>3, <1>4, <1>5, <1>6 DEF IInv

LEMMA NextIInv == IInv /\ [Next]_vars => IInv'
<1> SUFFICES ASSUME IInv, [Next]_vars
             PROVE  IInv'
  OBVIOUS
<1>1. CASE UNCHANGED vars
  <2>1. UNCHANGED <<writerVars, ledger, roster, delivery, local, crashes>>
    BY <1>1 DEF vars
  <2>2. LedgerOK' /\ (roster \/ NothingSynced') /\ DOMAIN rows' = DOMAIN rows
    BY <2>1, LedgerStands DEF local
  <2>3. WriterTypeOK' /\ inside' = inside
    BY <2>1 DEF IInv, TypeOK, WriterTypeOK, writerVars
  <2> QED
    BY <2>1, <2>2, <2>3, StandStep
<1>2. CASE HandleRequest \/ Decide
  <2>1. (\E g \in DOMAIN rows, l \in {"approve", "again", "reject"} : Press(g, l)) => IInv'
    BY PressStep
  <2>2. PressApprove \/ PressReject =>
          \E g \in DOMAIN rows, l \in {"approve", "again", "reject"} : Press(g, l)
    BY DEF PressApprove, PressReject
  <2> QED
    BY <1>2, <2>1, <2>2, RequestAccessStep, CreateRequestStep, ApproveStep, ReadBackStep,
       ProjectStep, SyncStep DEF HandleRequest, Decide
<1>3. CASE ResolveRequested \/ ResolveApproved \/ ResolveRejected
  BY <1>3, ResolveStep
<1>4. CASE TellOperators \/ TellCleaner
  BY <1>4, DeliverStep DEF TellOperators, TellCleaner, TellApproval, TellRejection
<1>5. CASE (\E p \in Writers : Crash(p)) \/ Land \/ LeaseMoves
  BY <1>5, CrashStep, LandStep, LeaseMovesStep
<1> QED
  BY <1>1, <1>2, <1>3, <1>4, <1>5 DEF Next

\* The inductive invariant.
THEOREM Invariant == Spec => []IInv
  BY InitIInv, NextIInv, PTL DEF Spec

\* Rows, requests and delivery files keep their shapes, and there is never a row more than
\* one and the requests that raised.
THEOREM TypeCorrect == Spec => []TypeOK
<1>1. IInv => TypeOK
  BY DEF IInv
<1> QED
  BY <1>1, Invariant, PTL

\* No message about an Access page goes out twice.
THEOREM NobodyIsToldTwice == Spec => []ToldAtMostOnce
<1>1. IInv => ToldAtMostOnce
  BY DEF IInv
<1> QED
  BY <1>1, Invariant, PTL

\* A cleaner is told of an approval only once the roster has the property.
THEOREM NoticesAreTrue == Spec => []ApprovalNoticeIsTrue
<1>1. IInv => ApprovalNoticeIsTrue
  BY DEF IInv
<1> QED
  BY <1>1, Invariant, PTL

=============================================================================
