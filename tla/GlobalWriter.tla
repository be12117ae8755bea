---------------------------- MODULE GlobalWriter ----------------------------
(***************************************************************************)
(* The production writer lease: one lease, kept by the control server, that *)
(* every process takes for one unit of mutation and asserts before each    *)
(* effect.                                                                 *)
(*                                                                         *)
(*   propertyai_core/global_writer.py   GlobalProductionWriterLease        *)
(*                                                                         *)
(* The modules whose processes write under the lease extend this one.      *)
(*                                                                         *)
(* A process holds at most one lease at a time and takes a new one only    *)
(* when there is none, so its owner id stands for the fencing token.       *)
(***************************************************************************)
EXTENDS Naturals

CONSTANTS
    Writers,   \* writer codes: one process each
    Nobody,    \* no lease
    MaxLapses  \* bound: leases that run out under a process still at work

ASSUME WritersAssumption ==
    /\ Nobody \notin Writers
    /\ MaxLapses \in Nat

VARIABLES
    lease,   \* whose lease the control server has
    inside,  \* the processes inside their mutation scope
    passed,  \* those whose lease ran out between an assertion that passed and the effect
    lapses

writerVars == <<lease, inside, passed, lapses>>

WriterTypeOK ==
    /\ lease \in Writers \cup {Nobody}
    /\ inside \subseteq Writers
    /\ passed \subseteq inside
    /\ lapses \in 0..MaxLapses

WriterInit ==
    /\ lease = Nobody
    /\ inside = {}
    /\ passed = {}
    /\ lapses = 0

\* assert_current() answers.
Current(p) == p \in inside /\ lease = p

\* p may make its next effect: it asks and is answered, or it was answered and its lease
\* ran out before the effect.  Nothing looks again in between.
Cleared(p) == p \in inside /\ (lease = p \/ p \in passed)

\* p goes on to its next step, for which it must ask again.
Proceed(p) ==
    /\ passed' = passed \ {p}
    /\ UNCHANGED <<lease, inside, lapses>>

-----------------------------------------------------------------------------

\* __enter__ up to the body.
Enter(p) ==
    /\ p \notin inside
    /\ lease = Nobody
    /\ lease' = p
    /\ inside' = inside \cup {p}
    /\ UNCHANGED <<passed, lapses>>

\* __enter__ raises after the server granted the lease: the answer was lost, or the
\* revalidation failed and so did the release.
EnterInVain(p) ==
    /\ p \notin inside
    /\ lease = Nobody
    /\ lease' = p
    /\ UNCHANGED <<inside, passed, lapses>>

\* __exit__; a release that fails leaves the lease to run out.
Exit(p) ==
    /\ inside' = inside \ {p}
    /\ passed' = passed \ {p}
    /\ \/ lease' = IF lease = p THEN Nobody ELSE lease
       \/ lease' = lease
    /\ UNCHANGED lapses

\* The process dies and cannot release.
Die(p) ==
    /\ inside' = inside \ {p}
    /\ passed' = passed \ {p}
    /\ UNCHANGED <<lease, lapses>>

\* No heartbeat came for ttl_seconds: the thread failed, or the process stood still, before
\* or after it asserted its lease for what it does next.
Lapse ==
    /\ lease # Nobody
    /\ \/ /\ lease \in inside
          /\ lapses < MaxLapses /\ lapses' = lapses + 1
          /\ passed' \in {passed, passed \cup {lease}}
       \/ lease \notin inside /\ UNCHANGED <<passed, lapses>>
    /\ lease' = Nobody
    /\ UNCHANGED inside
=============================================================================
