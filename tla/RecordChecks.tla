---------------------------- MODULE RecordChecks -----------------------------
(***************************************************************************)
(* check_campaign_records.py: check_matrix_completeness, which asks whether *)
(* every executed attempt is accounted for, by an entry of a matrix history *)
(* or by an exclusion the user accepted.                                    *)
(*                                                                          *)
(* The check sees ids only: history entries and exclusions name an attempt  *)
(* by its id, and ids are handed in by hand.  So the records of a campaign  *)
(* are given here with the attempt each of them is really about:            *)
(*   records     [id, attempt, kind], the attempt-record files              *)
(*   merged      [id, attempt], the entries of all matrix histories         *)
(*   exclusions  [scope, attempt, by, dated]: the ids the scope names and   *)
(*               the attempt the user meant                                 *)
(* An attempt is [manifest, case, turn]: the turn tells attempts of one     *)
(* case under one manifest apart, which the records do not show.            *)
(***************************************************************************)
EXTENDS Given

Identity(r) == <<r.attempt.manifest, r.attempt.case>>

Originals(g) == {r \in g.records : r.kind = "original"}

Valid(x) == x.by = "user" /\ x.dated

ExcludedIds(g) == UNION {x.scope : x \in {y \in g.exclusions : Valid(y)}}
MergedIds(g) == {e.id : e \in g.merged}

\* MUTANT: one id may stand for two attempts.
ClashesUnseen(g) == {}

\* An id carried by two originals must agree on invocation and case.
Clashes(g) ==
    {r.id : r \in {s \in Originals(g) :
                     \E t \in Originals(g) : t.id = s.id /\ Identity(t) # Identity(s)}}

Unaccounted(g) == {r.id : r \in Originals(g)} \ (MergedIds(g) \cup ExcludedIds(g))

\* No failure is reported, of an exclusion that excludes nothing either.
FoundComplete(g) == Clashes(g) = {} /\ Unaccounted(g) = {} /\ \A x \in g.exclusions : Valid(x)

-----------------------------------------------------------------------------
\* What was merged or excluded is an original whose record is still there, under that id.
RecordsKept(g) ==
    \A e \in g.merged \cup g.exclusions :
        \A i \in IF e \in g.merged THEN {e.id} ELSE e.scope :
            \E r \in Originals(g) : r.id = i /\ r.attempt = e.attempt

(***************************************************************************)
(* When the check finds nothing, no attempt was excused by what is said of  *)
(* another: each original is in a history, or in an exclusion the user      *)
(* dated, that is about its own case under its own manifest; provided the   *)
(* records of what was merged or excluded are still there to compare with.  *)
(***************************************************************************)
CheckIsSound ==
    (At("completeness") /\ RecordsKept(given) /\ FoundComplete(given)) =>
        \A r \in Originals(given) :
            \/ \E e \in given.merged : Identity(e) = Identity(r)
            \/ \E x \in given.exclusions : Valid(x) /\ Identity(x) = Identity(r)
=============================================================================
