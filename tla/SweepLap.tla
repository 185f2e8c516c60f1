------------------------------ MODULE SweepLap ------------------------------
(***************************************************************************)
(* explore_sweep_lap.py: one lap of the growth-gate sweep over pages P and  *)
(* Q against the undo of the INSERT that emptied P.  The script enumerates  *)
(* the interleavings of the two step lists; here each step is an action.    *)
(***************************************************************************)
EXTENDS Integers

CONSTANTS Inputs    \* [gate, busyRule, q, pending, boot]: the parameters of explore

LapAssumption ==
    Inputs \subseteq [gate : BOOLEAN, busyRule : {"skip", "defer"}, q : {"full", "empty_old", "busy"},
                      pending : Nat, boot : BOOLEAN]
ASSUME LapAssumption

VARIABLES
    rules,    \* the member of Inputs explored
    undo,     \* the undo's next step
    sweep,    \* the sweep's next step
    pageP,    \* [latched, empty, alloc]
    gate,     \* [pending, boot]: the deletes noted, and whether this boot saw a lap end
    lap       \* [claimed, atStart, deferred, stopped, lost]: what the sweep keeps of its
              \* lap; lost is no state of the script: P was skipped while latched

lapVars == <<rules, undo, sweep, pageP, gate, lap>>

LapInit ==
    /\ rules \in Inputs
    /\ undo = "latch" /\ sweep = "claim"
    /\ pageP = [latched |-> FALSE, empty |-> FALSE, alloc |-> TRUE]
    /\ gate = [pending |-> rules.pending, boot |-> rules.boot]
    /\ lap = [claimed |-> FALSE, atStart |-> 0, deferred |-> 0, stopped |-> FALSE, lost |-> FALSE]

UndoActive == undo # "done"
Armed == gate.pending > 0 \/ ~gate.boot

\* Whether a lap whose P (or Q) cannot be read comes back to it.
DeferBusy == rules.busyRule = "defer"

-----------------------------------------------------------------------------
UndoStep(at, next) == undo = at /\ undo' = next /\ UNCHANGED <<rules, sweep, lap>>

Latch ==
    /\ UndoStep("latch", "delete_note")
    /\ pageP' = [pageP EXCEPT !.latched = TRUE] /\ UNCHANGED gate

\* The record goes and the hint comes under the latch.
DeleteNote ==
    /\ UndoStep("delete_note", "release")
    /\ pageP' = [pageP EXCEPT !.empty = TRUE]
    /\ gate' = [gate EXCEPT !.pending = @ + 1]

Release ==
    /\ UndoStep("release", "end")
    /\ pageP' = [pageP EXCEPT !.latched = FALSE] /\ UNCHANGED gate

EndUndo == UndoStep("end", "done") /\ UNCHANGED <<pageP, gate>>

-----------------------------------------------------------------------------
SweepStep(at, next) == sweep = at /\ sweep' = next /\ UNCHANGED <<rules, undo>>

Claim ==
    /\ SweepStep("claim", "visit_P")
    /\ lap' = IF Armed THEN [lap EXCEPT !.claimed = TRUE, !.atStart = gate.pending] ELSE lap
    /\ UNCHANGED <<pageP, gate>>

Sweeping == lap.claimed /\ ~lap.stopped

Deferred(l) == [l EXCEPT !.deferred = @ + 1]

VisitP ==
    /\ SweepStep("visit_P", "visit_Q") /\ UNCHANGED gate
    /\ \/ /\ Sweeping /\ pageP.latched
          /\ lap' = (IF DeferBusy THEN Deferred(lap) ELSE [lap EXCEPT !.lost = TRUE])
          /\ UNCHANGED pageP
       \/ /\ Sweeping /\ ~pageP.latched /\ pageP.empty
          /\ IF rules.gate /\ UndoActive
             THEN lap' = Deferred(lap) /\ UNCHANGED pageP
             ELSE pageP' = [pageP EXCEPT !.alloc = FALSE] /\ lap' = [lap EXCEPT !.stopped = TRUE]
       \/ (~Sweeping \/ (~pageP.latched /\ ~pageP.empty)) /\ UNCHANGED <<pageP, lap>>

VisitQ ==
    /\ SweepStep("visit_Q", "settle") /\ UNCHANGED <<pageP, gate>>
    /\ lap' = CASE ~Sweeping                        -> lap
                [] rules.q = "busy" /\ DeferBusy    -> Deferred(lap)
                [] rules.q = "empty_old"            -> [lap EXCEPT !.stopped = TRUE]
                [] OTHER                            -> lap

Monus(a, b) == IF a > b THEN a - b ELSE 0

\* MUTANT: all the hints there are count as served, those noted during the lap too.
SettledAll == lap.deferred

\* Only the hints the lap began with are served.
Settled == Monus(gate.pending, lap.atStart) + lap.deferred

Settle ==
    /\ SweepStep("settle", "done") /\ UNCHANGED <<pageP, lap>>
    /\ gate' = IF Sweeping THEN [pending |-> Settled, boot |-> TRUE] ELSE gate

LapNext ==
    \/ Latch \/ DeleteNote \/ Release \/ EndUndo
    \/ Claim \/ VisitP \/ VisitQ \/ Settle

LapSpec == LapInit /\ [][LapNext]_lapVars

-----------------------------------------------------------------------------
(***************************************************************************)
(* When the undo and the lap are over, an empty page that is still          *)
(* allocated is not forgotten: the next growth sweeps again, whatever the   *)
(* order of the steps, provided a page the lap found busy is deferred.      *)
(* Under the rule that skips a busy page, the one way to lose the hint is   *)
(* to have come to P while the undo held its latch.                         *)
(***************************************************************************)
StrandedIsArmed ==
    (undo = "done" /\ sweep = "done" /\ pageP.empty /\ pageP.alloc /\ ~Armed)
        => (rules.busyRule = "skip" /\ lap.lost)
=============================================================================
