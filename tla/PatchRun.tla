------------------------------ MODULE PatchRun -------------------------------
(***************************************************************************)
(* apply_t16_patches.py: the instrumentation edits of ticket 16, each the   *)
(* replacement of an anchor that must occur exactly once, applied to the    *)
(* engine's sources in memory and then written, one source after another.   *)
(*                                                                          *)
(* A source is a count per edit: how often it has been applied.  The new    *)
(* text of most edits no longer holds the anchor; that of the sticky ones   *)
(* does, so the anchor alone does not tell whether they were applied.       *)
(***************************************************************************)
EXTENDS Naturals

CONSTANTS
    Sources,    \* the sources, numbered in the order in which the edits name them
    EditsOf,    \* EditsOf[f]: the edits of source f
    Sticky,     \* edits whose new text holds the anchor again
    PatchRuns   \* bound: runs of the script

Edits == UNION {EditsOf[f] : f \in Sources}

\* Every source has an edit that takes its anchor away.
ASSUME PatchAssumption ==
    /\ Sources \subseteq Nat /\ PatchRuns \in Nat
    /\ \A f \in Sources : EditsOf[f] \ Sticky # {}

VARIABLES
    applied,  \* applied[f]: applications of each edit of source f as the file has it
    cut,      \* sources a kill left as the beginning of what was being written
    texts,    \* the sources as the script holds them, or none
    patch     \* where the script is: phase, the sources it has written, runs so far

patchVars == <<applied, cut, texts, patch>>

Pristine == [f \in Sources |-> [e \in EditsOf[f] |-> 0]]

PatchInit ==
    /\ applied = Pristine /\ cut = {} /\ texts = Pristine
    /\ patch = [phase |-> "idle", written |-> {}, runs |-> 0]

\* MUTANT: an anchor that is not there is taken for an edit that has been made.
Applicable(f, e) == TRUE

\* The anchor occurs once.  Of a source that was cut, one that is gone stays gone.
AnchorOnce(f, e) == e \in Sticky \/ (applied[f][e] = 0 /\ f \notin cut)

Problem == \E f \in Sources : \E e \in EditsOf[f] : ~AnchorOnce(f, e)

\* All reading, checking and replacing precedes all writing.
ReadSources ==
    /\ patch.phase # "writes" /\ patch.runs < PatchRuns
    /\ IF Problem
       THEN patch' = [phase |-> "refused", written |-> {}, runs |-> patch.runs + 1] /\ UNCHANGED texts
       ELSE /\ texts' = [f \in Sources |-> [e \in EditsOf[f] |-> applied[f][e] + 1]]
            /\ patch' = [phase |-> "writes", written |-> {}, runs |-> patch.runs + 1]
    /\ UNCHANGED <<applied, cut>>

ToWrite == {f \in Sources \ patch.written : \A g \in Sources \ patch.written : f <= g}

WriteSource ==
    /\ patch.phase = "writes"
    /\ \E f \in ToWrite :
         /\ applied' = [applied EXCEPT ![f] = texts[f]]
         /\ cut' = cut \ {f}
         /\ patch' = [patch EXCEPT !.written = @ \cup {f},
                                   !.phase = IF patch.written \cup {f} = Sources THEN "applied" ELSE @]
    /\ UNCHANGED texts

\* A kill, before a write or in the middle of it.
KillPatch ==
    /\ patch.phase = "writes"
    /\ patch' = [patch EXCEPT !.phase = "killed"]
    /\ \/ UNCHANGED <<applied, cut>>
       \/ \E f \in ToWrite :
            applied' = [applied EXCEPT ![f] = texts[f]] /\ cut' = cut \cup {f}
    /\ UNCHANGED texts

\* A source is checked out again.
Checkout(f) ==
    /\ patch.phase # "writes"
    /\ applied' = [applied EXCEPT ![f] = Pristine[f]] /\ cut' = cut \ {f}
    /\ patch' = [patch EXCEPT !.phase = "idle"]
    /\ UNCHANGED texts

PatchNext ==
    \/ ReadSources \/ WriteSource \/ KillPatch
    \/ \E f \in Sources : Checkout(f)

PatchSpec == PatchInit /\ [][PatchNext]_patchVars

-----------------------------------------------------------------------------
(***************************************************************************)
(* A run that a kill left half applied, or that is repeated, never applies  *)
(* an edit a second time, although the anchors of the sticky edits are      *)
(* still there; and when the script reports its edits applied, every source *)
(* is complete and has each of them once.                                   *)
(***************************************************************************)
AppliedOnce ==
    /\ \A f \in Sources : \A e \in EditsOf[f] : applied[f][e] <= 1
    /\ patch.phase = "applied" =>
         /\ cut = {}
         /\ \A f \in Sources : \A e \in EditsOf[f] : applied[f][e] = 1
=============================================================================
