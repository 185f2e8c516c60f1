----------------------------- MODULE ScriptProofs -----------------------------
(***************************************************************************)
(* Proofs about the scripts beside the campaign tools: the patch script,    *)
(* the sweep lap, the placement in tiers, the completeness check, the       *)
(* corrections of records, and the sizes the fixtures are derived from.     *)
(***************************************************************************)
EXTENDS PatchRun, SweepLap, TierPlacement, RecordChecks, RecordCorrections, FixtureSizes,
        NumberProofs, SequenceTheorems, FiniteSetTheorems, TLAPS

-----------------------------------------------------------------------------
(***************************************************************************)
(* The patch script.                                                        *)
(***************************************************************************)

\* Source f with each of its edits applied n times.
Times(f, n) == [e \in EditsOf[f] |-> n]

(***************************************************************************)
(* A source has all of its edits or none.  What the script holds between    *)
(* its reading and its last write is each source with its edits once, and   *)
(* no source is cut, or the script would have refused.                      *)
(***************************************************************************)
PatchInv ==
    /\ applied = [f \in Sources |-> applied[f]] /\ cut \subseteq Sources
    /\ \A f \in Sources : applied[f] = Times(f, 0) \/ applied[f] = Times(f, 1)
    /\ patch \in [phase : {"idle", "refused", "writes", "killed", "applied"},
                  written : SUBSET Sources, runs : Nat]
    /\ patch.phase = "writes" =>
         /\ cut = {} /\ texts = [f \in Sources |-> Times(f, 1)]
         /\ \A f \in patch.written : applied[f] = Times(f, 1)
    /\ patch.phase = "applied" => cut = {} /\ \A f \in Sources : applied[f] = Times(f, 1)

LEMMA PatchInitInv == PatchInit => PatchInv
    BY DEF PatchInit, PatchInv, Pristine, Times

\* A source that is written, or checked out, has its edits once, or not at all.
LEMMA OneSourceChanges ==
    ASSUME PatchInv, NEW f \in Sources, NEW n \in {0, 1},
           applied' = [applied EXCEPT ![f] = Times(f, n)]
    PROVE  /\ applied' = [g \in Sources |-> applied'[g]]
           /\ \A g \in Sources : applied'[g] = Times(g, 0) \/ applied'[g] = Times(g, 1)
           /\ applied'[f] = Times(f, n)
           /\ \A g \in Sources \ {f} : applied'[g] = applied[g]
<1>1. applied = [g \in Sources |-> applied[g]]
  BY DEF PatchInv
<1>2. /\ applied' = [g \in Sources |-> applied'[g]]
      /\ applied'[f] = Times(f, n)
      /\ \A g \in Sources \ {f} : applied'[g] = applied[g]
  BY <1>1
<1>3. \A g \in Sources : applied[g] = Times(g, 0) \/ applied[g] = Times(g, 1)
  BY DEF PatchInv
<1> QED
  BY <1>2, <1>3

LEMMA ReadKeeps == ASSUME PatchInv, ReadSources PROVE PatchInv'
<1>1. CASE Problem
  <2>1. /\ patch' = [phase |-> "refused", written |-> {}, runs |-> patch.runs + 1]
        /\ applied' = applied /\ cut' = cut
    BY <1>1 DEF ReadSources
  <2>2. patch.runs \in Nat
    BY DEF PatchInv
  <2> QED
    BY <2>1, <2>2 DEF PatchInv
<1>2. CASE ~Problem
  <2>1. /\ texts' = [f \in Sources |-> [e \in EditsOf[f] |-> applied[f][e] + 1]]
        /\ patch' = [phase |-> "writes", written |-> {}, runs |-> patch.runs + 1]
        /\ applied' = applied /\ cut' = cut
    BY <1>2 DEF ReadSources
  <2>2. ASSUME NEW f \in Sources PROVE f \notin cut /\ applied[f] = Times(f, 0)
    <3>1. PICK e \in EditsOf[f] : e \notin Sticky
      BY PatchAssumption
    <3>2. applied[f][e] = 0 /\ f \notin cut
      BY <1>2, <3>1 DEF Problem, AnchorOnce
    <3>3. applied[f] = Times(f, 1) => applied[f][e] = 1
      BY DEF Times
    <3> QED
      BY <3>2, <3>3 DEF PatchInv
  <2>3. texts' = [f \in Sources |-> Times(f, 1)]
    <3>1. ASSUME NEW f \in Sources PROVE [e \in EditsOf[f] |-> applied[f][e] + 1] = Times(f, 1)
      <4>1. \A e \in EditsOf[f] : applied[f][e] = 0
        BY <2>2 DEF Times
      <4>2. [e \in EditsOf[f] |-> applied[f][e] + 1] = [e \in EditsOf[f] |-> 1]
        BY <4>1
      <4> QED
        BY <4>2 DEF Times
    <3> QED
      BY <2>1, <3>1
  <2>4. cut' = {} /\ patch.runs + 1 \in Nat
    BY <2>1, <2>2 DEF PatchInv
  <2> QED
    BY <2>1, <2>2, <2>3, <2>4 DEF PatchInv
<1> QED
  BY <1>1, <1>2

LEMMA PatchStepInv == ASSUME PatchInv, [PatchNext]_patchVars PROVE PatchInv'
<1>1. CASE ReadSources
  BY <1>1, ReadKeeps
<1>2. CASE WriteSource
  <2>1. PICK f \in ToWrite :
          /\ applied' = [applied EXCEPT ![f] = texts[f]]
          /\ cut' = cut \ {f}
          /\ patch' = [patch EXCEPT !.written = @ \cup {f},
                         !.phase = IF patch.written \cup {f} = Sources THEN "applied" ELSE @]
    BY <1>2 DEF WriteSource
  <2>2. f \in Sources /\ patch.phase = "writes" /\ texts' = texts
    BY <1>2 DEF WriteSource, ToWrite
  <2>3. texts[f] = Times(f, 1) /\ cut' = {} /\ cut = {}
    BY <2>1, <2>2 DEF PatchInv
  <2>4. /\ applied' = [g \in Sources |-> applied'[g]]
        /\ \A g \in Sources : applied'[g] = Times(g, 0) \/ applied'[g] = Times(g, 1)
        /\ applied'[f] = Times(f, 1)
        /\ \A g \in Sources \ {f} : applied'[g] = applied[g]
    BY <2>1, <2>2, <2>3, OneSourceChanges
  <2>5. /\ patch' \in [phase : {"idle", "refused", "writes", "killed", "applied"},
                       written : SUBSET Sources, runs : Nat]
        /\ patch'.written = patch.written \cup {f}
        /\ patch'.phase = IF patch.written \cup {f} = Sources THEN "applied" ELSE "writes"
    BY <2>1, <2>2 DEF PatchInv
  <2>6. \A g \in patch.written : applied[g] = Times(g, 1)
    BY <2>2 DEF PatchInv
  <2>7. \A g \in patch'.written : applied'[g] = Times(g, 1)
    BY <2>4, <2>5, <2>6, <2>2 DEF PatchInv
  <2>8. texts' = [g \in Sources |-> Times(g, 1)]
    BY <2>2 DEF PatchInv
  <2>9. patch'.phase = "applied" => patch'.written = Sources
    BY <2>5
  <2> QED
    BY <2>3, <2>4, <2>5, <2>7, <2>8, <2>9 DEF PatchInv
<1>3. CASE KillPatch
  <2>1. /\ patch' = [patch EXCEPT !.phase = "killed"] /\ patch.phase = "writes"
        /\ texts' = texts
    BY <1>3 DEF KillPatch
  <2>2. /\ patch' \in [phase : {"idle", "refused", "writes", "killed", "applied"},
                       written : SUBSET Sources, runs : Nat]
        /\ patch'.phase = "killed" /\ cut' \subseteq Sources
    BY <2>1, <1>3 DEF PatchInv, KillPatch, ToWrite
  <2>3. CASE applied' = applied
    BY <2>2, <2>3 DEF PatchInv
  <2>4. CASE \E f \in ToWrite : applied' = [applied EXCEPT ![f] = texts[f]]
    <3>1. PICK f \in Sources : applied' = [applied EXCEPT ![f] = texts[f]]
      BY <2>4 DEF ToWrite
    <3>2. texts[f] = Times(f, 1)
      BY <2>1 DEF PatchInv
    <3>3. /\ applied' = [g \in Sources |-> applied'[g]]
          /\ \A g \in Sources : applied'[g] = Times(g, 0) \/ applied'[g] = Times(g, 1)
      BY <3>1, <3>2, OneSourceChanges
    <3> QED
      BY <2>2, <3>3 DEF PatchInv
  <2> QED
    BY <1>3, <2>3, <2>4 DEF KillPatch
<1>4. CASE \E f \in Sources : Checkout(f)
  <2>1. PICK f \in Sources : Checkout(f)
    BY <1>4
  <2>2. /\ applied' = [applied EXCEPT ![f] = Times(f, 0)]
        /\ patch' = [patch EXCEPT !.phase = "idle"]
    BY <2>1 DEF Checkout, Pristine, Times
  <2>3. /\ patch' \in [phase : {"idle", "refused", "writes", "killed", "applied"},
                       written : SUBSET Sources, runs : Nat]
        /\ patch'.phase = "idle" /\ cut' \subseteq Sources
    BY <2>1, <2>2 DEF PatchInv, Checkout
  <2>4. /\ applied' = [g \in Sources |-> applied'[g]]
        /\ \A g \in Sources : applied'[g] = Times(g, 0) \/ applied'[g] = Times(g, 1)
    BY <2>2, OneSourceChanges
  <2> QED
    BY <2>3, <2>4 DEF PatchInv
<1>5. CASE UNCHANGED patchVars
  BY <1>5 DEF patchVars, PatchInv
<1> QED
  BY <1>1, <1>2, <1>3, <1>4, <1>5 DEF PatchNext

(***************************************************************************)
(* However often apply_t16_patches.py is run, killed and run again, and     *)
(* whatever is checked out in between, no edit is ever in a source twice,   *)
(* and when it reports its edits applied every source is whole and has each *)
(* of them: for any sources and edits of which each source has one whose    *)
(* new text no longer holds its anchor.                                     *)
(***************************************************************************)
THEOREM EditsAreAppliedOnce == PatchSpec => []AppliedOnce
<1>1. PatchInv => AppliedOnce
  <2> SUFFICES ASSUME PatchInv PROVE AppliedOnce
    OBVIOUS
  <2>1. ASSUME NEW f \in Sources, NEW e \in EditsOf[f] PROVE applied[f][e] \in {0, 1}
    <3>1. Times(f, 0)[e] = 0 /\ Times(f, 1)[e] = 1
      BY DEF Times
    <3>2. applied[f] = Times(f, 0) \/ applied[f] = Times(f, 1)
      BY DEF PatchInv
    <3> QED
      BY <3>1, <3>2
  <2>2. patch.phase = "applied" => cut = {} /\ \A f \in Sources : \A e \in EditsOf[f] : applied[f][e] = 1
    BY DEF PatchInv, Times
  <2> QED
    BY <2>1, <2>2 DEF AppliedOnce
<1> QED
  BY <1>1, PatchInitInv, PatchStepInv, PTL DEF PatchSpec

-----------------------------------------------------------------------------
(***************************************************************************)
(* The sweep lap.                                                           *)
(***************************************************************************)

LapTyped ==
    /\ rules \in Inputs
    /\ undo \in {"latch", "delete_note", "release", "end", "done"}
    /\ sweep \in {"claim", "visit_P", "visit_Q", "settle", "done"}
    /\ pageP \in [latched : BOOLEAN, empty : BOOLEAN, alloc : BOOLEAN]
    /\ gate \in [pending : Nat, boot : BOOLEAN]
    /\ lap \in [claimed : BOOLEAN, atStart : Nat, deferred : Nat, stopped : BOOLEAN, lost : BOOLEAN]

\* P was skipped while it was latched, by the rule that lets a lap skip it.
HintLost == rules.busyRule = "skip" /\ lap.lost

(***************************************************************************)
(* An emptied page leaves a hint.  Until the lap settles no hint is served, *)
(* and there are those the lap began with.  When the lap has passed P, and  *)
(* P is empty and still there, it was emptied after the lap began (there    *)
(* is a hint more), or the lap deferred it, or it sweeps no more.           *)
(***************************************************************************)
Hinted ==
    /\ sweep # "done" => gate.pending >= lap.atStart /\ (pageP.empty => gate.pending >= 1)
    /\ sweep \in {"claim", "visit_P"} => lap.deferred = 0 /\ ~lap.stopped
    /\ sweep \in {"visit_Q", "settle"} /\ pageP.empty /\ pageP.alloc =>
         gate.pending > lap.atStart \/ lap.deferred >= 1 \/ ~Sweeping \/ HintLost
    /\ sweep = "done" /\ pageP.empty /\ pageP.alloc => Armed \/ HintLost

LapInv == LapTyped /\ Hinted

LEMMA LapInitInv == LapInit => LapInv
<1> SUFFICES ASSUME LapInit PROVE LapInv
  OBVIOUS
<1>1. rules.pending \in Nat /\ rules.boot \in BOOLEAN
  BY LapAssumption DEF LapInit, LapAssumption
<1>2. LapTyped
  BY <1>1 DEF LapInit, LapTyped
<1>3. Hinted
  BY <1>1 DEF LapInit, Hinted
<1> QED
  BY <1>2, <1>3 DEF LapInv

LEMMA LapStepInv == ASSUME LapInv, [LapNext]_lapVars PROVE LapInv'
<1> USE DEF LapInv, LapTyped
<1>1. CASE Latch
  <2>1. LapTyped'
    BY <1>1 DEF Latch, UndoStep
  <2>2. pageP'.empty = pageP.empty /\ pageP'.alloc = pageP.alloc
    BY <1>1 DEF Latch
  <2>3. Hinted'
    BY <1>1, <2>2 DEF Hinted, Latch, UndoStep, Sweeping, Armed, HintLost
  <2> QED
    BY <2>1, <2>3
<1>2. CASE DeleteNote
  <2>1. LapTyped'
    <3>1. gate.pending + 1 \in Nat
      OBVIOUS
    <3>2. gate' \in [pending : Nat, boot : BOOLEAN] /\ pageP' \in [latched : BOOLEAN, empty : BOOLEAN, alloc : BOOLEAN]
      BY <1>2, <3>1 DEF DeleteNote
    <3> QED
      BY <1>2, <3>2 DEF DeleteNote, UndoStep
  <2>2. /\ gate'.pending = gate.pending + 1 /\ gate'.boot = gate.boot
        /\ gate.pending \in Nat /\ lap.atStart \in Nat
        /\ sweep' = sweep /\ lap' = lap /\ rules' = rules
    BY <1>2 DEF DeleteNote, UndoStep
  <2>3. gate'.pending > 0
    BY <2>2
  <2>4. Hinted'
    BY <2>2, <2>3 DEF Hinted, Armed
  <2> QED
    BY <2>1, <2>4
<1>3. CASE Release
  <2>1. LapTyped'
    BY <1>3 DEF Release, UndoStep
  <2>2. pageP'.empty = pageP.empty /\ pageP'.alloc = pageP.alloc
    BY <1>3 DEF Release
  <2>3. Hinted'
    BY <1>3, <2>2 DEF Hinted, Release, UndoStep, Sweeping, Armed, HintLost
  <2> QED
    BY <2>1, <2>3
<1>4. CASE EndUndo
  BY <1>4 DEF EndUndo, UndoStep, Hinted, Sweeping, Armed, HintLost
<1>5. CASE Claim
  <2>1. LapTyped'
    BY <1>5 DEF Claim, SweepStep
  <2>2. /\ lap'.deferred = lap.deferred /\ lap'.stopped = lap.stopped
        /\ gate.pending \in Nat
        /\ lap'.atStart = gate.pending \/ lap'.atStart = lap.atStart
    BY <1>5 DEF Claim
  <2>3. Hinted'
    BY <1>5, <2>2 DEF Hinted, Claim, SweepStep
  <2> QED
    BY <2>1, <2>3
<1>6. CASE VisitP
  <2>1. /\ sweep = "visit_P" /\ sweep' = "visit_Q" /\ gate' = gate
        /\ rules' = rules /\ undo' = undo
    BY <1>6 DEF VisitP, SweepStep
  <2>2. rules.busyRule \in {"skip", "defer"}
    BY LapAssumption DEF LapAssumption
  <2>3. CASE Sweeping /\ pageP.latched /\ DeferBusy /\ lap' = Deferred(lap) /\ pageP' = pageP
    <3>1. /\ LapTyped' /\ lap'.deferred >= 1 /\ lap'.atStart = lap.atStart
      BY <2>1, <2>3 DEF Deferred
    <3> QED
      BY <2>1, <2>3, <3>1 DEF Hinted
  <2>4. CASE /\ Sweeping /\ pageP.latched /\ ~DeferBusy
             /\ lap' = [lap EXCEPT !.lost = TRUE] /\ pageP' = pageP
    <3>1. LapTyped' /\ lap'.lost /\ lap'.atStart = lap.atStart
      BY <2>1, <2>4
    <3>2. HintLost'
      BY <2>1, <2>2, <2>4, <3>1 DEF HintLost, DeferBusy
    <3> QED
      BY <2>1, <2>4, <3>1, <3>2 DEF Hinted
  <2>5. CASE Sweeping /\ lap' = Deferred(lap) /\ pageP' = pageP
    <3>1. LapTyped' /\ lap'.deferred >= 1 /\ lap'.atStart = lap.atStart
      BY <2>1, <2>5 DEF Deferred
    <3> QED
      BY <2>1, <2>5, <3>1 DEF Hinted
  <2>6. CASE /\ pageP' = [pageP EXCEPT !.alloc = FALSE]
             /\ lap' = [lap EXCEPT !.stopped = TRUE]
    <3>1. /\ LapTyped' /\ ~pageP'.alloc /\ pageP'.empty = pageP.empty
          /\ lap'.atStart = lap.atStart
      BY <2>1, <2>6
    <3> QED
      BY <2>1, <3>1 DEF Hinted
  <2>7. CASE /\ ~Sweeping \/ (~pageP.latched /\ ~pageP.empty)
             /\ pageP' = pageP /\ lap' = lap
    BY <2>1, <2>7 DEF Hinted, Sweeping
  <2> QED
    BY <1>6, <2>3, <2>4, <2>5, <2>6, <2>7 DEF VisitP
<1>7. CASE VisitQ
  <2>1. /\ sweep = "visit_Q" /\ sweep' = "settle" /\ gate' = gate /\ pageP' = pageP
        /\ rules' = rules /\ undo' = undo
    BY <1>7 DEF VisitQ, SweepStep
  <2>2. \/ lap' = lap \/ lap' = Deferred(lap) \/ lap' = [lap EXCEPT !.stopped = TRUE]
    BY <1>7 DEF VisitQ
  <2>3. CASE lap' = lap
    BY <2>1, <2>3 DEF Hinted, Sweeping, HintLost
  <2>4. CASE lap' = Deferred(lap)
    <3>1. LapTyped' /\ lap'.deferred >= 1 /\ lap'.atStart = lap.atStart
      BY <2>1, <2>4 DEF Deferred
    <3> QED
      BY <2>1, <3>1 DEF Hinted
  <2>5. CASE lap' = [lap EXCEPT !.stopped = TRUE]
    <3>1. LapTyped' /\ lap'.stopped /\ lap'.atStart = lap.atStart
      BY <2>1, <2>5
    <3> QED
      BY <2>1, <3>1 DEF Hinted, Sweeping
  <2> QED
    BY <2>2, <2>3, <2>4, <2>5
<1>8. CASE Settle
  <2>1. /\ sweep = "settle" /\ sweep' = "done" /\ pageP' = pageP /\ lap' = lap
        /\ rules' = rules /\ undo' = undo
    BY <1>8 DEF Settle, SweepStep
  <2>2. /\ gate.pending \in Nat /\ lap.atStart \in Nat /\ lap.deferred \in Nat
    OBVIOUS
  <2>3. /\ Settled \in Nat
        /\ gate.pending > lap.atStart \/ lap.deferred >= 1 => Settled >= 1
    BY <2>2 DEF Settled, Monus
  <2>4. CASE Sweeping
    <3>1. gate' = [pending |-> Settled, boot |-> TRUE]
      BY <1>8, <2>4 DEF Settle
    <3>2. LapTyped' /\ gate'.pending = Settled
      BY <2>1, <2>3, <3>1
    <3>3. Armed' <=> Settled > 0
      BY <3>1, <2>3 DEF Armed
    <3>4. HintLost' = HintLost
      BY <2>1 DEF HintLost
    <3> QED
      BY <2>1, <2>3, <2>4, <3>2, <3>3, <3>4 DEF Hinted
  <2>5. CASE ~Sweeping
    <3>1. gate' = gate
      BY <1>8, <2>5 DEF Settle
    <3>2. pageP.empty => Armed'
      BY <2>1, <2>2, <3>1 DEF Hinted, Armed
    <3> QED
      BY <2>1, <3>1, <3>2 DEF Hinted
  <2> QED
    BY <2>4, <2>5
<1>9. CASE UNCHANGED lapVars
  BY <1>9 DEF lapVars, Hinted, Sweeping, Armed, HintLost
<1> QED
  BY <1>1, <1>2, <1>3, <1>4, <1>5, <1>6, <1>7, <1>8, <1>9 DEF LapNext

(***************************************************************************)
(* In explore_sweep_lap.py's lap no order of the undo's steps and the       *)
(* sweep's forgets an emptied page: when both are over and it is still      *)
(* allocated, the gate is armed, or the lap skipped it under its latch      *)
(* with the rule that lets it; for any pending hints at the start.          *)
(***************************************************************************)
THEOREM NoPageIsForgotten == LapSpec => []StrandedIsArmed
<1>1. LapInv => StrandedIsArmed
  BY DEF LapInv, Hinted, StrandedIsArmed, HintLost
<1> QED
  BY <1>1, LapInitInv, LapStepInv, PTL DEF LapSpec

-----------------------------------------------------------------------------
(***************************************************************************)
(* The placement in tiers.                                                  *)
(***************************************************************************)

Costs == [case : Nat, invocation : Nat]

\* What tier_placement.py is given: three pairs of caps, and what a workload costs.
PlacementGiven ==
    /\ Absent \notin Tiers
    /\ given.caps \in [Tiers -> Costs]
    /\ \A x \in {given.w.seeds, given.w.perSeed, given.w.perCase, given.w.fixed, given.w.cases} : x \in Nat
    /\ given.w.measured # Absent => given.w.measured \in Nat

\* Rounding hides less than half a millisecond, in thirds no more than one.
LEMMA RoundingHidesAThird ==
    ASSUME NEW x \in Nat
    PROVE  Rounded(x) \in Nat /\ x <= Rounded(x) + 1 /\ Rounded(x) <= x + 1
    BY DEF Rounded

LEMMA CostsAreNumbers ==
    ASSUME PlacementGiven
    PROVE  CaseCost \in Nat /\ given.w.fixed + given.w.cases * CaseCost \in Nat
<1>1. /\ given.w.seeds \in Nat /\ given.w.perSeed \in Nat /\ given.w.perCase \in Nat
      /\ given.w.fixed \in Nat /\ given.w.cases \in Nat
  BY DEF PlacementGiven
<1>2. \A a, b \in Nat : a * b \in Nat /\ a + b \in Nat
  OBVIOUS
<1>3. CaseCost \in Nat
  BY <1>1, <1>2 DEF CaseCost, PerCase
<1> QED
  BY <1>1, <1>2, <1>3

\* A placement without problems shows a tier whose two caps hold.
LEMMA ShownTierFits ==
    ASSUME PlacementGiven, Sound
    PROVE  /\ TierShown(given.caps, given.w) \in Tiers
           /\ Fits(Shown, given.w)
<1> DEFINE caps == given.caps
           w == given.w
           smallest == SmallestFittingTier(caps, w)
<1>1. smallest # Absent /\ ProposalProblems(caps, w) = {}
  BY DEF Sound, Problems
<1>2. CASE w.proposed = Absent
  <2>1. FittingTiers(caps, w) # {} /\ FittingTiers(caps, w) \subseteq 1 .. 3
    BY <1>1 DEF SmallestFittingTier, FittingTiers, TierOrder
  <2>2. \E i \in FittingTiers(caps, w) : \A j \in FittingTiers(caps, w) : i <= j
    BY <2>1
  <2>3. PICK i \in FittingTiers(caps, w) : smallest = TierOrder[i]
    BY <2>1, <2>2 DEF SmallestFittingTier
  <2>4. TierShown(caps, w) = TierOrder[i] /\ Fits(caps[TierOrder[i]], w)
    BY <1>2, <2>3 DEF TierShown, FittingTiers
  <2>5. TierOrder[i] \in Tiers
    BY <2>1, <2>3 DEF TierOrder, Tiers
  <2> QED
    BY <2>4, <2>5 DEF Shown
<1>3. CASE w.proposed # Absent
  <2>1. w.proposed \in Tiers
    BY <1>1, <1>3 DEF ProposalProblems
  <2>2. /\ ~(Rounded(PerCase(w)) > caps[w.proposed].case)
        /\ ~(InvocationCost(w) > caps[w.proposed].invocation)
    BY <1>1, <1>3, <2>1 DEF ProposalProblems
  <2>3. caps[w.proposed].case \in Nat /\ caps[w.proposed].invocation \in Nat
    BY <2>1 DEF PlacementGiven, Costs
  <2>4. Rounded(PerCase(w)) \in Nat /\ InvocationCost(w) \in Nat
    <3>1. PerCase(w) \in Nat /\ w.fixed + w.cases * PerCase(w) \in Nat
      BY CostsAreNumbers DEF CaseCost
    <3>2. Measured(w) => w.measured \in Nat
      BY DEF PlacementGiven, Measured
    <3> QED
      BY <3>1, <3>2, RoundingHidesAThird DEF InvocationCost, WorstCase
  <2>5. Fits(caps[w.proposed], w)
    BY <2>2, <2>3, <2>4 DEF Fits
  <2> QED
    BY <1>3, <2>1, <2>5 DEF TierShown, Shown
<1> QED
  BY <1>2, <1>3

(***************************************************************************)
(* Of any caps and any costs: the tier of a table that tier_placement.py's  *)
(* check accepts costs no more than its caps but for what rounding hides,   *)
(* and where only a measured figure makes it so the table says so.          *)
(***************************************************************************)
THEOREM AcceptedPlacementsFit ==
    ASSUME PlacementGiven PROVE PlacementFits
<1> SUFFICES ASSUME Placing, Sound
             PROVE  /\ CaseCost <= Shown.case + 1
                    /\ RealInvocation <= Shown.invocation + 1
                    /\ \/ given.w.proposed \notin Tiers
                       \/ given.w.fixed + given.w.cases * CaseCost <= Shown.invocation + 1
                       \/ Risky(given.caps, given.w)
  BY DEF PlacementFits
<1> DEFINE worst == given.w.fixed + given.w.cases * CaseCost
<1>1. TierShown(given.caps, given.w) \in Tiers /\ Fits(Shown, given.w)
  BY ShownTierFits
<1>2. Shown.case \in Nat /\ Shown.invocation \in Nat
  BY <1>1 DEF Shown, PlacementGiven, Costs
<1>3. CaseCost \in Nat /\ worst \in Nat
  BY CostsAreNumbers
<1>4. Rounded(CaseCost) <= Shown.case /\ InvocationCost(given.w) <= Shown.invocation
  BY <1>1 DEF Fits, CaseCost
<1>5. WorstCase(given.w) = Rounded(worst)
  BY DEF WorstCase, CaseCost
<1> HIDE DEF worst
<1>6. CaseCost <= Shown.case + 1
  BY <1>2, <1>3, <1>4, RoundingHidesAThird
<1>7. RealInvocation <= Shown.invocation + 1
  <2>1. CASE Measured(given.w)
    <3>1. given.w.measured \in Nat /\ RealInvocation = given.w.measured
      BY <2>1 DEF PlacementGiven, Measured, RealInvocation
    <3>2. InvocationCost(given.w) = Rounded(given.w.measured)
      BY <2>1 DEF InvocationCost
    <3> QED
      BY <1>2, <1>4, <3>1, <3>2, RoundingHidesAThird
  <2>2. CASE ~Measured(given.w)
    <3>1. RealInvocation = worst
      BY <2>2 DEF RealInvocation, worst
    <3>2. InvocationCost(given.w) = Rounded(worst)
      BY <1>5, <2>2 DEF InvocationCost
    <3> QED
      BY <1>2, <1>3, <1>4, <3>1, <3>2, RoundingHidesAThird
  <2> QED
    BY <2>1, <2>2
<1>8. ASSUME given.w.proposed \in Tiers, ~(worst <= Shown.invocation + 1)
      PROVE  Risky(given.caps, given.w)
  <2>1. SmallestFittingTier(given.caps, given.w) # Absent
    BY DEF Sound, Problems
  <2>2. Rounded(worst) \in Nat /\ worst <= Rounded(worst) + 1
    BY <1>3, RoundingHidesAThird
  <2>3. WorstCase(given.w) > Shown.invocation
    BY <1>2, <1>3, <1>5, <1>8, <2>2
  <2>4. InvocationCost(given.w) \in Nat
    <3>1. Measured(given.w) => given.w.measured \in Nat
      BY DEF PlacementGiven, Measured
    <3> QED
      BY <1>5, <2>2, <3>1, RoundingHidesAThird DEF InvocationCost
  <2>5. CASE given.w.proposed # Absent
    <3>1. Shown = given.caps[given.w.proposed]
      BY <2>5 DEF Shown, TierShown
    <3> QED
      BY <1>2, <1>4, <1>8, <2>1, <2>3, <2>4, <3>1 DEF Risky
  <2>6. given.w.proposed # Absent
    BY <1>8 DEF PlacementGiven
  <2> QED
    BY <2>5, <2>6
<1> QED
  BY <1>6, <1>7, <1>8 DEF worst

-----------------------------------------------------------------------------
(***************************************************************************)
(* The completeness check.                                                  *)
(***************************************************************************)

\* What the check is given: an entry of a history has an id and no scope, an exclusion a scope.
CheckGiven ==
    /\ \A e \in given.merged : DOMAIN e = {"id", "attempt"}
    /\ \A x \in given.exclusions : DOMAIN x = {"scope", "attempt", "by", "dated"}

LEMMA KeptUnderTheirIds ==
    ASSUME CheckGiven, RecordsKept(given)
    PROVE  /\ \A e \in given.merged : \E s \in Originals(given) : s.id = e.id /\ s.attempt = e.attempt
           /\ \A x \in given.exclusions : \A i \in x.scope :
                \E s \in Originals(given) : s.id = i /\ s.attempt = x.attempt
<1>1. ASSUME NEW e \in given.merged
      PROVE  \E s \in Originals(given) : s.id = e.id /\ s.attempt = e.attempt
  BY DEF RecordsKept
<1>2. ASSUME NEW x \in given.exclusions, NEW i \in x.scope
      PROVE  \E s \in Originals(given) : s.id = i /\ s.attempt = x.attempt
  <2>1. x \notin given.merged
    <3>1. {"id", "attempt"} # {"scope", "attempt", "by", "dated"}
      OBVIOUS
    <3> QED
      BY <3>1 DEF CheckGiven
  <2> QED
    BY <1>2, <2>1 DEF RecordsKept
<1> QED
  BY <1>1, <1>2

\* Without a clash, what is said under the id of an original is about its case and manifest.
LEMMA OneIdOneCase ==
    ASSUME Clashes(given) = {}, NEW r \in Originals(given), NEW s \in Originals(given), s.id = r.id
    PROVE  Identity(s) = Identity(r)
<1> SUFFICES ASSUME Identity(s) # Identity(r) PROVE FALSE
  OBVIOUS
<1>1. r \in {p \in Originals(given) : \E q \in Originals(given) : q.id = p.id /\ Identity(q) # Identity(p)}
  OBVIOUS
<1>2. r.id \in Clashes(given)
  BY <1>1 DEF Clashes
<1> QED
  BY <1>2

(***************************************************************************)
(* Of any campaign's records: when check_matrix_completeness finds nothing, *)
(* every executed attempt is in a history or in a dated exclusion that is   *)
(* about its own case under its own manifest.                               *)
(***************************************************************************)
THEOREM CompletenessIsSound ==
    ASSUME CheckGiven PROVE CheckIsSound
<1> SUFFICES ASSUME RecordsKept(given), FoundComplete(given), NEW r \in Originals(given)
             PROVE  \/ \E e \in given.merged : Identity(e) = Identity(r)
                    \/ \E x \in given.exclusions : Valid(x) /\ Identity(x) = Identity(r)
  BY DEF CheckIsSound
<1>1. Clashes(given) = {} /\ Unaccounted(given) = {}
  BY DEF FoundComplete
<1>2. r.id \in MergedIds(given) \cup ExcludedIds(given)
  BY <1>1 DEF Unaccounted
<1>3. CASE r.id \in MergedIds(given)
  <2>1. PICK e \in given.merged : e.id = r.id
    BY <1>3 DEF MergedIds
  <2>2. PICK s \in Originals(given) : s.id = e.id /\ s.attempt = e.attempt
    BY KeptUnderTheirIds
  <2>3. Identity(s) = Identity(r)
    BY <1>1, <2>1, <2>2, OneIdOneCase
  <2> QED
    BY <2>2, <2>3 DEF Identity
<1>4. CASE r.id \in ExcludedIds(given)
  <2>1. PICK x \in given.exclusions : Valid(x) /\ r.id \in x.scope
    BY <1>4 DEF ExcludedIds
  <2>2. PICK s \in Originals(given) : s.id = r.id /\ s.attempt = x.attempt
    BY <2>1, KeptUnderTheirIds
  <2>3. Identity(s) = Identity(r)
    BY <1>1, <2>2, OneIdOneCase
  <2> QED
    BY <2>1, <2>2, <2>3 DEF Identity
<1> QED
  BY <1>2, <1>3, <1>4

-----------------------------------------------------------------------------
(***************************************************************************)
(* The corrections of records: how a script goes on.                        *)
(***************************************************************************)

Reading == Digests \cup {"unread"}
Phases == Rest \cup {"attempts", "index", "manifests", "claims", "matrix"}
Work == [phase : Phases, at : Nat, read : [Invs -> Reading], wrote : SUBSET Nat, dry : BOOLEAN]

\* The phases in their order.
Rank(phase) ==
    CASE phase \in {"attempts", "index"} -> 1
      [] phase = "manifests" -> 2
      [] phase = "claims" -> 3
      [] phase = "matrix" -> 4
      [] phase = "done" -> 5
      [] OTHER -> 0

\* File n of a phase is behind the script.
Behind(w, phase, n) ==
    \/ Rank(w.phase) > Rank(phase)
    \/ Rank(w.phase) = Rank(phase) /\ n < w.at

\* A script that runs is at a file of its phase.
InPlace(w) ==
    /\ w.phase \in {"attempts", "index"} => w.at \in Atts
    /\ w.phase = "manifests" => w.at \in Invs
    /\ w.phase = "claims" => script = "t44" /\ w.at \in {0} \cup Invs
    /\ w.phase = "matrix" => w.at = 0

LEMMA LeastOf ==
    ASSUME NEW T \in SUBSET Nat, T # {}
    PROVE  LET c == CHOOSE n \in T : \A m \in T : n <= m
           IN  c \in T /\ \A m \in T : c <= m
BY LeastNumber

LEMMA PlacesAreNumbers ==
    ASSUME NEW phase \in {"attempts", "manifests", "claims", "matrix"}
    PROVE  Places(phase) \in SUBSET Nat /\ Places(phase) # {}
    BY CorrectionsAssumption DEF CorrectionsAssumption, Places

\* At the first file of a phase nothing of that phase is behind.
LEMMA Entering ==
    ASSUME NEW w \in Work, NEW phase \in {"attempts", "manifests", "claims", "matrix", "done", "refused", "killed"},
           phase = "claims" => script = "t44"
    PROVE  LET x == Enter(w, phase) IN
           /\ x \in Work /\ x.phase = phase /\ x.read = w.read /\ x.dry = w.dry
           /\ InPlace(x)
           /\ phase \notin Rest => \A n \in Places(phase) : ~(n < x.at)
<1> DEFINE first == CHOOSE n \in Places(phase) : \A m \in Places(phase) : n <= m
           at2 == IF phase \in Rest THEN 0 ELSE first
           x == Enter(w, phase)
<1>1. ASSUME phase \notin Rest
      PROVE  first \in Places(phase) /\ first \in Nat /\ \A m \in Places(phase) : first <= m /\ m \in Nat
  <2>1. phase \in {"attempts", "manifests", "claims", "matrix"}
    BY <1>1 DEF Rest
  <2>2. Places(phase) \in SUBSET Nat /\ Places(phase) # {}
    BY <2>1, PlacesAreNumbers
  <2> QED
    BY <2>2, LeastOf
<1> HIDE DEF first
<1>2. at2 \in Nat /\ phase \in Phases
  BY <1>1 DEF Phases, Rest
<1>3. x = [w EXCEPT !.phase = phase, !.at = at2]
  BY DEF Enter, first
<1>4. /\ x \in Work /\ x.phase = phase /\ x.at = at2 /\ x.read = w.read /\ x.dry = w.dry
  <2> HIDE DEF at2, x
  <2> QED
    BY <1>2, <1>3 DEF Work
<1>5. InPlace(x)
  <2>1. phase \notin Rest => x.at \in Places(phase)
    BY <1>1, <1>4
  <2>2. /\ phase = "attempts" => x.at \in Atts
        /\ phase = "manifests" => x.at \in Invs
        /\ phase = "claims" => x.at \in {0} \cup Invs
        /\ phase = "matrix" => x.at = 0
    BY <2>1 DEF Places, Rest
  <2> HIDE DEF x
  <2> QED
    BY <1>4, <2>2 DEF InPlace
<1>6. phase \notin Rest => \A n \in Places(phase) : ~(n < x.at)
  BY <1>1, <1>4
<1> HIDE DEF x
<1> QED
  BY <1>4, <1>5, <1>6 DEF x

-----------------------------------------------------------------------------
(***************************************************************************)
(* The corrections of records: what is behind a script.                     *)
(***************************************************************************)

AttsOf(v) == {a \in Atts : InvOf[a] = v}
Mani(v) == [digest : [AttsOf(v) -> Digests], claim : BOOLEAN]
Manis(m) == DOMAIN m = Invs /\ \A v \in Invs : m[v] \in Mani(v)
Records == [Atts -> [digest : Digests, marked : BOOLEAN]]

CorrTyped ==
    /\ script \in {"t44", "t49"}
    /\ work \in Work /\ InPlace(work)
    /\ record \in Records /\ repo[1] \in Records /\ DOMAIN size = Atts
    /\ Manis(mani) /\ Manis(repo[3])
    /\ bundle \in [Invs -> {"whole", "changed"}]

\* What a kill can tear; only t44 has promotions.json in hand.
Tearable ==
    ({"record", "size"} \X Atts) \cup ({"mani"} \X Invs) \cup {<<"seals", 0>>}
    \cup {x \in {<<"proms", 0>>} : script = "t44"}

\* Manifests ms say what the attempt records rs say, or the record was corrected.
NoneLeads(rs, ms) == \A a \in Atts : ms[InvOf[a]].digest[a] = rs[a].digest \/ rs[a].marked

\* An attempt record that was not corrected is as it was committed; what is marked is not torn.
Marking ==
    /\ NoneLeads(record, mani) /\ NoneLeads(repo[1], repo[3])
    /\ \A a \in Atts :
         /\ ~record[a].marked => repo[1][a] = record[a]
         /\ <<"record", a>> \in torn => ~record[a].marked

AttemptIsRight(w, a) ==
    /\ w.read[InvOf[a]] # "unread"
    /\ <<"record", a>> \notin torn /\ <<"size", a>> \notin torn
    /\ ~w.dry => record[a].digest = w.read[InvOf[a]] /\ size[a] \in {"none", w.read[InvOf[a]]}

ManifestIsRight(w, v) ==
    /\ w.read[v] # "unread" /\ <<"mani", v>> \notin torn
    /\ ~w.dry => \A a \in AttsOf(v) : mani[v].digest[a] = w.read[v]

ClaimIsGone(w, n) ==
    script = "t44" =>
        /\ n = 0 => <<"proms", 0>> \notin torn /\ (~w.dry => ~proms)
        /\ n \in Invs => (~w.dry => ~mani[n].claim)

SealsAreRight(w) == <<"seals", 0>> \notin torn /\ (~w.dry => seals = mani)

\* What is behind a script agrees with what it read of the bundles.
BehindIsRight(w) ==
    /\ \A a \in Atts : Behind(w, "attempts", a) => AttemptIsRight(w, a)
    /\ \A v \in Invs : Behind(w, "manifests", v) => ManifestIsRight(w, v)
    /\ \A n \in {0} \cup Invs : Behind(w, "claims", n) => ClaimIsGone(w, n)
    /\ Behind(w, "matrix", 0) => SealsAreRight(w)

\* Between an attempt record and its index the record is written, and neither is torn.
Indexing ==
    work.phase = "index" =>
        /\ work.read[InvOf[work.at]] # "unread" /\ ~work.dry
        /\ record[work.at].digest = work.read[InvOf[work.at]]
        /\ <<"record", work.at>> \notin torn /\ <<"size", work.at>> \notin torn

\* t49 never reads a bundle that is not as it was sealed.
SealedReading == script = "t49" => \A v \in Invs : work.read[v] \in {"unread", "whole"}

CorrInv ==
    /\ CorrTyped /\ torn \subseteq Tearable /\ Marking /\ Indexing /\ SealedReading
    /\ BehindIsRight(work)

Working == {"attempts", "manifests", "claims", "matrix"}

LEMMA Ranks ==
    /\ Rank("attempts") = 1 /\ Rank("index") = 1 /\ Rank("manifests") = 2 /\ Rank("claims") = 3
    /\ Rank("matrix") = 4 /\ Rank("done") = 5
    /\ Rank("idle") = 0 /\ Rank("refused") = 0 /\ Rank("killed") = 0
  BY DEF Rank

\* What the next step leaves behind was behind before, or was the file just handled.
LEMMA GoingOn ==
    ASSUME NEW w \in Work, InPlace(w), w.phase \in Working, script \in {"t44", "t49"}
    PROVE  LET x == Onward(w) IN
           /\ x \in Work /\ InPlace(x) /\ x.phase # "index" /\ x.read = w.read /\ x.dry = w.dry
           /\ \A p \in Working : \A n \in Places(p) :
                Behind(x, p, n) =>
                    \/ Behind(w, p, n)
                    \/ p = w.phase /\ n = w.at
                    \/ p = "claims" /\ script = "t49"
<1> DEFINE later == {n \in Places(w.phase) : n > w.at}
           q == PhaseAfter(w.phase)
           x == Onward(w)
           Goal(p, n) == \/ Behind(w, p, n)
                         \/ p = w.phase /\ n = w.at
                         \/ p = "claims" /\ script = "t49"
<1>1. w.at \in Places(w.phase) /\ Places(w.phase) \in SUBSET Nat /\ w.at \in Nat
  <2>1. w.at \in Places(w.phase)
    BY DEF InPlace, Places, Working
  <2> QED
    BY <2>1, PlacesAreNumbers DEF Working
<1>2. \A p \in Working : \A n \in Places(p) : n \in Nat
  BY PlacesAreNumbers DEF Working
<1>3. CASE later = {}
  <2>1. /\ q \in {"attempts", "manifests", "claims", "matrix", "done", "refused", "killed"}
        /\ q = "claims" => script = "t44"
        /\ q # "index"
    BY DEF PhaseAfter, Working
  <2>2. x = Enter(w, q)
    BY <1>3 DEF Onward
  <2>3. /\ x \in Work /\ x.phase = q /\ x.read = w.read /\ x.dry = w.dry
        /\ InPlace(x)
        /\ q \notin Rest => \A n \in Places(q) : ~(n < x.at)
    <3> HIDE DEF q, x, later
    <3> QED
      BY <2>1, <2>2, Entering
  <2>4. ASSUME NEW p \in Working, NEW n \in Places(p), Behind(x, p, n)
        PROVE  Goal(p, n)
    <3>1. ~(n > w.at) \/ p # w.phase
      BY <1>3
    <3>2. n \in Nat
      BY <1>2
    <3>3. p = w.phase => n < w.at \/ n = w.at
      BY <1>1, <3>1, <3>2
    <3>4. Rank(q) > Rank(p)
      <4>1. Rank(q) > Rank(p) \/ (Rank(q) = Rank(p) /\ n < x.at)
        BY <2>3, <2>4 DEF Behind
      <4>2. ASSUME Rank(q) = Rank(p), n < x.at
            PROVE  FALSE
        <5>1. q = p
          BY <4>2, Ranks DEF PhaseAfter, Working
        <5> HIDE DEF q, x
        <5> QED
          BY <5>1, <4>2, <2>3 DEF Working, Rest
      <4> QED
        BY <4>1, <4>2
    <3>5. \/ Rank(w.phase) > Rank(p)
          \/ p = w.phase
          \/ p = "claims" /\ script = "t49"
      BY <3>4, Ranks DEF PhaseAfter, Working
    <3> QED
      BY <3>3, <3>5 DEF Behind
  <2> QED
    BY <2>1, <2>3, <2>4
<1>4. CASE later # {}
  <2> DEFINE c == CHOOSE n \in later : \A m \in later : n <= m
  <2>1. later \in SUBSET Nat
    BY <1>1
  <2>2. c \in later /\ \A m \in later : c <= m
    <3> HIDE DEF later
    <3> QED
      BY <1>4, <2>1, LeastOf
  <2>3. c \in Places(w.phase) /\ c \in Nat
    BY <2>2, <1>1
  <2>4. x = [w EXCEPT !.at = c]
    BY <1>4 DEF Onward
  <2>5. \A m \in Places(w.phase) : m > w.at => c <= m
    BY <2>2
  <2> HIDE DEF c, later, x
  <2>6. /\ x \in Work /\ x.phase = w.phase /\ x.at = c /\ x.read = w.read /\ x.dry = w.dry
    BY <2>3, <2>4 DEF Work
  <2>7. InPlace(x)
    BY <2>3, <2>6 DEF InPlace, Places, Working
  <2>8. ASSUME NEW p \in Working, NEW n \in Places(p), Behind(x, p, n)
        PROVE  Goal(p, n)
    <3>1. Rank(w.phase) > Rank(p) \/ (Rank(w.phase) = Rank(p) /\ n < c)
      BY <2>6, <2>8 DEF Behind
    <3>2. ASSUME Rank(w.phase) = Rank(p), n < c
          PROVE  p = w.phase /\ (n < w.at \/ n = w.at)
      <4>1. p = w.phase
        BY <3>2, Ranks DEF Working
      <4>2. n \in Nat /\ ~(n > w.at)
        BY <4>1, <3>2, <2>5, <1>2, <2>3
      <4> QED
        BY <4>1, <4>2, <1>1
    <3> QED
      BY <3>1, <3>2 DEF Behind
  <2>9. x.phase # "index"
    BY <2>6 DEF Working
  <2> QED
    BY <2>6, <2>7, <2>8, <2>9 DEF x
<1> QED
  BY <1>3, <1>4

LEMMA FollowsOn ==
    ASSUME NEW w \in Work, InPlace(w), w.phase \in Working, script \in {"t44", "t49"},
           script' = script, work' = Onward(w), BehindIsRight(w)',
           w.phase = "attempts" => AttemptIsRight(w, w.at)',
           w.phase = "manifests" => ManifestIsRight(w, w.at)',
           w.phase = "claims" => ClaimIsGone(w, w.at)',
           w.phase = "matrix" => SealsAreRight(w)'
    PROVE  /\ work' \in Work /\ InPlace(work)' /\ work'.phase # "index" /\ work'.read = w.read
           /\ BehindIsRight(work)'
<1>1. PICK x : x = Onward(w)
  OBVIOUS
<1>2. /\ x \in Work /\ InPlace(x) /\ x.phase # "index" /\ x.read = w.read /\ x.dry = w.dry
      /\ \A p \in Working : \A n \in Places(p) :
           Behind(x, p, n) =>
               \/ Behind(w, p, n)
               \/ p = w.phase /\ n = w.at
               \/ p = "claims" /\ script = "t49"
  BY <1>1, GoingOn
<1>3. work' = x
  BY <1>1
<1>4. /\ Places("attempts") = Atts /\ Places("manifests") = Invs
      /\ Places("claims") = {0} \cup Invs /\ Places("matrix") = {0}
  BY DEF Places
<1>5. InPlace(work)'
  BY <1>2, <1>3 DEF InPlace
<1>6. BehindIsRight(x)'
  <2>1. ASSUME NEW a \in Atts, Behind(x, "attempts", a)
        PROVE  AttemptIsRight(x, a)'
    <3>1. Behind(w, "attempts", a) \/ (w.phase = "attempts" /\ a = w.at)
      BY <2>1, <1>2, <1>4 DEF Working
    <3>2. AttemptIsRight(w, a)'
      BY <3>1 DEF BehindIsRight
    <3> QED
      BY <3>2, <1>2 DEF AttemptIsRight
  <2>2. ASSUME NEW v \in Invs, Behind(x, "manifests", v)
        PROVE  ManifestIsRight(x, v)'
    <3>1. Behind(w, "manifests", v) \/ (w.phase = "manifests" /\ v = w.at)
      BY <2>2, <1>2, <1>4 DEF Working
    <3>2. ManifestIsRight(w, v)'
      BY <3>1 DEF BehindIsRight
    <3> QED
      BY <3>2, <1>2 DEF ManifestIsRight
  <2>3. ASSUME NEW n \in {0} \cup Invs, Behind(x, "claims", n)
        PROVE  ClaimIsGone(x, n)'
    <3>1. \/ Behind(w, "claims", n) \/ (w.phase = "claims" /\ n = w.at)
          \/ script = "t49"
      BY <2>3, <1>2, <1>4 DEF Working
    <3>2. ClaimIsGone(w, n)'
      BY <3>1 DEF BehindIsRight, ClaimIsGone
    <3> QED
      BY <3>2, <1>2 DEF ClaimIsGone
  <2>4. ASSUME Behind(x, "matrix", 0)
        PROVE  SealsAreRight(x)'
    <3>1. Behind(w, "matrix", 0) \/ w.phase = "matrix"
      BY <2>4, <1>2, <1>4 DEF Working
    <3>2. SealsAreRight(w)'
      BY <3>1 DEF BehindIsRight
    <3> QED
      BY <3>2, <1>2 DEF SealsAreRight
  <2> QED
    BY <2>1, <2>2, <2>3, <2>4 DEF BehindIsRight
<1>7. BehindIsRight(work)'
  BY <1>3, <1>6
<1> QED
  BY <1>2, <1>3, <1>5, <1>7

\* What a step knows of the bundles once it has asked.
LEMMA KnownIs ==
    ASSUME CorrInv, Running, ~MustRefuse
    PROVE  /\ Known \in Work /\ InPlace(Known) /\ Known.phase = work.phase /\ Known.at = work.at
           /\ Known.dry = work.dry /\ Known.wrote = work.wrote
           /\ BehindIsRight(Known)
           /\ script = "t49" => \A v \in Invs : Known.read[v] \in {"unread", "whole"}
           /\ InHand \notin torn
           /\ work.phase = "attempts" =>
                /\ <<"size", work.at>> \notin torn
                /\ Known.read[InvOf[work.at]] = Truth(InvOf[work.at])
                /\ Truth(InvOf[work.at]) \in Digests
           /\ work.phase = "manifests" =>
                Known.read[work.at] = Truth(work.at) /\ Truth(work.at) \in Digests
<1> USE CorrectionsAssumption DEF CorrectionsAssumption
<1>1. work \in Work /\ InPlace(work) /\ bundle \in [Invs -> {"whole", "changed"}]
  BY DEF CorrInv, CorrTyped
<1>2. \A v \in Invs : Truth(v) \in Digests /\ (work.read[v] # "unread" => Truth(v) = work.read[v])
  BY <1>1 DEF Truth, Work, Reading, Digests
<1> DEFINE rd == [v \in Invs |-> IF v \in Asked THEN Truth(v) ELSE work.read[v]]
<1>3. Known = [work EXCEPT !.read = rd]
  BY DEF Known
<1>4. rd \in [Invs -> Reading] /\ \A v \in Invs : work.read[v] # "unread" => rd[v] = work.read[v]
  BY <1>1, <1>2 DEF Work, Reading
<1>5. /\ Known \in Work /\ Known.phase = work.phase /\ Known.at = work.at
      /\ Known.dry = work.dry /\ Known.wrote = work.wrote /\ Known.read = rd
  <2> HIDE DEF rd
  <2> QED
    BY <1>1, <1>3, <1>4 DEF Work
<1>6. InPlace(Known)
  BY <1>1, <1>5 DEF InPlace
<1>7. BehindIsRight(Known)
  <2>1. PICK k : k = Known
    OBVIOUS
  <2>2. \A p, n : Behind(k, p, n) <=> Behind(work, p, n)
    BY <2>1, <1>5 DEF Behind
  <2>3. k.dry = work.dry /\ \A v \in Invs : work.read[v] # "unread" => k.read[v] = work.read[v]
    BY <2>1, <1>4, <1>5
  <2>4. BehindIsRight(work) /\ InvOf \in [Atts -> Invs]
    BY DEF CorrInv
  <2>5. ASSUME NEW a \in Atts, AttemptIsRight(work, a)
        PROVE  AttemptIsRight(k, a)
    BY <2>3, <2>4, <2>5 DEF AttemptIsRight
  <2>6. ASSUME NEW v \in Invs, ManifestIsRight(work, v)
        PROVE  ManifestIsRight(k, v)
    BY <2>3, <2>6 DEF ManifestIsRight
  <2>7. ASSUME NEW n \in {0} \cup Invs, ClaimIsGone(work, n)
        PROVE  ClaimIsGone(k, n)
    BY <2>3, <2>7 DEF ClaimIsGone
  <2>8. SealsAreRight(work) => SealsAreRight(k)
    BY <2>3 DEF SealsAreRight
  <2>9. BehindIsRight(k)
    BY <2>2, <2>4, <2>5, <2>6, <2>7, <2>8 DEF BehindIsRight
  <2> QED
    BY <2>1, <2>9
<1>8. ASSUME script = "t49", NEW v \in Invs
      PROVE  Known.read[v] \in {"unread", "whole"}
  <2>1. work.read[v] \in {"unread", "whole"}
    BY <1>8 DEF CorrInv, SealedReading
  <2>2. v \in Asked => ~NoTruth(v)
    BY DEF MustRefuse
  <2>3. rd[v] \in {"unread", "whole"}
    BY <2>1, <2>2, <1>1, <1>8 DEF NoTruth, Truth
  <2> QED
    BY <2>3, <1>5
<1>9. InHand \notin torn /\ (work.phase = "attempts" => <<"size", work.at>> \notin torn)
  BY DEF MustRefuse
<1>10. ASSUME work.phase = "attempts"
       PROVE  Known.read[InvOf[work.at]] = Truth(InvOf[work.at]) /\ Truth(InvOf[work.at]) \in Digests
  <2>1. work.at \in Atts /\ InvOf[work.at] \in Invs
    BY <1>1, <1>10 DEF InPlace
  <2>2. InvOf[work.at] \in Asked
    BY <1>10 DEF Asked
  <2> QED
    BY <2>1, <2>2, <1>2, <1>5
<1>11. ASSUME work.phase = "manifests"
       PROVE  Known.read[work.at] = Truth(work.at) /\ Truth(work.at) \in Digests
  <2>1. work.at \in Invs
    BY <1>1, <1>11 DEF InPlace
  <2>2. work.at \in Asked
    BY <1>11 DEF Asked
  <2> QED
    BY <2>1, <2>2, <1>2, <1>5
<1> QED
  BY <1>5, <1>6, <1>7, <1>8, <1>9, <1>10, <1>11

-----------------------------------------------------------------------------
(***************************************************************************)
(* The corrections of records: one lemma per action.                        *)
(***************************************************************************)

LEMMA NothingIsBehind ==
    ASSUME NEW w, Rank(w.phase) = 0
    PROVE  BehindIsRight(w)
  BY Ranks DEF BehindIsRight, Behind

LEMMA BehindStays ==
    ASSUME NEW w, UNCHANGED <<script, disk, torn>>
    PROVE  BehindIsRight(w)' <=> BehindIsRight(w)
  BY DEF BehindIsRight, AttemptIsRight, ManifestIsRight, ClaimIsGone, SealsAreRight, disk

LEMMA FilesStay ==
    ASSUME CorrInv, UNCHANGED <<script, record, mani, torn, repo, bundle>>
    PROVE  /\ script' \in {"t44", "t49"} /\ record' \in Records /\ repo'[1] \in Records
           /\ Manis(mani') /\ Manis(repo'[3]) /\ bundle' \in [Invs -> {"whole", "changed"}]
           /\ (torn \subseteq Tearable)' /\ Marking'
<1>1. Tearable' = Tearable
  BY DEF Tearable
<1>2. Marking'
  BY DEF CorrInv, Marking
<1> QED
  BY <1>1, <1>2 DEF CorrInv, CorrTyped

LEMMA WorkingOrIndex ==
    ASSUME CorrInv, Running
    PROVE  /\ work.phase \in Working \cup {"index"}
           /\ work.phase = "index" => ~work.dry
  BY DEF CorrInv, CorrTyped, Work, Phases, Running, Rest, Working, Indexing

LEMMA LeaveAloneKeeps ==
    ASSUME CorrInv, LeaveAlone
    PROVE  CorrInv'
<1>1. /\ Running /\ ~MustRefuse /\ (~Stale \/ work.dry) /\ work' = Onward(Known)
      /\ UNCHANGED <<script, disk, torn, repo, bundle, tries>>
  BY DEF LeaveAlone
<1>2. PICK k : k = Known
  OBVIOUS
<1>3. /\ k \in Work /\ InPlace(k) /\ k.phase = work.phase /\ k.at = work.at
      /\ k.dry = work.dry /\ k.wrote = work.wrote
      /\ BehindIsRight(k)
      /\ script = "t49" => \A v \in Invs : k.read[v] \in {"unread", "whole"}
      /\ InHand \notin torn
      /\ work.phase = "attempts" =>
           /\ <<"size", work.at>> \notin torn
           /\ k.read[InvOf[work.at]] = Truth(InvOf[work.at])
           /\ Truth(InvOf[work.at]) \in Digests
      /\ work.phase = "manifests" =>
           k.read[work.at] = Truth(work.at) /\ Truth(work.at) \in Digests
  BY <1>1, <1>2, KnownIs
<1>4. work.phase \in Working
  <2>1. work.phase = "index" => Stale
    BY DEF Stale
  <2> QED
    BY <1>1, <2>1, WorkingOrIndex
<1>5. BehindIsRight(k)'
  BY <1>1, <1>3, BehindStays
<1>6. ASSUME k.phase = "attempts"
      PROVE  AttemptIsRight(k, k.at)'
  <2>1. <<"record", k.at>> \notin torn /\ <<"size", k.at>> \notin torn
    BY <1>3, <1>6 DEF InHand
  <2>2. ~k.dry => Right(k.at)
    BY <1>1, <1>3, <1>6 DEF Stale
  <2>3. k.read[InvOf[k.at]] # "unread"
    BY <1>3, <1>6 DEF Digests
  <2>4. record' = record /\ size' = size /\ torn' = torn
    BY <1>1 DEF disk
  <2> QED
    BY <2>1, <2>2, <2>3, <2>4, <1>3, <1>6 DEF AttemptIsRight, Right
<1>7. ASSUME k.phase = "manifests"
      PROVE  ManifestIsRight(k, k.at)'
  <2>1. <<"mani", k.at>> \notin torn
    BY <1>3, <1>7 DEF InHand
  <2>2. ~k.dry => \A a \in DOMAIN mani[k.at].digest : mani[k.at].digest[a] = Truth(k.at)
    BY <1>1, <1>3, <1>7 DEF Stale
  <2>3. k.read[k.at] # "unread" /\ k.read[k.at] = Truth(k.at)
    BY <1>3, <1>7 DEF Digests
  <2>4. mani' = mani /\ torn' = torn
    BY <1>1 DEF disk
  <2>5. DOMAIN mani[k.at].digest = AttsOf(k.at)
    <3>1. k.at \in Invs /\ Manis(mani)
      BY <1>3, <1>7 DEF InPlace, CorrInv, CorrTyped
    <3>2. mani[k.at] \in Mani(k.at)
      BY <3>1 DEF Manis
    <3> QED
      BY <3>2 DEF Mani
  <2>6. ~k.dry => \A a \in AttsOf(k.at) : mani[k.at].digest[a] = k.read[k.at]
    BY <2>2, <2>3, <2>5
  <2> QED
    BY <2>1, <2>3, <2>4, <2>6 DEF ManifestIsRight
<1>8. ASSUME k.phase = "claims"
      PROVE  ClaimIsGone(k, k.at)'
  <2>1. k.at = 0 => <<"proms", 0>> \notin torn
    BY <1>3, <1>8 DEF InHand
  <2>2. ~k.dry => IF k.at = 0 THEN ~proms ELSE ~mani[k.at].claim
    BY <1>1, <1>3, <1>8 DEF Stale
  <2>3. mani' = mani /\ torn' = torn /\ proms' = proms
    BY <1>1 DEF disk
  <2>4. 0 \notin Invs
    BY CorrectionsAssumption DEF CorrectionsAssumption
  <2> QED
    BY <2>1, <2>2, <2>3, <2>4 DEF ClaimIsGone
<1>9. ASSUME k.phase = "matrix"
      PROVE  SealsAreRight(k)'
  <2>1. <<"seals", 0>> \notin torn
    BY <1>3, <1>9 DEF InHand
  <2>2. ~k.dry => seals = mani
    BY <1>1, <1>3, <1>9 DEF Stale, Refreshed
  <2>3. mani' = mani /\ torn' = torn /\ seals' = seals
    BY <1>1 DEF disk
  <2> QED
    BY <2>1, <2>2, <2>3 DEF SealsAreRight
<1>10. /\ work' \in Work /\ InPlace(work)' /\ work'.phase # "index" /\ work'.read = k.read
       /\ BehindIsRight(work)'
  <2>1. script \in {"t44", "t49"} /\ script' = script /\ work' = Onward(k)
    BY <1>1, <1>2 DEF CorrInv, CorrTyped
  <2> QED
    BY <2>1, <1>3, <1>4, <1>5, <1>6, <1>7, <1>8, <1>9, FollowsOn
<1>11. /\ script' \in {"t44", "t49"} /\ record' \in Records /\ repo'[1] \in Records
       /\ Manis(mani') /\ Manis(repo'[3]) /\ bundle' \in [Invs -> {"whole", "changed"}]
       /\ (torn \subseteq Tearable)' /\ Marking'
  BY <1>1, FilesStay DEF disk
<1>12. CorrTyped'
  BY <1>1, <1>10, <1>11 DEF CorrInv, CorrTyped, disk
<1>13. SealedReading' /\ Indexing'
  BY <1>1, <1>3, <1>10 DEF SealedReading, Indexing
<1> QED
  BY <1>10, <1>11, <1>12, <1>13 DEF CorrInv

\* A script that is in no phase has nothing behind it.
LEMMA RestKeeps ==
    ASSUME CorrInv, NEW w \in Work, NEW phase \in {"attempts", "refused", "killed"},
           work' = Enter(w, phase), \A v \in Invs : script = "t49" => w.read[v] \in {"unread", "whole"},
           UNCHANGED <<script, disk, repo, bundle>>, (torn \subseteq Tearable)', Marking'
    PROVE  CorrInv'
<1>1. PICK x : x = Enter(w, phase)
  OBVIOUS
<1>2. /\ x \in Work /\ x.phase = phase /\ x.read = w.read /\ InPlace(x)
      /\ phase \notin Rest => \A n \in Places(phase) : ~(n < x.at)
  BY <1>1, Entering
<1>3. work' = x /\ script' = script /\ x.phase # "index"
  BY <1>1, <1>2
<1>4. InPlace(work)'
  BY <1>2, <1>3 DEF InPlace
<1>5. BehindIsRight(x)'
  <2>1. phase = "attempts" => \A n \in Atts : ~(n < x.at)
    BY <1>2 DEF Places, Rest
  <2>2. \A n \in Atts : ~Behind(x, "attempts", n)
    BY <2>1, <1>2, Ranks DEF Behind
  <2>3. /\ \A n \in Invs : ~Behind(x, "manifests", n)
        /\ \A n \in {0} \cup Invs : ~Behind(x, "claims", n)
        /\ ~Behind(x, "matrix", 0)
    BY <1>2, Ranks DEF Behind
  <2> QED
    BY <2>2, <2>3 DEF BehindIsRight
<1>6. BehindIsRight(work)'
  BY <1>3, <1>5
<1>7. CorrTyped'
  BY <1>2, <1>3, <1>4 DEF CorrTyped, CorrInv, disk
<1>8. SealedReading' /\ Indexing'
  BY <1>2, <1>3 DEF SealedReading, Indexing
<1> QED
  BY <1>6, <1>7, <1>8 DEF CorrInv

LEMMA StartCorrectionsKeeps ==
    ASSUME CorrInv, NEW dry \in BOOLEAN, StartCorrections(dry)
    PROVE  CorrInv'
<1>1. /\ work' = Enter([Idle EXCEPT !.dry = dry], PhaseAfter("idle"))
      /\ UNCHANGED <<script, disk, torn, repo, bundle>>
  BY DEF StartCorrections
<1>2. PhaseAfter("idle") = "attempts"
  BY DEF PhaseAfter
<1> DEFINE w == [Idle EXCEPT !.dry = dry]
<1>3. w \in Work /\ \A v \in Invs : w.read[v] = "unread"
  BY DEF Idle, Work, Phases, Rest, Reading
<1>4. (torn \subseteq Tearable)' /\ Marking'
  BY <1>1, FilesStay DEF disk
<1> HIDE DEF w
<1>5. work' = Enter(w, "attempts")
  BY <1>1, <1>2 DEF w
<1> QED
  BY <1>1, <1>3, <1>4, <1>5, RestKeeps

LEMMA RefuseCorrectionKeeps ==
    ASSUME CorrInv, RefuseCorrection
    PROVE  CorrInv'
<1>1. work' = Enter(work, "refused") /\ UNCHANGED <<script, disk, torn, repo, bundle>>
  BY DEF RefuseCorrection
<1>2. (torn \subseteq Tearable)' /\ Marking'
  BY <1>1, FilesStay DEF disk
<1>3. work \in Work /\ \A v \in Invs : script = "t49" => work.read[v] \in {"unread", "whole"}
  BY DEF CorrInv, CorrTyped, SealedReading
<1> QED
  BY <1>1, <1>2, <1>3, RestKeeps

\* The file a script has in hand can be torn; a record it would write is not marked yet.
LEMMA InHandIs ==
    ASSUME CorrInv, Running
    PROVE  InHand \in Tearable
<1>1. work.phase \in Working \cup {"index"} /\ InPlace(work)
  BY WorkingOrIndex DEF CorrInv, CorrTyped
<1>2. CASE work.phase \in {"attempts", "index"}
  <2>1. work.at \in Atts
    BY <1>1, <1>2 DEF InPlace
  <2>2. InHand \in {"record", "size"} \X Atts
    BY <1>2, <2>1 DEF InHand
  <2> QED
    BY <2>2 DEF Tearable
<1>3. CASE work.phase = "manifests"
  <2>1. InHand = <<"mani", work.at>> /\ work.at \in Invs
    BY <1>1, <1>3 DEF InPlace, InHand
  <2> QED
    BY <2>1 DEF Tearable
<1>4. CASE work.phase = "claims"
  <2>1. script = "t44" /\ work.at \in {0} \cup Invs
    BY <1>1, <1>4 DEF InPlace
  <2>2. InHand = <<"proms", 0>> \/ (InHand = <<"mani", work.at>> /\ work.at \in Invs)
    BY <1>4, <2>1 DEF InHand
  <2> QED
    BY <2>1, <2>2 DEF Tearable
<1>5. CASE work.phase = "matrix"
  BY <1>5 DEF InHand, Tearable
<1> QED
  BY <1>1, <1>2, <1>3, <1>4, <1>5 DEF Working

LEMMA KillScriptKeeps ==
    ASSUME CorrInv, KillScript
    PROVE  CorrInv'
<1>1. /\ Running /\ work' = Enter(work, "killed") /\ UNCHANGED <<script, disk, repo, bundle>>
      /\ torn' \in {torn, torn \cup {x \in {InHand} : Writes}}
  BY DEF KillScript
<1>2. torn' \subseteq Tearable /\ Tearable' = Tearable
  BY <1>1, InHandIs DEF CorrInv, Tearable
<1>3. Marking'
  <2>1. ASSUME NEW a \in Atts, <<"record", a>> \in torn'
        PROVE  ~record[a].marked
    <3>1. <<"record", a>> \in torn => ~record[a].marked
      BY DEF CorrInv, Marking
    <3>2. ASSUME <<"record", a>> = InHand, Writes
          PROVE  ~record[a].marked
      <4>1. work.phase = "attempts" /\ work.at = a
        BY <3>2 DEF InHand
      <4>2. ~Right(a)
        BY <3>2, <4>1 DEF Writes, Stale
      <4> QED
        BY <3>2, <4>1, <4>2 DEF Writes, MustRefuse
    <3> QED
      BY <2>1, <3>1, <3>2, <1>1
  <2>2. UNCHANGED <<record, mani, repo>>
    BY <1>1 DEF disk
  <2> QED
    BY <2>1, <2>2 DEF CorrInv, Marking
<1>4. work \in Work /\ \A v \in Invs : script = "t49" => work.read[v] \in {"unread", "whole"}
  BY DEF CorrInv, CorrTyped, SealedReading
<1> QED
  BY <1>1, <1>2, <1>3, <1>4, RestKeeps

LEMMA AlterBundleKeeps ==
    ASSUME CorrInv, NEW v \in Invs, AlterBundle(v)
    PROVE  CorrInv'
<1>1. /\ bundle' = [bundle EXCEPT ![v] = "changed"]
      /\ UNCHANGED <<script, work, disk, torn, repo, tries>>
  BY DEF AlterBundle
<1>2. bundle' \in [Invs -> {"whole", "changed"}]
  BY <1>1 DEF CorrInv, CorrTyped
<1>3. PICK k : k = work
  OBVIOUS
<1>4. BehindIsRight(k)'
  BY <1>1, <1>3, BehindStays DEF CorrInv
<1>5. BehindIsRight(work)'
  BY <1>1, <1>3, <1>4
<1>6. CorrTyped' /\ (torn \subseteq Tearable)' /\ Marking'
  BY <1>1, <1>2 DEF CorrInv, CorrTyped, disk, Tearable, Marking, InPlace
<1>7. Indexing' /\ SealedReading'
  BY <1>1 DEF CorrInv, Indexing, SealedReading, disk
<1> QED
  BY <1>5, <1>6, <1>7 DEF CorrInv

LEMMA CommitKeeps ==
    ASSUME CorrInv, Commit
    PROVE  CorrInv'
<1>1. /\ repo' = <<record, size, mani, proms, seals>>
      /\ UNCHANGED <<script, work, disk, torn, bundle, tries>>
  BY DEF Commit, disk
<1>2. repo'[1] = record /\ repo'[3] = mani
  BY <1>1
<1>3. PICK k : k = work
  OBVIOUS
<1>4. BehindIsRight(k)'
  BY <1>1, <1>3, BehindStays DEF CorrInv
<1>5. BehindIsRight(work)'
  BY <1>1, <1>3, <1>4
<1>6. CorrTyped' /\ (torn \subseteq Tearable)' /\ Marking'
  BY <1>1, <1>2 DEF CorrInv, CorrTyped, disk, Tearable, Marking, InPlace
<1>7. Indexing' /\ SealedReading'
  BY <1>1 DEF CorrInv, Indexing, SealedReading, disk
<1> QED
  BY <1>5, <1>6, <1>7 DEF CorrInv

\* A complete run found nothing torn.
LEMMA NothingIsTorn ==
    ASSUME CorrInv, work.phase = "done"
    PROVE  torn = {}
<1>1. BehindIsRight(work) /\ torn \subseteq Tearable
  BY DEF CorrInv
<1>2. /\ \A a \in Atts : AttemptIsRight(work, a)
      /\ \A v \in Invs : ManifestIsRight(work, v)
      /\ ClaimIsGone(work, 0) /\ SealsAreRight(work)
  BY <1>1, Ranks DEF BehindIsRight, Behind
<1>3. ASSUME NEW f \in torn
      PROVE  FALSE
  <2>1. \/ f \in {"record", "size"} \X Atts
        \/ f \in {"mani"} \X Invs
        \/ f = <<"seals", 0>>
        \/ f = <<"proms", 0>> /\ script = "t44"
    BY <1>1, <1>3 DEF Tearable
  <2>2. CASE f \in {"record", "size"} \X Atts
    <3>1. PICK a \in Atts : f = <<"record", a>> \/ f = <<"size", a>>
      BY <2>2
    <3> QED
      BY <3>1, <1>2, <1>3 DEF AttemptIsRight
  <2>3. CASE f \in {"mani"} \X Invs
    <3>1. PICK v \in Invs : f = <<"mani", v>>
      BY <2>3
    <3> QED
      BY <3>1, <1>2, <1>3 DEF ManifestIsRight
  <2>4. CASE f = <<"seals", 0>>
    BY <2>4, <1>2, <1>3 DEF SealsAreRight
  <2>5. CASE f = <<"proms", 0>> /\ script = "t44"
    BY <2>5, <1>2, <1>3 DEF ClaimIsGone
  <2> QED
    BY <2>1, <2>2, <2>3, <2>4, <2>5
<1> QED
  BY <1>3

LEMMA TearableIs ==
    ASSUME NEW f \in Tearable
    PROVE  /\ f[1] = "record" => f[2] \in Atts /\ f = <<"record", f[2]>>
           /\ f[1] = "mani" => f[2] \in Invs /\ f = <<"mani", f[2]>>
<1>1. \/ f \in {"record", "size"} \X Atts
      \/ f \in {"mani"} \X Invs
      \/ f = <<"seals", 0>>
      \/ f = <<"proms", 0>>
  BY DEF Tearable
<1>2. CASE f \in {"record", "size"} \X Atts
  BY <1>2
<1>3. CASE f \in {"mani"} \X Invs
  BY <1>3
<1> QED
  BY <1>1, <1>2, <1>3

LEMMA PutBackKeeps ==
    ASSUME CorrInv, NEW f \in torn, PutBack(f)
    PROVE  CorrInv'
<1> USE CorrectionsAssumption DEF CorrectionsAssumption
<1>1. /\ ~Running /\ torn' = torn \ {f}
      /\ record' = IF f[1] = "record" THEN [record EXCEPT ![f[2]] = repo[1][f[2]]] ELSE record
      /\ mani' = IF f[1] = "mani" THEN [mani EXCEPT ![f[2]] = repo[3][f[2]]] ELSE mani
      /\ size' = IF f[1] = "size" THEN [size EXCEPT ![f[2]] = repo[2][f[2]]] ELSE size
      /\ UNCHANGED <<script, work, repo, bundle, tries>>
  BY DEF PutBack
<1>2. f \in Tearable
  BY DEF CorrInv
<1>3. record' = record
  <2>1. CASE f[1] = "record"
    <3>1. PICK a \in Atts : f = <<"record", a>>
      BY <1>2, <2>1, TearableIs
    <3>2. ~record[a].marked
      BY <3>1 DEF CorrInv, Marking
    <3>3. repo[1][a] = record[a] /\ record \in Records
      BY <3>2 DEF CorrInv, CorrTyped, Marking
    <3>4. f[2] = a /\ f[1] = "record"
      BY <3>1
    <3>5. record' = [record EXCEPT ![a] = record[a]]
      BY <1>1, <3>3, <3>4
    <3> QED
      BY <3>3, <3>5 DEF Records
  <2> QED
    BY <1>1, <2>1
<1>4. Manis(mani') /\ NoneLeads(record, mani')
  <2>1. Manis(mani) /\ Manis(repo[3]) /\ NoneLeads(record, mani) /\ NoneLeads(repo[1], repo[3])
    BY DEF CorrInv, CorrTyped, Marking
  <2>2. CASE f[1] = "mani"
    <3>1. PICK v \in Invs : f = <<"mani", v>>
      BY <1>2, <2>2, TearableIs
    <3>2. f[1] = "mani" /\ f[2] = v
      BY <3>1
    <3>3. mani' = [mani EXCEPT ![v] = repo[3][v]]
      BY <1>1, <3>2
    <3>4. DOMAIN mani' = Invs /\ \A u \in Invs : mani'[u] = IF u = v THEN repo[3][v] ELSE mani[u]
      BY <2>1, <3>3 DEF Manis
    <3>5. Manis(mani')
      BY <2>1, <3>4 DEF Manis
    <3>6. ASSUME NEW a \in Atts, InvOf[a] = v, ~record[a].marked
          PROVE  mani'[InvOf[a]].digest[a] = record[a].digest
      <4>1. repo[1][a] = record[a]
        BY <3>6 DEF CorrInv, Marking
      <4>2. repo[3][InvOf[a]].digest[a] = record[a].digest
        BY <2>1, <4>1, <3>6 DEF NoneLeads
      <4> QED
        BY <3>4, <3>6, <4>2
    <3>7. ASSUME NEW a \in Atts, InvOf[a] # v, ~record[a].marked
          PROVE  mani'[InvOf[a]].digest[a] = record[a].digest
      <4>1. InvOf[a] \in Invs
        OBVIOUS
      <4> QED
        BY <2>1, <3>4, <3>7, <4>1 DEF NoneLeads
    <3> QED
      BY <3>5, <3>6, <3>7 DEF NoneLeads
  <2> QED
    BY <1>1, <2>1, <2>2
<1>5. Marking'
  BY <1>1, <1>3, <1>4 DEF CorrInv, Marking
<1>6. (torn \subseteq Tearable)'
  BY <1>1 DEF CorrInv, Tearable
<1>7. CorrTyped'
  <2>1. DOMAIN size' = DOMAIN size
    BY <1>1
  <2> QED
    BY <2>1, <1>1, <1>3, <1>4 DEF CorrInv, CorrTyped, InPlace
<1>8. work.phase \in {"idle", "refused", "killed"}
  BY <1>1, NothingIsTorn DEF Running, Rest
<1>9. BehindIsRight(work)'
  <2>1. PICK k : k = work
    OBVIOUS
  <2>2. Rank(k.phase) = 0
    BY <1>8, <2>1, Ranks
  <2>3. BehindIsRight(k)'
    BY <2>2, Ranks DEF BehindIsRight, Behind
  <2> QED
    BY <1>1, <2>1, <2>3
<1>10. Indexing' /\ SealedReading'
  BY <1>1, <1>8 DEF CorrInv, Indexing, SealedReading
<1> QED
  BY <1>5, <1>6, <1>7, <1>9, <1>10 DEF CorrInv

LEMMA CorrectAttemptKeeps ==
    ASSUME CorrInv, CorrectAttempt
    PROVE  CorrInv'
<1> USE CorrectionsAssumption DEF CorrectionsAssumption
<1> DEFINE a == work.at
<1>1. /\ Running /\ ~MustRefuse /\ Stale /\ ~work.dry /\ work.phase = "attempts"
      /\ record' = [record EXCEPT ![a] = [digest |-> Truth(InvOf[a]), marked |-> TRUE]]
      /\ work' = IF size[a] = "none" THEN Onward(Known) ELSE [Known EXCEPT !.phase = "index"]
      /\ UNCHANGED <<script, size, mani, proms, seals, torn, repo, bundle, tries>>
  BY DEF CorrectAttempt, Writes
<1>2. PICK k : k = Known
  OBVIOUS
<1>3. /\ k \in Work /\ InPlace(k) /\ k.phase = "attempts" /\ k.at = a /\ ~k.dry
      /\ BehindIsRight(k)
      /\ script = "t49" => \A v \in Invs : k.read[v] \in {"unread", "whole"}
      /\ <<"record", a>> \notin torn /\ <<"size", a>> \notin torn
      /\ k.read[InvOf[a]] = Truth(InvOf[a])
      /\ Truth(InvOf[a]) \in Digests
  <2>1. InHand = <<"record", a>>
    BY <1>1 DEF InHand
  <2> QED
    BY <1>1, <1>2, <2>1, KnownIs
<1>4. a \in Atts /\ a \in Nat /\ InvOf[a] \in Invs
  BY <1>3 DEF InPlace
<1>5. /\ record' \in Records
      /\ record'[a] = [digest |-> Truth(InvOf[a]), marked |-> TRUE]
      /\ \A b \in Atts : b # a => record'[b] = record[b]
  <2>1. record \in Records
    BY DEF CorrInv, CorrTyped
  <2>2. [digest |-> Truth(InvOf[a]), marked |-> TRUE] \in [digest : Digests, marked : BOOLEAN]
    BY <1>3
  <2> HIDE DEF a
  <2> QED
    BY <1>1, <1>4, <2>1, <2>2 DEF Records
<1>6. BehindIsRight(k)'
  <2>1. ASSUME NEW b \in Atts, Behind(k, "attempts", b)
        PROVE  AttemptIsRight(k, b)'
    <3>1. b < a
      BY <2>1, <1>3, Ranks DEF Behind
    <3>2. b # a
      BY <3>1, <1>4
    <3>3. AttemptIsRight(k, b)
      BY <2>1, <1>3 DEF BehindIsRight
    <3> QED
      BY <3>2, <3>3, <1>1, <1>5 DEF AttemptIsRight
  <2>2. /\ \A v \in Invs : ~Behind(k, "manifests", v)
        /\ \A n \in {0} \cup Invs : ~Behind(k, "claims", n)
        /\ ~Behind(k, "matrix", 0)
    BY <1>3, Ranks DEF Behind
  <2> QED
    BY <2>1, <2>2 DEF BehindIsRight
<1>7. Marking'
  <2>1. NoneLeads(record', mani)
    BY <1>5 DEF CorrInv, Marking, NoneLeads
  <2>2. ASSUME NEW b \in Atts, ~record'[b].marked
        PROVE  repo[1][b] = record'[b]
    <3>1. b # a
      BY <2>2, <1>5
    <3>2. record'[b] = record[b]
      BY <3>1, <1>5
    <3>3. ~record[b].marked => repo[1][b] = record[b]
      BY DEF CorrInv, Marking
    <3> QED
      BY <2>2, <3>2, <3>3
  <2>3. \A b \in Atts : <<"record", b>> \in torn => ~record'[b].marked
    BY <1>3, <1>5 DEF CorrInv, Marking
  <2> QED
    BY <1>1, <2>1, <2>2, <2>3 DEF CorrInv, Marking
<1>8. /\ script \in {"t44", "t49"} /\ script' = script /\ (torn \subseteq Tearable)'
      /\ repo'[1] \in Records /\ Manis(mani') /\ Manis(repo'[3])
      /\ bundle' \in [Invs -> {"whole", "changed"}] /\ DOMAIN size' = Atts
  BY <1>1 DEF CorrInv, CorrTyped, Tearable
<1>9. CASE size[a] = "none"
  <2>1. AttemptIsRight(k, k.at)'
    BY <1>1, <1>3, <1>5, <1>9 DEF AttemptIsRight, Digests
  <2>2. /\ work' \in Work /\ InPlace(work)' /\ work'.phase # "index" /\ work'.read = k.read
        /\ BehindIsRight(work)'
    <3>1. work' = Onward(k)
      BY <1>1, <1>2, <1>9
    <3> QED
      BY <3>1, <2>1, <1>3, <1>6, <1>8, FollowsOn DEF Working
  <2>3. CorrTyped'
    BY <2>2, <1>5, <1>8 DEF CorrTyped
  <2>4. SealedReading' /\ Indexing'
    BY <2>2, <1>3, <1>8 DEF SealedReading, Indexing
  <2> QED
    BY <2>2, <2>3, <2>4, <1>7, <1>8 DEF CorrInv
<1>10. CASE size[a] # "none"
  <2>1. PICK x : x = [k EXCEPT !.phase = "index"]
    OBVIOUS
  <2>2. /\ x \in Work /\ x.phase = "index" /\ x.at = a /\ x.read = k.read /\ x.dry = k.dry
    BY <2>1, <1>3 DEF Work, Phases
  <2>3. work' = x
    BY <1>1, <1>2, <1>10, <2>1
  <2>4. BehindIsRight(x)'
    <3>1. \A p, n : Behind(x, p, n) <=> Behind(k, p, n)
      BY <2>2, <1>3, Ranks DEF Behind
    <3> QED
      BY <3>1, <2>2, <1>6 DEF BehindIsRight, AttemptIsRight, ManifestIsRight, ClaimIsGone, SealsAreRight
  <2>5. BehindIsRight(work)'
    BY <2>3, <2>4
  <2>6. InPlace(work)' /\ work' \in Work
    BY <2>2, <2>3, <1>4 DEF InPlace
  <2>7. CorrTyped'
    BY <2>6, <1>5, <1>8 DEF CorrTyped
  <2>8. SealedReading'
    BY <2>2, <2>3, <1>3, <1>8 DEF SealedReading
  <2>9. Indexing'
    BY <2>2, <2>3, <1>1, <1>3, <1>5 DEF Indexing, Digests
  <2> QED
    BY <2>5, <2>7, <2>8, <2>9, <1>7, <1>8 DEF CorrInv
<1> QED
  BY <1>9, <1>10

LEMMA CorrectIndexKeeps ==
    ASSUME CorrInv, CorrectIndex
    PROVE  CorrInv'
<1> USE CorrectionsAssumption DEF CorrectionsAssumption
<1> DEFINE a == work.at
<1>1. /\ Running /\ ~MustRefuse /\ Stale /\ ~work.dry /\ work.phase = "index"
      /\ size' = [size EXCEPT ![a] = Truth(InvOf[a])]
      /\ work' = Onward([work EXCEPT !.phase = "attempts"])
      /\ UNCHANGED <<script, record, mani, proms, seals, torn, repo, bundle, tries>>
  BY DEF CorrectIndex, Writes
<1>2. PICK k : k = [work EXCEPT !.phase = "attempts"]
  OBVIOUS
<1>3. work \in Work /\ a \in Atts /\ a \in Nat
  BY <1>1 DEF CorrInv, CorrTyped, InPlace
<1>4. /\ k \in Work /\ k.phase = "attempts" /\ k.at = a /\ k.read = work.read /\ ~k.dry
  BY <1>1, <1>2, <1>3 DEF Work, Phases
<1>5. InPlace(k)
  BY <1>3, <1>4 DEF InPlace
<1>6. /\ work.read[InvOf[a]] # "unread" /\ record[a].digest = work.read[InvOf[a]]
      /\ <<"record", a>> \notin torn /\ <<"size", a>> \notin torn
  BY <1>1 DEF CorrInv, Indexing
<1>7. Truth(InvOf[a]) = work.read[InvOf[a]]
  BY <1>6 DEF Truth
<1>8. \A b \in Atts : b # a => size'[b] = size[b]
  BY <1>1
<1>9. DOMAIN size' = Atts /\ size'[a] = work.read[InvOf[a]]
  <2>1. DOMAIN size = Atts
    BY DEF CorrInv, CorrTyped
  <2> QED
    BY <2>1, <1>1, <1>3, <1>7
<1>10. BehindIsRight(k)'
  <2>1. ASSUME NEW b \in Atts, Behind(k, "attempts", b)
        PROVE  AttemptIsRight(k, b)'
    <3>1. b < a
      BY <2>1, <1>4, Ranks DEF Behind
    <3>2. b # a
      BY <3>1, <1>3
    <3>3. Behind(work, "attempts", b)
      BY <3>1, <1>1, Ranks DEF Behind
    <3>4. AttemptIsRight(work, b)
      BY <3>3 DEF CorrInv, BehindIsRight
    <3> QED
      BY <3>2, <3>4, <1>1, <1>4, <1>8 DEF AttemptIsRight
  <2>2. /\ \A v \in Invs : ~Behind(k, "manifests", v)
        /\ \A n \in {0} \cup Invs : ~Behind(k, "claims", n)
        /\ ~Behind(k, "matrix", 0)
    BY <1>4, Ranks DEF Behind
  <2> QED
    BY <2>1, <2>2 DEF BehindIsRight
<1>11. AttemptIsRight(k, k.at)'
  BY <1>1, <1>4, <1>6, <1>9 DEF AttemptIsRight
<1>12. script \in {"t44", "t49"} /\ script' = script /\ work' = Onward(k)
  BY <1>1, <1>2 DEF CorrInv, CorrTyped
<1>13. /\ work' \in Work /\ InPlace(work)' /\ work'.phase # "index" /\ work'.read = work.read
       /\ BehindIsRight(work)'
  BY <1>4, <1>5, <1>10, <1>11, <1>12, FollowsOn DEF Working
<1>14. /\ script' \in {"t44", "t49"} /\ record' \in Records /\ repo'[1] \in Records
       /\ Manis(mani') /\ Manis(repo'[3]) /\ bundle' \in [Invs -> {"whole", "changed"}]
       /\ (torn \subseteq Tearable)' /\ Marking'
  BY <1>1, FilesStay
<1>15. CorrTyped' /\ SealedReading' /\ Indexing'
  BY <1>9, <1>12, <1>13, <1>14 DEF CorrInv, CorrTyped, SealedReading, Indexing
<1> QED
  BY <1>13, <1>14, <1>15 DEF CorrInv

LEMMA CorrectManifestKeeps ==
    ASSUME CorrInv, CorrectManifest
    PROVE  CorrInv'
<1> USE CorrectionsAssumption DEF CorrectionsAssumption
<1> DEFINE v == work.at
<1>1. /\ Running /\ ~MustRefuse /\ Stale /\ ~work.dry /\ work.phase = "manifests"
      /\ mani' = [mani EXCEPT ![v].digest = [a \in DOMAIN @ |-> Truth(v)]]
      /\ work' = Onward([Known EXCEPT !.wrote = @ \cup {v}])
      /\ UNCHANGED <<script, record, size, proms, seals, torn, repo, bundle, tries>>
  BY DEF CorrectManifest, Writes
<1>2. PICK k : k = [Known EXCEPT !.wrote = @ \cup {v}]
  OBVIOUS
<1>3. /\ Known \in Work /\ InPlace(Known) /\ Known.phase = "manifests" /\ Known.at = v
      /\ ~Known.dry /\ Known.wrote = work.wrote
      /\ BehindIsRight(Known)
      /\ script = "t49" => \A u \in Invs : Known.read[u] \in {"unread", "whole"}
      /\ <<"mani", v>> \notin torn
      /\ Known.read[v] = Truth(v) /\ Truth(v) \in Digests
  <2>1. InHand = <<"mani", v>>
    BY <1>1 DEF InHand
  <2> QED
    BY <1>1, <2>1, KnownIs
<1>4. v \in Invs /\ v \in Nat
  BY <1>3 DEF InPlace
<1>5. /\ k \in Work /\ k.phase = "manifests" /\ k.at = v /\ ~k.dry /\ k.read = Known.read
  BY <1>2, <1>3, <1>4 DEF Work
<1>6. InPlace(k)
  BY <1>4, <1>5 DEF InPlace
<1>7. /\ Manis(mani) /\ mani[v] \in Mani(v)
      /\ mani' = [mani EXCEPT ![v] = [digest |-> [a \in AttsOf(v) |-> Truth(v)], claim |-> mani[v].claim]]
  <2>1. Manis(mani) /\ mani[v] \in Mani(v)
    BY <1>4 DEF CorrInv, CorrTyped, Manis
  <2>2. DOMAIN mani[v].digest = AttsOf(v)
    BY <2>1 DEF Mani
  <2>3. [mani[v] EXCEPT !.digest = [a \in AttsOf(v) |-> Truth(v)]]
          = [digest |-> [a \in AttsOf(v) |-> Truth(v)], claim |-> mani[v].claim]
    BY <2>1 DEF Mani
  <2>4. mani' = [mani EXCEPT ![v] = [mani[v] EXCEPT !.digest = [a \in AttsOf(v) |-> Truth(v)]]]
    BY <1>1, <2>2
  <2> HIDE DEF v
  <2> QED
    BY <2>1, <2>3, <2>4
<1>8. /\ DOMAIN mani' = Invs
      /\ mani'[v] = [digest |-> [a \in AttsOf(v) |-> Truth(v)], claim |-> mani[v].claim]
      /\ \A u \in Invs : u # v => mani'[u] = mani[u]
  <2> HIDE DEF v
  <2> QED
    BY <1>4, <1>7 DEF Manis
<1>9. Manis(mani')
  <2>1. mani'[v] \in Mani(v)
    BY <1>3, <1>7, <1>8 DEF Mani
  <2>2. \A u \in Invs : mani'[u] \in Mani(u)
    BY <2>1, <1>7, <1>8 DEF Manis
  <2> QED
    BY <2>2, <1>8 DEF Manis
<1>10. \A a \in AttsOf(v) : mani'[v].digest[a] = Truth(v)
  BY <1>8
<1>11. \A a \in AttsOf(v) : record[a].digest = Truth(v)
  <2>1. ASSUME NEW a \in AttsOf(v)
        PROVE  record[a].digest = Truth(v)
    <3>1. a \in Atts /\ InvOf[a] = v
      BY DEF AttsOf
    <3>2. Behind(Known, "attempts", a)
      BY <1>3, Ranks DEF Behind
    <3>3. AttemptIsRight(Known, a)
      BY <3>1, <3>2, <1>3 DEF BehindIsRight
    <3> QED
      BY <3>1, <3>3, <1>3 DEF AttemptIsRight
  <2> QED
    BY <2>1
<1>12. NoneLeads(record, mani')
  <2>1. ASSUME NEW a \in Atts, InvOf[a] = v
        PROVE  mani'[InvOf[a]].digest[a] = record[a].digest
    <3>1. a \in AttsOf(v)
      BY <2>1 DEF AttsOf
    <3> QED
      BY <3>1, <2>1, <1>10, <1>11
  <2>2. ASSUME NEW a \in Atts, InvOf[a] # v
        PROVE  mani'[InvOf[a]] = mani[InvOf[a]]
    <3>1. InvOf[a] \in Invs
      OBVIOUS
    <3> QED
      BY <3>1, <2>2, <1>8
  <2>3. NoneLeads(record, mani)
    BY DEF CorrInv, Marking
  <2> QED
    BY <2>1, <2>2, <2>3 DEF NoneLeads
<1>13. BehindIsRight(k)'
  <2>1. ASSUME NEW a \in Atts
        PROVE  AttemptIsRight(k, a)'
    <3>1. Behind(Known, "attempts", a)
      BY <1>3, Ranks DEF Behind
    <3>2. AttemptIsRight(Known, a)
      BY <3>1, <1>3 DEF BehindIsRight
    <3> QED
      BY <3>2, <1>1, <1>3, <1>5 DEF AttemptIsRight
  <2>2. ASSUME NEW u \in Invs, Behind(k, "manifests", u)
        PROVE  ManifestIsRight(k, u)'
    <3>1. u < v
      BY <2>2, <1>5, Ranks DEF Behind
    <3>2. u # v
      BY <3>1, <1>4
    <3>3. Behind(Known, "manifests", u)
      BY <3>1, <1>3, Ranks DEF Behind
    <3>4. ManifestIsRight(Known, u)
      BY <3>3, <1>3 DEF BehindIsRight
    <3> QED
      BY <3>2, <3>4, <1>1, <1>3, <1>5, <1>8 DEF ManifestIsRight, AttsOf
  <2>3. /\ \A n \in {0} \cup Invs : ~Behind(k, "claims", n)
        /\ ~Behind(k, "matrix", 0)
    BY <1>5, Ranks DEF Behind
  <2> QED
    BY <2>1, <2>2, <2>3 DEF BehindIsRight
<1>14. ManifestIsRight(k, k.at)'
  <2>1. \A a \in AttsOf(v) : mani'[v].digest[a] = k.read[v]
    BY <1>3, <1>5, <1>10
  <2> HIDE DEF v
  <2> QED
    BY <2>1, <1>1, <1>3, <1>5 DEF ManifestIsRight, Digests, AttsOf
<1>15. script \in {"t44", "t49"} /\ script' = script /\ work' = Onward(k)
  BY <1>1, <1>2 DEF CorrInv, CorrTyped
<1>16. /\ work' \in Work /\ InPlace(work)' /\ work'.phase # "index" /\ work'.read = k.read
       /\ BehindIsRight(work)'
  BY <1>5, <1>6, <1>13, <1>14, <1>15, FollowsOn DEF Working
<1>17. CorrTyped'
  BY <1>1, <1>9, <1>16 DEF CorrInv, CorrTyped
<1>18. Marking' /\ (torn \subseteq Tearable)'
  BY <1>1, <1>12 DEF CorrInv, Marking, Tearable
<1>19. SealedReading' /\ Indexing'
  BY <1>3, <1>5, <1>15, <1>16 DEF SealedReading, Indexing
<1> QED
  BY <1>16, <1>17, <1>18, <1>19 DEF CorrInv

LEMMA Withdrawn ==
    ASSUME NEW v, NEW m \in Mani(v)
    PROVE  [m EXCEPT !.claim = FALSE] = [digest |-> m.digest, claim |-> FALSE]
<1>1. ASSUME NEW s, s = [m EXCEPT !.claim = FALSE]
      PROVE  s = [digest |-> m.digest, claim |-> FALSE]
  BY <1>1 DEF Mani
<1> QED
  BY <1>1

LEMMA CorrectClaimKeeps ==
    ASSUME CorrInv, CorrectClaim
    PROVE  CorrInv'
<1> USE CorrectionsAssumption DEF CorrectionsAssumption
<1> DEFINE v == work.at
<1>1. /\ Running /\ ~MustRefuse /\ Stale /\ ~work.dry /\ work.phase = "claims"
      /\ proms' = (proms /\ v # 0)
      /\ mani' = IF v = 0 THEN mani ELSE [mani EXCEPT ![v].claim = FALSE]
      /\ work' = Onward([work EXCEPT !.wrote = @ \cup ({v} \ {0})])
      /\ UNCHANGED <<script, record, size, seals, torn, repo, bundle, tries>>
  BY DEF CorrectClaim, Writes
<1>2. PICK k : k = [work EXCEPT !.wrote = @ \cup ({v} \ {0})]
  OBVIOUS
<1>3. /\ work \in Work /\ InPlace(work) /\ BehindIsRight(work) /\ script = "t44"
      /\ v \in {0} \cup Invs /\ v \in Nat
  BY <1>1 DEF CorrInv, CorrTyped, InPlace
<1>4. k \in Work /\ k.phase = "claims" /\ k.at = v /\ ~k.dry /\ k.read = work.read
  BY <1>1, <1>2, <1>3 DEF Work
<1>5. InPlace(k)
  BY <1>3, <1>4 DEF InPlace
<1>6. Manis(mani) /\ NoneLeads(record, mani)
  BY DEF CorrInv, CorrTyped, Marking
<1>7. /\ DOMAIN mani' = Invs
      /\ \A u \in Invs : mani'[u] \in Mani(u) /\ mani'[u].digest = mani[u].digest
      /\ \A u \in Invs : ~mani[u].claim => ~mani'[u].claim
      /\ v # 0 => ~mani'[v].claim
  <2>1. CASE v = 0
    BY <2>1, <1>1, <1>6 DEF Manis
  <2>2. CASE v # 0
    <3>1. v \in Invs /\ mani[v] \in Mani(v)
      BY <2>2, <1>3, <1>6 DEF Manis
    <3>2. [mani[v] EXCEPT !.claim = FALSE] = [digest |-> mani[v].digest, claim |-> FALSE]
      BY <3>1, Withdrawn
    <3>3. mani' = [mani EXCEPT ![v] = [mani[v] EXCEPT !.claim = FALSE]]
      BY <1>1, <2>2
    <3>4. [digest |-> mani[v].digest, claim |-> FALSE] \in Mani(v)
      BY <3>1 DEF Mani
    <3> HIDE DEF v
    <3>5. /\ DOMAIN mani' = Invs
          /\ mani'[v] = [digest |-> mani[v].digest, claim |-> FALSE]
          /\ \A u \in Invs : u # v => mani'[u] = mani[u]
      BY <3>1, <3>2, <3>3, <1>6 DEF Manis
    <3>6. ASSUME NEW u \in Invs
          PROVE  /\ mani'[u] \in Mani(u) /\ mani'[u].digest = mani[u].digest
                 /\ ~mani[u].claim => ~mani'[u].claim
      <4>1. CASE u = v
        BY <4>1, <3>4, <3>5
      <4>2. CASE u # v
        BY <4>2, <3>5, <1>6 DEF Manis
      <4> QED
        BY <4>1, <4>2
    <3> QED
      BY <3>5, <3>6
  <2> QED
    BY <2>1, <2>2
<1>8. Manis(mani') /\ NoneLeads(record, mani')
  BY <1>6, <1>7 DEF Manis, NoneLeads
<1>9. BehindIsRight(k)'
  <2>1. ASSUME NEW a \in Atts
        PROVE  AttemptIsRight(k, a)'
    <3>1. AttemptIsRight(work, a)
      BY <1>1, <1>3, Ranks DEF BehindIsRight, Behind
    <3> QED
      BY <3>1, <1>1, <1>4 DEF AttemptIsRight
  <2>2. ASSUME NEW u \in Invs
        PROVE  ManifestIsRight(k, u)'
    <3>1. ManifestIsRight(work, u)
      BY <1>1, <1>3, Ranks DEF BehindIsRight, Behind
    <3> QED
      BY <3>1, <1>1, <1>4, <1>7 DEF ManifestIsRight, AttsOf
  <2>3. ASSUME NEW n \in {0} \cup Invs, Behind(k, "claims", n)
        PROVE  ClaimIsGone(k, n)'
    <3>1. Behind(work, "claims", n)
      BY <2>3, <1>1, <1>4, Ranks DEF Behind
    <3>2. ClaimIsGone(work, n)
      BY <3>1, <1>3 DEF BehindIsRight
    <3> QED
      BY <3>2, <1>1, <1>3, <1>4, <1>7 DEF ClaimIsGone
  <2>4. ~Behind(k, "matrix", 0)
    BY <1>4, Ranks DEF Behind
  <2> QED
    BY <2>1, <2>2, <2>3, <2>4 DEF BehindIsRight
<1>10. ClaimIsGone(k, k.at)'
  <2>1. v = 0 => InHand = <<"proms", 0>>
    BY <1>1 DEF InHand
  <2>2. v = 0 => <<"proms", 0>> \notin torn
    BY <2>1, <1>1 DEF MustRefuse
  <2>3. 0 \notin Invs
    OBVIOUS
  <2> QED
    BY <2>2, <2>3, <1>1, <1>4, <1>7 DEF ClaimIsGone
<1>11. script \in {"t44", "t49"} /\ script' = script /\ work' = Onward(k)
  BY <1>1, <1>2, <1>3
<1>12. /\ work' \in Work /\ InPlace(work)' /\ work'.phase # "index" /\ work'.read = work.read
       /\ BehindIsRight(work)'
  BY <1>4, <1>5, <1>9, <1>10, <1>11, FollowsOn DEF Working
<1>13. CorrTyped'
  BY <1>1, <1>8, <1>12 DEF CorrInv, CorrTyped
<1>14. Marking' /\ (torn \subseteq Tearable)'
  BY <1>1, <1>8 DEF CorrInv, Marking, Tearable
<1>15. SealedReading' /\ Indexing'
  BY <1>11, <1>12 DEF CorrInv, SealedReading, Indexing
<1> QED
  BY <1>12, <1>13, <1>14, <1>15 DEF CorrInv

LEMMA RefreshSealsKeeps ==
    ASSUME CorrInv, RefreshSeals
    PROVE  CorrInv'
<1>1. /\ Running /\ ~MustRefuse /\ work.phase = "matrix" /\ seals' = mani /\ work' = Onward(work)
      /\ UNCHANGED <<script, record, size, mani, proms, torn, repo, bundle, tries>>
  BY DEF RefreshSeals, Writes, Refreshed
<1>2. PICK k : k = work
  OBVIOUS
<1>3. k \in Work /\ InPlace(k) /\ k.phase = "matrix" /\ BehindIsRight(k) /\ work' = Onward(k)
  BY <1>1, <1>2 DEF CorrInv, CorrTyped
<1>4. ~Behind(k, "matrix", 0)
  <2>1. k.at = 0
    BY <1>3 DEF InPlace
  <2> QED
    BY <2>1, <1>3, Ranks DEF Behind
<1>5. BehindIsRight(k)'
  BY <1>1, <1>3, <1>4 DEF BehindIsRight, AttemptIsRight, ManifestIsRight, ClaimIsGone
<1>6. SealsAreRight(k)'
  <2>1. InHand = <<"seals", 0>>
    BY <1>1 DEF InHand
  <2>2. <<"seals", 0>> \notin torn
    BY <2>1, <1>1 DEF MustRefuse
  <2> QED
    BY <2>2, <1>1 DEF SealsAreRight
<1>7. script \in {"t44", "t49"} /\ script' = script
  BY <1>1 DEF CorrInv, CorrTyped
<1>8. /\ work' \in Work /\ InPlace(work)' /\ work'.phase # "index" /\ work'.read = k.read
      /\ BehindIsRight(work)'
  BY <1>3, <1>5, <1>6, <1>7, FollowsOn DEF Working
<1>9. /\ script' \in {"t44", "t49"} /\ record' \in Records /\ repo'[1] \in Records
      /\ Manis(mani') /\ Manis(repo'[3]) /\ bundle' \in [Invs -> {"whole", "changed"}]
      /\ (torn \subseteq Tearable)' /\ Marking'
  BY <1>1, FilesStay
<1>10. CorrTyped' /\ SealedReading' /\ Indexing'
  BY <1>1, <1>2, <1>7, <1>8, <1>9 DEF CorrInv, CorrTyped, SealedReading, Indexing
<1> QED
  BY <1>8, <1>9, <1>10 DEF CorrInv

-----------------------------------------------------------------------------
LEMMA CorrectionsBegin ==
    ASSUME CorrectionsInit
    PROVE  CorrInv
<1> USE CorrectionsAssumption DEF CorrectionsAssumption
<1>1. /\ script \in {"t44", "t49"} /\ record \in [Atts -> [digest : {"early", "whole"}, marked : {FALSE}]]
      /\ mani = [v \in Invs |-> FirstManifest(v)] /\ repo = <<record, size, mani, proms, seals>>
      /\ work = Idle /\ torn = {} /\ bundle = [v \in Invs |-> "whole"]
      /\ DOMAIN size = Atts
  BY DEF CorrectionsInit, disk
<1>2. record \in Records /\ \A a \in Atts : record[a].digest \in Digests
  BY <1>1 DEF Records, Digests
<1>3. \A v \in Invs : mani[v] = [digest |-> [a \in AttsOf(v) |-> record[a].digest], claim |-> v = 1]
  BY <1>1 DEF FirstManifest, AttsOf
<1>4. Manis(mani)
  <2>1. ASSUME NEW v \in Invs
        PROVE  mani[v] \in Mani(v)
    <3>1. [a \in AttsOf(v) |-> record[a].digest] \in [AttsOf(v) -> Digests]
      BY <1>2 DEF AttsOf
    <3>2. (v = 1) \in BOOLEAN
      OBVIOUS
    <3>3. [digest |-> [a \in AttsOf(v) |-> record[a].digest], claim |-> v = 1] \in Mani(v)
      BY <3>1, <3>2 DEF Mani
    <3> QED
      BY <3>3, <1>3
  <2> QED
    BY <1>1, <2>1 DEF Manis
<1>5. NoneLeads(record, mani)
  <2>1. ASSUME NEW a \in Atts
        PROVE  mani[InvOf[a]].digest[a] = record[a].digest
    <3>1. PICK v \in Invs : v = InvOf[a]
      OBVIOUS
    <3>2. a \in AttsOf(v)
      BY <3>1 DEF AttsOf
    <3>3. mani[v].digest = [b \in AttsOf(v) |-> record[b].digest]
      <4>1. PICK c : c = (v = 1)
        OBVIOUS
      <4>2. mani[v] = [digest |-> [b \in AttsOf(v) |-> record[b].digest], claim |-> c]
        BY <1>3, <4>1, Zenon
      <4> HIDE <4>1
      <4> QED
        BY <4>2
    <3> QED
      BY <3>1, <3>2, <3>3
  <2> QED
    BY <2>1 DEF NoneLeads
<1>6. repo[1] = record /\ repo[3] = mani
  BY <1>1
<1>7. work \in Work /\ InPlace(work) /\ work.phase = "idle" /\ \A v \in Invs : work.read[v] = "unread"
  BY <1>1 DEF Idle, Work, Phases, Rest, Reading, InPlace
<1>8. BehindIsRight(work)
  BY <1>7, Ranks, NothingIsBehind
<1>9. CorrTyped
  BY <1>1, <1>2, <1>4, <1>6, <1>7 DEF CorrTyped
<1>10. Marking /\ torn \subseteq Tearable
  BY <1>1, <1>5, <1>6 DEF Marking
<1>11. Indexing /\ SealedReading
  BY <1>7 DEF Indexing, SealedReading
<1> QED
  BY <1>8, <1>9, <1>10, <1>11 DEF CorrInv

LEMMA CorrectionsStand ==
    ASSUME CorrInv, UNCHANGED correctionVars
    PROVE  CorrInv'
<1>1. UNCHANGED <<script, work, disk, torn, repo, bundle>>
  BY DEF correctionVars
<1>2. PICK k : k = work
  OBVIOUS
<1>3. BehindIsRight(k)'
  BY <1>1, <1>2, BehindStays DEF CorrInv
<1>4. BehindIsRight(work)'
  BY <1>1, <1>2, <1>3
<1>5. CorrTyped' /\ (torn \subseteq Tearable)' /\ Marking'
  BY <1>1 DEF CorrInv, CorrTyped, disk, Tearable, Marking, InPlace
<1>6. Indexing' /\ SealedReading'
  BY <1>1 DEF CorrInv, Indexing, SealedReading, disk
<1> QED
  BY <1>4, <1>5, <1>6 DEF CorrInv

LEMMA CorrectionsStay ==
    ASSUME CorrInv, [CorrectionsNext]_correctionVars
    PROVE  CorrInv'
<1>1. ASSUME NEW dry \in BOOLEAN, StartCorrections(dry)
      PROVE  CorrInv'
  BY <1>1, StartCorrectionsKeeps
<1>2. CASE RefuseCorrection
  BY <1>2, RefuseCorrectionKeeps
<1>3. CASE LeaveAlone
  BY <1>3, LeaveAloneKeeps
<1>4. CASE CorrectAttempt
  BY <1>4, CorrectAttemptKeeps
<1>5. CASE CorrectIndex
  BY <1>5, CorrectIndexKeeps
<1>6. CASE CorrectManifest
  BY <1>6, CorrectManifestKeeps
<1>7. CASE CorrectClaim
  BY <1>7, CorrectClaimKeeps
<1>8. CASE RefreshSeals
  BY <1>8, RefreshSealsKeeps
<1>9. CASE KillScript
  BY <1>9, KillScriptKeeps
<1>10. CASE Commit
  BY <1>10, CommitKeeps
<1>11. ASSUME NEW f \in torn, PutBack(f)
       PROVE  CorrInv'
  BY <1>11, PutBackKeeps
<1>12. ASSUME NEW v \in Invs, AlterBundle(v)
       PROVE  CorrInv'
  BY <1>12, AlterBundleKeeps
<1>13. CASE UNCHANGED correctionVars
  BY <1>13, CorrectionsStand
<1> QED
  BY <1>1, <1>2, <1>3, <1>4, <1>5, <1>6, <1>7, <1>8, <1>9, <1>10, <1>11, <1>12, <1>13
  DEF CorrectionsNext

LEMMA CorrectionsInductive == CorrectionsSpec => []CorrInv
<1>1. CorrectionsInit => CorrInv
  BY CorrectionsBegin
<1>2. CorrInv /\ [CorrectionsNext]_correctionVars => CorrInv'
  BY CorrectionsStay
<1> QED
  BY <1>1, <1>2, PTL DEF CorrectionsSpec

(***************************************************************************)
(* For any invocations, attempts, runs and kills, a manifest names another  *)
(* digest than an attempt record only where the record was corrected before *)
(* it (apply_ticket44_record_corrections.py and ticket 49's, which take the *)
(* attempt records first).                                                  *)
(***************************************************************************)
THEOREM RecordsAreCorrectedFirst == CorrectionsSpec => []ManifestNeverLeads
<1>1. CorrInv => ManifestNeverLeads
  BY DEF CorrInv, Marking, NoneLeads, ManifestNeverLeads
<1> QED
  BY <1>1, CorrectionsInductive, PTL

(***************************************************************************)
(* For any invocations, attempts, runs and kills, and bundles altered at    *)
(* any time: a run that reports success leaves attempt records, indexes,    *)
(* manifests, the claim and the seals of the rows in agreement.             *)
(***************************************************************************)
THEOREM SuccessMeansAgreement == CorrectionsSpec => []SuccessIsAgreement
<1>1. ASSUME CorrInv, work.phase = "done", ~work.dry
      PROVE  /\ \A a \in Atts :
                  LET d == work.read[InvOf[a]] IN
                  /\ record[a].digest = d /\ mani[InvOf[a]].digest[a] = d
                  /\ size[a] \in {"none", d}
                  /\ script = "t49" => d = "whole"
             /\ script = "t44" => ~proms /\ \A v \in Invs : ~mani[v].claim
             /\ seals = mani
  <2>1. /\ \A a \in Atts : AttemptIsRight(work, a)
        /\ \A v \in Invs : ManifestIsRight(work, v)
        /\ \A n \in {0} \cup Invs : ClaimIsGone(work, n)
        /\ SealsAreRight(work)
    BY <1>1, Ranks DEF CorrInv, BehindIsRight, Behind
  <2>2. ASSUME NEW a \in Atts
        PROVE  LET d == work.read[InvOf[a]] IN
               /\ record[a].digest = d /\ mani[InvOf[a]].digest[a] = d
               /\ size[a] \in {"none", d}
               /\ script = "t49" => d = "whole"
    <3>1. InvOf[a] \in Invs /\ a \in AttsOf(InvOf[a])
      BY CorrectionsAssumption DEF CorrectionsAssumption, AttsOf
    <3>2. /\ work.read[InvOf[a]] # "unread" /\ record[a].digest = work.read[InvOf[a]]
          /\ size[a] \in {"none", work.read[InvOf[a]]}
      BY <1>1, <2>1 DEF AttemptIsRight
    <3>3. mani[InvOf[a]].digest[a] = work.read[InvOf[a]]
      BY <1>1, <2>1, <3>1 DEF ManifestIsRight
    <3>4. script = "t49" => work.read[InvOf[a]] = "whole"
      BY <1>1, <3>1, <3>2 DEF CorrInv, SealedReading
    <3> QED
      BY <3>2, <3>3, <3>4
  <2>3. script = "t44" => ~proms /\ \A v \in Invs : ~mani[v].claim
    BY <1>1, <2>1 DEF ClaimIsGone
  <2>4. seals = mani
    BY <1>1, <2>1 DEF SealsAreRight
  <2> QED
    BY <2>2, <2>3, <2>4
<1>2. CorrInv => SuccessIsAgreement
  BY <1>1 DEF SuccessIsAgreement
<1> QED
  BY <1>2, CorrectionsInductive, PTL

-----------------------------------------------------------------------------
(***************************************************************************)
(* The sizes of columns.                                                    *)
(***************************************************************************)

LEMMA SizesAreSequence ==
    ASSUME NEW n \in Nat, NEW s \in [1..n -> Nat]
    PROVE  s \in Seq(Nat) /\ Len(s) = n /\ DOMAIN s = 1..n
OBVIOUS

\* A sum is that of its recursion.
LEMMA RunningSums ==
    ASSUME NEW s \in Seq(Nat)
    PROVE  \E u \in [0..Len(s) -> Nat] :
               /\ u[0] = 0 /\ \A n \in 1..Len(s) : u[n] = u[n - 1] + s[n]
               /\ SumOf(s) = u[Len(s)]
<1>1. PICK l \in Nat : l = Len(s) /\ s \in [1..l -> Nat]
    BY LenProperties
<1>2. PICK F : F = [n \in 1..l |-> [x \in Nat |-> x + s[n]]]
    OBVIOUS
<1>3. F \in [1..l -> [Nat -> Nat]]
  <2>1. \A n \in 1..l : s[n] \in Nat
    BY <1>1
  <2>2. \A n \in 1..l : [x \in Nat |-> x + s[n]] \in [Nat -> Nat]
    BY <2>1
  <2> QED
    BY <1>2, <2>2
<1>4. PICK g : Stages(g, l, Nat, 0, F)
    BY <1>3, StagesExist
<1>5. g \in [0..l -> Nat] /\ g[0] = 0 /\ \A n \in 1..l : g[n] = F[n][g[n - 1]]
    BY <1>4 DEF Stages
<1>6. \A n \in 1..l : n \in 0..l /\ n - 1 \in 0..l /\ n # 0
    BY <1>1
<1>7. \A n \in 1..l : g[n] = g[n - 1] + s[n]
    BY <1>2, <1>5, <1>6
<1>8. \A n \in 0..l : g[n] = IF n = 0 THEN 0 ELSE g[n - 1] + s[n]
    BY <1>5, <1>7
<1>9. g = [n \in 0..l |-> IF n = 0 THEN 0 ELSE g[n - 1] + s[n]]
    BY <1>5, <1>8
<1>10. PICK u : u = RunningSum(s)
    OBVIOUS
<1>11. u = CHOOSE upTo : upTo = [n \in 0..l |-> IF n = 0 THEN 0 ELSE upTo[n - 1] + s[n]]
    BY <1>1, <1>10 DEF RunningSum
<1>12. u = [n \in 0..l |-> IF n = 0 THEN 0 ELSE u[n - 1] + s[n]]
    BY <1>9, <1>11
<1>13. u[0] = 0 /\ \A n \in 1..l : u[n] = u[n - 1] + s[n]
    BY <1>1, <1>6, <1>12
<1> DEFINE T == {n \in 0..l : u[n] \in Nat}
<1>14. 0 \in T
    BY <1>13
<1>15. ASSUME NEW n \in 1..l, n - 1 \in T PROVE n \in T
    BY <1>1, <1>6, <1>13, <1>15
<1>16. 0..l \subseteq T
  <2> HIDE DEF T
  <2> QED
    BY <1>14, <1>15, UpTo
<1>17. u \in [0..l -> Nat]
    BY <1>12, <1>16
<1> QED
    BY <1>1, <1>10, <1>13, <1>17 DEF SumOf

LEMMA SumIsNumber ==
    ASSUME NEW s \in Seq(Nat)
    PROVE  SumOf(s) \in Nat
<1>1. PICK u \in [0..Len(s) -> Nat] : SumOf(s) = u[Len(s)]
    BY RunningSums
<1> QED
    BY <1>1, LenProperties

\* What bounds every column bounds the sum.
LEMMA RunsCompare ==
    ASSUME NEW l \in Nat, NEW s \in [1..l -> Nat], NEW t \in [1..l -> Nat], \A i \in 1..l : s[i] <= t[i],
           NEW us \in [0..l -> Nat], us[0] = 0, \A n \in 1..l : us[n] = us[n - 1] + s[n],
           NEW ut \in [0..l -> Nat], ut[0] = 0, \A n \in 1..l : ut[n] = ut[n - 1] + t[n]
    PROVE  us[l] <= ut[l]
<1> DEFINE T == {n \in 0..l : us[n] <= ut[n]}
<1>1. 0 \in T
    OBVIOUS
<1>2. ASSUME NEW n \in 1..l, n - 1 \in T PROVE n \in T
  <2>1. n - 1 \in 0..l /\ n \in 0..l
    OBVIOUS
  <2>2. PICK x \in Nat, y \in Nat, v \in Nat, w \in Nat :
            x = us[n - 1] /\ y = ut[n - 1] /\ v = s[n] /\ w = t[n]
    BY <2>1
  <2>3. x <= y /\ v <= w /\ us[n] = x + v /\ ut[n] = y + w
    BY <1>2, <2>2
  <2> QED
    BY <2>1, <2>3
<1>3. 0..l \subseteq T
  <2> HIDE DEF T
  <2> QED
    BY <1>1, <1>2, UpTo
<1> QED
    BY <1>3

LEMMA SumsCompare ==
    ASSUME NEW s \in Seq(Nat), NEW t \in Seq(Nat), Len(s) = Len(t), \A i \in 1..Len(s) : s[i] <= t[i]
    PROVE  SumOf(s) <= SumOf(t)
<1>1. PICK l \in Nat : l = Len(s) /\ l = Len(t) /\ s \in [1..l -> Nat] /\ t \in [1..l -> Nat]
    BY LenProperties
<1>2. PICK us \in [0..l -> Nat] :
          us[0] = 0 /\ (\A n \in 1..l : us[n] = us[n - 1] + s[n]) /\ SumOf(s) = us[l]
    BY <1>1, RunningSums
<1>3. PICK ut \in [0..l -> Nat] :
          ut[0] = 0 /\ (\A n \in 1..l : ut[n] = ut[n - 1] + t[n]) /\ SumOf(t) = ut[l]
    BY <1>1, RunningSums
<1>4. us[l] <= ut[l]
    BY <1>1, <1>2, <1>3, RunsCompare
<1> QED
    BY <1>2, <1>3, <1>4

\* A sum changes by what one column of it does.
LEMMA RunsMove ==
    ASSUME NEW l \in Nat, NEW s \in [1..l -> Nat], NEW t \in [1..l -> Nat], NEW i \in 1..l,
           \A j \in 1..l : j # i => s[j] = t[j],
           NEW us \in [0..l -> Nat], us[0] = 0, \A n \in 1..l : us[n] = us[n - 1] + s[n],
           NEW ut \in [0..l -> Nat], ut[0] = 0, \A n \in 1..l : ut[n] = ut[n - 1] + t[n]
    PROVE  us[l] + t[i] = ut[l] + s[i]
<1>1. PICK x \in Nat, y \in Nat : x = s[i] /\ y = t[i]
    OBVIOUS
<1> DEFINE T == {n \in 0..l : IF n < i THEN us[n] = ut[n] ELSE us[n] + y = ut[n] + x}
<1>2. 0 \in T
    OBVIOUS
<1>3. ASSUME NEW n \in 1..l, n - 1 \in T PROVE n \in T
  <2>1. n - 1 \in 0..l /\ n \in 0..l
    OBVIOUS
  <2>2. PICK v \in Nat, w \in Nat, p \in Nat, q \in Nat :
            v = us[n - 1] /\ w = ut[n - 1] /\ p = s[n] /\ q = t[n]
    BY <2>1
  <2>3. us[n] = v + p /\ ut[n] = w + q /\ (n # i => p = q) /\ (n = i => p = x /\ q = y)
    BY <1>1, <2>2
  <2>4. IF n - 1 < i THEN v = w ELSE v + y = w + x
    BY <1>3, <2>2
  <2>5. CASE n < i
    <3>1. v = w /\ p = q
      BY <2>3, <2>4, <2>5
    <3> QED
      BY <2>1, <2>3, <2>5, <3>1
  <2>6. CASE n = i
    <3>1. v = w /\ p = x /\ q = y
      BY <2>3, <2>4, <2>6
    <3>2. us[n] + y = ut[n] + x
      BY <2>3, <3>1
    <3> QED
      BY <2>1, <2>6, <3>2
  <2>7. CASE i < n
    <3>1. v + y = w + x /\ p = q
      BY <2>3, <2>4, <2>7
    <3>2. (v + p) + y = (w + q) + x
      BY <3>1
    <3>3. us[n] + y = ut[n] + x
      BY <2>3, <3>2
    <3> QED
      BY <2>1, <2>7, <3>3
  <2> QED
    BY <2>5, <2>6, <2>7
<1>4. 0..l \subseteq T
  <2> HIDE DEF T
  <2> QED
    BY <1>2, <1>3, UpTo
<1> QED
    BY <1>1, <1>4

LEMMA SumsMove ==
    ASSUME NEW s \in Seq(Nat), NEW t \in Seq(Nat), Len(s) = Len(t), NEW i \in 1..Len(s),
           \A j \in 1..Len(s) : j # i => s[j] = t[j]
    PROVE  SumOf(s) + t[i] = SumOf(t) + s[i]
<1>1. PICK l \in Nat : l = Len(s) /\ l = Len(t) /\ s \in [1..l -> Nat] /\ t \in [1..l -> Nat]
    BY LenProperties
<1>2. PICK us \in [0..l -> Nat] :
          us[0] = 0 /\ (\A n \in 1..l : us[n] = us[n - 1] + s[n]) /\ SumOf(s) = us[l]
    BY <1>1, RunningSums
<1>3. PICK ut \in [0..l -> Nat] :
          ut[0] = 0 /\ (\A n \in 1..l : ut[n] = ut[n - 1] + t[n]) /\ SumOf(t) = ut[l]
    BY <1>1, RunningSums
<1>4. i \in 1..l /\ \A j \in 1..l : j # i => s[j] = t[j]
    BY <1>1
<1>5. us[l] + t[i] = ut[l] + s[i]
    BY <1>1, <1>2, <1>3, <1>4, RunsMove
<1> QED
    BY <1>2, <1>3, <1>5

-----------------------------------------------------------------------------
(***************************************************************************)
(* The header of a record.                                                  *)
(***************************************************************************)

\* A header of a base and the one of three tables that the payload calls for.
Headers == {h \in [base : Nat, one : Nat, two : Nat, four : Nat] :
                h.one <= h.two /\ h.two <= h.four /\ h.two <= 2 * h.one + 3}
TableOf(h, p) ==
    IF h.base + h.one + p <= 127 THEN h.one ELSE IF h.base + h.two + p <= 32767 THEN h.two ELSE h.four

LEMMA HeaderIs ==
    ASSUME NEW f \in Nat, NEW n \in Nat
    PROVE  \E h \in Headers : \A p \in Nat : HeaderSize(f, n, p) = h.base + TableOf(h, p)
<1>1. PICK b \in Nat : b = HeaderBase(f)
    BY DEF HeaderBase, MvccInsertHeader, BoundBits
<1>2. PICK one \in Nat, two \in Nat, four \in Nat :
          /\ one = VarTable(n, 1) /\ two = VarTable(n, 2) /\ four = VarTable(n, 4)
          /\ one <= two /\ two <= four /\ two <= 2 * one + 3
  <2>1. CASE n = 0
    BY <2>1 DEF VarTable
  <2>2. CASE n # 0
    <3>1. /\ VarTable(n, 1) = Align(n + 1, 4)
          /\ VarTable(n, 2) = Align(2 * n + 2, 4)
          /\ VarTable(n, 4) = Align(4 * n + 4, 4)
      BY <2>2 DEF VarTable
    <3> QED
      BY <3>1 DEF Align, AlignBelow
  <2> QED
    BY <2>1, <2>2
<1>3. PICK h : h = [base |-> b, one |-> one, two |-> two, four |-> four]
    OBVIOUS
<1>4. h \in Headers
    BY <1>2, <1>3 DEF Headers
<1>5. ASSUME NEW p \in Nat PROVE HeaderSize(f, n, p) = h.base + TableOf(h, p)
  <2>1. OffsetWidth(f, n, p) =
            IF b + one + p <= 127 THEN 1 ELSE IF b + two + p <= 32767 THEN 2 ELSE 4
    BY <1>1, <1>2 DEF OffsetWidth, MaxByte, MaxShort
  <2>2. TableOf(h, p) = IF b + one + p <= 127 THEN one ELSE IF b + two + p <= 32767 THEN two ELSE four
    BY <1>3 DEF TableOf
  <2>3. CASE b + one + p <= 127
    BY <1>1, <1>2, <1>3, <2>1, <2>2, <2>3 DEF HeaderSize
  <2>4. CASE ~(b + one + p <= 127) /\ b + two + p <= 32767
    BY <1>1, <1>2, <1>3, <2>1, <2>2, <2>4 DEF HeaderSize
  <2>5. CASE ~(b + one + p <= 127) /\ ~(b + two + p <= 32767)
    BY <1>1, <1>2, <1>3, <2>1, <2>2, <2>5 DEF HeaderSize
  <2> QED
    BY <2>3, <2>4, <2>5
<1> QED
    BY <1>4, <1>5

LEMMA TablesGrow ==
    ASSUME NEW h \in Headers, NEW p \in Nat, NEW q \in Nat, p <= q
    PROVE  h.base \in Nat /\ TableOf(h, p) \in Nat /\ TableOf(h, q) \in Nat /\ TableOf(h, p) <= TableOf(h, q)
<1>1. PICK b \in Nat, one \in Nat, two \in Nat, four \in Nat :
          /\ b = h.base /\ one = h.one /\ two = h.two /\ four = h.four /\ one <= two /\ two <= four
    BY DEF Headers
<1>2. PICK v \in Nat, w \in Nat :
          /\ v = IF b + one + p <= 127 THEN one ELSE IF b + two + p <= 32767 THEN two ELSE four
          /\ w = IF b + one + q <= 127 THEN one ELSE IF b + two + q <= 32767 THEN two ELSE four
    OBVIOUS
<1>3. v <= w
    BY <1>1, <1>2
<1>4. v = TableOf(h, p) /\ w = TableOf(h, q)
    BY <1>1, <1>2 DEF TableOf
<1> QED
    BY <1>1, <1>3, <1>4

\* A larger payload has no smaller a header, ...
LEMMA HeaderGrows ==
    ASSUME NEW f \in Nat, NEW n \in Nat, NEW p \in Nat, NEW q \in Nat, p <= q
    PROVE  HeaderSize(f, n, p) \in Nat /\ HeaderSize(f, n, q) \in Nat
           /\ HeaderSize(f, n, p) <= HeaderSize(f, n, q)
<1>1. PICK h \in Headers : \A x \in Nat : HeaderSize(f, n, x) = h.base + TableOf(h, x)
    BY HeaderIs
<1>2. HeaderSize(f, n, p) = h.base + TableOf(h, p) /\ HeaderSize(f, n, q) = h.base + TableOf(h, q)
    BY <1>1
<1> QED
    BY <1>2, TablesGrow

\* ... and a record that is never so large as to need offsets of four bytes, nor so small as to
\* do with one, keeps the header it has when its payload shrinks.
LEMMA HeaderStays ==
    ASSUME NEW f \in Nat, NEW n \in Nat, NEW p \in Nat, NEW q \in Nat, p <= q
    PROVE  HeaderSize(f, n, q) + q + 16 <= 32767 /\ HeaderSize(f, n, q) + p + 16 > 4000
           => HeaderSize(f, n, p) = HeaderSize(f, n, q)
<1>1. PICK h \in Headers : \A x \in Nat : HeaderSize(f, n, x) = h.base + TableOf(h, x)
    BY HeaderIs
<1>2. HeaderSize(f, n, p) = h.base + TableOf(h, p) /\ HeaderSize(f, n, q) = h.base + TableOf(h, q)
    BY <1>1
<1>3. PICK b \in Nat, one \in Nat, two \in Nat, four \in Nat :
          /\ b = h.base /\ one = h.one /\ two = h.two /\ four = h.four
          /\ one <= two /\ two <= four /\ two <= 2 * one + 3
    BY DEF Headers
<1>4. PICK v \in Nat, w \in Nat :
          /\ v = IF b + one + p <= 127 THEN one ELSE IF b + two + p <= 32767 THEN two ELSE four
          /\ w = IF b + one + q <= 127 THEN one ELSE IF b + two + q <= 32767 THEN two ELSE four
    OBVIOUS
<1>5. v = TableOf(h, p) /\ w = TableOf(h, q)
    BY <1>3, <1>4 DEF TableOf
<1>6. b + w + q + 16 <= 32767 /\ b + w + p + 16 > 4000 => v = w
    BY <1>3, <1>4
<1> QED
    BY <1>2, <1>3, <1>5, <1>6

-----------------------------------------------------------------------------
(***************************************************************************)
(* The order of the columns.                                                *)
(***************************************************************************)

\* Column i goes before column j.
Ahead(var, order, i, j) == IF order = "largest" THEN Larger(var, i, j) ELSE Larger(var, j, i)

\* The order is strict and total.
LEMMA AheadOrders ==
    ASSUME NEW l \in Nat, NEW var \in [1..l -> Nat], NEW order
    PROVE  /\ \A i, j \in 1..l : ~(Ahead(var, order, i, j) /\ Ahead(var, order, j, i))
           /\ \A i, j \in 1..l : i # j => Ahead(var, order, i, j) \/ Ahead(var, order, j, i)
           /\ \A i, j, k \in 1..l :
                  Ahead(var, order, i, j) /\ Ahead(var, order, j, k) => Ahead(var, order, i, k)
<1>1. /\ \A i, j \in 1..l : ~(Larger(var, i, j) /\ Larger(var, j, i))
      /\ \A i, j \in 1..l : i # j => Larger(var, i, j) \/ Larger(var, j, i)
      /\ \A i, j, k \in 1..l : Larger(var, i, j) /\ Larger(var, j, k) => Larger(var, i, k)
  <2>1. \A i \in 1..l : var[i] \in Nat
    OBVIOUS
  <2> QED
    BY <2>1 DEF Larger
<1>2. CASE order = "largest"
    BY <1>1, <1>2 DEF Ahead
<1>3. CASE order # "largest"
    BY <1>1, <1>3 DEF Ahead
<1> QED
    BY <1>2, <1>3

\* Of some columns one goes first, and First names it.
LEMMA FirstGoesFirst ==
    ASSUME NEW l \in Nat, NEW var \in [1..l -> Nat], NEW order, NEW S \in SUBSET (1..l), S # {}
    PROVE  /\ First(var, order, S) \in S
           /\ \A j \in S \ {First(var, order, S)} : Ahead(var, order, First(var, order, S), j)
<1> DEFINE Leads(i, U) == i \in U /\ \A j \in U \ {i} : Ahead(var, order, i, j)
           T == {n \in 0..l : \A U \in SUBSET (1..n) : U # {} => \E i : Leads(i, U)}
<1>1. 0 \in T
    OBVIOUS
<1>2. ASSUME NEW n \in 1..l, n - 1 \in T PROVE n \in T
  <2>1. SUFFICES ASSUME NEW U \in SUBSET (1..n), U # {} PROVE \E i : Leads(i, U)
    BY <2>1
  <2>2. U \ {n} \in SUBSET (1..(n - 1)) /\ U \subseteq 1..l /\ n \in 1..l
    OBVIOUS
  <2>3. CASE n \notin U
    <3>1. U \ {n} = U
      BY <2>3
    <3> QED
      BY <1>2, <2>1, <2>2, <3>1
  <2>4. CASE n \in U /\ U \ {n} = {}
    <3>1. Leads(n, U)
      BY <2>4
    <3> QED
      BY <3>1
  <2>5. CASE n \in U /\ U \ {n} # {}
    <3>1. PICK i : Leads(i, U \ {n})
      BY <1>2, <2>2, <2>5
    <3>2. i \in U /\ i # n /\ i \in 1..l
      BY <2>2, <3>1
    <3>3. CASE Ahead(var, order, i, n)
      <4>1. Leads(i, U)
        BY <3>1, <3>2, <3>3
      <4> QED
        BY <4>1
    <3>4. CASE Ahead(var, order, n, i)
      <4>1. ASSUME NEW j \in U \ {n} PROVE Ahead(var, order, n, j)
        <5>1. CASE j = i
          BY <3>4, <5>1
        <5>2. CASE j # i
          <6>1. Ahead(var, order, i, j) /\ j \in 1..l
            BY <2>2, <3>1, <4>1, <5>2
          <6> QED
            BY <2>2, <3>2, <3>4, <6>1, AheadOrders
        <5> QED
          BY <5>1, <5>2
      <4>2. Leads(n, U)
        BY <2>5, <4>1
      <4> QED
        BY <4>2
    <3> QED
      BY <2>2, <3>2, <3>3, <3>4, AheadOrders
  <2> QED
    BY <2>3, <2>4, <2>5
<1>3. 0..l \subseteq T
  <2> HIDE DEF T
  <2> QED
    BY <1>1, <1>2, UpTo
<1>4. PICK i : Leads(i, S)
  <2>1. l \in T
    <3> HIDE DEF T
    <3> QED
      BY <1>3
  <2> QED
    BY <2>1
<1>5. First(var, order, S) =
          CHOOSE x \in S : \A j \in S \ {x} : Ahead(var, order, x, j)
    BY DEF First, Ahead
<1> QED
    BY <1>4, <1>5

-----------------------------------------------------------------------------
(***************************************************************************)
(* The demotions.                                                           *)
(***************************************************************************)

\* The columns with those of D demoted.
Stubbed(var, D, stub) == [i \in DOMAIN var |-> IF i \in D THEN stub ELSE var[i]]

LEMMA StubbedFacts ==
    ASSUME NEW var \in Seq(Nat), NEW stub \in Nat, NEW D
    PROVE  /\ Stubbed(var, D, stub) \in Seq(Nat) /\ Len(Stubbed(var, D, stub)) = Len(var)
           /\ DOMAIN var = 1..Len(var)
           /\ \A i \in 1..Len(var) : Stubbed(var, D, stub)[i] = IF i \in D THEN stub ELSE var[i]
           /\ SumOf(Stubbed(var, D, stub)) \in Nat
<1>1. PICK l \in Nat : l = Len(var) /\ var \in [1..l -> Nat] /\ DOMAIN var = 1..l
    BY LenProperties
<1>2. PICK s : s = Stubbed(var, D, stub)
    OBVIOUS
<1>3. s = [i \in 1..l |-> IF i \in D THEN stub ELSE var[i]]
    BY <1>1, <1>2 DEF Stubbed
<1>4. s \in [1..l -> Nat]
    BY <1>1, <1>3
<1>5. s \in Seq(Nat) /\ Len(s) = l
    BY <1>4, SizesAreSequence
<1>6. SumOf(s) \in Nat
    BY <1>5, SumIsNumber
<1> QED
    BY <1>1, <1>2, <1>3, <1>5, <1>6

\* Columns above the floor take less room the more of them are demoted ...
LEMMA StubsShrink ==
    ASSUME NEW var \in Seq(Nat), NEW stub \in Nat,
           NEW D \in SUBSET Candidates(var, stub), NEW C \in SUBSET D
    PROVE  SumOf(Stubbed(var, D, stub)) <= SumOf(Stubbed(var, C, stub))
<1>1. PICK s \in Seq(Nat), t \in Seq(Nat), l \in Nat :
          /\ s = Stubbed(var, D, stub) /\ t = Stubbed(var, C, stub) /\ l = Len(var)
          /\ Len(s) = l /\ Len(t) = l
    BY StubbedFacts, LenProperties
<1>2. ASSUME NEW i \in 1..l PROVE s[i] <= t[i]
  <2>1. s[i] = (IF i \in D THEN stub ELSE var[i]) /\ t[i] = (IF i \in C THEN stub ELSE var[i])
    BY <1>1, StubbedFacts
  <2>2. var[i] \in Nat
    BY <1>1
  <2>3. i \in D => var[i] > stub
    BY DEF Candidates
  <2> QED
    BY <2>1, <2>2, <2>3
<1>3. SumOf(s) <= SumOf(t)
    BY <1>1, <1>2, SumsCompare
<1> QED
    BY <1>1, <1>3

\* ... and one demoted changes what they take by what it does.
LEMMA StubReplaces ==
    ASSUME NEW var \in Seq(Nat), NEW stub \in Nat, NEW D, NEW i \in 1..Len(var), i \notin D
    PROVE  SumOf(Stubbed(var, D \cup {i}, stub)) = SumOf(Stubbed(var, D, stub)) - var[i] + stub
<1>1. PICK s \in Seq(Nat), t \in Seq(Nat), l \in Nat :
          /\ s = Stubbed(var, D, stub) /\ t = Stubbed(var, D \cup {i}, stub) /\ l = Len(var)
          /\ Len(s) = l /\ Len(t) = l
    BY StubbedFacts, LenProperties
<1>2. \A j \in 1..l : s[j] = (IF j \in D THEN stub ELSE var[j])
                      /\ t[j] = (IF j \in D \cup {i} THEN stub ELSE var[j])
    BY <1>1, StubbedFacts
<1>3. i \in 1..l /\ s[i] = var[i] /\ t[i] = stub /\ var[i] \in Nat
  <2>1. i \in 1..l /\ var[i] \in Nat
    BY <1>1
  <2> QED
    BY <1>2, <2>1
<1>4. \A j \in 1..l : j # i => s[j] = t[j]
    BY <1>2
<1>5. SumOf(s) + t[i] = SumOf(t) + s[i]
  <2>1. Len(s) = Len(t) /\ i \in 1..Len(s) /\ \A j \in 1..Len(s) : j # i => s[j] = t[j]
    BY <1>1, <1>3, <1>4
  <2> QED
    BY <2>1, SumsMove, Zenon
<1>6. SumOf(s) \in Nat /\ SumOf(t) \in Nat
    BY SumIsNumber
<1>7. PICK a \in Nat, b \in Nat, v \in Nat : a = SumOf(s) /\ b = SumOf(t) /\ v = var[i]
    BY <1>3, <1>6
<1>8. a + stub = b + v
    BY <1>3, <1>5, <1>7
<1>9. b = a - v + stub
    BY <1>8
<1> QED
    BY <1>1, <1>7, <1>9

\* What one round of the loop makes of what is demoted so far.
Round(s, order, header, var, limit, stub) ==
    LET inline == Candidates(var, stub) \ s.demoted
        i == First(var, order, inline)
    IN  IF inline = {} \/ header + s.payload + 16 <= limit THEN s
        ELSE [payload |-> s.payload - var[i] + stub, demoted |-> s.demoted \cup {i}]

DemotionStates(var) == [payload : Int, demoted : SUBSET DOMAIN var]

LEMMA RoundsStay ==
    ASSUME NEW var \in Seq(Nat), NEW stub \in Nat, NEW order, NEW header \in Nat, NEW limit \in Nat,
           NEW s \in DemotionStates(var)
    PROVE  Round(s, order, header, var, limit, stub) \in DemotionStates(var)
<1>1. PICK l \in Nat : l = Len(var) /\ var \in [1..l -> Nat] /\ DOMAIN var = 1..l
    BY LenProperties
<1>2. PICK inline : inline = Candidates(var, stub) \ s.demoted
    OBVIOUS
<1>3. inline \in SUBSET (1..l)
    BY <1>1, <1>2 DEF Candidates
<1>4. PICK i : i = First(var, order, inline)
    OBVIOUS
<1>5. s.payload \in Int /\ s.demoted \in SUBSET (1..l)
    BY <1>1 DEF DemotionStates
<1>6. Round(s, order, header, var, limit, stub) =
          IF inline = {} \/ header + s.payload + 16 <= limit THEN s
          ELSE [payload |-> s.payload - var[i] + stub, demoted |-> s.demoted \cup {i}]
    BY <1>2, <1>4 DEF Round
<1>7. CASE inline = {} \/ header + s.payload + 16 <= limit
    BY <1>6, <1>7
<1>8. CASE ~(inline = {} \/ header + s.payload + 16 <= limit)
  <2>1. i \in 1..l
    BY <1>1, <1>3, <1>4, <1>8, FirstGoesFirst
  <2>2. s.payload - var[i] + stub \in Int
    BY <1>1, <1>5, <2>1
  <2>3. s.demoted \cup {i} \in SUBSET (1..l)
    BY <1>5, <2>1
  <2>4. Round(s, order, header, var, limit, stub) =
            [payload |-> s.payload - var[i] + stub, demoted |-> s.demoted \cup {i}]
    BY <1>6, <1>8
  <2> QED
    BY <1>1, <2>2, <2>3, <2>4 DEF DemotionStates
<1> QED
    BY <1>7, <1>8

\* The loop is its rounds.
Rounds(u, order, payload, header, var, limit, stub) ==
    /\ u \in [0..Len(var) -> DemotionStates(var)]
    /\ u[0] = [payload |-> payload, demoted |-> {}]
    /\ \A n \in 1..Len(var) : u[n] = Round(u[n - 1], order, header, var, limit, stub)

LEMMA DemotionsAreRounds ==
    ASSUME NEW var \in Seq(Nat), NEW stub \in Nat, NEW order, NEW header \in Nat, NEW limit \in Nat,
           NEW payload \in Nat
    PROVE  Rounds(Demotions(order, payload, header, var, limit, stub),
                  order, payload, header, var, limit, stub)
<1>1. PICK l \in Nat : l = Len(var)
    BY LenProperties
<1>2. PICK S : S = DemotionStates(var)
    OBVIOUS
<1>3. PICK b : b = [payload |-> payload, demoted |-> {}]
    OBVIOUS
<1>4. b \in S
    BY <1>2, <1>3 DEF DemotionStates
<1>5. PICK R : R = [s \in S |-> Round(s, order, header, var, limit, stub)]
    OBVIOUS
<1>6. R \in [S -> S]
    BY <1>2, <1>5, RoundsStay
<1>7. PICK F : F = [n \in 1..l |-> R]
    OBVIOUS
<1>8. F \in [1..l -> [S -> S]]
    BY <1>6, <1>7
<1>9. PICK g : Stages(g, l, S, b, F)
    BY <1>4, <1>8, StagesExist
<1>10. g \in [0..l -> S] /\ g[0] = b /\ \A n \in 1..l : g[n] = F[n][g[n - 1]]
    BY <1>9 DEF Stages
<1>11. \A n \in 1..l : n \in 0..l /\ n - 1 \in 0..l /\ n # 0
    BY <1>1
<1>12. \A n \in 1..l : g[n] = Round(g[n - 1], order, header, var, limit, stub)
    BY <1>5, <1>7, <1>10, <1>11
<1>13. \A n \in 0..l : g[n] = IF n = 0 THEN b ELSE Round(g[n - 1], order, header, var, limit, stub)
    BY <1>10, <1>12
<1>14. g = [n \in 0..l |-> IF n = 0 THEN b ELSE Round(g[n - 1], order, header, var, limit, stub)]
    BY <1>10, <1>13
<1>15. PICK u : u = Demotions(order, payload, header, var, limit, stub)
    OBVIOUS
<1>16. u = CHOOSE after : after =
           [n \in 0..l |-> IF n = 0 THEN b ELSE Round(after[n - 1], order, header, var, limit, stub)]
    BY <1>1, <1>3, <1>15, SMTT(30) DEF Demotions, Round, MvccExtra
<1>17. u = [n \in 0..l |-> IF n = 0 THEN b ELSE Round(u[n - 1], order, header, var, limit, stub)]
    BY <1>14, <1>16
<1>18. u[0] = b /\ \A n \in 1..l : u[n] = Round(u[n - 1], order, header, var, limit, stub)
  <2>1. u[0] = b
    BY <1>1, <1>17
  <2>2. ASSUME NEW n \in 1..l PROVE u[n] = Round(u[n - 1], order, header, var, limit, stub)
    BY <1>11, <1>17
  <2> QED
    BY <2>1, <2>2
<1> DEFINE T == {n \in 0..l : u[n] \in S}
<1>19. 0 \in T
    BY <1>1, <1>4, <1>18
<1>20. ASSUME NEW n \in 1..l, n - 1 \in T PROVE n \in T
    BY <1>2, <1>11, <1>18, <1>20, RoundsStay
<1>21. 0..l \subseteq T
  <2> HIDE DEF T
  <2> QED
    BY <1>1, <1>19, <1>20, UpTo
<1>22. u \in [0..l -> S]
    BY <1>17, <1>21
<1> QED
    BY <1>1, <1>2, <1>3, <1>15, <1>18, <1>22 DEF Rounds

\* Columns are demoted in their order, each only because the record is above the gate when those
\* ahead of it are.
Demoting(s, order, base, header, var, limit, stub) ==
    LET D == s.demoted
    IN /\ D \subseteq Candidates(var, stub)
       /\ s.payload = base + SumOf(Stubbed(var, D, stub))
       /\ \A i \in D : \A j \in Candidates(var, stub) \ D : Ahead(var, order, i, j)
       /\ \A i \in D : \E C \in SUBSET D :
              /\ C = {j \in D : Ahead(var, order, j, i)}
              /\ header + (base + SumOf(Stubbed(var, C, stub))) + 16 > limit

LEMMA RoundKeeps ==
    ASSUME NEW var \in Seq(Nat), NEW stub \in Nat, NEW order, NEW header \in Nat, NEW limit \in Nat,
           NEW base \in Nat, NEW s \in DemotionStates(var),
           Demoting(s, order, base, header, var, limit, stub)
    PROVE  Demoting(Round(s, order, header, var, limit, stub), order, base, header, var, limit, stub)
<1>1. PICK l \in Nat : l = Len(var) /\ var \in [1..l -> Nat] /\ DOMAIN var = 1..l
    BY LenProperties
<1>2. PICK E \in SUBSET (1..l) : E = Candidates(var, stub)
    BY <1>1 DEF Candidates
<1>3. PICK D : D = s.demoted
    OBVIOUS
<1>4. /\ D \subseteq E
      /\ s.payload = base + SumOf(Stubbed(var, D, stub))
      /\ \A i \in D : \A j \in E \ D : Ahead(var, order, i, j)
      /\ \A i \in D : \E C \in SUBSET D :
              /\ C = {j \in D : Ahead(var, order, j, i)}
              /\ header + (base + SumOf(Stubbed(var, C, stub))) + 16 > limit
    BY <1>2, <1>3 DEF Demoting
<1>5. PICK i : i = First(var, order, E \ D)
    OBVIOUS
<1>6. Round(s, order, header, var, limit, stub) =
          IF E \ D = {} \/ header + s.payload + 16 <= limit THEN s
          ELSE [payload |-> s.payload - var[i] + stub, demoted |-> D \cup {i}]
    BY <1>2, <1>3, <1>5 DEF Round
<1>7. CASE E \ D = {} \/ header + s.payload + 16 <= limit
    BY <1>6, <1>7
<1>8. CASE ~(E \ D = {} \/ header + s.payload + 16 <= limit)
  <2>1. PICK t : t = Round(s, order, header, var, limit, stub)
      OBVIOUS
  <2>2. t.payload = s.payload - var[i] + stub /\ t.demoted = D \cup {i}
      BY <1>6, <1>8, <2>1
  <2>3. i \in E \ D /\ \A j \in (E \ D) \ {i} : Ahead(var, order, i, j)
    <3>1. E \ D \in SUBSET (1..l) /\ E \ D # {}
      BY <1>8
    <3> QED
      BY <1>1, <1>5, <3>1, FirstGoesFirst
  <2>4. D \cup {i} \subseteq E
      BY <1>4, <2>3
  <2>5. t.payload = base + SumOf(Stubbed(var, D \cup {i}, stub))
    <3>1. SumOf(Stubbed(var, D \cup {i}, stub)) = SumOf(Stubbed(var, D, stub)) - var[i] + stub
      BY <1>1, <2>3, StubReplaces
    <3>2. PICK a \in Nat, v \in Nat : a = SumOf(Stubbed(var, D, stub)) /\ v = var[i]
      BY <1>1, <2>3, StubbedFacts
    <3>3. t.payload = (base + a) - v + stub /\ SumOf(Stubbed(var, D \cup {i}, stub)) = a - v + stub
      BY <1>4, <2>2, <3>1, <3>2
    <3>4. (base + a) - v + stub = base + (a - v + stub)
      BY <3>2
    <3> QED
      BY <3>3, <3>4
  <2>6. ASSUME NEW k \in D \cup {i}, NEW j \in E \ (D \cup {i}) PROVE Ahead(var, order, k, j)
      BY <1>4, <2>3
  <2>7. ASSUME NEW k \in D \cup {i}
        PROVE  \E C \in SUBSET (D \cup {i}) :
                   /\ C = {j \in D \cup {i} : Ahead(var, order, j, k)}
                   /\ header + (base + SumOf(Stubbed(var, C, stub))) + 16 > limit
    <3>1. \A a, b \in 1..l : ~(Ahead(var, order, a, b) /\ Ahead(var, order, b, a))
      BY <1>1, AheadOrders
    <3>2. CASE k = i
      <4>1. {j \in D \cup {i} : Ahead(var, order, j, k)} = D
        <5>1. \A j \in D : Ahead(var, order, j, i)
          BY <1>4, <2>3
        <5>2. i \in 1..l /\ ~Ahead(var, order, i, i)
          BY <2>3, <3>1
        <5> QED
          BY <3>2, <5>1, <5>2
      <4>2. header + (base + SumOf(Stubbed(var, D, stub))) + 16 > limit
        <5>1. PICK p \in Nat : p = base + SumOf(Stubbed(var, D, stub))
          BY StubbedFacts
        <5> QED
          BY <1>4, <1>8, <5>1
      <4> QED
        BY <4>1, <4>2
    <3>3. CASE k # i
      <4>1. k \in D /\ Ahead(var, order, k, i)
        BY <1>4, <2>3, <3>3
      <4>2. {j \in D \cup {i} : Ahead(var, order, j, k)} = {j \in D : Ahead(var, order, j, k)}
        BY <1>4, <2>3, <3>1, <4>1
      <4> QED
        BY <1>4, <4>1, <4>2
    <3> QED
      BY <3>2, <3>3
  <2> QED
    BY <1>2, <2>1, <2>2, <2>4, <2>5, <2>6, <2>7 DEF Demoting
<1> QED
    BY <1>7, <1>8

\* A round that demotes nothing finds nothing left to demote, or the record under the gate.
Stopped(s, header, var, limit, stub) ==
    Candidates(var, stub) \subseteq s.demoted \/ header + s.payload + 16 <= limit

\* What the loop comes to.
LEMMA DemotionsSettle ==
    ASSUME NEW var \in Seq(Nat), NEW stub \in Nat, NEW order, NEW header \in Nat, NEW limit \in Nat,
           NEW base \in Nat
    PROVE  \E s \in DemotionStates(var) :
               /\ s = Demotions(order, base + SumOf(var), header, var, limit, stub)[Len(var)]
               /\ Demoting(s, order, base, header, var, limit, stub)
               /\ Stopped(s, header, var, limit, stub)
<1>1. PICK l \in Nat : l = Len(var) /\ var \in [1..l -> Nat] /\ DOMAIN var = 1..l
    BY LenProperties
<1>2. PICK payload \in Nat : payload = base + SumOf(var)
    BY SumIsNumber
<1>3. PICK u : u = Demotions(order, payload, header, var, limit, stub)
    OBVIOUS
<1>4. Rounds(u, order, payload, header, var, limit, stub)
    BY <1>3, DemotionsAreRounds
<1>5. /\ u \in [0..l -> DemotionStates(var)]
       /\ u[0] = [payload |-> payload, demoted |-> {}]
       /\ \A n \in 1..l : u[n] = Round(u[n - 1], order, header, var, limit, stub)
    BY <1>1, <1>4 DEF Rounds
<1> DEFINE Good(n) == /\ Demoting(u[n], order, base, header, var, limit, stub)
                      /\ Stopped(u[n], header, var, limit, stub) \/ Cardinality(u[n].demoted) = n
           T == {n \in 0..l : Good(n)}
<1>6. 0 \in T
  <2>1. PICK s : s = u[0]
    OBVIOUS
  <2>2. s.demoted = {} /\ s.payload = payload
    BY <1>5, <2>1
  <2>3. Stubbed(var, {}, stub) = var
    BY DEF Stubbed
  <2>4. Demoting(s, order, base, header, var, limit, stub)
    BY <1>2, <2>2, <2>3 DEF Demoting
  <2>5. Cardinality(s.demoted) = 0
    BY <2>2, FS_EmptySet
  <2> QED
    BY <1>1, <2>1, <2>4, <2>5
<1>7. ASSUME NEW n \in 1..l, n - 1 \in T PROVE n \in T
  <2>1. n - 1 \in 0..l /\ n \in 0..l
    OBVIOUS
  <2>2. PICK s \in DemotionStates(var) : s = u[n - 1]
    BY <1>5, <2>1
  <2>3. /\ Demoting(s, order, base, header, var, limit, stub)
        /\ Stopped(s, header, var, limit, stub) \/ Cardinality(s.demoted) = n - 1
    BY <1>7, <2>2
  <2>4. u[n] = Round(s, order, header, var, limit, stub)
    BY <1>5, <2>2
  <2>5. Demoting(u[n], order, base, header, var, limit, stub)
    BY <2>3, <2>4, RoundKeeps
  <2>6. CASE Stopped(s, header, var, limit, stub)
    <3>1. u[n] = s
      BY <2>4, <2>6 DEF Round, Stopped
    <3> QED
      BY <2>1, <2>5, <2>6, <3>1
  <2>7. CASE ~Stopped(s, header, var, limit, stub)
    <3>1. PICK U : U = Candidates(var, stub) \ s.demoted
      OBVIOUS
    <3>2. U \in SUBSET (1..l) /\ U # {} /\ ~(header + s.payload + 16 <= limit)
      BY <1>1, <2>7, <3>1 DEF Stopped, Candidates
    <3>3. PICK i : i = First(var, order, U)
      OBVIOUS
    <3>4. i \in U
      BY <1>1, <3>2, <3>3, FirstGoesFirst
    <3>5. u[n].demoted = s.demoted \cup {i}
      BY <2>4, <3>1, <3>2, <3>3 DEF Round
    <3>6. IsFiniteSet(s.demoted)
      <4>1. s.demoted \subseteq 1..l
        BY <1>1 DEF DemotionStates
      <4>2. IsFiniteSet(1..l)
        BY FS_Interval
      <4> QED
        BY <4>1, <4>2, FS_Subset
    <3>7. Cardinality(u[n].demoted) = Cardinality(s.demoted) + 1
      BY <3>1, <3>4, <3>5, <3>6, FS_AddElement
    <3>8. Cardinality(u[n].demoted) = n
      BY <2>3, <2>7, <3>7
    <3> QED
      BY <2>1, <2>5, <3>8
  <2> QED
    BY <2>6, <2>7
<1>8. 0..l \subseteq T
  <2> HIDE DEF T
  <2> QED
    BY <1>1, <1>6, <1>7, UpTo
<1>9. Good(l)
  <2>1. l \in T
    <3> HIDE DEF T
    <3> QED
      BY <1>8
  <2> QED
    BY <2>1
<1>10. PICK s \in DemotionStates(var) : s = u[l]
    BY <1>5
<1>11. Stopped(s, header, var, limit, stub)
  <2>1. CASE Cardinality(s.demoted) = l
    <3>1. s.demoted \subseteq 1..l
      BY <1>1 DEF DemotionStates
    <3>2. IsFiniteSet(1..l) /\ Cardinality(1..l) = l
      <4>1. Cardinality(1..l) = IF 1 > l THEN 0 ELSE l - 1 + 1
        BY FS_Interval
      <4>2. IsFiniteSet(1..l)
        BY FS_Interval
      <4> QED
        BY <4>1, <4>2
    <3>3. s.demoted = 1..l
      BY <2>1, <3>1, <3>2, FS_Subset
    <3> QED
      BY <1>1, <3>3 DEF Stopped, Candidates
  <2> QED
    BY <1>9, <1>10, <2>1
<1> QED
    BY <1>2, <1>1, <1>3, <1>9, <1>10, <1>11

-----------------------------------------------------------------------------
(***************************************************************************)
(* The rows of the fixtures.                                                *)
(***************************************************************************)

RowGiven(row) == row.var \in Seq(Nat \cup {Absent}) /\ row.fixed \in Seq(Nat)

LEMMA VarbitFacts ==
    ASSUME NEW n \in Nat
    PROVE  VarbitDisk(n) \in Nat
BY DEF VarbitDisk, Align, AlignBelow

LEMMA RowFacts ==
    ASSUME NEW row, RowGiven(row)
    PROVE  /\ DOMAIN row.var = 1..Len(row.var) /\ Len(row.var) \in Nat
           /\ Serialized(row) \in Seq(Nat) /\ Len(Serialized(row)) = Len(row.var)
           /\ \A i \in 1..Len(row.var) : Serialized(row)[i] = VarDisk(row.var[i])
           /\ Len(FixedOf(row)) \in Nat /\ SumOf(FixedOf(row)) \in Nat
<1>1. PICK l \in Nat : /\ l = Len(row.var) /\ DOMAIN row.var = 1..l
                       /\ row.var \in [1..l -> Nat \cup {Absent}]
    BY LenProperties DEF RowGiven
<1>2. PICK s : s = Serialized(row)
    OBVIOUS
<1>3. s = [i \in 1..l |-> VarDisk(row.var[i])]
    BY <1>1, <1>2 DEF Serialized
<1>4. \A i \in 1..l : VarDisk(row.var[i]) \in Nat
    BY <1>1, VarbitFacts DEF VarDisk
<1>5. s \in [1..l -> Nat]
    BY <1>3, <1>4
<1>6. s \in Seq(Nat) /\ Len(s) = l
    BY <1>5, SizesAreSequence
<1>7. FixedOf(row) \in Seq(Nat)
  <2>1. <<IntDisk>> \in Seq(Nat)
    BY DEF IntDisk
  <2> QED
    BY <2>1, ConcatProperties DEF FixedOf, RowGiven
<1>8. Len(FixedOf(row)) \in Nat /\ SumOf(FixedOf(row)) \in Nat
    BY <1>7, SumIsNumber, LenProperties
<1> QED
    BY <1>1, <1>2, <1>3, <1>6, <1>8

LEMMA AccountingFacts ==
    ASSUME NEW acc \in Accountings
    PROVE  Gate(FixtureIo, acc) \in Nat /\ Gate(FixtureIo, acc) > 4000 /\ Stub(acc) \in Nat
BY DEF Accountings, Stub, FixtureIo, Gate, GatePinned, TargetNormative, AlignBelow, HeapCapacity,
       SpageMaxRecord, DbPageSize, SlotSize

\* What the loop makes of a row, in either order, and the header it keeps to.
Moved(order, row, acc) ==
    DemoteIn(order, FixedOf(row), Serialized(row), Gate(FixtureIo, acc), Stub(acc))
HeaderWith(row, payload) == HeaderSize(Len(FixedOf(row)), Len(row.var), payload)
WholePayload(row) == SumOf(FixedOf(row)) + SumOf(Serialized(row))

LEMMA RowMoves ==
    ASSUME NEW row, RowGiven(row), NEW acc \in Accountings, NEW order
    PROVE  /\ Moved(order, row, acc) \in DemotionStates(Serialized(row))
           /\ Demoting(Moved(order, row, acc), order, SumOf(FixedOf(row)), HeaderWith(row, WholePayload(row)),
                       Serialized(row), Gate(FixtureIo, acc), Stub(acc))
           /\ Stopped(Moved(order, row, acc), HeaderWith(row, WholePayload(row)),
                      Serialized(row), Gate(FixtureIo, acc), Stub(acc))
<1>1. PICK var \in Seq(Nat), base \in Nat, limit \in Nat, stub \in Nat, f \in Nat, n \in Nat :
          /\ var = Serialized(row) /\ base = SumOf(FixedOf(row)) /\ limit = Gate(FixtureIo, acc)
          /\ stub = Stub(acc) /\ f = Len(FixedOf(row)) /\ n = Len(row.var) /\ n = Len(var)
    BY RowFacts, AccountingFacts
<1>2. SumOf(var) \in Nat
    BY SumIsNumber
<1>3. PICK header \in Nat : header = HeaderSize(f, n, base + SumOf(var))
  <2>1. PICK p \in Nat : p = base + SumOf(var)
    BY <1>2
  <2>2. p <= p
    OBVIOUS
  <2>3. HeaderSize(f, n, p) \in Nat
    BY <2>2, HeaderGrows
  <2> QED
    BY <2>1, <2>3
<1>4. PICK s \in DemotionStates(var) :
          /\ s = Demotions(order, base + SumOf(var), header, var, limit, stub)[Len(var)]
          /\ Demoting(s, order, base, header, var, limit, stub)
          /\ Stopped(s, header, var, limit, stub)
    BY DemotionsSettle
<1>5. Moved(order, row, acc) = s
    BY <1>1, <1>3, <1>4 DEF Moved, DemoteIn
<1>6. header = HeaderWith(row, WholePayload(row))
    BY <1>1, <1>3 DEF HeaderWith, WholePayload
<1> QED
    BY <1>1, <1>4, <1>5, <1>6

\* The record of a row with some columns demoted.
LEMMA SizeOfRow ==
    ASSUME NEW row, RowGiven(row), NEW acc \in Accountings, NEW C
    PROVE  \E p \in Nat :
               /\ p = SumOf(FixedOf(row)) + SumOf(Stubbed(Serialized(row), C, Stub(acc)))
               /\ SizeWith(row, acc, C) = HeaderWith(row, p) + p + 16
<1>1. PICK s : s = Stubbed(Serialized(row), C, Stub(acc))
    OBVIOUS
<1>2. Stub(acc) \in Nat
    BY AccountingFacts
<1>3. /\ Serialized(row) \in Seq(Nat) /\ Len(Serialized(row)) = Len(row.var)
      /\ DOMAIN row.var = 1..Len(row.var) /\ SumOf(FixedOf(row)) \in Nat
    BY RowFacts
<1>4. s \in Seq(Nat) /\ Len(s) = Len(row.var) /\ SumOf(s) \in Nat
      /\ DOMAIN Serialized(row) = 1..Len(row.var)
    BY <1>1, <1>2, <1>3, StubbedFacts
<1>5. s = [i \in DOMAIN row.var |-> IF i \in C THEN Stub(acc) ELSE Serialized(row)[i]]
    BY <1>1, <1>3, <1>4 DEF Stubbed
<1>6. SizeWith(row, acc, C) = RecordSize(FixedOf(row), s)
    BY <1>5 DEF SizeWith
<1>7. PICK p \in Nat : p = SumOf(FixedOf(row)) + SumOf(s)
    BY <1>3, <1>4
<1>8. SizeWith(row, acc, C) = HeaderWith(row, p) + p + 16
    BY <1>4, <1>6, <1>7 DEF RecordSize, HeaderWith, MvccExtra
<1> QED
    BY <1>1, <1>7, <1>8

LEMMA SizeOfWhole ==
    ASSUME NEW row, RowGiven(row)
    PROVE  /\ WholePayload(row) \in Nat
           /\ RecordBefore(row) = HeaderWith(row, WholePayload(row)) + WholePayload(row) + 16
           /\ \A acc : Stubbed(Serialized(row), {}, Stub(acc)) = Serialized(row)
<1>1. /\ Serialized(row) \in Seq(Nat) /\ Len(Serialized(row)) = Len(row.var) /\ SumOf(FixedOf(row)) \in Nat
    BY RowFacts
<1>2. WholePayload(row) \in Nat
    BY <1>1, SumIsNumber DEF WholePayload
<1>3. RecordBefore(row) = HeaderWith(row, WholePayload(row)) + WholePayload(row) + 16
    BY <1>1 DEF RecordBefore, RecordSize, HeaderWith, WholePayload, MvccExtra
<1> QED
    BY <1>1, <1>2, <1>3 DEF Stubbed

\* No payload up to that of the whole record has a larger header than it.
LEMMA HeaderAtMost ==
    ASSUME NEW row, RowGiven(row), NEW q \in Nat
    PROVE  /\ HeaderWith(row, q) \in Nat
           /\ \A p \in Nat : p <= q => HeaderWith(row, p) \in Nat /\ HeaderWith(row, p) <= HeaderWith(row, q)
<1>1. Len(FixedOf(row)) \in Nat /\ Len(row.var) \in Nat
    BY RowFacts
<1>2. ASSUME NEW p \in Nat, p <= q
      PROVE  /\ HeaderWith(row, p) \in Nat /\ HeaderWith(row, q) \in Nat
             /\ HeaderWith(row, p) <= HeaderWith(row, q)
    BY <1>1, <1>2, HeaderGrows DEF HeaderWith
<1>3. q <= q
    OBVIOUS
<1> QED
    BY <1>2, <1>3

\* What the layout of a row reports is what the loop made of it.
LEMMA RowLayoutIs ==
    ASSUME NEW row, RowGiven(row), NEW acc \in Accountings
    PROVE  LET s == Moved("largest", row, acc)
           IN /\ DemotedUnder(row, acc) = s.demoted
              /\ RowLayout(row, acc).after = HeaderWith(row, s.payload) + s.payload + 16
              /\ DemotedSmallestFirst(row, acc) = Moved("smallest", row, acc).demoted
<1>1. RowLayout(row, acc) = Placed(Moved("largest", row, acc), Len(FixedOf(row)), Len(row.var))
    BY RowFacts DEF RowLayout, Layout, Moved
<1>2. DemotedSmallestFirst(row, acc) = Moved("smallest", row, acc).demoted
    BY DEF DemotedSmallestFirst, Moved
<1> QED
    BY <1>1, <1>2 DEF Placed, DemotedUnder, HeaderWith, MvccExtra

\* The columns demoted are the first of their order that bring the record under the gate.
LEMMA ShortestPrefixes ==
    ASSUME NEW row, RowGiven(row), NEW acc \in Accountings
    PROVE  ShortestPrefix(row, acc)
<1>1. PICK var \in Seq(Nat), stub \in Nat, limit \in Nat, base \in Nat, n \in Nat :
          /\ var = Serialized(row) /\ stub = Stub(acc) /\ limit = Gate(FixtureIo, acc) /\ limit > 4000
          /\ base = SumOf(FixedOf(row)) /\ n = Len(row.var) /\ DOMAIN var = 1..n
    BY RowFacts, AccountingFacts, StubbedFacts
<1>2. PICK s : s = Moved("largest", row, acc)
    OBVIOUS
<1>3. PICK D : D = s.demoted
    OBVIOUS
<1>4. PICK q \in Nat, header \in Nat : q = WholePayload(row) /\ header = HeaderWith(row, q)
    BY SizeOfWhole, HeaderAtMost
<1>5. \A p \in Nat : p <= q => HeaderWith(row, p) \in Nat /\ HeaderWith(row, p) <= header
    BY <1>4, HeaderAtMost
<1>6. /\ s \in DemotionStates(var)
      /\ Demoting(s, "largest", base, header, var, limit, stub)
      /\ Stopped(s, header, var, limit, stub)
    BY <1>1, <1>2, <1>4, RowMoves
<1>7. /\ DemotedUnder(row, acc) = D
      /\ RowLayout(row, acc).after = HeaderWith(row, s.payload) + s.payload + 16
    BY <1>2, <1>3, RowLayoutIs
<1>8. /\ D \subseteq Candidates(var, stub)
      /\ s.payload = base + SumOf(Stubbed(var, D, stub))
      /\ \A i \in D : \A j \in Candidates(var, stub) \ D : Larger(var, i, j)
      /\ \A i \in D : \E C \in SUBSET D :
              /\ C = {j \in D : Larger(var, j, i)}
              /\ header + (base + SumOf(Stubbed(var, C, stub))) + 16 > limit
    BY <1>3, <1>6 DEF Demoting, Ahead
<1>9. ASSUME NEW C \in SUBSET D
      PROVE  \E p \in Nat : /\ p = base + SumOf(Stubbed(var, C, stub)) /\ p <= q
                            /\ SizeWith(row, acc, C) = HeaderWith(row, p) + p + 16
  <2>1. PICK p \in Nat : /\ p = base + SumOf(Stubbed(var, C, stub))
                         /\ SizeWith(row, acc, C) = HeaderWith(row, p) + p + 16
    BY <1>1, SizeOfRow
  <2>2. SumOf(Stubbed(var, C, stub)) <= SumOf(Stubbed(var, {}, stub))
    <3>1. C \in SUBSET Candidates(var, stub) /\ {} \in SUBSET C
      BY <1>8
    <3> QED
      BY <3>1, StubsShrink
  <2>3. Stubbed(var, {}, stub) = var /\ q = base + SumOf(var)
    BY <1>1, <1>4, SizeOfWhole DEF WholePayload
  <2>4. PICK a \in Nat, b \in Nat : a = SumOf(Stubbed(var, C, stub)) /\ b = SumOf(var)
    BY StubbedFacts, SumIsNumber
  <2>5. p <= q
    BY <2>1, <2>2, <2>3, <2>4
  <2> QED
    BY <2>1, <2>5
<1>10. PICK z \in Nat : /\ z = base + SumOf(Stubbed(var, D, stub)) /\ z <= q
                        /\ SizeWith(row, acc, D) = HeaderWith(row, z) + z + 16
    BY <1>9
<1>11. SizeWith(row, acc, D) = RowLayout(row, acc).after
    BY <1>7, <1>8, <1>10
<1>12. Candidates(var, stub) \ D # {} => SizeWith(row, acc, D) <= limit
  <2>1. Candidates(var, stub) \ D # {} => header + z + 16 <= limit
    BY <1>3, <1>6, <1>8, <1>10 DEF Stopped
  <2>2. PICK w \in Nat : w = HeaderWith(row, z) /\ w <= header
    BY <1>5, <1>10
  <2>3. w + z + 16 <= header + z + 16
    BY <1>5, <2>2
  <2>4. SizeWith(row, acc, D) = w + z + 16
    BY <1>10, <2>2
  <2>5. PICK h \in Nat : h = header
    BY <1>5
  <2>6. h + z + 16 <= limit => w + z + 16 <= limit
    BY <2>3, <2>5
  <2> QED
    BY <2>1, <2>4, <2>5, <2>6
<1>13. ASSUME RecordBefore(row) <= MaxShort, NEW i \in D
       PROVE  SizeWith(row, acc, {j \in D : Larger(var, j, i)}) > limit
  <2>1. PICK C \in SUBSET D :
            /\ C = {j \in D : Larger(var, j, i)}
            /\ header + (base + SumOf(Stubbed(var, C, stub))) + 16 > limit
    BY <1>8
  <2>2. PICK p \in Nat : /\ p = base + SumOf(Stubbed(var, C, stub)) /\ p <= q
                         /\ SizeWith(row, acc, C) = HeaderWith(row, p) + p + 16
    BY <1>9
  <2>3. header + p + 16 > limit
    BY <2>1, <2>2
  <2>4. header + q + 16 <= 32767 /\ header + p + 16 > 4000
    <3>1. header + q + 16 <= 32767
      BY <1>4, <1>13, SizeOfWhole DEF MaxShort
    <3>2. header + p + 16 > 4000
      BY <1>1, <1>5, <2>3
    <3> QED
      BY <3>1, <3>2
  <2>5. HeaderWith(row, p) = header
    <3>1. Len(FixedOf(row)) \in Nat /\ Len(row.var) \in Nat
      BY RowFacts
    <3>2. HeaderWith(row, q) + q + 16 <= 32767 /\ HeaderWith(row, q) + p + 16 > 4000
          => HeaderWith(row, p) = HeaderWith(row, q)
      BY <2>2, <3>1, HeaderStays DEF HeaderWith
    <3> QED
      BY <1>4, <2>4, <3>2
  <2> QED
    BY <2>1, <2>2, <2>3, <2>5
<1> QED
    BY <1>1, <1>7, <1>8, <1>11, <1>12, <1>13 DEF ShortestPrefix

\* Whichever column of a size moves, it costs the same.
LEMMA TiesAreBlind ==
    ASSUME NEW row, RowGiven(row)
    PROVE  TieIsBlind(row)
<1> SUFFICES ASSUME NEW i \in DemotedUnder(row, "pinned"),
                    NEW j \in DOMAIN row.var \ DemotedUnder(row, "pinned"), row.var[i] = row.var[j]
             PROVE  SumLen(row, {j}, "pinned") = SumLen(row, {i}, "pinned")
    BY DEF TieIsBlind
<1>1. PICK n \in Nat : n = Len(row.var) /\ DOMAIN row.var = 1..n
    BY RowFacts
<1>2. i \in 1..n /\ row.var[i] # Absent
  <2>1. /\ Moved("largest", row, "pinned").demoted = DemotedUnder(row, "pinned")
        /\ Moved("largest", row, "pinned").demoted \subseteq Candidates(Serialized(row), Stub("pinned"))
    <3>1. "pinned" \in Accountings
      BY DEF Accountings
    <3> QED
      BY <3>1, RowLayoutIs, RowMoves DEF Demoting
  <2>2. i \in DOMAIN Serialized(row) /\ Serialized(row)[i] > Stub("pinned")
    BY <2>1 DEF Candidates
  <2>3. i \in 1..n
    BY <1>1, <2>2, RowFacts DEF Serialized
  <2>4. Serialized(row)[i] = VarDisk(row.var[i])
    BY <1>1, <2>3, RowFacts
  <2> QED
    BY <2>2, <2>3, <2>4 DEF VarDisk, Stub
<1>3. PICK v \in Nat :
          v = Serialized(row)[i] + Chunks(row.var[i], "pinned") * ChunkHeader("pinned")
  <2>1. row.var[i] \in Nat
    BY <1>1, <1>2 DEF RowGiven
  <2>2. Serialized(row)[i] \in Nat
    BY <1>1, <1>2, RowFacts
  <2>3. Chunks(row.var[i], "pinned") \in Nat
    <3>1. MaxChunkPayload(FixtureIo, "pinned") = 16288
      BY DEF FixtureIo, MaxChunkPayload, AlignBelow, ChunkHeader, SpageMaxRecord, DbPageSize, SlotSize
    <3>2. PICK m \in Nat : m = VarbitDisk(row.var[i])
      BY <2>1, VarbitFacts
    <3>3. Chunks(row.var[i], "pinned") = (m + 16288 - 1) \div 16288
      BY <3>1, <3>2 DEF Chunks
    <3> QED
      BY <3>3
  <2>4. ChunkHeader("pinned") = 16
    BY DEF ChunkHeader
  <2>5. Chunks(row.var[i], "pinned") * ChunkHeader("pinned") \in Nat
    BY <2>3, <2>4
  <2> QED
    BY <2>2, <2>5
<1>4. ASSUME NEW k \in 1..n, row.var[k] = row.var[i]
      PROVE  SumLen(row, {k}, "pinned") = v
  <2>1. Serialized(row)[k] + Chunks(row.var[k], "pinned") * ChunkHeader("pinned") = v
    BY <1>1, <1>2, <1>3, <1>4, RowFacts
  <2>2. PICK s : s = [x \in 1..n |-> IF x = k THEN v ELSE 0]
    OBVIOUS
  <2>3. PICK t : t = [x \in 1..n |-> 0]
    OBVIOUS
  <2>4. SumLen(row, {k}, "pinned") = SumOf(s)
    <3>1. s = [x \in DOMAIN row.var |->
                 IF x \in {k} THEN Serialized(row)[x] + Chunks(row.var[x], "pinned") * ChunkHeader("pinned")
                 ELSE 0]
      BY <1>1, <2>1, <2>2
    <3> QED
      BY <3>1 DEF SumLen
  <2>5. s \in Seq(Nat) /\ Len(s) = n /\ t \in Seq(Nat) /\ Len(t) = n
    BY <2>2, <2>3, SizesAreSequence
  <2>6. SumOf(s) + t[k] = SumOf(t) + s[k]
    <3>1. Len(s) = Len(t) /\ k \in 1..Len(s) /\ \A x \in 1..Len(s) : x # k => s[x] = t[x]
      BY <2>2, <2>3, <2>5
    <3> QED
      BY <2>5, <3>1, SumsMove
  <2>7. SumOf(t) = 0
    <3>1. PICK u \in [0..n -> Nat] : u[0] = 0 /\ (\A x \in 1..n : u[x] = u[x - 1] + t[x]) /\ SumOf(t) = u[n]
      BY <2>5, RunningSums
    <3> DEFINE T == {x \in 0..n : u[x] = 0}
    <3>2. 0 \in T
      BY <3>1
    <3>3. ASSUME NEW x \in 1..n, x - 1 \in T PROVE x \in T
      BY <2>3, <3>1, <3>3
    <3>4. 0..n \subseteq T
      <4> HIDE DEF T
      <4> QED
        BY <3>2, <3>3, UpTo
    <3> QED
      BY <3>1, <3>4
  <2>8. SumOf(s) \in Nat /\ s[k] = v /\ t[k] = 0
    BY <2>2, <2>3, <2>5, SumIsNumber
  <2> QED
    BY <2>4, <2>6, <2>7, <2>8
<1> QED
    BY <1>1, <1>2, <1>4

\* What the two orders come to, under one accounting.
LEMMA OrdersDiffer ==
    ASSUME NEW row, RowGiven(row), NEW acc \in Accountings
    PROVE  /\ DemotedUnder(row, acc) # {} /\ LeftEligible(row, acc) # {}
              => DemotedSmallestFirst(row, acc) # DemotedUnder(row, acc)
           /\ DemotedUnder(row, acc) = {} => DemotedSmallestFirst(row, acc) = {}
           /\ ~Fitted(row, acc) /\ LeftEligible(row, acc) = {}
              => DemotedSmallestFirst(row, acc) = DemotedUnder(row, acc)
<1>1. PICK var \in Seq(Nat), stub \in Nat, limit \in Nat, base \in Nat, n \in Nat :
          /\ var = Serialized(row) /\ stub = Stub(acc) /\ limit = Gate(FixtureIo, acc)
          /\ base = SumOf(FixedOf(row)) /\ n = Len(row.var) /\ DOMAIN var = 1..n /\ DOMAIN row.var = 1..n
    BY RowFacts, AccountingFacts, StubbedFacts
<1>2. PICK s, t : s = Moved("largest", row, acc) /\ t = Moved("smallest", row, acc)
    OBVIOUS
<1>3. PICK D, F, E : D = s.demoted /\ F = t.demoted /\ E = Candidates(var, stub)
    OBVIOUS
<1>4. PICK q \in Nat, header \in Nat :
          q = WholePayload(row) /\ header = HeaderWith(row, q) /\ q = base + SumOf(var)
  <2>1. WholePayload(row) = base + SumOf(var)
    BY <1>1 DEF WholePayload
  <2> QED
    BY <2>1, SizeOfWhole, HeaderAtMost
<1>5. \A p \in Nat : p <= q => HeaderWith(row, p) \in Nat /\ HeaderWith(row, p) <= header
    BY <1>4, HeaderAtMost
<1>6. /\ s \in DemotionStates(var)
      /\ Demoting(s, "largest", base, header, var, limit, stub)
      /\ Stopped(s, header, var, limit, stub)
      /\ t \in DemotionStates(var)
      /\ Demoting(t, "smallest", base, header, var, limit, stub)
      /\ Stopped(t, header, var, limit, stub)
    BY <1>1, <1>2, <1>4, RowMoves
<1>7. /\ DemotedUnder(row, acc) = D /\ DemotedSmallestFirst(row, acc) = F
      /\ RowLayout(row, acc).after = HeaderWith(row, s.payload) + s.payload + 16
      /\ LeftEligible(row, acc) = E \ D
  <2>1. /\ DemotedUnder(row, acc) = D /\ DemotedSmallestFirst(row, acc) = F
        /\ RowLayout(row, acc).after = HeaderWith(row, s.payload) + s.payload + 16
    BY <1>2, <1>3, RowLayoutIs
  <2>2. LeftEligible(row, acc) = E \ D
    BY <1>1, <1>3, <2>1 DEF LeftEligible, Candidates
  <2> QED
    BY <2>1, <2>2
<1>8. /\ D \subseteq E /\ F \subseteq E
      /\ s.payload = base + SumOf(Stubbed(var, D, stub))
      /\ t.payload = base + SumOf(Stubbed(var, F, stub))
      /\ \A i \in D : \A j \in E \ D : Larger(var, i, j)
      /\ \A i \in F : \A j \in E \ F : Larger(var, j, i)
      /\ \A i \in F : \E C \in SUBSET F : header + (base + SumOf(Stubbed(var, C, stub))) + 16 > limit
    BY <1>3, <1>6 DEF Demoting, Ahead
<1>9. E \in SUBSET (1..n)
    BY <1>1, <1>3 DEF Candidates
<1>10. ASSUME NEW A \in SUBSET E, NEW C \in SUBSET A
       PROVE  SumOf(Stubbed(var, A, stub)) <= SumOf(Stubbed(var, C, stub))
    BY <1>3, <1>10, StubsShrink
<1>11. \A A \in SUBSET E : SumOf(Stubbed(var, A, stub)) \in Nat
    BY StubbedFacts
<1>12. Stubbed(var, {}, stub) = var
    BY <1>1, SizeOfWhole
<1>13. D # {} /\ E \ D # {} => F # D
  <2> SUFFICES ASSUME NEW i \in D, NEW j \in E \ D, F = D PROVE FALSE
    OBVIOUS
  <2>1. Larger(var, i, j) /\ Larger(var, j, i)
    BY <1>8
  <2>2. i \in 1..n /\ j \in 1..n
    BY <1>8, <1>9
  <2>3. var[i] \in Nat /\ var[j] \in Nat
    BY <1>1, <2>2
  <2> QED
    BY <2>1, <2>2, <2>3 DEF Larger
<1>14. D = {} => F = {}
  <2> SUFFICES ASSUME D = {}, NEW i \in F PROVE FALSE
    OBVIOUS
  <2>1. header + (base + SumOf(var)) + 16 <= limit
    <3>1. ~(E \subseteq D)
      BY <1>8
    <3> QED
      BY <1>3, <1>6, <1>8, <1>12, <3>1 DEF Stopped
  <2>2. PICK C \in SUBSET F : header + (base + SumOf(Stubbed(var, C, stub))) + 16 > limit
    BY <1>8
  <2>3. C \in SUBSET E /\ {} \in SUBSET C
    BY <1>8
  <2>4. SumOf(Stubbed(var, C, stub)) <= SumOf(var)
    BY <1>10, <1>12, <2>3
  <2>5. PICK a \in Nat, b \in Nat, h \in Nat :
            a = SumOf(Stubbed(var, C, stub)) /\ b = SumOf(var) /\ h = header
    BY <1>5, <1>11, <2>3, SumIsNumber
  <2>6. h + (base + b) + 16 <= limit
    BY <2>1, <2>5
  <2>7. h + (base + a) + 16 > limit
    BY <2>2, <2>5
  <2>8. a <= b
    BY <2>4, <2>5
  <2> QED
    BY <2>6, <2>7, <2>8
<1>15. ~Fitted(row, acc) /\ E \ D = {} => F = D
  <2> SUFFICES ASSUME ~Fitted(row, acc), E \ D = {}, F # D PROVE FALSE
    OBVIOUS
  <2>1. D = E /\ ~(E \subseteq F)
    BY <1>8
  <2>2. PICK a \in Nat, b \in Nat : a = SumOf(Stubbed(var, E, stub)) /\ b = SumOf(Stubbed(var, F, stub))
    BY <1>8, <1>11
  <2>3. a <= b
    BY <1>8, <1>10, <2>2
  <2>4. header + (base + b) + 16 <= limit
    BY <1>3, <1>6, <1>8, <2>1, <2>2 DEF Stopped
  <2>5. PICK p \in Nat : p = base + a /\ s.payload = p
    BY <1>8, <2>1, <2>2
  <2>6. ~(HeaderWith(row, p) + p + 16 <= limit)
    BY <1>1, <1>7, <2>5 DEF Fitted
  <2>7. p <= q
    <3>1. {} \in SUBSET E /\ E \in SUBSET E
      OBVIOUS
    <3>2. SumOf(Stubbed(var, E, stub)) <= SumOf(var)
      BY <1>10, <1>12, <3>1
    <3>3. SumOf(var) \in Nat
      BY SumIsNumber
    <3> QED
      BY <1>4, <2>2, <2>5, <3>2, <3>3
  <2>8. PICK w \in Nat, h \in Nat : w = HeaderWith(row, p) /\ h = header /\ w <= h
    BY <1>5, <2>7
  <2> QED
    BY <2>3, <2>4, <2>5, <2>6, <2>8
<1> QED
    BY <1>7, <1>13, <1>14, <1>15

\* What classify was given: a row, and what the case means to claim of it.
ClassifyGiven == given.tool = "classify" /\ RowGiven(given.row)

\* A row that is accepted is accepted as one of four kinds.
LEMMA ClassifyKinds ==
    ASSUME NEW row, NEW expect
    PROVE  LET c == Classify(row, expect)
           IN \/ c.kind = "refused"
              \/ c.kind = "disputed" /\ ~Agree(row)
              \/ /\ c.kind \in {"inline", "oos", "oos-exhausted"} /\ Agree(row)
                 /\ c.demoted = DemotedUnder(row, "pinned")
                 /\ c.kind = "inline" => c.demoted = {}
                 /\ c.kind = "oos" =>
                      c.demoted # {} /\ \A acc \in Accountings : LeftEligible(row, acc) # {}
                 /\ c.kind = "oos-exhausted" =>
                      \A acc \in Accountings : ~Fitted(row, acc) /\ LeftEligible(row, acc) = {}
<1>1. PICK c : c = Classify(row, expect)
    OBVIOUS
<1>2. CASE expect = "disputed"
  <2>1. c = IF Agree(row) THEN NotAssertable ELSE Accepted("disputed", row, FALSE)
    BY <1>1, <1>2 DEF Classify
  <2> QED
    BY <1>1, <2>1 DEF NotAssertable, Accepted
<1>3. CASE expect # "disputed" /\ ~Agree(row)
  <2>1. c = NotAssertable
    BY <1>1, <1>3 DEF Classify
  <2> QED
    BY <1>1, <2>1 DEF NotAssertable
<1>4. CASE expect # "disputed" /\ Agree(row) /\ DemotedUnder(row, "pinned") = {}
  <2>1. c = Accepted("inline", row, FALSE)
    BY <1>1, <1>4 DEF Classify
  <2> QED
    BY <1>1, <1>4, <2>1 DEF Accepted
<1>5. CASE expect = "oos-exhausted" /\ Agree(row) /\ DemotedUnder(row, "pinned") # {}
  <2>1. c = IF \A acc \in Accountings : ~Fitted(row, acc) /\ LeftEligible(row, acc) = {}
            THEN Accepted("oos-exhausted", row, Tied(row)) ELSE NotAssertable
    BY <1>1, <1>5 DEF Classify
  <2> QED
    BY <1>1, <1>5, <2>1 DEF Accepted, NotAssertable
<1>6. CASE expect \notin {"disputed", "oos-exhausted"} /\ Agree(row) /\ DemotedUnder(row, "pinned") # {}
  <2>1. c = IF \A acc \in Accountings : Fitted(row, acc) /\ LeftEligible(row, acc) # {}
            THEN Accepted("oos", row, Tied(row)) ELSE NotAssertable
    BY <1>1, <1>6 DEF Classify
  <2> QED
    BY <1>1, <1>6, <2>1 DEF Accepted, NotAssertable
<1> QED
    BY <1>2, <1>3, <1>4, <1>5, <1>6

(***************************************************************************)
(* ClaimIsEarned, of classify.  Whatever the sizes of a row's columns and   *)
(* whatever is claimed of it, a row classify accepts supports the claim:    *)
(* the largest columns and no more of them than it takes are demoted, and   *)
(* an engine that began with the smallest would move others, or the same    *)
(* ones, or none, as the kind of the claim has it.                          *)
(***************************************************************************)
THEOREM ClassifiedIsEarned ==
    ASSUME ClassifyGiven PROVE ClaimIsEarned
<1>1. PICK row, expect : row = given.row /\ expect = given.expect
    OBVIOUS
<1>2. PICK c : c = Classify(row, expect)
    OBVIOUS
<1>3. given.tool = "classify" /\ RowGiven(row)
    BY <1>1 DEF ClassifyGiven
<1>4. /\ TieIsBlind(row)
      /\ \A acc \in Accountings : ShortestPrefix(row, acc)
    BY <1>3, TiesAreBlind, ShortestPrefixes
<1>5. \/ c.kind = "refused"
      \/ c.kind = "disputed" /\ ~Agree(row)
      \/ /\ c.kind \in {"inline", "oos", "oos-exhausted"} /\ Agree(row)
         /\ c.demoted = DemotedUnder(row, "pinned")
         /\ c.kind = "inline" => c.demoted = {}
         /\ c.kind = "oos" =>
              c.demoted # {} /\ \A acc \in Accountings : LeftEligible(row, acc) # {}
         /\ c.kind = "oos-exhausted" =>
              \A acc \in Accountings : ~Fitted(row, acc) /\ LeftEligible(row, acc) = {}
    BY <1>2, ClassifyKinds
<1>6. ASSUME NEW acc \in Accountings, c.kind \in {"inline", "oos", "oos-exhausted"}
      PROVE  /\ c.kind = "oos" => DemotedSmallestFirst(row, acc) # c.demoted
             /\ c.kind = "oos-exhausted" =>
                  /\ DemotedSmallestFirst(row, acc) = c.demoted
                  /\ \A i \in DOMAIN row.var \ c.demoted : Serialized(row)[i] <= Stub(acc)
             /\ c.kind = "inline" => DemotedSmallestFirst(row, acc) = {}
  <2>1. DemotedUnder(row, acc) = c.demoted
    BY <1>5, <1>6 DEF Agree, Accountings
  <2>2. /\ c.demoted # {} /\ LeftEligible(row, acc) # {} => DemotedSmallestFirst(row, acc) # c.demoted
        /\ c.demoted = {} => DemotedSmallestFirst(row, acc) = {}
        /\ ~Fitted(row, acc) /\ LeftEligible(row, acc) = {} => DemotedSmallestFirst(row, acc) = c.demoted
    BY <1>3, <2>1, OrdersDiffer
  <2>3. LeftEligible(row, acc) = {} =>
            \A i \in DOMAIN row.var \ c.demoted : Serialized(row)[i] <= Stub(acc)
    <3>1. ASSUME NEW i \in DOMAIN row.var PROVE Serialized(row)[i] \in Nat
      BY <1>3, <3>1, RowFacts
    <3>2. Stub(acc) \in Nat
      BY AccountingFacts
    <3> QED
      BY <2>1, <3>1, <3>2 DEF LeftEligible
  <2> QED
    BY <1>5, <1>6, <2>2, <2>3
<1>7. Supported(row, c)
    BY <1>4, <1>5, <1>6 DEF Supported
<1> QED
    BY <1>1, <1>2, <1>3, <1>7 DEF ClaimIsEarned, At

-----------------------------------------------------------------------------
(***************************************************************************)
(* The boundaries.                                                          *)
(***************************************************************************)

\* Searching by halves what is crossed from g on finds g.
LEMMA HalvingFinds ==
    ASSUME NEW q, NEW hi \in Nat, hi = Searches[q.search], NEW g \in 1..hi,
           \A m \in 1..hi : Crossed(q, m) <=> m >= g
    PROVE  SmallestFrom(1, q) = g
<1> DEFINE Found(l, h) == IF g <= l THEN l ELSE IF g <= h THEN g ELSE Absent
           Halved(f, r) ==
               LET l == r[1]
                   h == r[2]
                   mid == (l + h) \div 2
               IN IF l < h THEN (IF Crossed(q, mid) THEN f[<<l, mid>>] ELSE f[<<mid + 1, h>>])
                  ELSE IF Crossed(q, l) THEN l ELSE Absent
<1>1. PICK R : R = (1..hi) \X (1..hi)
    OBVIOUS
<1>2. PICK G : G = [r \in R |-> Found(r[1], r[2])]
    OBVIOUS
<1>3. ASSUME NEW l \in 1..hi, NEW h \in 1..hi PROVE G[<<l, h>>] = Found(l, h)
    BY <1>1, <1>2
<1>4. ASSUME NEW l \in 1..hi, NEW h \in 1..hi, l < h
      PROVE  \E mid \in 1..hi : mid = (l + h) \div 2 /\ l <= mid /\ mid < h /\ mid + 1 \in 1..hi
    BY <1>4
<1>5. ASSUME NEW l \in 1..hi, NEW h \in 1..hi PROVE Halved(G, <<l, h>>) = Found(l, h)
  <2>1. CASE l < h
    <3>1. PICK mid \in 1..hi : mid = (l + h) \div 2 /\ l <= mid /\ mid < h /\ mid + 1 \in 1..hi
      BY <1>4, <2>1
    <3>2. G[<<l, mid>>] = Found(l, mid) /\ G[<<mid + 1, h>>] = Found(mid + 1, h)
      BY <1>3, <3>1
    <3>3. Halved(G, <<l, h>>) = IF mid >= g THEN Found(l, mid) ELSE Found(mid + 1, h)
      BY <2>1, <3>1, <3>2
    <3> QED
      BY <3>1, <3>3
  <2>2. CASE ~(l < h)
    <3>1. Halved(G, <<l, h>>) = IF l >= g THEN l ELSE Absent
      BY <2>2
    <3>2. g <= l \/ (~(g <= l) /\ ~(g <= h))
      BY <2>2
    <3>3. g <= l <=> l >= g
      OBVIOUS
    <3> QED
      BY <3>1, <3>2, <3>3, Zenon
  <2> QED
    BY <2>1, <2>2
<1>6. G = [r \in R |-> Halved(G, r)]
  <2>1. ASSUME NEW r \in R PROVE G[r] = Halved(G, r)
    <3>1. PICK l \in 1..hi, h \in 1..hi : r = <<l, h>>
      BY <1>1
    <3> HIDE DEF Halved, Found
    <3> QED
      BY <1>3, <1>5, <3>1
  <2> HIDE DEF Halved
  <2> QED
    BY <1>2, <2>1
<1>7. PICK f : f = CHOOSE search : search = [r \in R |-> Halved(search, r)]
    OBVIOUS
<1>8. f = [r \in R |-> Halved(f, r)]
  <2> HIDE DEF Halved
  <2> QED
    BY <1>6, <1>7
<1>9. SmallestFrom(1, q) = f[<<1, hi>>]
    BY <1>1, <1>7 DEF SmallestFrom
<1> DEFINE T == {k \in 0..hi : \A l, h \in 1..hi : h - l <= k => f[<<l, h>>] = Found(l, h)}
<1>10. ASSUME NEW l \in 1..hi, NEW h \in 1..hi PROVE f[<<l, h>>] = Halved(f, <<l, h>>)
  <2>1. <<l, h>> \in R
    BY <1>1
  <2> HIDE DEF Halved
  <2> QED
    BY <1>8, <2>1
<1>11. ASSUME NEW l \in 1..hi, NEW h \in 1..hi, ~(l < h) PROVE f[<<l, h>>] = Found(l, h)
  <2>1. Halved(f, <<l, h>>) = IF l >= g THEN l ELSE Absent
    BY <1>11
  <2>2. g <= l \/ (~(g <= l) /\ ~(g <= h))
    BY <1>11
  <2>3. g <= l <=> l >= g
    OBVIOUS
  <2>4. f[<<l, h>>] = Halved(f, <<l, h>>)
    BY <1>10, Zenon
  <2> QED
    BY <2>1, <2>2, <2>3, <2>4, Zenon
<1>12. 0 \in T
    BY <1>11
<1>13. ASSUME NEW k \in 1..hi, k - 1 \in T PROVE k \in T
  <2>1. SUFFICES ASSUME NEW l \in 1..hi, NEW h \in 1..hi, h - l <= k PROVE f[<<l, h>>] = Found(l, h)
    BY <2>1
  <2>2. CASE ~(l < h)
    BY <1>11, <2>2
  <2>3. CASE l < h
    <3>1. PICK mid \in 1..hi : mid = (l + h) \div 2 /\ l <= mid /\ mid < h /\ mid + 1 \in 1..hi
      BY <1>4, <2>3
    <3>2. mid - l <= k - 1 /\ h - (mid + 1) <= k - 1
      BY <2>1, <3>1
    <3>3. f[<<l, mid>>] = Found(l, mid) /\ f[<<mid + 1, h>>] = Found(mid + 1, h)
      BY <1>13, <3>1, <3>2
    <3>4. Halved(f, <<l, h>>) = IF mid >= g THEN Found(l, mid) ELSE Found(mid + 1, h)
      BY <2>3, <3>1, <3>3
    <3>5. f[<<l, h>>] = Halved(f, <<l, h>>)
      <4> HIDE DEF Halved
      <4> QED
        BY <1>10
    <3> QED
      BY <3>1, <3>4, <3>5
  <2> QED
    BY <2>2, <2>3
<1>14. hi \in T
  <2>1. 0..hi \subseteq T
    <3> HIDE DEF T
    <3> QED
      BY <1>12, <1>13, UpTo
  <2> HIDE DEF T
  <2> QED
    BY <2>1
<1>15. f[<<1, hi>>] = Found(1, hi)
    BY <1>14
<1> QED
    BY <1>9, <1>15

\* What is crossed from some size on, up to the last, is crossed from a first size on.
LEMMA Threshold ==
    ASSUME NEW hi \in Nat, NEW P \in SUBSET (1..hi), hi \in P,
           \A m \in P : \A k \in 1..hi : m <= k => k \in P
    PROVE  \E g \in 1..hi : \A m \in 1..hi : m \in P <=> m >= g
<1>1. PICK g \in P : \A y \in P : g <= y
    BY LeastNumber
<1> QED
    BY <1>1

\* Sums of one and of two columns.
LEMMA ShortSums ==
    ASSUME NEW v \in Nat, NEW w \in Nat
    PROVE  /\ <<v>> \in Seq(Nat) /\ Len(<<v>>) = 1 /\ SumOf(<<v>>) = v
           /\ <<v, w>> \in Seq(Nat) /\ Len(<<v, w>>) = 2 /\ SumOf(<<v, w>>) = v + w
<1>1. ASSUME NEW s \in Seq(Nat), Len(s) = 1 PROVE SumOf(s) = s[1]
  <2>1. PICK u \in [0..1 -> Nat] : u[0] = 0 /\ (\A n \in 1..1 : u[n] = u[n - 1] + s[n]) /\ SumOf(s) = u[1]
    BY <1>1, RunningSums
  <2>2. u[1] = u[0] + s[1] /\ s[1] \in Nat
    BY <1>1, <2>1
  <2> QED
    BY <2>1, <2>2
<1>2. ASSUME NEW s \in Seq(Nat), Len(s) = 2 PROVE SumOf(s) = s[1] + s[2]
  <2>1. PICK u \in [0..2 -> Nat] : u[0] = 0 /\ (\A n \in 1..2 : u[n] = u[n - 1] + s[n]) /\ SumOf(s) = u[2]
    BY <1>2, RunningSums
  <2>2. u[1] = u[0] + s[1] /\ u[2] = u[1] + s[2] /\ s[1] \in Nat /\ s[2] \in Nat
    BY <1>2, <2>1
  <2> QED
    BY <2>1, <2>2
<1>3. <<v>> \in Seq(Nat) /\ Len(<<v>>) = 1 /\ <<v>>[1] = v
    OBVIOUS
<1>4. <<v, w>> \in Seq(Nat) /\ Len(<<v, w>>) = 2 /\ <<v, w>>[1] = v /\ <<v, w>>[2] = w
    OBVIOUS
<1> QED
    BY <1>1, <1>2, <1>3, <1>4

\* A record with one variable column.
LEMMA OneColumn ==
    ASSUME NEW fixed \in Seq(Nat), NEW v \in Nat, NEW limit \in Nat, NEW stub \in Nat
    PROVE  /\ Layout(fixed, <<v>>, limit, stub).demoted # {} <=>
                  v > stub /\ HeaderSize(Len(fixed), 1, SumOf(fixed) + v) + (SumOf(fixed) + v) + 16 > limit
           /\ Layout(fixed, <<v>>, limit, stub).demoted # {} =>
                  Layout(fixed, <<v>>, limit, stub).after =
                      HeaderSize(Len(fixed), 1, SumOf(fixed) + stub) + (SumOf(fixed) + stub) + 16
<1>1. PICK f \in Nat, base \in Nat : f = Len(fixed) /\ base = SumOf(fixed)
    BY SumIsNumber, LenProperties
<1>2. PICK var \in Seq(Nat) : var = <<v>> /\ Len(var) = 1 /\ SumOf(var) = v /\ DOMAIN var = 1..1 /\ var[1] = v
  <2>1. <<v>> \in Seq(Nat) /\ Len(<<v>>) = 1 /\ SumOf(<<v>>) = v
    BY ShortSums
  <2>2. DOMAIN <<v>> = 1..1 /\ <<v>>[1] = v
    OBVIOUS
  <2> QED
    BY <2>1, <2>2
<1>3. PICK p \in Nat : p = base + v
    OBVIOUS
<1>4. PICK header \in Nat : header = HeaderSize(f, 1, p)
  <2>1. p <= p
    OBVIOUS
  <2> QED
    BY <2>1, HeaderGrows
<1>5. PICK s \in DemotionStates(var) :
          /\ s = Demotions("largest", base + SumOf(var), header, var, limit, stub)[Len(var)]
          /\ Demoting(s, "largest", base, header, var, limit, stub)
          /\ Stopped(s, header, var, limit, stub)
    BY <1>4, DemotionsSettle
<1>6. PICK r : r = Layout(fixed, <<v>>, limit, stub)
    OBVIOUS
<1>7. r.demoted = s.demoted /\ r.after = HeaderSize(f, 1, s.payload) + s.payload + 16
  <2>1. r = Placed(s, f, 1)
    BY <1>1, <1>2, <1>3, <1>4, <1>5, <1>6 DEF Layout, DemoteIn
  <2> QED
    BY <2>1 DEF Placed, MvccExtra
<1>8. 1 \in Candidates(var, stub) <=> v > stub
    BY <1>2 DEF Candidates
<1>9. /\ s.demoted \subseteq {1} /\ Candidates(var, stub) \subseteq {1}
      /\ s.demoted \subseteq Candidates(var, stub)
    BY <1>2, <1>5 DEF Candidates, Demoting
<1>10. Stubbed(var, {}, stub) = var
    BY DEF Stubbed
<1>11. ASSUME s.demoted # {} PROVE v > stub /\ header + p + 16 > limit
  <2>1. 1 \in s.demoted
    BY <1>9, <1>11
  <2>2. PICK C \in SUBSET s.demoted :
            /\ C = {j \in s.demoted : Ahead(var, "largest", j, 1)}
            /\ header + (base + SumOf(Stubbed(var, C, stub))) + 16 > limit
    BY <1>5, <2>1 DEF Demoting
  <2>3. ~Larger(var, 1, 1)
    BY <1>2 DEF Larger
  <2>4. C = {}
    BY <1>9, <2>2, <2>3 DEF Ahead
  <2> QED
    BY <1>2, <1>3, <1>8, <1>9, <1>10, <2>1, <2>2, <2>4
<1>12. ASSUME s.demoted = {}, v > stub PROVE header + p + 16 <= limit
  <2>1. s.payload = p
    <3>1. s.payload = base + SumOf(Stubbed(var, s.demoted, stub))
      BY <1>5 DEF Demoting
    <3> QED
      BY <1>2, <1>3, <1>10, <1>12, <3>1
  <2> QED
    BY <1>5, <1>8, <1>12, <2>1 DEF Stopped
<1>13. ASSUME s.demoted # {} PROVE s.payload = base + stub
  <2>1. s.demoted = {1}
    BY <1>9, <1>13
  <2>2. PICK t : t = Stubbed(var, {1}, stub)
    OBVIOUS
  <2>3. t \in Seq(Nat) /\ Len(t) = 1 /\ t[1] = stub
    <3>1. /\ t \in Seq(Nat) /\ Len(t) = Len(var)
          /\ \A i \in 1..Len(var) : t[i] = IF i \in {1} THEN stub ELSE var[i]
      BY <2>2, StubbedFacts
    <3> QED
      BY <1>2, <3>1
  <2>4. t = <<stub>>
    BY <2>3
  <2>5. SumOf(t) = stub
    BY <2>4, ShortSums
  <2> QED
    BY <1>5, <2>1, <2>2, <2>5 DEF Demoting
<1>14. s.demoted # {} <=> v > stub /\ header + p + 16 > limit
    BY <1>4, <1>11, <1>12
<1>15. s.demoted # {} => r.after = HeaderSize(f, 1, base + stub) + (base + stub) + 16
    BY <1>7, <1>13
<1> QED
    BY <1>1, <1>3, <1>4, <1>6, <1>7, <1>14, <1>15

LEMMA VarbitGrows ==
    ASSUME NEW m \in Nat, NEW n \in Nat, m <= n
    PROVE  VarbitDisk(m) \in Nat /\ VarbitDisk(n) \in Nat /\ VarbitDisk(m) <= VarbitDisk(n)
           /\ n <= VarbitDisk(n) /\ VarbitDisk(n) <= n + 8
BY DEF VarbitDisk, Align, AlignBelow

\* The limits of a page, of which no search goes short.
LEMMA PageFacts ==
    ASSUME NEW io \in PageSizes, NEW acc \in Accountings
    PROVE  /\ Gate(io, acc) \in Nat /\ Gate(io, acc) < 5000 /\ GatePinned(io) \in Nat
           /\ GatePinned(io) < 5000 /\ Stub(acc) \in Nat /\ Stub(acc) < 30
           /\ MaxChunkPayload(io, acc) \in Nat /\ MaxChunkPayload(io, acc) < 20000
           /\ HeapMaxSlotted(io) \in Nat /\ HeapMaxSlotted(io) < 20000
BY DEF PageSizes, Accountings, Stub, Gate, GatePinned, TargetNormative, AlignBelow, Align, HeapCapacity,
       SpageMaxRecord, DbPageSize, SlotSize, MaxChunkPayload, ChunkHeader, HeapMaxSlotted

LEMMA HeaderIsNumber ==
    ASSUME NEW f \in Nat, NEW n \in Nat, NEW p \in Nat PROVE HeaderSize(f, n, p) \in Nat
<1>1. p <= p
    OBVIOUS
<1> QED
    BY <1>1, HeaderGrows

LEMMA DemotedCrosses ==
    ASSUME NEW io \in PageSizes, NEW acc \in Accountings
    PROVE  /\ \A n \in Nat : n >= 20000 => FirstDemoted(io, acc, n)
           /\ \A m, k \in Nat : FirstDemoted(io, acc, m) /\ m <= k => FirstDemoted(io, acc, k)
<1>1. PICK limit \in Nat, stub \in Nat : limit = Gate(io, acc) /\ stub = Stub(acc) /\ limit < 5000 /\ stub < 30
    BY PageFacts
<1>2. ASSUME NEW n \in Nat
      PROVE  \E v \in Nat :
               /\ v = VarbitDisk(n)
               /\ FirstDemoted(io, acc, n) <=> v > stub /\ HeaderSize(1, 1, 4 + v) + (4 + v) + 16 > limit
  <2>1. PICK v \in Nat : v = VarbitDisk(n)
    BY VarbitFacts
  <2>2. <<4>> \in Seq(Nat) /\ Len(<<4>>) = 1 /\ SumOf(<<4>>) = 4
    BY ShortSums
  <2>3. Layout(<<4>>, <<v>>, limit, stub).demoted # {} <=>
            v > stub /\ HeaderSize(1, 1, 4 + v) + (4 + v) + 16 > limit
    <3>1. PICK fixed \in Seq(Nat) : fixed = <<4>>
      BY <2>2
    <3>2. Layout(fixed, <<v>>, limit, stub).demoted # {} <=>
              v > stub /\ HeaderSize(Len(fixed), 1, SumOf(fixed) + v) + (SumOf(fixed) + v) + 16 > limit
      BY OneColumn
    <3>3. Len(fixed) = 1 /\ SumOf(fixed) = 4
      BY <2>2, <3>1
    <3> QED
      BY <3>1, <3>2, <3>3
  <2>4. FirstDemoted(io, acc, n) <=> Layout(<<4>>, <<v>>, limit, stub).demoted # {}
    BY <1>1, <2>1 DEF FirstDemoted, IntDisk
  <2> QED
    BY <2>1, <2>3, <2>4
<1>3. ASSUME NEW n \in Nat, n >= 20000 PROVE FirstDemoted(io, acc, n)
  <2>1. n <= n
    OBVIOUS
  <2>2. PICK v \in Nat :
            /\ v = VarbitDisk(n)
            /\ FirstDemoted(io, acc, n) <=> v > stub /\ HeaderSize(1, 1, 4 + v) + (4 + v) + 16 > limit
    BY <1>2
  <2>3. 20000 <= v
    <3>1. n <= v
      BY <2>1, <2>2, VarbitGrows
    <3> QED
      BY <1>3, <3>1
  <2>4. PICK h \in Nat : h = HeaderSize(1, 1, 4 + v)
    <3>1. 4 + v \in Nat
      OBVIOUS
    <3> QED
      BY <3>1, HeaderIsNumber
  <2> QED
    BY <1>1, <2>2, <2>3, <2>4
<1>4. ASSUME NEW m \in Nat, NEW k \in Nat, FirstDemoted(io, acc, m), m <= k
      PROVE  FirstDemoted(io, acc, k)
  <2>1. PICK v \in Nat :
            v = VarbitDisk(m) /\ v > stub /\ HeaderSize(1, 1, 4 + v) + (4 + v) + 16 > limit
    BY <1>2, <1>4
  <2>2. PICK w \in Nat :
            /\ w = VarbitDisk(k)
            /\ FirstDemoted(io, acc, k) <=> w > stub /\ HeaderSize(1, 1, 4 + w) + (4 + w) + 16 > limit
    BY <1>2
  <2>3. v <= w
    BY <1>4, <2>1, <2>2, VarbitGrows
  <2>4. PICK g \in Nat, h \in Nat : g = HeaderSize(1, 1, 4 + v) /\ h = HeaderSize(1, 1, 4 + w) /\ g <= h
    <3>1. PICK x \in Nat, y \in Nat : x = 4 + v /\ y = 4 + w /\ x <= y
      BY <2>3
    <3>2. HeaderSize(1, 1, x) \in Nat /\ HeaderSize(1, 1, y) \in Nat
          /\ HeaderSize(1, 1, x) <= HeaderSize(1, 1, y)
      BY <3>1, HeaderGrows
    <3> QED
      BY <3>1, <3>2
  <2> QED
    BY <2>1, <2>2, <2>3, <2>4
<1> QED
    BY <1>3, <1>4

LEMMA RejectedCrosses ==
    ASSUME NEW io \in PageSizes, NEW acc \in Accountings
    PROVE  /\ \A n \in Nat : n >= 20000 => FirstRejected(io, acc, n)
           /\ \A m, k \in Nat : FirstRejected(io, acc, m) /\ m <= k => FirstRejected(io, acc, k)
<1>1. PICK limit \in Nat, stub \in Nat, most \in Nat :
          /\ limit = GatePinned(io) /\ stub = Stub(acc) /\ limit < 5000 /\ stub < 30
          /\ most = HeapMaxSlotted(io) /\ most < 20000
    BY PageFacts
<1>2. VarbitDisk(64) = 72
    BY DEF VarbitDisk, Align, AlignBelow
<1>3. ASSUME NEW n \in Nat
      PROVE  FirstRejected(io, acc, n) <=>
                 /\ HeaderSize(2, 1, 4 + n + 72) + (4 + n + 72) + 16 > limit
                 /\ HeaderSize(2, 1, 4 + n + stub) + (4 + n + stub) + 16 > most
  <2>1. <<4, n>> \in Seq(Nat) /\ Len(<<4, n>>) = 2 /\ SumOf(<<4, n>>) = 4 + n
    BY ShortSums
  <2>2. PICK r : r = Layout(<<4, n>>, <<72>>, limit, stub)
    OBVIOUS
  <2>3. /\ r.demoted # {} <=> 72 > stub /\ HeaderSize(2, 1, (4 + n) + 72) + ((4 + n) + 72) + 16 > limit
        /\ r.demoted # {} =>
               r.after = HeaderSize(2, 1, (4 + n) + stub) + ((4 + n) + stub) + 16
    <3>1. PICK fixed \in Seq(Nat), v \in Nat : fixed = <<4, n>> /\ v = 72
      BY <2>1
    <3>2. /\ Layout(fixed, <<v>>, limit, stub).demoted # {} <=>
                 v > stub /\ HeaderSize(Len(fixed), 1, SumOf(fixed) + v) + (SumOf(fixed) + v) + 16 > limit
          /\ Layout(fixed, <<v>>, limit, stub).demoted # {} =>
                 Layout(fixed, <<v>>, limit, stub).after =
                     HeaderSize(Len(fixed), 1, SumOf(fixed) + stub) + (SumOf(fixed) + stub) + 16
      BY OneColumn
    <3>3. Len(fixed) = 2 /\ SumOf(fixed) = 4 + n
      BY <2>1, <3>1
    <3> QED
      BY <2>2, <3>1, <3>2, <3>3
  <2>4. FirstRejected(io, acc, n) <=> r.demoted # {} /\ r.after > most
    BY <1>1, <1>2, <2>2 DEF FirstRejected, TooBig, IntDisk
  <2>5. 72 > stub
    BY <1>1
  <2> QED
    BY <2>3, <2>4, <2>5
<1>4. ASSUME NEW n \in Nat, n >= 20000 PROVE FirstRejected(io, acc, n)
  <2>1. 4 + n + 72 \in Nat /\ 4 + n + stub \in Nat
    OBVIOUS
  <2>2. PICK g \in Nat, h \in Nat :
            g = HeaderSize(2, 1, 4 + n + 72) /\ h = HeaderSize(2, 1, 4 + n + stub)
    BY <2>1, HeaderIsNumber
  <2>3. g + (4 + n + 72) + 16 > limit /\ h + (4 + n + stub) + 16 > most
    BY <1>1, <1>4, <2>2
  <2> QED
    BY <1>3, <2>2, <2>3
<1>5. ASSUME NEW m \in Nat, NEW k \in Nat, FirstRejected(io, acc, m), m <= k
      PROVE  FirstRejected(io, acc, k)
  <2>1. PICK g \in Nat, h \in Nat :
            g = HeaderSize(2, 1, 4 + m + 72) /\ h = HeaderSize(2, 1, 4 + k + 72) /\ g <= h
    <3>1. PICK x \in Nat, y \in Nat : x = 4 + m + 72 /\ y = 4 + k + 72 /\ x <= y
      BY <1>5
    <3>2. HeaderSize(2, 1, x) \in Nat /\ HeaderSize(2, 1, y) \in Nat
          /\ HeaderSize(2, 1, x) <= HeaderSize(2, 1, y)
      BY <3>1, HeaderGrows
    <3> QED
      BY <3>1, <3>2
  <2>2. PICK b \in Nat, c \in Nat :
            b = HeaderSize(2, 1, 4 + m + stub) /\ c = HeaderSize(2, 1, 4 + k + stub) /\ b <= c
    <3>1. PICK x \in Nat, y \in Nat : x = 4 + m + stub /\ y = 4 + k + stub /\ x <= y
      BY <1>5
    <3>2. HeaderSize(2, 1, x) \in Nat /\ HeaderSize(2, 1, y) \in Nat
          /\ HeaderSize(2, 1, x) <= HeaderSize(2, 1, y)
      BY <3>1, HeaderGrows
    <3> QED
      BY <3>1, <3>2
  <2>3. g + (4 + m + 72) + 16 > limit /\ b + (4 + m + stub) + 16 > most
    BY <1>3, <1>5, <2>1, <2>2
  <2>4. h + (4 + k + 72) + 16 > limit /\ c + (4 + k + stub) + 16 > most
    BY <1>5, <2>1, <2>2, <2>3
  <2> QED
    BY <1>3, <2>1, <2>2, <2>4
<1> QED
    BY <1>4, <1>5

LEMMA TwoByteCrosses ==
    /\ \A n \in Nat : n >= 1000 /\ n <= 1000 => FirstTwoByteVot(n)
    /\ \A m, k \in Nat : FirstTwoByteVot(m) /\ m <= k /\ k <= 1000 => FirstTwoByteVot(k)
<1>1. ASSUME NEW n \in Nat, n <= 1000 PROVE FirstTwoByteVot(n) <=> 28 + VarbitDisk(n) > 127
  <2>1. PICK v \in Nat : v = VarbitDisk(n) /\ v <= n + 8
    <3>1. n <= n
      OBVIOUS
    <3> QED
      BY <3>1, VarbitGrows
  <2>2. HeaderBase(1) = 20 /\ VarTable(1, 1) = 4 /\ VarTable(1, 2) = 4
    BY DEF HeaderBase, MvccInsertHeader, BoundBits, VarTable, Align, AlignBelow
  <2>3. OffsetWidth(1, 1, 4 + v) = IF 28 + v <= 127 THEN 1 ELSE 2
    BY <1>1, <2>1, <2>2 DEF OffsetWidth, MaxByte, MaxShort
  <2> QED
    BY <2>1, <2>3 DEF FirstTwoByteVot, IntDisk
<1>2. ASSUME NEW n \in Nat, n >= 1000, n <= 1000 PROVE FirstTwoByteVot(n)
  <2>1. n <= n
    OBVIOUS
  <2>2. PICK v \in Nat : v = VarbitDisk(n) /\ n <= v
    BY <2>1, VarbitGrows
  <2>3. 28 + v > 127
    BY <1>2, <2>2
  <2> QED
    BY <1>1, <1>2, <2>2, <2>3
<1>3. ASSUME NEW m \in Nat, NEW k \in Nat, FirstTwoByteVot(m), m <= k, k <= 1000
      PROVE FirstTwoByteVot(k)
  <2>1. PICK v \in Nat, w \in Nat : v = VarbitDisk(m) /\ w = VarbitDisk(k) /\ v <= w
    BY <1>3, VarbitGrows
  <2> QED
    BY <1>1, <1>3, <2>1
<1> QED
    BY <1>2, <1>3

LEMMA MultichunkCrosses ==
    ASSUME NEW io \in PageSizes, NEW acc \in Accountings
    PROVE  /\ \A n \in Nat : n >= 40000 => FirstMultichunk(io, acc, n)
           /\ \A m, k \in Nat : FirstMultichunk(io, acc, m) /\ m <= k => FirstMultichunk(io, acc, k)
<1>1. PICK most \in Nat : most = MaxChunkPayload(io, acc) /\ most < 20000
    BY PageFacts
<1>2. ASSUME NEW n \in Nat, n >= 40000 PROVE FirstMultichunk(io, acc, n)
  <2>1. n <= n
    OBVIOUS
  <2>2. PICK v \in Nat : v = VarbitDisk(n) /\ n <= v
    BY <2>1, VarbitGrows
  <2> QED
    BY <1>1, <1>2, <2>2 DEF FirstMultichunk
<1>3. ASSUME NEW m \in Nat, NEW k \in Nat, FirstMultichunk(io, acc, m), m <= k
      PROVE  FirstMultichunk(io, acc, k)
  <2>1. PICK v \in Nat, w \in Nat : v = VarbitDisk(m) /\ w = VarbitDisk(k) /\ v <= w
    BY <1>3, VarbitGrows
  <2> QED
    BY <1>1, <1>3, <2>1 DEF FirstMultichunk
<1> QED
    BY <1>2, <1>3

-----------------------------------------------------------------------------
\* What the search is given: one of the four, a page size and an accounting.
BoundaryGiven ==
    /\ given \in [tool : {"boundary"}, search : DOMAIN Searches, io : PageSizes, acc : Accountings]
    /\ Absent \notin Nat

(***************************************************************************)
(* BoundaryIsLeast, of each search.  The four predicates are monotone over  *)
(* their ranges and hold at the end of them, so the search by halves        *)
(* returns the least size that crosses: what smallest_n assumes of its      *)
(* predicate.                                                               *)
(***************************************************************************)
THEOREM BoundariesAreLeast ==
    ASSUME BoundaryGiven PROVE BoundaryIsLeast
<1>1. PICK q : q = given
    OBVIOUS
<1>2. /\ q.io \in PageSizes /\ q.acc \in Accountings
      /\ q.search \in {"demoted", "multichunk", "twobyte", "rejected"}
    BY <1>1 DEF BoundaryGiven, Searches
<1>3. PICK hi \in Nat : hi = Searches[q.search] /\ hi \in 1..hi
    BY <1>2 DEF Searches
<1>4. Crossed(q, hi) /\ \A m, k \in 1..hi : Crossed(q, m) /\ m <= k => Crossed(q, k)
  <2>1. CASE q.search = "demoted"
    <3>1. hi >= 20000 /\ \A n : Crossed(q, n) <=> FirstDemoted(q.io, q.acc, n)
      BY <1>3, <2>1 DEF Searches, Crossed
    <3>2. /\ \A n \in Nat : n >= 20000 => FirstDemoted(q.io, q.acc, n)
          /\ \A m, k \in Nat : FirstDemoted(q.io, q.acc, m) /\ m <= k => FirstDemoted(q.io, q.acc, k)
      BY <1>2, DemotedCrosses
    <3> QED
      BY <1>3, <3>1, <3>2
  <2>2. CASE q.search = "multichunk"
    <3>1. hi >= 40000 /\ \A n : Crossed(q, n) <=> FirstMultichunk(q.io, q.acc, n)
      BY <1>3, <2>2 DEF Searches, Crossed
    <3>2. /\ \A n \in Nat : n >= 40000 => FirstMultichunk(q.io, q.acc, n)
          /\ \A m, k \in Nat : FirstMultichunk(q.io, q.acc, m) /\ m <= k => FirstMultichunk(q.io, q.acc, k)
      BY <1>2, MultichunkCrosses
    <3> QED
      BY <1>3, <3>1, <3>2
  <2>3. CASE q.search = "twobyte"
    <3>1. hi >= 1000 /\ hi <= 1000 /\ \A n : Crossed(q, n) <=> FirstTwoByteVot(n)
      BY <1>3, <2>3 DEF Searches, Crossed
    <3>2. /\ \A n \in Nat : n >= 1000 /\ n <= 1000 => FirstTwoByteVot(n)
          /\ \A m, k \in Nat : FirstTwoByteVot(m) /\ m <= k /\ k <= 1000 => FirstTwoByteVot(k)
      BY TwoByteCrosses
    <3> QED
      BY <1>3, <3>1, <3>2
  <2>4. CASE q.search = "rejected"
    <3>1. hi >= 20000 /\ \A n : Crossed(q, n) <=> FirstRejected(q.io, q.acc, n)
      BY <1>3, <2>4 DEF Searches, Crossed
    <3>2. /\ \A n \in Nat : n >= 20000 => FirstRejected(q.io, q.acc, n)
          /\ \A m, k \in Nat : FirstRejected(q.io, q.acc, m) /\ m <= k => FirstRejected(q.io, q.acc, k)
      BY <1>2, RejectedCrosses
    <3> QED
      BY <1>3, <3>1, <3>2
  <2> QED
    BY <1>2, <2>1, <2>2, <2>3, <2>4
<1>5. PICK g \in 1..hi : \A m \in 1..hi : Crossed(q, m) <=> m >= g
  <2>1. PICK P : P = {m \in 1..hi : Crossed(q, m)}
    OBVIOUS
  <2>2. P \in SUBSET (1..hi) /\ hi \in P /\ \A m \in P : \A k \in 1..hi : m <= k => k \in P
    BY <1>3, <1>4, <2>1
  <2>3. PICK g \in 1..hi : \A m \in 1..hi : m \in P <=> m >= g
    BY <2>2, Threshold
  <2> QED
    BY <2>1, <2>3
<1>6. Boundary(q) = g
    BY <1>3, <1>5, HalvingFinds DEF Boundary
<1>7. g # Absent
    BY DEF BoundaryGiven
<1> QED
    BY <1>1, <1>3, <1>5, <1>6, <1>7 DEF BoundaryIsLeast
=============================================================================
