---------------------------- MODULE TierPlacement ----------------------------
(***************************************************************************)
(* tier_placement.py: from the caps of the three tiers and the measured     *)
(* costs of a workload, the tier it is placed in, the problems that make    *)
(* the placement invalid and the risks recorded beside it.                  *)
(*                                                                          *)
(* Costs are in thirds of a millisecond and are shown and compared in whole *)
(* milliseconds (round(x, 3) of seconds), so a cost may lie above or below  *)
(* what is compared; a third is never a tie.                                *)
(***************************************************************************)
EXTENDS Given, Integers

TierOrder == <<"fast", "scheduled", "extended">>
Tiers == {"fast", "scheduled", "extended"}
Labels == {"measured-whole", "composite"}

\* round(x, 3): the nearest whole millisecond.
Rounded(x) == ((x + 1) \div 3) * 3

\* A seeded workload is placed under the reading that puts all of its seeds into one case.
PerCase(w) == IF w.seeds > 0 THEN w.seeds * w.perSeed ELSE w.perCase

WorstCase(w) == Rounded(w.fixed + w.cases * PerCase(w))
Measured(w) == w.measured # Absent

InvocationCost(w) == IF Measured(w) THEN Rounded(w.measured) ELSE WorstCase(w)

Basis(w) ==
    IF ~Measured(w) THEN "computed" ELSE IF w.label \in Labels THEN w.label ELSE "unlabelled"

\* MUTANT: only the cap on one case is looked at.
FitsCase(cap, w) == Rounded(PerCase(w)) <= cap.case

Fits(cap, w) == Rounded(PerCase(w)) <= cap.case /\ InvocationCost(w) <= cap.invocation

FittingTiers(caps, w) == {i \in DOMAIN TierOrder : Fits(caps[TierOrder[i]], w)}

\* The first tier in their order whose two caps hold, or Absent.
SmallestFittingTier(caps, w) ==
    LET fit == FittingTiers(caps, w)
    IN  IF fit = {} THEN Absent ELSE TierOrder[CHOOSE i \in fit : \A j \in fit : i <= j]

\* What is wrong with a tier a human proposed for a workload that fits some tier.
ProposalProblems(caps, w) ==
    IF w.proposed = Absent THEN {}
    ELSE IF w.proposed \notin Tiers THEN {"no such tier"}
    ELSE {x \in {"case over cap"} : Rounded(PerCase(w)) > caps[w.proposed].case}
         \cup {x \in {"invocation over cap"} : InvocationCost(w) > caps[w.proposed].invocation}

BasisProblems(w) ==
    CASE w.basis \notin {"measured", "derived"} -> {"no basis"}
      [] w.basis = "derived" /\ ~w.sourced -> {"derived from nothing"}
      [] w.basis = "measured" /\ ~w.sourced -> {"measured nowhere"}
      [] OTHER -> {}

Problems(caps, w) ==
    {x \in {"unlabelled"} : Basis(w) = "unlabelled"}
    \cup {x \in {"composed of what"} : Basis(w) = "composite" /\ ~w.composition}
    \cup (IF SmallestFittingTier(caps, w) = Absent
          THEN {"fits no tier"} ELSE ProposalProblems(caps, w))
    \cup BasisProblems(w)

\* Placed on a measured figure although the worst case is over the cap.
Risky(caps, w) ==
    /\ SmallestFittingTier(caps, w) # Absent /\ w.proposed \in Tiers
    /\ WorstCase(w) > caps[w.proposed].invocation
    /\ caps[w.proposed].invocation >= InvocationCost(w)

\* The tier the table shows.
TierShown(caps, w) ==
    IF w.proposed # Absent THEN w.proposed ELSE SmallestFittingTier(caps, w)

-----------------------------------------------------------------------------
Placing == At("tier_placement")
Sound == Problems(given.caps, given.w) = {}
Shown == given.caps[TierShown(given.caps, given.w)]

\* The costs of a workload as they are, with what it really takes per invocation.
CaseCost == PerCase(given.w)
RealInvocation ==
    IF Measured(given.w) THEN given.w.measured
    ELSE given.w.fixed + given.w.cases * CaseCost

(***************************************************************************)
(* A table that check accepts is a placement: whatever tier it shows, the   *)
(* one a human proposed or the one computed, the case and the invocation    *)
(* cost no more than that tier's caps, but for less than half a millisecond *)
(* that rounding can hide; and where the proposed tier would not hold if    *)
(* every case cost as much as the slowest, the table says so.               *)
(***************************************************************************)
PlacementFits ==
    Placing /\ Sound =>
        /\ CaseCost <= Shown.case + 1
        /\ RealInvocation <= Shown.invocation + 1
        /\ \/ given.w.proposed \notin Tiers
           \/ given.w.fixed + given.w.cases * CaseCost <= Shown.invocation + 1
           \/ Risky(given.caps, given.w)
=============================================================================
