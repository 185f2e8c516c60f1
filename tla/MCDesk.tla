------------------------------- MODULE MCDesk --------------------------------
(***************************************************************************)
(* An instance for TLC of the tools that are used one at a time: the desk   *)
(* has one of them at work, and the others are as they were left.           *)
(***************************************************************************)
EXTENDS MCMatrixMerge, MatrixScoping, ResourceSampler, RecordCorrections, TierPlacement,
        PatchRun, SweepLap, ReviewRun, FixtureSizes, RecordChecks, InjectionRun

VARIABLE desk   \* the tool at work

deskVars == <<scopingVars, samplerVars, correctionVars, patchVars, lapVars, reviewVars, injectionVars, given, desk>>

Nothing == [tool |-> "none"]

-----------------------------------------------------------------------------
\* What the other matrices say of the rows of two cases; one of their rows says "none".
MCAuthority ==
    [k \in Key |-> CASE k.req = r1 /\ k.case = c1 -> [gap |-> "Capability gap", target |-> "engine"]
                     [] k.req = r1 /\ k.case = c2 -> [gap |-> "none", target |-> "unknown"]
                     [] OTHER -> NoRow]

MCFailedKey == [req |-> r1, case |-> c1, cfg |-> x1]

\* Two attempts of one invocation around the attempt of another.
MCInvOf == <<1, 2, 1>>

\* Of one source an edit is sticky; the other has one edit.
MCEditsOf == [f \in {1, 2} |-> IF f = 1 THEN {"plain", "sticky"} ELSE {"other"}]

\* The workloads of tier_placement.py: costs in thirds of a millisecond around the caps.
Workloads ==
    [seeds : {0, 2}, perSeed : {4}, perCase : {8, 10}, fixed : {0, 2}, cases : {1, 3},
     measured : {Absent, 17, 30}, label : {"measured-whole", "composite", "other"},
     composition : {TRUE}, proposed : {Absent, "fast", "extended", "slow"},
     basis : {"measured", "derived", "guessed"}, sourced : BOOLEAN]

PlacementInputs ==
    [tool : {"tier_placement"}, w : Workloads,
     caps : {[fast |-> [case |-> 9, invocation |-> 18],
              scheduled |-> [case |-> 9, invocation |-> 30],
              extended |-> [case |-> 12, invocation |-> 30]]}]

BoundaryInputs ==
    [tool : {"boundary"}, search : {"demoted", "multichunk", "twobyte", "rejected"},
     io : PageSizes, acc : Accountings]

\* Lengths either side of the prefix, the floors, the gates and a chunk; a row that none of the
\* columns brings under the gate, and one that may.
MCLengths == {Absent, 15, 20, 24, 300, 2000, 3699, 3700, 3724, 20000}
MCRows == [var : UNION {[1 .. n -> MCLengths] : n \in 1 .. 3}, fixed : {<<>>, <<5000>>}]

FixtureInputs ==
    [tool : {"classify"}, row : MCRows, expect : {"oos", "inline", "oos-exhausted", "disputed"}]
    \cup [tool : {"fixture"}, fixture : Fixtures13 \cup Disputed13 \cup Fixtures18 \cup Fixtures19]
    \cup {[tool |-> "bands"]}

\* Attempts of one case, two under each of two manifests, and two ids for them.
MCAttempt == [manifest : {1, 2}, case : {1}, turn : {1, 2}]
MCFirst == [manifest |-> 1, case |-> 1, turn |-> 1]
MCRecords ==
    {s \in SUBSET ([id : {"a", "b"}, attempt : MCAttempt, kind : {"original"}]
                    \cup [id : {"a"}, attempt : {MCFirst}, kind : {"coexistence"}]) :
        \A p, q \in s : p.attempt = q.attempt => p = q}

CheckInputs ==
    [tool : {"completeness"}, records : MCRecords,
     merged : SUBSET [id : {"a", "b"}, attempt : {a \in MCAttempt : a.turn = 1}],
     exclusions : {{}} \cup {{x} : x \in [scope : {{"a"}, {"b"}, {"a", "b"}}, attempt : {MCFirst},
                                          by : {"user", "agent"}, dated : BOOLEAN]}]

-----------------------------------------------------------------------------
MCLaps ==
    [gate : BOOLEAN, busyRule : {"skip", "defer"}, q : {"full", "empty_old", "busy"},
     pending : {0, 1}, boot : BOOLEAN] \ [gate : BOOLEAN, busyRule : {"skip", "defer"},
     q : {"full", "empty_old", "busy"}, pending : {1}, boot : {FALSE}]

\* The first two of the four rounds.
MCRoundOrder == <<<<"base", "feature">>, <<"feature", "base">>>>

\* The reaper has nothing to do but to adopt.
MCSampler == SamplerNext /\ proc'[Reaper].ticks = 0

\* The scenario that arms its site twice is run once.
MCInjection == InjectionNext /\ (plan.steps = ArmedTwice => driver'.runs <= 1)

-----------------------------------------------------------------------------
\* Of a tool that is not at work, one of its initial states.
CorrectionsPinned ==
    /\ CorrectionsInit /\ script = "t44"
    /\ \A a \in Atts : record[a].digest = "early" /\ size[a] = "none"

LapPinned == LapInit /\ rules = [gate |-> TRUE, busyRule |-> "skip", q |-> "full", pending |-> 0, boot |-> TRUE]
ReviewPinned == ReviewInit /\ insensitive
InjectionPinned == InjectionInit /\ plan.crash

DeskInit ==
    /\ desk \in {"merge", "overlap", "scope", "sample", "correct", "patch", "lap", "review", "inject", "given"}
    /\ ScopingInit /\ SamplerInit /\ PatchInit
    /\ IF desk = "correct" THEN CorrectionsInit /\ size[2] = "none" ELSE CorrectionsPinned
    /\ IF desk = "lap" THEN LapInit ELSE LapPinned
    /\ IF desk = "review" THEN ReviewInit ELSE ReviewPinned
    /\ IF desk = "inject" THEN InjectionInit ELSE InjectionPinned
    /\ IF desk = "given"
       THEN \/ given \in PlacementInputs
            \/ given \in BoundaryInputs
            \/ given \in FixtureInputs
            \/ given \in CheckInputs
       ELSE given = Nothing

\* Merges one after another, of any of the first manifests together, between edits by hand ...
MergeInTurn ==
    /\ desk = "merge"
    /\ HandEdit \/ \E ms \in SUBSET {1, 2, 3, 4} : Merge(ms)

\* ... and merges of one manifest that others overtake.
MergeAtOnce ==
    /\ desk = "overlap"
    /\ \/ edits = 0 /\ HandEdit
       \/ WriteMatrix
       \/ \E m \in {2, 3} : Merge({m}) \/ LoadMatrix({m})

AtMatrix == (MergeInTurn \/ MergeAtOnce) /\ UNCHANGED <<companions, excluded>>
AtScoping == desk = "scope" /\ ScopingNext

DeskNext ==
    /\ UNCHANGED <<desk, given>>
    /\ \/ /\ AtMatrix \/ AtScoping
          /\ UNCHANGED <<samplerVars, correctionVars, patchVars, lapVars, reviewVars, injectionVars>>
       \/ /\ desk = "sample" /\ MCSampler
          /\ UNCHANGED <<scopingVars, correctionVars, patchVars, lapVars, reviewVars, injectionVars>>
       \/ /\ desk = "correct" /\ CorrectionsNext
          /\ UNCHANGED <<scopingVars, samplerVars, patchVars, lapVars, reviewVars, injectionVars>>
       \/ /\ desk = "patch" /\ PatchNext
          /\ UNCHANGED <<scopingVars, samplerVars, correctionVars, lapVars, reviewVars, injectionVars>>
       \/ /\ desk = "lap" /\ LapNext
          /\ UNCHANGED <<scopingVars, samplerVars, correctionVars, patchVars, reviewVars, injectionVars>>
       \/ /\ desk = "review" /\ ReviewNext
          /\ UNCHANGED <<scopingVars, samplerVars, correctionVars, patchVars, lapVars, injectionVars>>
       \/ /\ desk = "inject" /\ MCInjection
          /\ UNCHANGED <<scopingVars, samplerVars, correctionVars, patchVars, lapVars, reviewVars>>

DeskSpec == DeskInit /\ [][DeskNext]_deskVars
=============================================================================
