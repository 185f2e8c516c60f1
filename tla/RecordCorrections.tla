-------------------------- MODULE RecordCorrections --------------------------
(***************************************************************************)
(* The two scripts that corrected records whose digests were taken while    *)
(* their bundle still grew: apply_ticket44_record_corrections.py (script    *)
(* "t44") and apply_ticket49_record_corrections.py ("t49").  Both re-derive *)
(* attempt records with their indexes, then manifests, then the seals of    *)
(* the matrix rows, and are meant to be run until nothing is left to do.    *)
(*                                                                          *)
(* A digest or a size is named for the bundle it was taken of: "early" for  *)
(* one that still grew, "whole" as it was sealed, "changed" after something *)
(* was removed from it or added.  All attempts of an invocation share its   *)
(* bundle.  A kill leaves the file in hand torn; it is then put back as the *)
(* repository has it.                                                       *)
(***************************************************************************)
EXTENDS Naturals

CONSTANTS
    Invs,         \* invocations, one manifest and one bundle each, in the order of their paths
    Atts,         \* attempts 1..n, in the order of their paths
    InvOf,        \* InvOf[a]: the invocation attempt a belongs to
    CorrMaxRuns,  \* bound: runs of the script
    CorrMaxKills  \* bound: kills

Digests == {"early", "whole", "changed"}

ASSUME CorrectionsAssumption ==
    /\ Atts \subseteq Nat \ {0} /\ Atts # {} /\ Invs \subseteq Nat \ {0} /\ Invs # {}
    /\ InvOf \in [Atts -> Invs]
    /\ CorrMaxRuns \in Nat /\ CorrMaxKills \in Nat

VARIABLES
    script,   \* "t44" or "t49"
    work,     \* the running script: phase, place in it, the digests it has read of the bundles,
              \* the manifests it has rewritten, --dry-run
    record,   \* record[a]: digest of the attempt record, and whether its notes carry the mark
    size,     \* size[a]: total_bytes of the index, or "none" where there is no index
    mani,     \* mani[v]: digests by attempt, and whether the claim about the oracle is in it
    proms,    \* promotions.json carries the claim
    seals,    \* seals[v]: the manifest that the matrix rows of v seal, by its content
    torn,     \* files a kill tore
    repo,     \* the files as they were committed last
    bundle,   \* bundle[v]: "whole" or "changed"
    tries     \* runs and kills so far

disk == <<record, size, mani, proms, seals>>
correctionVars == <<script, work, disk, torn, repo, bundle, tries>>

Idle == [phase |-> "idle", at |-> 0, read |-> [v \in Invs |-> "unread"], wrote |-> {},
         dry |-> FALSE]

\* The manifest as it was written first, with the digest each attempt record had.
FirstManifest(v) ==
    [digest |-> [a \in {x \in Atts : InvOf[x] = v} |-> record[a].digest], claim |-> v = 1]

CorrectionsInit ==
    /\ script \in {"t44", "t49"}
    /\ record \in [Atts -> [digest : {"early", "whole"}, marked : {FALSE}]]
    /\ size \in [Atts -> {"none", "early", "whole"}]
    /\ mani = [v \in Invs |-> FirstManifest(v)]
    /\ seals = mani /\ proms = TRUE /\ repo = disk
    /\ work = Idle /\ torn = {} /\ bundle = [v \in Invs |-> "whole"]
    /\ tries = [runs |-> 0, kills |-> 0]

-----------------------------------------------------------------------------
\* The digest of the finished bundle, taken once per run.
Truth(v) == IF work.read[v] # "unread" THEN work.read[v] ELSE bundle[v]

\* Only t49 compares the listing with the SHA256SUMS the bundle carries.
NoTruth(v) == script = "t49" /\ work.read[v] = "unread" /\ bundle[v] = "changed"

\* The phases, each over its files in the order of their paths; 0 is promotions.json, or the matrix.
Places(phase) ==
    CASE phase = "attempts" -> Atts
      [] phase = "manifests" -> Invs
      [] phase = "claims" -> {0} \cup Invs
      [] OTHER -> {0}

\* MUTANT: the manifests are corrected first.
ManifestsFirst(phase) ==
    CASE phase = "manifests" -> "attempts"
      [] phase = "attempts" -> IF script = "t44" THEN "claims" ELSE "matrix"
      [] phase = "claims" -> "matrix"
      [] phase = "matrix" -> "done"
      [] OTHER -> "manifests"

PhaseAfter(phase) ==
    CASE phase = "attempts" -> "manifests"
      [] phase = "manifests" -> IF script = "t44" THEN "claims" ELSE "matrix"
      [] phase = "claims" -> "matrix"
      [] phase = "matrix" -> "done"
      [] OTHER -> "attempts"

Rest == {"idle", "done", "refused", "killed"}

Enter(w, phase) ==
    [w EXCEPT !.phase = phase,
              !.at = IF phase \in Rest THEN 0
                     ELSE CHOOSE n \in Places(phase) : \A m \in Places(phase) : n <= m]

\* The next file, or the next phase.
Onward(w) ==
    LET later == {n \in Places(w.phase) : n > w.at}
    IN  IF later = {} THEN Enter(w, PhaseAfter(w.phase))
        ELSE [w EXCEPT !.at = CHOOSE n \in later : \A m \in later : n <= m]

\* The invocation whose bundle the step asks for.
Asked ==
    CASE work.phase \in {"attempts", "index"} -> {InvOf[work.at]}
      [] work.phase = "manifests" -> {work.at}
      [] OTHER -> {}

Known == [work EXCEPT !.read = [v \in Invs |-> IF v \in Asked THEN Truth(v) ELSE @[v]]]

\* The file a step writes, if it writes.
InHand ==
    CASE work.phase = "attempts" -> <<"record", work.at>>
      [] work.phase = "index" -> <<"size", work.at>>
      [] work.phase = "matrix" -> <<"seals", 0>>
      [] work.phase = "claims" /\ work.at = 0 -> <<"proms", 0>>
      [] OTHER -> <<"mani", work.at>>

Right(a) ==
    /\ record[a].digest = Truth(InvOf[a])
    /\ size[a] \in {"none", Truth(InvOf[a])}

\* RecordError, or the traceback over a file that does not parse.
MustRefuse ==
    \/ InHand \in torn
    \/ \E v \in Asked : NoTruth(v)
    \/ /\ work.phase = "attempts"
       /\ <<"size", work.at>> \in torn \/ (~Right(work.at) /\ record[work.at].marked)

\* MUTANT: as its description has it, the last phase sees only manifests this run rewrote.
RefreshRewritten ==
    [v \in Invs |-> IF v \in work.wrote THEN mani[v] ELSE seals[v]]

\* Every row takes the hash its manifest has on disk now.
Refreshed == mani

\* The file in hand is not as it should be.
Stale ==
    CASE work.phase = "attempts" -> ~Right(work.at)
      [] work.phase = "index" -> TRUE
      [] work.phase = "manifests" ->
           \E a \in DOMAIN mani[work.at].digest : mani[work.at].digest[a] # Truth(work.at)
      [] work.phase = "claims" -> IF work.at = 0 THEN proms ELSE mani[work.at].claim
      [] OTHER -> seals # Refreshed

Running == work.phase \notin Rest
Writes == Running /\ ~MustRefuse /\ Stale /\ ~work.dry

StartCorrections(dry) ==
    /\ ~Running /\ tries.runs < CorrMaxRuns
    /\ work' = Enter([Idle EXCEPT !.dry = dry], PhaseAfter("idle"))
    /\ tries' = [tries EXCEPT !.runs = @ + 1]
    /\ UNCHANGED <<script, disk, torn, repo, bundle>>

RefuseCorrection ==
    /\ Running /\ MustRefuse
    /\ work' = Enter(work, "refused")
    /\ UNCHANGED <<script, disk, torn, repo, bundle, tries>>

LeaveAlone ==
    /\ Running /\ ~MustRefuse /\ (~Stale \/ work.dry)
    /\ work' = Onward(Known)
    /\ UNCHANGED <<script, disk, torn, repo, bundle, tries>>

\* An attempt record, with its mark; its index is written after it.
CorrectAttempt ==
    LET a == work.at IN
    /\ Writes /\ work.phase = "attempts"
    /\ record' = [record EXCEPT ![a] = [digest |-> Truth(InvOf[a]), marked |-> TRUE]]
    /\ work' = IF size[a] = "none" THEN Onward(Known) ELSE [Known EXCEPT !.phase = "index"]
    /\ UNCHANGED <<script, size, mani, proms, seals, torn, repo, bundle, tries>>

CorrectIndex ==
    /\ Writes /\ work.phase = "index"
    /\ size' = [size EXCEPT ![work.at] = Truth(InvOf[work.at])]
    /\ work' = Onward([work EXCEPT !.phase = "attempts"])
    /\ UNCHANGED <<script, record, mani, proms, seals, torn, repo, bundle, tries>>

CorrectManifest ==
    LET v == work.at IN
    /\ Writes /\ work.phase = "manifests"
    /\ mani' = [mani EXCEPT ![v].digest = [a \in DOMAIN @ |-> Truth(v)]]
    /\ work' = Onward([Known EXCEPT !.wrote = @ \cup {v}])
    /\ UNCHANGED <<script, record, size, proms, seals, torn, repo, bundle, tries>>

\* The claim about the oracle, in promotions.json and in the manifests that copied it.
CorrectClaim ==
    LET v == work.at IN
    /\ Writes /\ work.phase = "claims"
    /\ proms' = (proms /\ v # 0)
    /\ mani' = IF v = 0 THEN mani ELSE [mani EXCEPT ![v].claim = FALSE]
    /\ work' = Onward([work EXCEPT !.wrote = @ \cup ({v} \ {0})])
    /\ UNCHANGED <<script, record, size, seals, torn, repo, bundle, tries>>

RefreshSeals ==
    /\ Writes /\ work.phase = "matrix"
    /\ seals' = Refreshed
    /\ work' = Onward(work)
    /\ UNCHANGED <<script, record, size, mani, proms, torn, repo, bundle, tries>>

-----------------------------------------------------------------------------
KillScript ==
    /\ Running /\ tries.kills < CorrMaxKills
    /\ tries' = [tries EXCEPT !.kills = @ + 1]
    /\ work' = Enter(work, "killed")
    /\ torn' \in {torn, torn \cup {x \in {InHand} : Writes}}
    /\ UNCHANGED <<script, disk, repo, bundle>>

\* A torn file is taken from the repository again.
PutBack(f) ==
    /\ f \in torn /\ ~Running
    /\ torn' = torn \ {f}
    /\ record' = IF f[1] = "record" THEN [record EXCEPT ![f[2]] = repo[1][f[2]]] ELSE record
    /\ size' = IF f[1] = "size" THEN [size EXCEPT ![f[2]] = repo[2][f[2]]] ELSE size
    /\ mani' = IF f[1] = "mani" THEN [mani EXCEPT ![f[2]] = repo[3][f[2]]] ELSE mani
    /\ proms' = IF f[1] = "proms" THEN repo[4] ELSE proms
    /\ seals' = IF f[1] = "seals" THEN repo[5] ELSE seals
    /\ UNCHANGED <<script, work, repo, bundle, tries>>

\* What a complete run left is committed.
Commit ==
    /\ work.phase = "done" /\ repo' = disk
    /\ UNCHANGED <<script, work, disk, torn, bundle, tries>>

\* Something is removed from a bundle that its records were written about.
AlterBundle(v) ==
    /\ bundle[v] = "whole" /\ bundle' = [bundle EXCEPT ![v] = "changed"]
    /\ UNCHANGED <<script, work, disk, torn, repo, tries>>

CorrectionsNext ==
    \/ \E dry \in BOOLEAN : StartCorrections(dry)
    \/ RefuseCorrection \/ LeaveAlone
    \/ CorrectAttempt \/ CorrectIndex \/ CorrectManifest \/ CorrectClaim \/ RefreshSeals
    \/ KillScript \/ Commit
    \/ \E f \in torn : PutBack(f)
    \/ \E v \in Invs : AlterBundle(v)

CorrectionsSpec == CorrectionsInit /\ [][CorrectionsNext]_correctionVars

-----------------------------------------------------------------------------
(***************************************************************************)
(* A manifest never runs ahead of its attempt records: where the two name   *)
(* different digests, the attempt record is the one that was corrected      *)
(* ("agreeing on a wrong number is one defect, disagreeing would be two").  *)
(***************************************************************************)
ManifestNeverLeads ==
    \A a \in Atts :
        \/ mani[InvOf[a]].digest[a] = record[a].digest
        \/ record[a].marked
        \/ {<<"record", a>>, <<"mani", InvOf[a]>>} \cap torn # {}

(***************************************************************************)
(* A run that reports success leaves everything in agreement, whatever      *)
(* earlier runs that were killed had done already: attempt records, indexes *)
(* and manifests name the bundle as the run read it - with t49, the bundle  *)
(* as it was sealed -, the claim is gone, and every row seals its manifest. *)
(***************************************************************************)
SuccessIsAgreement ==
    work.phase = "done" /\ ~work.dry =>
        /\ \A a \in Atts :
             LET d == work.read[InvOf[a]] IN
             /\ record[a].digest = d /\ mani[InvOf[a]].digest[a] = d
             /\ size[a] \in {"none", d}
             /\ script = "t49" => d = "whole"
        /\ script = "t44" => ~proms /\ \A v \in Invs : ~mani[v].claim
        /\ seals = mani
=============================================================================
