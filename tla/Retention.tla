------------------------------ MODULE Retention ------------------------------
(***************************************************************************)
(* Shrink-not-delete retention of replay bundles: retention.py `expire` and *)
(* `triage`, the part of the record builders that writes a bundle index,    *)
(* and the ways those interleave, crash and meet a damaged disk.            *)
(*                                                                          *)
(* One bundle directory serves every attempt of its invocation, so several  *)
(* indexes cite one directory.  `expire --apply` reads every index, decides *)
(* per directory, removes the files no index it read names, and then marks  *)
(* the indexes one by one.  An index file is rewritten in place: between    *)
(* the truncation and the write it cannot be parsed ("torn"), and a process *)
(* that dies there leaves it so.                                            *)
(***************************************************************************)
EXTENDS Naturals, FiniteSets

CONSTANTS
    Dir,           \* bundle directories under the campaign's storage
    Index,         \* bundle indexes, bundle-<attempt>.json
    File,          \* files of a bundle, SHA256SUMS excepted
    Sums,          \* SHA256SUMS
    Proof,         \* a file the builders cannot do without, and no index names
    Root,          \* Root[i]: the directory index i cites (root_path)
    Class,         \* Class[i]: the retention class index i is written with
    Items,         \* Items[i]: the files the items of index i name
    Protected,     \* directories under a protected prefix
    Outside,       \* directories outside the campaign's storage root
    DefaultTree,   \* indexes below the default evidence directory
    EvidenceArgs,  \* the index sets an --evidence argument can select
    Dates,         \* the days a triage --date argument can name
    Expirer,       \* processes running `retention.py expire`
    NoDay,         \* expires_on: null
    BulkDays,      \* days a passing bundle keeps its bulk
    TriageDays,    \* days a failure bundle is kept after triage
    LastDay,       \* bound: the last day of the model
    MaxCrashes,    \* bound: processes killed half-way
    MaxFaults      \* bound: files lost or altered behind the tools' back

Classes == {"success-bulky", "failure", "minimized-reproducer"}
Sealed == File \cup {Sums}

ASSUME ConstantsAssumption ==
    /\ Sums \notin File
    /\ Root \in [Index -> Dir]
    /\ Class \in [Index -> Classes]
    /\ Items \in [Index -> SUBSET File]
    /\ Proof \in File /\ \A i \in Index : Proof \notin Items[i]
    /\ Protected \subseteq Dir /\ Outside \subseteq Dir
    /\ DefaultTree \subseteq Index
    /\ EvidenceArgs \subseteq SUBSET Index
    /\ Dates \subseteq Nat
    /\ NoDay \notin Nat
    /\ BulkDays \in Nat /\ TriageDays \in Nat
    /\ LastDay \in Nat /\ MaxCrashes \in Nat /\ MaxFaults \in Nat

VARIABLES
    file,        \* file[i]: "absent", "whole", or "torn" (does not parse)
    index,       \* index[i]: the last content written to the index, whole or not
    disk,        \* disk[d]: the files present in directory d
    damaged,     \* damaged[d]: files whose content is not what was sealed
    today,       \* the calendar
    tool,        \* tool[e]: the state of expirer e
    triage,      \* the state of the `triage` command
    crashes,     \* processes killed so far
    faults,      \* files lost or altered so far
    removed,     \* history: removed[d], the files an expirer removed
    overlooked   \* history: indexes some expirer's scan did not yield

vars == <<file, index, disk, damaged, today, tool, triage, crashes, faults,
          removed, overlooked>>
store == <<disk, damaged, faults, removed>>
env == <<today, crashes>>

(***************************************************************************)
(* An index: retention.state, expires_on, whether hold_reason and           *)
(* demoted_on are set, the items marked present, and whether the attempt    *)
(* record beside it cites the digest of the SHA256SUMS that was sealed.     *)
(***************************************************************************)
Record == [state : {"full", "core-only"}, expires : Nat \cup {NoDay},
           hold : BOOLEAN, demoted : BOOLEAN, items : SUBSET File,
           citesSealed : BOOLEAN]

Blank == [state |-> "full", expires |-> NoDay, hold |-> FALSE,
          demoted |-> FALSE, items |-> {}, citesSealed |-> FALSE]

Phases == {"idle", "scan", "decide", "remove", "mark", "record"}

IdleTool == [phase |-> "idle", apply |-> FALSE, day |-> 0, asked |-> {},
             unreadable |-> {}, unread |-> {}, got |-> {},
             snap |-> [i \in Index |-> Blank], todo |-> {}, dir |-> {},
             units |-> {}, queue |-> {}, cut |-> {}]

IdleTriage == [phase |-> "idle", idx |-> {}, new |-> Blank]

-----------------------------------------------------------------------------
\* MUTANT: the builder lists every file of the bundle, SHA256SUMS too, as an item.
BlockWithSums(i, day) ==
    [state |-> "full",
     expires |-> IF Class[i] = "success-bulky" THEN day + BulkDays ELSE NoDay,
     hold |-> Class[i] # "success-bulky",
     demoted |-> FALSE,
     items |-> disk[Root[i]],
     citesSealed |-> disk[Root[i]] = Sealed /\ damaged[Root[i]] = {}]

\* What a freshly built index says about retention, by class and day written.
RetentionBlock(i, day) ==
    [state |-> "full",
     expires |-> IF Class[i] = "success-bulky" THEN day + BulkDays ELSE NoDay,
     hold |-> Class[i] # "success-bulky",
     demoted |-> FALSE,
     items |-> Items[i] \cap disk[Root[i]],
     citesSealed |-> disk[Root[i]] = Sealed /\ damaged[Root[i]] = {}]

CoreOnly(r) == r.state = "core-only"

\* MUTANT: a triaged failure past its day is taken for an expired passing bundle.
EligibleAnyClass(i, r, day) ==
    ~CoreOnly(r) /\ ~r.hold /\ r.expires # NoDay /\ r.expires < day

Eligible(i, r, day) ==
    /\ ~CoreOnly(r)
    /\ Class[i] = "success-bulky"
    /\ ~r.hold
    /\ r.expires # NoDay /\ r.expires < day

\* MUTANT: a sibling already demoted keeps the rest of the directory from being finished.
BlockedUnlessEligible(i, r, day) == ~Eligible(i, r, day)

Blocked(i, r, day) == ~CoreOnly(r) /\ ~Eligible(i, r, day)

\* The indexes expirer e read that cite directory d, and those of them that expired.
Citing(e, d) == {i \in tool[e].got : Root[i] = d}
EligibleCiting(e, d) ==
    {i \in Citing(e, d) : Eligible(i, tool[e].snap[i], tool[e].day)}

\* MUTANT: only the indexes that expire now have a say in what is kept.
CorePathsOfEligible(e, d) ==
    {Sums} \cup UNION {tool[e].snap[i].items : i \in EligibleCiting(e, d)}

\* The union of what every citing index names.
CorePaths(e, d) == {Sums} \cup UNION {tool[e].snap[i].items : i \in Citing(e, d)}

\* MUTANT: an expired index is enough, whoever else cites the directory.
CandidateDespiteBlocker(e, d) ==
    EligibleCiting(e, d) \cap tool[e].asked # {} /\ d \notin Protected \cup Outside

\* Every citing index has a say; one that blocks keeps the whole directory.
Candidate(e, d) ==
    /\ EligibleCiting(e, d) \cap tool[e].asked # {}
    /\ d \notin Protected
    /\ \A i \in Citing(e, d) : ~Blocked(i, tool[e].snap[i], tool[e].day)
    /\ d \notin Outside

\* MUTANT: any sealed file gone, bulk included, counts as a core that cannot be kept.
CoreMissingIfShrunk(e, d) == ~(Sealed \subseteq disk[d])

\* core_check: the root, SHA256SUMS or an enumerated item is gone ...
CoreMissing(e, d) == ~(CorePaths(e, d) \subseteq disk[d])
\* ... or all are there and one does not hash as the records say.
CoreRefused(e, d) ==
    \/ damaged[d] \cap CorePaths(e, d) # {}
    \/ \E i \in Citing(e, d) : ~tool[e].snap[i].citesSealed

\* MUTANT: everything but SHA256SUMS is planned for removal.
PlanAllButSums(e, d) == disk[d] \ {Sums}

RemovalPlan(e, d) == disk[d] \ CorePaths(e, d)

-----------------------------------------------------------------------------
Init ==
    /\ file = [i \in Index |-> "absent"]
    /\ index = [i \in Index |-> Blank]
    /\ disk = [d \in Dir |-> Sealed]
    /\ damaged = [d \in Dir |-> {}]
    /\ today = 0
    /\ tool = [e \in Expirer |-> IdleTool]
    /\ triage = IdleTriage
    /\ crashes = 0
    /\ faults = 0
    /\ removed = [d \in Dir |-> {}]
    /\ overlooked = {}

(***************************************************************************)
(* The record builders.  A builder writes the attempt record and then the   *)
(* index; killed while writing, it leaves the index torn.  It also runs     *)
(* read-only over a retained bundle, as long as its proof source (the SQL   *)
(* timing.txt, the shell test_status.data) is there, and refuses without.   *)
(***************************************************************************)
BuildIndex(i) ==
    /\ file[i] = "absent" /\ Proof \in disk[Root[i]]
    /\ index' = [index EXCEPT ![i] = RetentionBlock(i, today)]
    /\ \/ file' = [file EXCEPT ![i] = "whole"] /\ UNCHANGED crashes
       \/ /\ crashes < MaxCrashes
          /\ file' = [file EXCEPT ![i] = "torn"] /\ crashes' = crashes + 1
    /\ UNCHANGED <<today, tool, triage, overlooked, store>>

\* A torn index is put back by hand from its last committed content.
Repair(i) ==
    /\ file[i] = "torn"
    /\ i \notin triage.idx /\ \A e \in Expirer : i \notin tool[e].cut
    /\ file' = [file EXCEPT ![i] = "whole"]
    /\ UNCHANGED <<index, tool, triage, overlooked, store, env>>

-----------------------------------------------------------------------------
(***************************************************************************)
(* expire: two scans of the evidence tree.  The first yields the indexes    *)
(* asked for and reports those that do not parse; the second reads the      *)
(* indexes of the asked and the default trees and skips in silence what     *)
(* does not parse.                                                          *)
(***************************************************************************)
Start(e, apply, arg) ==
    /\ tool[e].phase = "idle"
    /\ tool' = [tool EXCEPT ![e] =
         [IdleTool EXCEPT !.phase = "scan", !.apply = apply, !.day = today,
            !.asked = {i \in arg : file[i] = "whole"},
            !.unreadable = {i \in arg : file[i] = "torn"},
            !.unread = arg \cup DefaultTree]]
    /\ overlooked' = overlooked \cup (Index \ (arg \cup DefaultTree))
    /\ UNCHANGED <<file, index, triage, store, env>>

Read(e, i) ==
    /\ tool[e].phase = "scan" /\ i \in tool[e].unread
    /\ IF file[i] = "whole"
       THEN /\ tool' = [tool EXCEPT ![e].unread = @ \ {i},
                                    ![e].got = @ \cup {i},
                                    ![e].snap[i] = index[i]]
            /\ UNCHANGED overlooked
       ELSE /\ tool' = [tool EXCEPT ![e].unread = @ \ {i}]
            /\ overlooked' = overlooked \cup {i}
    /\ UNCHANGED <<file, index, triage, store, env>>

ScanDone(e) ==
    /\ tool[e].phase = "scan" /\ tool[e].unread = {}
    /\ tool' = [tool EXCEPT ![e].phase = "decide",
                            ![e].todo = {Root[i] : i \in tool[e].got}]
    /\ UNCHANGED <<file, index, triage, overlooked, store, env>>

\* Nothing expired here, protected, shared with a blocker, outside, refused, or a dry run.
PassOver(e, d) ==
    /\ tool[e].phase = "decide" /\ d \in tool[e].todo
    /\ \/ ~Candidate(e, d)
       \/ ~CoreMissing(e, d) /\ CoreRefused(e, d)
       \/ ~tool[e].apply
    /\ tool' = [tool EXCEPT ![e].todo = @ \ {d}]
    /\ UNCHANGED <<file, index, triage, overlooked, store, env>>

\* The core cannot be kept: every eligible index is to be recorded expired-by-policy.
CannotKeep(e, d) ==
    /\ tool[e].phase = "decide" /\ d \in tool[e].todo /\ tool[e].apply
    /\ Candidate(e, d) /\ CoreMissing(e, d)
    /\ tool' = [tool EXCEPT ![e].phase = "record", ![e].dir = {d},
                            ![e].queue = EligibleCiting(e, d)]
    /\ UNCHANGED <<file, index, triage, overlooked, store, env>>

\* MUTANT: the indexes are marked before the files are removed.
MarkBeforeRemoval(e, d) ==
    /\ tool[e].phase = "decide" /\ d \in tool[e].todo /\ tool[e].apply
    /\ Candidate(e, d) /\ ~CoreMissing(e, d) /\ ~CoreRefused(e, d)
    /\ tool' = [tool EXCEPT ![e].phase = "mark", ![e].dir = {d},
                            ![e].queue = EligibleCiting(e, d)]
    /\ UNCHANGED <<file, index, triage, overlooked, store, env>>

\* The core is there as recorded: plan the removal and hash SHA256SUMS.
Demote(e, d) ==
    /\ tool[e].phase = "decide" /\ d \in tool[e].todo /\ tool[e].apply
    /\ Candidate(e, d) /\ ~CoreMissing(e, d) /\ ~CoreRefused(e, d)
    /\ tool' = [tool EXCEPT ![e].phase = "remove", ![e].dir = {d},
                            ![e].units = RemovalPlan(e, d)]
    /\ UNCHANGED <<file, index, triage, overlooked, store, env>>

\* One file of the plan goes.  A file already gone ends the process (FileNotFoundError).
RemoveUnit(e, f) ==
    /\ tool[e].phase = "remove" /\ f \in tool[e].units
    /\ \E d \in tool[e].dir :
         IF f \in disk[d]
         THEN /\ disk' = [disk EXCEPT ![d] = @ \ {f}]
              /\ removed' = [removed EXCEPT ![d] = @ \cup {f}]
              /\ tool' = [tool EXCEPT ![e].units = @ \ {f}]
         ELSE /\ tool' = [tool EXCEPT ![e] = IdleTool]
              /\ UNCHANGED <<disk, removed>>
    /\ UNCHANGED <<file, index, triage, overlooked, damaged, faults, env>>

\* SHA256SUMS is hashed again; if it changed or is gone the process ends here.
Removed(e) ==
    /\ tool[e].phase = "remove" /\ tool[e].units = {}
    /\ \E d \in tool[e].dir :
         IF Sums \in disk[d] /\ Sums \notin damaged[d]
         THEN tool' = [tool EXCEPT ![e].phase = "mark",
                                   ![e].queue = EligibleCiting(e, d)]
         ELSE tool' = [tool EXCEPT ![e] = IdleTool]
    /\ UNCHANGED <<file, index, triage, overlooked, store, env>>

\* Rewriting an index in place, first half: open for writing truncates it.
Truncate(e, i) ==
    /\ tool[e].phase \in {"mark", "record"}
    /\ tool[e].cut = {} /\ i \in tool[e].queue
    /\ file' = [file EXCEPT ![i] = "torn"]
    /\ tool' = [tool EXCEPT ![e].cut = {i}]
    /\ UNCHANGED <<index, triage, overlooked, store, env>>

\* Second half: what is written is the record as read in the scan, updated.
WriteBack(e, i) ==
    /\ tool[e].phase \in {"mark", "record"} /\ i \in tool[e].cut
    /\ index' = [index EXCEPT ![i] =
         IF tool[e].phase = "mark"
         THEN [tool[e].snap[i] EXCEPT !.state = "core-only", !.demoted = TRUE]
         ELSE [tool[e].snap[i] EXCEPT !.hold = TRUE, !.demoted = TRUE]]
    /\ file' = [file EXCEPT ![i] = "whole"]
    /\ tool' = [tool EXCEPT ![e].cut = {}, ![e].queue = @ \ {i}]
    /\ UNCHANGED <<triage, overlooked, store, env>>

NextDir(e) ==
    /\ tool[e].phase \in {"mark", "record"}
    /\ tool[e].queue = {} /\ tool[e].cut = {}
    /\ tool' = [tool EXCEPT ![e].phase = "decide", ![e].todo = @ \ tool[e].dir,
                            ![e].dir = {}]
    /\ UNCHANGED <<file, index, triage, overlooked, store, env>>

Finish(e) ==
    /\ tool[e].phase = "decide" /\ tool[e].todo = {}
    /\ tool' = [tool EXCEPT ![e] = IdleTool]
    /\ UNCHANGED <<file, index, triage, overlooked, store, env>>

Crash(e) ==
    /\ tool[e].phase # "idle" /\ crashes < MaxCrashes
    /\ tool' = [tool EXCEPT ![e] = IdleTool]
    /\ crashes' = crashes + 1
    /\ UNCHANGED <<file, index, triage, overlooked, today, store>>

-----------------------------------------------------------------------------
\* triage --date DAY [--hold TEXT]: failure bundles only; the day is the caller's word.
TriageLoad(i, date, hold) ==
    /\ triage.phase = "idle"
    /\ file[i] = "whole" /\ Class[i] = "failure"
    /\ triage' = [phase |-> "loaded", idx |-> {i},
                  new |-> [index[i] EXCEPT !.expires = date + TriageDays,
                                           !.hold = hold]]
    /\ UNCHANGED <<file, index, tool, overlooked, store, env>>

TriageTruncate ==
    /\ triage.phase = "loaded"
    /\ file' = [i \in Index |-> IF i \in triage.idx THEN "torn" ELSE file[i]]
    /\ triage' = [triage EXCEPT !.phase = "cut"]
    /\ UNCHANGED <<index, tool, overlooked, store, env>>

TriageWrite ==
    /\ triage.phase = "cut"
    /\ file' = [i \in Index |-> IF i \in triage.idx THEN "whole" ELSE file[i]]
    /\ index' = [i \in Index |-> IF i \in triage.idx THEN triage.new ELSE index[i]]
    /\ triage' = IdleTriage
    /\ UNCHANGED <<tool, overlooked, store, env>>

TriageCrash ==
    /\ triage.phase # "idle" /\ crashes < MaxCrashes
    /\ triage' = IdleTriage
    /\ crashes' = crashes + 1
    /\ UNCHANGED <<file, index, tool, overlooked, today, store>>

-----------------------------------------------------------------------------
\* The environment: a file is lost or altered, a day passes.
Lose(d, f) ==
    /\ faults < MaxFaults /\ f \in disk[d]
    /\ disk' = [disk EXCEPT ![d] = @ \ {f}]
    /\ faults' = faults + 1
    /\ UNCHANGED <<file, index, damaged, tool, triage, removed, overlooked, env>>

Alter(d, f) ==
    /\ faults < MaxFaults /\ f \in disk[d]
    /\ damaged' = [damaged EXCEPT ![d] = @ \cup {f}]
    /\ faults' = faults + 1
    /\ UNCHANGED <<file, index, disk, tool, triage, removed, overlooked, env>>

Tick ==
    /\ today < LastDay
    /\ today' = today + 1
    /\ UNCHANGED <<file, index, tool, triage, crashes, overlooked, store>>

-----------------------------------------------------------------------------
ExpireStep(e) ==
    \/ \E i \in Index : Read(e, i) \/ Truncate(e, i) \/ WriteBack(e, i)
    \/ \E d \in Dir : PassOver(e, d) \/ CannotKeep(e, d) \/ Demote(e, d)
    \/ \E f \in File : RemoveUnit(e, f)
    \/ ScanDone(e) \/ Removed(e) \/ NextDir(e) \/ Finish(e)

Next ==
    \/ \E i \in Index : BuildIndex(i) \/ Repair(i)
    \/ \E i \in Index, date \in Dates, hold \in BOOLEAN : TriageLoad(i, date, hold)
    \/ TriageTruncate \/ TriageWrite \/ TriageCrash
    \/ \E e \in Expirer :
         \/ \E apply \in BOOLEAN, arg \in EvidenceArgs : Start(e, apply, arg)
         \/ ExpireStep(e)
         \/ Crash(e)
    \/ \E d \in Dir, f \in Sealed : Lose(d, f) \/ Alter(d, f)
    \/ Tick

Spec == Init /\ [][Next]_vars

(***************************************************************************)
(* Fairness: the builders finish, a torn index is repaired, a started       *)
(* command runs on, days pass, and the operator keeps coming back to        *)
(* `expire --apply` over the whole tree (the retention rule is a duty that  *)
(* falls due, and the tool is its only means).  Crashes and faults are      *)
(* bounded, never fair.                                                     *)
(***************************************************************************)
Fairness ==
    /\ \A i \in Index : WF_vars(BuildIndex(i)) /\ WF_vars(Repair(i))
    /\ WF_vars(TriageTruncate) /\ WF_vars(TriageWrite)
    /\ \A e \in Expirer : WF_vars(ExpireStep(e)) /\ SF_vars(Start(e, TRUE, Index))
    /\ WF_vars(Tick)

FairSpec == Spec /\ Fairness

-----------------------------------------------------------------------------
ToolState ==
    [phase : Phases, apply : BOOLEAN, day : Nat, asked : SUBSET Index,
     unreadable : SUBSET Index, unread : SUBSET Index, got : SUBSET Index,
     snap : [Index -> Record], todo : SUBSET Dir, dir : SUBSET Dir,
     units : SUBSET Sealed, queue : SUBSET Index, cut : SUBSET Index]

\* Every variable holds a value of its kind.
TypeOK ==
    /\ file \in [Index -> {"absent", "whole", "torn"}]
    /\ index \in [Index -> Record]
    /\ disk \in [Dir -> SUBSET Sealed]
    /\ damaged \in [Dir -> SUBSET Sealed]
    /\ today \in Nat /\ crashes \in Nat /\ faults \in Nat
    /\ tool \in [Expirer -> ToolState]
    /\ triage \in [phase : {"idle", "loaded", "cut"}, idx : SUBSET Index, new : Record]
    /\ removed \in [Dir -> SUBSET Sealed]
    /\ overlooked \subseteq Index

\* An index a scan could count on: it was there and it parsed whenever an expirer read the tree.
Counted(i) == file[i] # "absent" /\ i \notin overlooked

(***************************************************************************)
(* No expirer removes SHA256SUMS or a file that an index it could read      *)
(* names, whoever else shares the directory, whatever crashed before and    *)
(* however many expirers run.                                               *)
(***************************************************************************)
NamedKept ==
    \A i \in Index : Counted(i) =>
        removed[Root[i]] \cap (index[i].items \cup {Sums}) = {}

(***************************************************************************)
(* A directory loses a file to an expirer only when every index citing it   *)
(* that a scan could read is an expired passing bundle: a failure, held or  *)
(* unexpired sibling, or a protected prefix, keeps the directory whole.     *)
(***************************************************************************)
LeftWhole ==
    \A d \in Dir : removed[d] # {} =>
        /\ d \notin Protected \cup Outside
        /\ \A i \in Index : Counted(i) /\ Root[i] = d =>
             /\ Class[i] = "success-bulky"
             /\ index[i].expires # NoDay /\ index[i].expires < today

(***************************************************************************)
(* An index says core-only only when the bulk is really gone: what is left  *)
(* in its directory is SHA256SUMS and files some index names.  A crash      *)
(* between the removal and the marks never leaves a mark without removal.   *)
(***************************************************************************)
CoreOnlyIsShrunk ==
    \A i \in Index : CoreOnly(index[i]) =>
        disk[Root[i]] \subseteq
            {Sums} \cup UNION {index[j].items : j \in {k \in Index : Root[k] = Root[i]}}

\* Something index j names, or SHA256SUMS, is gone from its directory.
Short(j) == ~(index[j].items \cup {Sums} \subseteq disk[Root[j]])

(***************************************************************************)
(* A demoted index reads full again only where the core of its directory is *)
(* no longer whole, and that takes a file lost behind the tools' back or an *)
(* index that some scan overlooked: then an expirer that read the index     *)
(* before another one demoted it finds the core missing, and writes its     *)
(* stale record back as expired-by-policy.  A directory that was merely     *)
(* shrunk in the meantime brings no stale record back.                      *)
(***************************************************************************)
DemotionStands ==
    [][\A i \in Index : CoreOnly(index[i]) /\ ~CoreOnly(index'[i]) =>
          \E j \in Index : /\ Root[j] = Root[i] /\ Short(j)
                           /\ faults > 0 \/ j \in overlooked]_vars

(***************************************************************************)
(* What triage recorded in a failure bundle stands until triage records     *)
(* something else: an expirer that read the index before, and has indexes   *)
(* of the same directory to mark, neither writes the untriaged record back  *)
(* nor demotes the bundle once its day is past.                             *)
(***************************************************************************)
TriageSticks ==
    [][\A i \in Index : Class[i] = "failure" /\ index[i].expires # NoDay =>
          /\ ~CoreOnly(index'[i]) /\ index'[i].expires # NoDay
          /\ index'[i] = index[i] \/ (triage.phase = "cut" /\ i \in triage.idx)]_vars

(***************************************************************************)
(* A directory an expirer began to shrink, every index of which it had      *)
(* read, ends with every one of them readable and carrying demoted_on,      *)
(* although expirers may be killed between the removal and any of the       *)
(* marks.  (An index built read-only while the removal was under way was    *)
(* not read: its attempt record cites what was left, and is refused.)       *)
(***************************************************************************)
MarkingFinishes ==
    \A d \in Dir :
        (removed[d] # {} /\ \A i \in Index : Root[i] = d => Counted(i))
            ~> \A i \in Index : Root[i] = d => file[i] = "whole" /\ index[i].demoted

(***************************************************************************)
(* What the tool prints of an index that does not parse: "nothing can be    *)
(* recorded in it and its bundle is not touched".                           *)
(***************************************************************************)
UnreadableUntouched ==
    \A e \in Expirer : tool[e].phase = "remove" =>
        \A i \in tool[e].unreadable : Root[i] \notin tool[e].dir
-----------------------------------------------------------------------------
(***************************************************************************)
(* Why the safety properties hold: the inductive invariant.                 *)
(***************************************************************************)
Expired(i) ==
    Class[i] = "success-bulky" /\ index[i].expires # NoDay /\ index[i].expires < today

\* A scan has read, has still to read, or has overlooked every index.
ScanCovers(e) ==
    tool[e].phase # "idle" =>
        /\ Index \subseteq tool[e].got \cup tool[e].unread \cup overlooked
        /\ tool[e].phase # "scan" => tool[e].unread = {}

\* What an expirer holds of an index may be stale, but not in the parts it decides by.
SnapFaithful(e) ==
    \A i \in tool[e].got :
        /\ file[i] # "absent"
        /\ tool[e].snap[i].items = index[i].items
        /\ Class[i] = "success-bulky" => tool[e].snap[i].expires = index[i].expires
        /\ CoreOnly(tool[e].snap[i]) => Expired(i)

\* The directory an expirer is at work on was released by every index it read.
Released(e, d) ==
    /\ d \notin Protected \cup Outside
    /\ \A i \in Citing(e, d) : ~Blocked(i, tool[e].snap[i], tool[e].day)

\* One directory at a time, and what is to be removed and marked belongs to it.
WorkSound(e) ==
    /\ tool[e].day <= today
    /\ \A c, d \in tool[e].dir : c = d
    /\ \A d \in tool[e].dir : Released(e, d)
    /\ \A i \in tool[e].queue \cup tool[e].cut :
         /\ i \in tool[e].got /\ Root[i] \in tool[e].dir
         /\ Eligible(i, tool[e].snap[i], tool[e].day)
    /\ tool[e].phase = "remove" => \A d \in tool[e].dir :
         /\ tool[e].units \cap CorePaths(e, d) = {}
         /\ disk[d] \subseteq CorePaths(e, d) \cup tool[e].units
    /\ tool[e].phase = "mark" => \A d \in tool[e].dir : disk[d] \subseteq CorePaths(e, d)
    /\ tool[e].phase \in {"idle", "scan", "decide"} =>
         tool[e].dir = {} /\ tool[e].queue = {} /\ tool[e].cut = {}

ExpirerSound(e) == ScanCovers(e) /\ SnapFaithful(e) /\ WorkSound(e)

\* What was removed was bulk of a directory every scanned index had released.
RemovalSound ==
    \A d \in Dir :
        /\ Sums \notin removed[d] /\ removed[d] \cap disk[d] = {}
        /\ removed[d] # {} =>
             /\ d \notin Protected \cup Outside
             /\ \A i \in Index : Root[i] = d /\ i \notin overlooked =>
                  file[i] # "absent" /\ Expired(i)

IndexSound ==
    \A i \in Index :
        /\ file[i] = "absent" => index[i] = Blank
        /\ CoreOnly(index[i]) => Expired(i)

TriageSound ==
    /\ triage.phase = "idle" => triage.idx = {}
    /\ \A i \in triage.idx :
         /\ Class[i] = "failure" /\ file[i] # "absent"
         /\ triage.new.items = index[i].items /\ ~CoreOnly(triage.new)
         /\ triage.new.expires # NoDay

(***************************************************************************)
(* The inductive invariant: an expirer acts on a stale reading of the       *)
(* indexes, but on one that agrees with them where it matters, and covers   *)
(* every index it does not overlook.                                        *)
(***************************************************************************)
IndInv ==
    /\ TypeOK
    /\ \A e \in Expirer : ExpirerSound(e)
    /\ RemovalSound /\ IndexSound /\ TriageSound
    /\ NamedKept /\ CoreOnlyIsShrunk
=============================================================================
