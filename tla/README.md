# A TLA+ development for the campaign tooling

The repository is a working notebook about the CUBRID database engine: some 5900 files, most of them
reports, captured logs and JSON evidence. One coherent program lives in it, the tooling of the
CBRD-26659 test campaign under `src/cbrd-26659/campaign/tools/` (about 6400 lines of Python and 1400 of
shell). It runs test cases through CUBRID's test driver CTP on a pinned installation, seals what they
left in *replay bundles*, writes the schema-checked JSON records about them, merges those into one
coverage matrix, and shrinks the bundles by a retention policy. Around it stand some 150 scripts that
were written for one ticket each. This directory models the program and those of the scripts that have
state, an algorithm or a concurrency of their own.

Contents: [inventory](#1-inventory) · [plan](#2-plan) · [modules](#3-modules-and-the-code) ·
[runs](#4-what-each-run-checks) · [fairness](#5-fairness) · [proofs](#6-what-is-proved) ·
[disagreements found](#7-where-code-and-documentation-disagree) · [limits](#8-what-is-not-modelled-and-why)

## 1. Inventory

Paths are below `src/cbrd-26659/campaign/tools/` unless they begin with `src/` or `evidence/`
(`src/cbrd-26659/campaign/evidence/`).

| component | state it keeps | operations | what is hard | what makes it correct |
|---|---|---|---|---|
| **retention tool** `retention.py` | bundle directories under the storage root; `bundle-*.json` indexes in the evidence tree | `expire [--apply]`, `triage`, `admit`, `status` | one directory serves several indexes; indexes are read, decided upon and rewritten much later; in-place rewrites tear; kills between removal and marks | nothing an index names is ever removed; a blocker keeps a whole directory; a mark follows the removal; interrupted work is finished |
| **coverage matrix merge** `matrix_merge.py` | `coverage-matrix.json`: rows with their attempt histories, `withdrawn_claims` | merge a set of manifests | manifests arrive out of order, again, corrected, at once, and between edits by hand | a row says what its history says; "none" is earned; nothing is erased; a human's word stands; merging again changes nothing and mends what was lost |
| **CTP wrappers** `run_ctp_sql.sh`, `run_ctp_shell.sh`, `campaign_env.sh` | the pinned install, CTP's worktree and shared logs, ports, bundle directories | check, admit, back up, launch under a cap, collect, check activation, restore, record | everything is global and shared; no trap restores after a kill; leftovers of an earlier run look like this run's results | what is recorded is this run's; install and worktree are left as found; storage stays below its limit |
| **record builders** `campaign_records.py`, `record_builders.py`, `ctp_sql_records.py`, `ctp_shell_records.py` | attempt records, indexes and the manifest in the evidence directory; SHA256SUMS in the bundle | outcome of a case, seal once, write in order, regenerate read-only | records written one after another; a kill in between; regeneration over a shrunk bundle | outcome rules are total and honest; a seal is never redone; no record without its bundle |
| **schema validator** `minischema.py` | none | validate a value | recursion over JSON, `$ref` | agrees with the schemas' meaning |
| **record checks** `validate_records.py`, `check_campaign_records.py`, `compare_records.py`, `render_docs.py` | none | rules beyond the schemas, cross-check with bundles, completeness, tables | records are judged by ids and digests alone | what is accepted is consistent; nobody is excused by another's exclusion |
| **activation checkers** `activation_check_cs.sh`, `activation_check_spec.sh` | a server under test | prove that a feature was active | external server | a verdict only from what was read |
| **tier placement and configuration domain** `tier_placement.py`, `config_domain.py`, `config_domain_cell.py`, `config_domain_probe.sh` | none | place cases in tiers by measured cost; validate configurations | boundaries, rounding, absent measurements | a placement keeps its tier's caps |
| **measurement tools** `resource_sampler.py`, `extract_ctp_timings.py`, `seed_cost_probe.py`, `barrier_cost_probe.sh` | samples | sample `/proc` while a command runs; time runs | processes come, go and change parents during a sample | figures are honest lower bounds |
| **self-tests** `selftest_*.py` | fixtures | - | - | statements of what the tools promise |
| **one-off campaign scripts** `evidence/ticket*/` and `src/cbrd-26659/campaign/ticket11-evidence/` | the matrix, records and manifests they correct; the engine's sources, servers, configuration and logs they drive | scope and seed matrices; correct records; patch fault-injection sites into the engine and run them; derive the sizes of test fixtures | meant to be run again after a kill, beside edits by hand; threads at one injection site; logs that outlive runs; size bands and ties | a run that succeeds leaves all in agreement; an edit is applied once; an acknowledgement proves what fired; a claimed size holds |
| **scripts of other tickets** `src/CBRD-*`, `src/cbrd-*` | result files of rounds | reproductions, verifications, replays | rounds resumed after failures and kills over tables nobody resets | a completed round is whole and undisturbed |
| **models and notes about the engine** | - | an explorer of the sweep's lap counter; drivers of the authors' own models; reports | the engine is not in the repository | no empty page is stranded |

How they interact: a wrapper asks `retention.py admit` for room, runs CTP, and calls a record builder on
the bundle directory it made; the builder writes the records and the index and seals the directory; the
matrix merge reads manifests; the scoping scripts and people edit the matrix between merges; the
correction scripts rewrite records, manifests and the seals of the rows; `validate_records.py` and
`check_campaign_records.py` judge what all of them wrote; `retention.py expire` and `triage` read and
rewrite indexes and remove files of the sealed directories. There is no server, no lock and no database:
every interaction is through files, and the concurrency is that of commands started by people and by
schedulers. That is why the interesting failures are interleaved commands, killed commands and stale
readings. The exceptions are the processes the sampler watches and the engine threads that meet at an
injection site.

`PROJECT.json` lists the hazards of this code at their lines, those no property covers with the reason.

## 2. Plan

In the order of importance:

1. `Retention` (**done**, with proofs): the only tool that destroys data. The abstract promise is
   "nothing named is lost, whole directories are kept by any blocker".
2. `MatrixMerge` (**done**, with proofs): the campaign's result; its history is merged out of order and by merges at
   once. The load and the write of a merge apart are part of it (planned as a module of its own first).
3. `CtpRun` (**done**, with proofs): the wrappers on the shared install.
4. `BundleRecords` (**done**, with proofs): the builders of both runners.
5. `BundleStore` (**done**, with proof): the retention policy as an abstract specification, which
   `Retention` implements.
6. Algorithms as operators: `TierPlacement`, `ResourceSampler`, `RecordLayout`, `FixtureSizes`,
   `RecordRules`, `RecordChecks` (**done**); the configuration domain and the schema validator are left
   out (section 8).
7. The scripts with state of their own: `MatrixScoping`, `RecordCorrections`, `PatchRun`,
   `InjectionRun`, `ReviewRun`, `SweepLap` (**done**).
8. Left: a composition of wrapper, builder and retention tool over one evidence tree (there the hazard
   of a builder killed between the index of a passing attempt and that of its failing sibling would have
   its property).

The theorems stand in eight modules: `RetentionProofs` for the retention tool, `MatrixProofs` for the merge
and its scripts, `CtpRunProofs` for the wrappers, `BundleRecordsProofs` for the builders, `InjectionProofs`
for the fault injection, `MeasureProofs` for the sampler and the review run, `ScriptProofs` for the other
scripts, and `NumberProofs` for the induction all of them need: up to a number, and the existence of what is
computed in n stages.

Modules that hold theorems, and those they use, contain no RECURSIVE operator. What the code computes in
a loop is a recursive function there, or, where the order does not matter, a set.

## 3. Modules and the code

### Retention (`Retention.tla`, `MCRetention.tla`)

State: `file` and `index` are the index files - whether each is absent, whole, or *torn* (truncated
and not yet written, or left so by a kill), and the content last written; `disk` and `damaged` are the
bundle directories, SHA256SUMS among their files; `tool[e]` is one running `expire` command with
everything it holds in local variables; `triage` is the running `triage` command; `today` is the date.
`removed` and `overlooked` are history variables: what expirers removed, and which indexes some
scan did not yield because they did not parse or lay outside the trees it reads.

| actions | code |
|---|---|
| `BuildIndex` | a builder writes an index (`campaign_records.retention_block`, `write_record`), the only thing of the builders this module needs; it refuses when its proof source (`Proof`: `timing.txt`, `test_status.data`, which no index names) has been removed |
| `Start`, `Read`, `ScanDone` | `cmd_expire`'s two scans: the first over `--evidence` reports what does not parse, the second also reads the default tree and skips in silence |
| `PassOver`, `CannotKeep`, `Demote` | the decision per directory: eligible, blocked, protected, outside, `core_check` |
| `RemoveUnit`, `Removed` | `demote`: unlink file by file, hash SHA256SUMS before and after |
| `Truncate`, `WriteBack`, `NextDir`, `Finish` | the marks, one index at a time, each `write_text` in its two halves, written from the record *as read in the scan* |
| `TriageLoad`, `TriageTruncate`, `TriageWrite` | `triage --date [--hold]`, failure bundles only |
| `Crash`, `TriageCrash`, `Repair` | a kill at any point; the index left torn is put back by hand |
| `Lose`, `Alter`, `Tick` | the disk and the calendar |

A file stands for a file of the bundle, a digest for "as sealed or not"; days are naturals and an
expiry a day. `RemoveUnit` takes files in any order where the code sorts them: any prefix of any order
may be what a kill leaves. The two processes a person may run at once are represented by several expirers
and one triage; two triage commands at once are not modelled (the last write wins, and nothing in the code
says otherwise).

### BundleStore and RetentionStore

`BundleStore` is the retention policy without its commands: directories that hold files (`held`, `shed`),
indexes that cite a directory and claim files of it (`cited`, `claim`), that let go of the bulk
(`released`), say that only the core is left (`core`), or that nobody can vouch for having read
(`unseen`). A file is shed one at a time, when every index that counts has let go and none claims it; an
index says core-only when nothing but claimed files and the seal is left.

`RetentionStore` maps `Retention` to it: the disk and the indexes as they are, `released` by the class
and the day of an index, `unseen` by `overlooked`. `PolicyKept` says that every behaviour of `Retention`
is one of the policy. The locals of the running commands have no counterpart: reading, deciding,
truncating and being killed are stutters.

### MatrixMerge (`MatrixMerge.tla`, `MCMatrixMerge.tla`)

State: `rows` by requirement, case and configuration; `withdrawn` and `claimRows`, what humans took
out; `merged`, `handGap` (the gap kind last set in a row by no merge) and `adopted` (the rows to which another
matrix's scope brought a "none") are history. `Merge(ms)` is one invocation over a set of manifests in the
order of their paths: the whole of `apply_attempt` for every attempt, with the refusals that write
nothing. `HandEdit` is what the matrix's owners may write between merges. A manifest is a sequence of attempts
with outcome, evidence and time.

The code loads the matrix once and writes it whole once. `Merge(ms)` is the invocation nobody overtakes;
`LoadMatrix(ms)` and `WriteMatrix` are the halves of one that others may overtake: `slow` holds what it
loaded and `reported` the manifests any merge has reported as merged, `merged` those the file still
accounts for. What an overtaken merge writes loses what came in between, and `LostIsMended` says what
merging again makes of that; edits by hand it loses come back by no merge. `merged` belongs to the file and falls back with it; `handGap` and `adopted` remember
what was set, also when a write has just lost it. Manifests are numbered in the order of their paths; what a merge makes of the
file is computed by stages, `AfterEntries` (one attempt after the other) within `AfterManifests`.

### RecordRules, RecordChecks

`RecordRules` has two of the rules of `validate_records.py` that go beyond the schemas: that of a matrix
row (`RowSound`) and the cross-check of records with the bundles they cite (`CrossChecked`).
`MatrixMerge` and `RecordCorrections` state what they wrote in these terms: the tool that writes and the
tool that judges are translated from different files, so their agreement says something of both.
`RecordChecks` is `check_matrix_completeness` of `check_campaign_records.py`, over records given together
with the attempt each of them is really about, which the check cannot see.

### CtpRun (`CtpRun.tla`, `MCCtpRun.tla`)

State: `run[v]` is where one wrapper invocation stands and what it holds (its backup, the `.result` it
put aside, the exit status it saw, what it collected); `install` is what the pinned install holds under
`conf` and `databases`; `result` and `logs` are whose `.result` lies in the worktree and whose case CTP's
shared runtime logs report; `ports` is who listens; `bundles`, `used`, `attempts` and `manifests` are
the files of the campaign. `found` is history.

One action per step of the scripts, in their order: `Preflight` (port check), `Admit`, `Claim`,
`Backup`, `Launch`, CTP's own steps `CtpDispatches`, `CtpRunsCase`, `CtpReports`, `LauncherEnds` (by
itself, failing, at the cap by the first signal with exit status 124, or by the second with 137),
`Collect`, `Activate`, `ActivationEnds`, the three commands of the restoration `Empty`, `RestoreConf`,
`RestoreDatabases`, and `Records`. `Kill` may end a wrapper anywhere. CTP itself is not in the
repository's tools: its steps are modelled from what the scripts and the builders expect of it.

Abstractions: an invocation runs one case; hashing and copying the backup is one step; a file's content
is whose it is (`result`) or pristine/changed/gone (`install`); a killed wrapper takes its process
namespace with it, so no launcher lingers; the test of the bundle directory and its `mkdir` are one
step; the shell wrapper's redirected HOME is left out.

### BundleRecords (`BundleRecords.tla`, `MCBundleRecords.tla`)

State: `inv` is what one invocation left for the builder to read - the runner, the kind of its attempts,
whether anything but a case gives a mismatch (`clean`), and per declared case what CTP and the case
itself say; `compared` and `sums` are the files the builder writes into the bundle (a comparison file per
case, SHA256SUMS); `manifest`, `attempt` and `index` are the records in the evidence directory; `build` is
the running builder with its locals. Every file is absent, torn or has a content.

The outcome rules are operators on one case (`SqlOutcome`, `SqlEvidence`; `Stated`, `Compared`,
`ShellOutcome`, `ShellEvidence`), in the order in which the code lets a later rule take an earlier one's
result away. `Start`, `PassOverCase`, `RefuseCase`, `BuildCase`, `Seal`, `WriteRecord`, `Finish` are the
steps of `build` in both builders; `Kill` ends one anywhere and may leave the file it was writing torn.

Abstractions: a digest is the listing of the comparison files (what else is in the bundle does not change
while a builder runs); the only schema rule that an outcome can break is the one on reached deadlines
(`Valid`); one mismatch is as good as another. The checks before the first case refuse with nothing
written and are left out, as are the logs copied beside the records and answer promotions. `--read-only` may
be given at any time: the code does not ask whether the bundle is sealed.

### The desk (`MCDesk.tla`)

The tools below are commands a person uses one at a time. `MCDesk` composes them for one run: `desk` names
the tool at work (`merge`, `overlap`, `scope`, `sample`, `correct`, `patch`, `lap`, `review`, `inject`, or
`given` for a tool without state), and only its actions are taken; the variables of the others rest at one
of their initial states. So the state spaces add up instead of multiplying, and nothing is shared between
them but the matrix, on which merges, edits and the scoping scripts work together (`MatrixScoping`
EXTENDS `MatrixMerge`).

| module | state | actions | code |
|---|---|---|---|
| `MatrixScoping` | that of `MatrixMerge`; `companions`, `excluded` | `Seed`, `ScopeCaseRows` (with `AddCompanions`), `ApplyFindings` (with `AddExclusions`), `AdoptScope`, merges between them; external `UserExcludes` | `evidence/ticket41/seed_matrix.py`, `ticket19/apply_matrix_scoping.py`, `ticket19/apply_ticket44_findings.py`, `ticket17/scope_matrix.py` |
| `RecordCorrections` | attempt records, index sizes, manifests, promotions, row seals, torn files, the committed versions, and the running script with what it has read of the bundles | start (also `--dry-run`), one action per file corrected, refusal, seals, kill, put back, commit, a bundle changed meanwhile | `ticket19/apply_ticket44_record_corrections.py`, `ticket17/apply_ticket49_record_corrections.py` |
| `PatchRun` | how often each edit is in each source, sources cut by a kill, the texts in memory | `ReadSources`, `WriteSource`, `KillPatch`, `Checkout` | the edit driver of `ticket16/tools/apply_t16_patches.py` |
| `InjectionRun` | per mode a server with its parameters and counters, where its threads are, its error log; one configuration file; the driver's place; what it collected | see below | the handlers `apply_t16_patches.py` puts into the engine; `ticket16/tools/t16_run.sh`, `t16env.sh` |
| `ResourceSampler` | the process table as the kernel has it; the walk in hand; the last readings; the sum | `Burn`, `Fork`, `Exit`, `Reap` (external), `List`, `ReadStat`, `Sample` | `resource_sampler.py` |
| `ReviewRun` | the tables' update counts, servers, round directories, `results.json`, the run in hand | `Run`, `BeginRound`, `StartServer`, `TakeSample`, `RecordSample`, `VerifyRound`, `StopServer`, `FinishRun`, `KillRun`, `StopByHand` | `src/cbrd-27785/reviewer-exact-20261031/reproduce.py` |
| `SweepLap` | the next steps of undo and sweep; the page; the gate's counters; the lap's own | the steps of the two lists, one action each | `src/cbrd-27925/explore_sweep_lap.py` |
| `TierPlacement` | `given` | - | `tier_placement.py` |
| `RecordLayout` | `given` | - | `src/cbrd-26659/campaign/ticket11-evidence/oos_boundaries.py` |
| `FixtureSizes` | `given` | - | `ticket19/derive_ticket19_sizes.py`, `ticket13/derive_case_sizes.py` |
| `RecordChecks` | `given` | - | `check_campaign_records.py` |

`Given.tla` declares `given`, the input of a tool that keeps no state: the run lets it be any of a set of
inputs, so the tool's operators are checked over all of them. A value that is not there is `Absent`.

*Fault injection.* A reach of a site takes four steps in the engine: the thread counts its reach
(`Reach`), asks whether it fires (`Ask`), counts the firing (`CountFired`), writes the acknowledgement to
the error log (`Acknowledge`), and then fails the operation or ends the server (`SiteFails`,
`SiteCrashes`); another thread may be anywhere between. The script's steps are `StartRun`, `WriteConf`,
`DbCreate` (refused over a database that is there: `Refuse`), `ServerStart`, `SetParameter` (arming is two
parameters one after the other), `ServerStop`, `ServerKill`, `Collect`, in the orders of the scenarios
(`T16Plans`). Each mode, fault and control, has a database with its own server and log; the configuration
file is the install's and so is shared; logs are never removed. Threads may reach the site whenever its
code is armed, not only when the scenario's own statement makes them. The engine's dying of the
fault (`EngineDies`) and the operator's kill of the script (`KillDriver`) are external.

Abstractions: of the matrix scripts, tables of cases and the wording of summaries; of the corrections,
what a digest is of ("early", "whole", "changed") stands for it; of the patches, the texts; of the
sampler, CPU ticks (memory and storage are sampled beside them); of the review run, the timings: a sample
is what its table had seen; sizes are exact, in bytes.

## 4. What each run checks

| run | question | instance | what it shows |
|---|---|---|---|
| `retention_mixed` | a passing and a failing attempt share a directory | 2 indexes, 1 directory, 3 files, 1 expirer, days 0..2, 1 kill | `LeftWhole`: the failing sibling keeps the directory whole; `TriageSticks`: an expirer never undoes or outlives a triage |
| `retention_shared` | two expirers at once | 2 indexes, 1 directory, 2 expirers, days 0..2 | `CoreOnlyIsShrunk`, `DemotionStands` (with the stale record that is written back), the inductive invariant `IndInv` of the proofs, and `PolicyKept`: the policy `BundleStore` is implemented |
| `retention_tree` | `expire` over a part of the evidence tree, a file lost or altered at any point, a kill | 3 indexes, 2 directories (one shared, one protected), 2 `--evidence` arguments, 1 fault, 1 kill | indexes outside the tree asked for still have their say, whatever is damaged (`NamedKept`) |
| `retention_liveness` | is interrupted work finished? | 2 indexes, 1 directory, 1 kill, `FairSpec` | `MarkingFinishes` |
| `matrix` | the desk: one tool at work at a time | `MCDesk`, see below | the properties of the next table, and the inductive invariant `IndInv` of the merge; 0.8 million states, under two minutes |
| `ctp_serial` | wrappers one at a time, one of them killed anywhere | 3 invocations (SQL with its checker, two shell runs of one case), 2 cases | `WithinLimit`, `SqlShowsItsOwn`, `LeftAsFound`, and the inductive invariant `IndInv` |
| `records` | both builders, over everything two cases can leave | first case 77 SQL or 336 shell combinations, second 2 or 3; 2 id lists (one too short); 3 builds, 1 kill | `CitesTheSeal`, `IndexComesLast`, `RerunRepairs` about the files, `ProvenIsComplete`, `PassIsEarned`, `FailureIsHeld` about what they say; the inductive invariant `IndInv` |
| `retention_unreadable`, `matrix_late`, `ctp_shell`, `ctp_install`, `records_refused` | a promise of the documentation | as above; `ctp_install` overlaps two SQL wrappers | violated: see section 7 |

The properties of run `matrix`, by the tool at work:

| tool | property | what holds |
|---|---|---|
| merge, overlap, scope | `RowFollowsHistory`, `NothingErased`, `Idempotent` | a row says of its attempts what their order in time says, in whatever order they were merged; no pass erases anything; merging again changes nothing |
| | `HandGapStands`, `Accounted` | a gap kind a human or a scoping script set is taken back by nothing but the write of a merge that had loaded the matrix before; no scoping freezes a history |
| | `ValidatorAccepts` | `validate_records.py` accepts every row the merge wrote |
| | `LostIsMended` | what two merges at once lost, one more merge of all reported manifests brings back |
| sample | `NoTickTwice`, `SampleIsRecent` | a process one walk missed is not met again, so what the sampler adds up never exceeds what was burnt; and a sample's CPU was burnt since the walk before |
| correct | `ManifestNeverLeads`, `SuccessIsAgreement` | a manifest never runs ahead of its records; a run that succeeds leaves everything in agreement, whatever killed runs left |
| patch | `AppliedOnce` | no edit is applied twice, and success means each is there once |
| inject | `AckProvesFault` | acknowledgements prove what fired, with threads at the site at once and servers ended anywhere |
| lap | `StrandedIsArmed` | an empty page still allocated is not forgotten when busy pages are deferred |
| review | `CompletedIsWhole` | a completed round has every sample once, from tables that had seen what they should |
| given | `PlacementFits` | a placement that `check` accepts keeps its tier's caps, but for what rounding hides |
| | `BoundaryIsLeast` | the boundary found by halving is the least size that crosses, and all larger ones do |
| | `ClaimIsEarned` | a fixture row accepted for a claim supports it under both accountings and against other orders of demotion |
| | `CheckIsSound` | completeness found means nobody was excused by what is said of another, as long as the records are kept |

Why the bounds are enough. *Retention*: the decisions are per directory and over the indexes citing it,
so one shared directory with two citers shows every pairing of eligible, blocking and already demoted;
the second directory of `retention_tree` adds the independence of directories. Three files are an item
of each index and one file that is nobody's. Three days are before, on and after an expiry. One kill
and one fault suffice for the interrupted states, since a later complete run meets them; the proofs of
section 6 hold for any number of all of these. *Matrix*: five manifests hold, per case, an out-of-order
pair, a tie in time, a repeated attempt id, an unexecuted case, every outcome, and an attempt that may
not enter the matrix. `MaxEdits = 2` lets one edit act on the effect of another (set a gap, take the
row over). Merges in turn take any subset of four manifests; merges that overlap take one manifest each
of two, beside one edit, since a merge is lost or not by the order of two writes; the fifth manifest
has no row in common with the first, so that a matrix can be seeded from two. *Sampler*: four pids (the command, its reaper, two more: a child
and a grandchild), one tick each, but none of the reaper's (`MCSampler`), three samples: a process is seen
by the first walk, missed by the second because its parent exits before it is read, and, if the walk went in another
order than that of the pids, met by the third and counted twice. The reaper is the namespace's init, which is
a child of `unshare` and so inside the tree; `resource_sampler.py:22-25` takes what is reparented to it for lost. *Corrections*: two invocations, one with two attempts around the
other's (the files are taken in the order of their paths), two runs, one kill; the second run meets whatever the
first left. *Patches*: two sources, one with a sticky edit beside a plain one, three runs. *Review*: the first two of
four rounds, so that both orders of the variants occur, two samples a case, three starts: one that
fails, one that resumes, one that begins at a later round. *Injection*: two threads, two runs of the script (one for
the scenario that arms its site twice), two reaches in a server's life, one kill of the driver; the second run finds the first one's databases and
logs. *Placement, sizes, checks*: every cost on either side of the caps and of a rounding; every page size and
accounting; lengths either side of the prefix, floor, gate and chunk; two attempts of one case under two
manifests with two ids. *Sweep*: the script's own parameters. *Wrappers*: three invocations let a third meet what a first one left and a second one
restored. *Builders*: a first case with every combination the rules tell apart beside a second one that ran,
failed or did not run; counts that disagree only join the oracle mismatches in the verdict, so they are
combined with the simpler first cases; three builds are a complete one, one that is killed or refused, and one that has to put
it right. `Limit` and `Reserve` are chosen so that two reservations fit and a third does not.

`DemotionStands` has a condition because the plain claim, that a demoted index never reads full again, is false.
Without any fault: one expirer reads index 1 while index 2 is not built yet; index 2 is built, and the next day
a second expirer reads both, full. The first removes whatever index 1 does not name, a file of index 2 among
it, and marks index 1 core-only. The second misses that file, cannot keep the core, and writes its stale
record of index 1 back, full, as `expired-by-policy`. A file lost behind the tools' back does the same. So the
property names the two ways a core gets short, a loss (`faults`) and an index some scan overlooked
(`overlooked`), and says that there is no third: a directory that another expirer merely shrunk brings no stale
record back. The run has neither faults nor kills, but the two days that the fault-free case takes;
that faults and kills add no other way is what the proof shows.

Deadlock is not checked: every tool comes to rest when its invocations, edits and days are used up.

Every property has a mutant of the code it is about, defined beside the original with a comment that
begins with MUTANT: a plausible bug under which the property fails in the same run. Where a run checks
`IndInv`, the type invariant is its first conjunct and is not listed beside it.

## 5. Fairness

Only `MarkingFinishes` needs fairness (`FairSpec`): the builders finish what they were started for, a
torn index is put back from the repository (the tool itself prints that it has to be), a started command
runs on, days pass, and the operator keeps coming back to `expire --apply` over the whole tree, which is
strongly fair because a previous command may be running whenever he looks. That is the retention
policy's own assumption: the duty falls due again and the tool is the only means to meet it. Kills and
faults are bounded and never fair. No step of the environment is made to happen at a convenient moment.

## 6. What is proved

All theorems are checked by TLAPS for every value of the constants that the named assumptions allow: any
number of directories, manifests, cases, wrappers, threads, runs and kills. The bounds of section 4 limit
TLC only. Each inductive invariant was checked by TLC on the instances of section 4 before it was proved;
those of the larger components are properties of the runs (`IndInv`), and the types are part of them.

**Retention** (`RetentionProofs`; assumption `ConstantsAssumption`: the constants' types; the sum file is no item; null is no
day).

* `TypeCorrect`: `Spec => []TypeOK`.
* `Inductive`: `Spec => []IndInv`, and from it
  * `NamedFilesSurvive` (`NamedKept`),
  * `BlockersKeepTheDirectory` (`LeftWhole`),
  * `MarkedAfterRemoval` (`CoreOnlyIsShrunk`),
  * `TriageIsKept` (`TriageSticks`).
* `MarksFallBackOnlyOverAGap`: `Spec => DemotionStands`, from `IndInv` and a second invariant, `LossInv`.
* `ImplementsPolicy`: `Spec => PolicyKept`, the refinement of `BundleStore`.

The argument. None of the safety properties is inductive: an expirer acts on what it read, and what it
read is old. `IndInv` says what remains true of a stale reading and why that is enough. `ScanCovers`:
every index is one the expirer read, has still to read, or has put into `overlooked`. `SnapFaithful`:
the items of an index never change after it is built, the day of a passing bundle never changes, and
what was read as core-only is expired; hold and demotion marks may be stale, and the decision survives
that. `WorkSound`: the directory at work was released by all of its read citers, what is to be removed
is named by none of them, and at the time of the marks nothing else is left. `RemovalSound`, `IndexSound` and
`TriageSound` carry this from the expirer's locals to the shared state, so that a second expirer, a
triage or a builder running meanwhile finds it true. The last hypothesis in the chain is the one a
reviewer might doubt: triage writes an index while an expirer holds an older copy of it. It is harmless
because triage touches failure bundles only, and those are never eligible, so never written back.

`LossInv` says of a named file that is gone why it is: without faults an expirer removed it (`NothingLost`);
and while an expirer is about to write expired-by-policy marks, the directory is short of something its readings
name (`CoreGone`). What is removed is named by no index that was seen (`NamedKept`), so whoever names it
was overlooked.

Preservation is proved one action at a time (the lemmas about a single expirer's step
first, then one step per disjunct of `Next`).

The refinement maps every step, with `IndInv` before and after it: `BuildIndex` to `Cite`,
`RemoveUnit` to `Shed`, `WriteBack` to `SayCore` or `Unsay`, `Tick` to `LetGo`, a scan that passes over an
index to `LoseSight`, a lost file to `Vanish`, and the rest to stutters (lemmas `Quiet` and `Still` say that what the mapping
reads is unchanged). The invariant is needed twice: a file is removed on the strength of readings that
may be stale, so `Shed`'s condition on the indexes *as they are* comes from `WorkSound` and `SnapFaithful`; and a mark is
written when the expirer believes that only the core is left.

**The matrix** (`MatrixProofs`; assumptions `MatrixAssumption`: finitely many manifests, numbered, each a
sequence of attempts; `NoRowAssumption`; `ScopingAssumption` for the scripts).

* `Inductive` (`IndInv`), `TypeCorrect`, and from it `RowsSayTheirHistory` (`RowFollowsHistory`),
  `NoAttemptIsMissing` (`Accounted`), `MergingAgainIsIdle`
  (`Idempotent`), `LostAttemptsComeBack` (`LostIsMended`), `RowsPassTheValidator` (`ValidatorAccepts`).
* `NothingIsErased`: `Spec => NothingErased`, and `GapsByHandStand`: `Spec => HandGapStands`, action
  properties. Both exempt one step, and say which: the write of a merge that was overtaken; for a gap kind,
  only if it was overtaken by the setting of that very gap kind.
* `ScriptsKeepTheMatrix`: the seeding, scoping, findings and adoption scripts, which are no actions of
  `Spec`, keep `IndInv` and take back no gap kind that was set, so all of this holds between them too.

`IndInv` says one thing, `Kept`, of two matrices: the file, and what a merge in hand loaded of it. A row
says what its history implies; a gap kind of "none" is earned or was adopted; and every attempt of the manifests behind the matrix is in its rows unless withdrawn. That it
must be said of the loaded matrix is what merges at once come down to: the write of an overtaken merge makes
its copy the file, and `merged` falls back with it. That applying one attempt keeps `Kept` is shown row by
row (an insertion by time keeps the order, and latest, run, evidence and counts follow it); that merging
a set of manifests does follows by induction over the entries of a manifest and over the manifests. The
library's induction rules cannot be instantiated here, so the induction goes by the least number that
fails (`LeastNumber`, `UpTo` of `NumberProofs`), and the recursive functions are shown to have values by
the same means (`StagesExist`). `Idempotent` and `LostIsMended` use that an attempt already in its row changes nothing.
`NothingErased` excludes one step, the write of a merge that was overtaken: rows only grow in every other.

**The wrappers** (`CtpRunProofs`; assumption `CtpAssumption`, and for all but the types `~Overlap`: one
wrapper at a time).

* `TypeCorrect` (overlapping or not), `Inductive` (`IndInv`), `StorageStaysWithinLimit` (`WithinLimit`),
  `SqlRecordsShowTheirOwn` (`SqlShowsItsOwn`), `InstallIsRestored` (`RestoredVerbatim`),
  `EachLeavesWhatItFound` (`LeftAsFound`, an action property).

`~Overlap` is what the tooling asks of its operators and does not enforce; run `ctp_install` shows that
`RestoredVerbatim` fails without it. `IndInv` says for every place of the script what the wrapper's locals
have to do with the install and the worktree: after the backup, the backup is what was found; from there to
the restoration the `.result` put aside is what was found; between the two copies of the restoration one
directory is already back and the other is gone (`BackedUp`). What is used never passes the limit because one
admission is outstanding at most (`Reserved`). Kills are part of it: a later wrapper finds whatever the killed
one left, and it is *that* which it restores; only with no kill is it the pristine install
(`PristineFound`).

**The builders** (`BundleRecordsProofs`; assumptions `ConstantsAssumption`, `InvocationAssumption`: the
inputs are such as the parsers return; `MarksAssumption`: absent and torn are no records).

* `Inductive` (`IndInv`), `TypeCorrect`, `IndexIsLast` (`IndexComesLast`), `PassEarned` (`PassIsEarned`),
  `ProvenComplete` (`ProvenIsComplete`).
* With `SameIds`: `RerunsRepair` (`RerunRepairs`), `SealIsCited` (`CitesTheSeal`), `FailuresAreHeld`
  (`FailureIsHeld`).

`IndInv` follows a build from its cases to its files. `Drafted`: the k-th id went to the k-th executed
case. `Writing`: what is still queued is a tail of the write order, and what is before it is on disk.
`OnDisk`: any record on disk, of whatever run, was written for the case its id belongs to. `Finished`: a build
that ended left whole what some list of ids says. The hypothesis `SameIds` says that a build run again is given
the ids it had before. It is needed: the code takes ids from the operator and looks at no record that is
already there (the hazard at `campaign_records.py:373`), so with other ids the first run's records stay
beside the second's. The cfg of `records` satisfies it.

**Fault injection** (`InjectionProofs`; assumption `InjectionAssumption`: a scenario begins by disarming the
configuration, ends with its server stopped, and starts a server only where it has none - true of
every scenario of `t16_run.sh`, which TLC confirms for `T16Plans`).

* `AcknowledgementsProveTheFault` (`AckProvesFault`).

The property joins four actors: threads in the handler, the engine, the script and the operator who kills
it. `InjInv` has a part per server, `ServerInv`: the acknowledgements made or *owed* - by threads between
counting their firing and writing it - are as many as the server counted, with distinct reaches and distinct
counts, and no thread holds a reach another one acknowledged; lives distinguish one server's log lines from
the next's. `ControlIsQuiet`: a control's server is never armed, because the configuration it starts from was
disarmed and its script never arms it. `Scripted`: where the scenario has its server off, it is off; so when
the acknowledgements are collected nothing is still to be written.

**The other scripts** (`ScriptProofs`).

* *Patches* (`PatchAssumption`: every source has an edit that is not sticky): `EditsAreAppliedOnce`
  (`AppliedOnce`). `PatchInv`: a source on disk has all its edits or none, and what the script holds in memory is
  every source with each edit once; a cut source makes the next run refuse.
* *Lap* (`LapAssumption`, the types of the inputs): `NoPageIsForgotten` (`StrandedIsArmed`). `LapInv` says, for
  each place of the sweep, which counter already shows an empty page that it has passed or will not visit.
* *Tier placement*: `AcceptedPlacementsFit` (`PlacementFits`), from the types of what is given.
* *Completeness check*: `CompletenessIsSound` (`CheckIsSound`), likewise.
* *Corrections of records* (`CorrectionsAssumption`: attempts and invocations are positive numbers, in the
  order of their paths; there is one of each): `RecordsAreCorrectedFirst` (`ManifestNeverLeads`) and
  `SuccessMeansAgreement` (`SuccessIsAgreement`). `CorrInv` orders the files of all phases and says of those
  *behind* the script that they agree with what it read of the bundles (`BehindIsRight`). A bundle altered
  while the script runs does not disturb this, since the script reads each bundle once. An attempt record that was not
  corrected is as it was committed, and only such records are ever torn (`Marking`), which is why putting a
  torn file back from the repository never puts a manifest ahead of its records. A complete run has met no
  torn file (`NothingIsTorn`), so nothing is put back behind its success.
* *Sizes of records*, from the types of what is given (`Absent`, what a search without a result returns, is
  no number): `ClassifiedIsEarned` (`ClaimIsEarned`, of `classify` and whatever row) and
  `BoundariesAreLeast` (`BoundaryIsLeast`). The loop of `layout` is followed round by round
  (`Demoting`): what is demoted is a run of the columns in their order, the payload is the sum with stubs in their
  places, and each column went only because the record was above the gate when those ahead of it had gone; after
  as many rounds as there are columns it stops, as each round that goes on demotes one (`Stopped`). The same
  lemma about either order tells what an engine that began with the smallest would have moved
  (`OrdersDiffer`). The loop keeps to the header the record had before; that judging it by the header it ends
  with is the same needs a record that never takes offsets of four bytes (`HeaderStays`), a condition
  `ShortestPrefix` states. Of the boundaries, `OneColumn` reads off the loop when the one variable column is
  demoted, from which monotony follows, and `HalvingFinds` is the search.

**The measurements** (`MeasureProofs`).

* *Review run* (`ReviewAssumption`): `CompletedRoundsAreWhole` (`CompletedIsWhole`). The property speaks of
  records that several runs wrote, killed and resumed; what makes it true is the round in hand
  (`RoundInHand`): its samples on record are exactly those it has come past, each once, and a sample and the
  table it was taken from differ by the updates the round has made since. `check_state` compares the tables
  with the rounds before, so when it lets a round complete, the samples taken earlier are placed too
  (`VerifiedIsWhole`).
* *Sampler* (`SamplerAssumption`: the pids are numbers up to a bound, the namespace's init is above the
  command): `NoTickIsCountedTwice` (`NoTickTwice`) and `SamplesAreRecent` (`SampleIsRecent`, an action
  property). `SamplerInv` says of the kernel that whatever is there has a running parent of a lower pid
  (`KernelTree`), and of the walk that nothing below a listed pid and still there was missed
  (`NoneMissed`); as the pids are read in their order, the table holds the parent of whatever it holds
  (`ParentsRead`) and the tree is the whole table (`TreeIsTable`). What drops out of it is therefore gone, and
  its retired reading cannot be met again (`Past`). The sums are compared process by process: `Past`,
  `Before` and `Now` say that what was retired, and what had been burnt when the walks began, can be split over
  the processes so that no process has more than its own.

**Model-checked only.**

* Liveness under fairness: `MarkingFinishes`.
* Of `ClaimIsEarned`, that each fixture of the test cases is accepted as what its case claims, and where the
  disputed bands lie: computations on constants, which TLC does once and for all.
* What the desk composes: the tools are proved about one by one, with their own specifications.

## 7. Where code and documentation disagree

Each is a run whose one property is what the documentation says, and which TLC refutes.

* `retention_unreadable`: of an index that does not parse the tool prints "its bundle is not touched"; the
  second scan skips it in silence, and a readable expired sibling lets the shared directory be demoted.
* `matrix_late`: "the tool never writes none over a FAIL history"; a PASS merged first earns none, and
  an older FAIL merged later leaves it.
* `ctp_shell`: "one attempt record per executed case"; a `.result` and runtime logs of an earlier run are
  collected as this run's.
* `ctp_install`: "restored verbatim"; a second wrapper started meanwhile breaks it, in two ways.

* `records_refused`: of `RecordError`, "nothing was written"; a SKIP or UNSUPPORTED case over its cap is
  refused by the schema of attempt records after the manifest naming it has been written, and building
  again refuses again. (Confirmed on the code with the bundle of `selftest_bundle_sealing.py`.)

More were met while modelling and have no run of their own.

In the tooling:
* a shell FAIL by deadline keeps `proven` evidence, which `ctp_shell_records.py:27` reserves for a PASS;
* a Delivery gap the merge computed itself stays over a later FAIL, which `matrix_merge.py:54-56` says is
  not one;
* an attempt id handed in twice overwrites its record, although `run_ctp_sql.sh:99` says attempts never
  are, and `check_matrix_completeness` sees ids only;
* a launcher that needs the second signal of `timeout -k` exits with 137, which `run_ctp_sql.sh:205` does
  not record as the cap;
* admission reserves nothing, so two admitted wrappers can exceed the limit of `campaign_env.sh:145`
  together;
* several scripts say that the schema allows "none" only for a latest PASS; `matrix.schema.json` has it in
  a description only, and `validate_records.py` enforces it;
* `tier_placement.py` records no risk for a row without a proposed tier;
* the sampler's figures are lower bounds only while pids do not wrap around; resident memory is summed
  over a walk that is no snapshot, and `storage_peak` ignores what was there before;
* `config_domain.load_cells` lets the last of two files of one cell win; answer promotions with an action
  other than "promoted" are copied unverified and suppress the tool's own event (`ctp_sql_records.py`).

In the scripts of the tickets:
* ticket 17's `scope_matrix.py` says its scoping is only ever narrower, but lines 56-62 write "none" over
  a narrower gap kind (`ValidatorAccepts` leaves exactly these rows out);
* ticket 18's `apply_matrix_scoping.py:384` calls `write_record` with its arguments swapped, so that only
  `--dry-run` succeeds;
* `seed_matrix.py` drops the `withdrawn_claims` of what it joins;
* a record correction killed between an attempt record and its index refuses or leaves the index behind when
  run again, contrary to "idempotent"; it reseals any row whose digest differs, not only those of
  manifests it rewrote; ticket 44's `truth()` does not compare with SHA256SUMS, ticket 49's does;
* `apply_t16_patches.py` says a partial application cannot happen; a kill between two writes leaves one
  (which a later run refuses, `AppliedOnce`);
* `t16_run.sh` counts and collects the acknowledgements of earlier runs of the same site, since error logs
  are never removed: `evidence/ticket16/sites/i1/journal.txt` says "acks: 2", one of them ten minutes
  older. `t16env.sh` has `t16_mark` and `t16_acks` against this; they are not used;
* "only the k-th reach since the server started fires" counts armed reaches, and one statement arms the
  codes before it sets the reach to fire at, so a background thread in between fires at any reach;
* `derive_ticket19_sizes.py classify` judges a tie by logical bytes (1998 and 1999 both serialize to
  2004), accepts "oos-exhausted" within the band 16169..16176, and returns an "inline" expectation with a
  demoted column as "oos"; the demotion of `oos_boundaries.py` keeps the header of the record before
  demotion, which above 32767 bytes may demote one column too many;
* `reproduce.py`: medians of the summary include samples of rounds that were never completed, `complete`
  may never become true, and `w.big` is checked under one of the two collations only.

## 8. What is not modelled, and why

* The **configuration domain** compares fields of one cell with constants, the **catalogue and scenario
  checks** of `check_campaign_records.py` and the **record schemas** one document with fixed rules: a
  model would spell them out again and its properties would be the rules.
* The **schema validator** is a recursive predicate over JSON values and schemas, for the same reason.
* `status`, `compare_records.py`, `render_docs.py` and the generators of reports read and print.
* `evidence/ticket19/gen_ticket19_cases.py`, the longest script, is a set of text templates.
* The **verification, replay and reproduction scripts** of other tickets but `reproduce.py`, the
  **activation checkers**, `t16_corruption.sh` and `t16_boundedfs.sh`, the cost probes and ticket 14's
  driver (superseded by the wrappers) take an external server through a straight line of statements;
  without the engine there is no state to explore. `run.py` beside the authors' own TLA+ models only
  starts a model checker.
* Ticket 18's `apply_matrix_scoping.py` repeats ticket 19's on another sheet.
* **Answer promotions**, the copies of logs beside the records, and the checks of the builders before
  their first case.
* The composition of wrapper, builder and retention tool over one evidence tree; several cases in one
  wrapper invocation; launchers that outlive their namespace.
* Times are compared as strings by the merge; the model gives them an order and ties, not time zones
  (listed as a hazard without a property).
* The engine itself, which most of the reports are about, is not in this repository.

The share of the repository's code lines that the modules stand for is small for that reason: most of the
152 implementation files are scripts that ran once.
