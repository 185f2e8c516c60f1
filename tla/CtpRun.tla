------------------------------- MODULE CtpRun -------------------------------
(***************************************************************************)
(* The CTP wrappers: run_ctp_sql.sh and run_ctp_shell.sh with the checks of *)
(* campaign_env.sh and the admission of retention.py.                       *)
(*                                                                          *)
(* A wrapper checks the ports, is admitted, claims its bundle, backs up the *)
(* pinned install, lets CTP loose on it and on the test-case worktree,      *)
(* collects what CTP left, puts install and worktree back, and hands the    *)
(* bundle to a record builder.  Nothing but the port check keeps a second   *)
(* wrapper out, and no trap restores anything when a wrapper dies.          *)
(***************************************************************************)
EXTENDS Naturals

CONSTANTS
    Run,         \* wrapper invocations
    Shell,       \* those of run_ctp_shell.sh; the others are of run_ctp_sql.sh
    Checked,     \* those whose declarations name an activation checker
    Case,        \* test cases; an invocation runs one
    CaseOf,      \* CaseOf[v]: the case invocation v declares
    ManifestOf,  \* ManifestOf[v]: --manifest-id
    AttemptOf,   \* AttemptOf[v]: --attempt-ids
    Nothing,     \* no file, no record, no run
    Older,       \* a .result that was in the worktree before every invocation
    Reserve,     \* --reserve-bytes
    Takes,       \* Takes[v]: the bytes invocation v adds to the storage
    Limit,       \* the storage limit
    Overlap,     \* whether wrappers are started while another one runs
    MaxKills     \* bound: wrappers killed half-way

Part == {"conf", "databases"}
Content == {"pristine", "changed", "gone"}
Statuses == {"none", "zero", "failed", "capped", "killed"}

ASSUME CtpAssumption ==
    /\ Shell \subseteq Run /\ Checked \subseteq Run \ Shell
    /\ CaseOf \in [Run -> Case]
    /\ Nothing \notin Run /\ Older \notin Run /\ Older # Nothing
    /\ Reserve \in Nat /\ Limit \in Nat /\ MaxKills \in Nat
    /\ \A v \in Run : Takes[v] \in 0..Reserve
    /\ Overlap \in BOOLEAN

VARIABLES
    run,        \* run[v]: how far invocation v is and what it holds
    install,    \* what the pinned install holds under conf and databases
    result,     \* result[c]: whose <case>.result lies in the worktree
    logs,       \* whose cases CTP's shared shell runtime logs report
    ports,      \* the invocation whose processes listen on the campaign's ports
    bundles,    \* manifest ids whose bundle directory exists
    used,       \* bytes under the campaign's storage root
    attempts,   \* attempts[a]: the attempt record in the evidence directory
    manifests,  \* manifests[m]: the manifest in the evidence directory
    kills,      \* wrappers killed so far
    found       \* history: found[v], install and .result when v began

vars == <<run, install, result, logs, ports, bundles, used, attempts, manifests,
          kills, found>>
records == <<attempts, manifests>>
ctp == <<result, logs>>
history == <<kills, found>>

Phases == {"new", "admit", "claim", "backup", "launch", "running", "collect", "activate",
           "checking", "restore", "emptied", "half", "records", "done", "dead"}
Ended == {"new", "done", "dead"}

Fresh == [phase |-> "new", backup |-> [p \in Part |-> "gone"], kept |-> Nothing,
          status |-> "none", capReached |-> FALSE, listed |-> FALSE,
          actual |-> Nothing, runtimeLogs |-> Nothing]

To(v, phase) == run' = [run EXCEPT ![v].phase = phase]

-----------------------------------------------------------------------------
\* campaign_check_ports: nobody listens on a campaign port.
PortsFree == ports = {}

\* storage_used_bytes once the bundle of v is on disk.
StorageWith(v) == used + Takes[v]

\* MUTANT: what is used is compared with the limit, what is asked for is not.
AdmittedIfBelow(requested) == used <= Limit

\* retention.py admit: what is used and what is asked for fit the limit.
Admitted(requested) == used + requested <= Limit

\* cap_reached: only timeout's own exit status, 124, counts.
CapReached(status) == status = "capped"

\* MUTANT: the case counts as executed when a .result was collected, as for the shell runner.
ExecutedIfCollected(v) == run[v].actual # Nothing

\* The builders' view of what was executed.  SQL: listed by the result directory this launcher
\* named.  Shell: dispatched in the logs collected, and a .result was collected.
Executed(v) ==
    IF v \in Shell
    THEN /\ run[v].actual # Nothing
         /\ CaseOf[run[v].runtimeLogs] = CaseOf[v]
    ELSE run[v].listed

\* proof.verdict: no mismatch between what was declared, what was executed and the exit status.
Proven(v) == Executed(v) /\ run[v].status = "zero"

\* The shell builder has nothing to go by without test_status.data, and writes nothing.
NoProofSource(v) == v \in Shell /\ run[v].runtimeLogs = Nothing

-----------------------------------------------------------------------------
Init ==
    /\ run = [v \in Run |-> Fresh]
    /\ install = [p \in Part |-> "pristine"]
    /\ result \in [Case -> {Nothing, Older}]
    /\ logs = Nothing
    /\ ports = {}
    /\ bundles \in {{}} \cup {{ManifestOf[v]} : v \in Run}
    /\ used = 0
    /\ attempts = [a \in {AttemptOf[v] : v \in Run} |-> Nothing]
    /\ manifests = [m \in {ManifestOf[v] : v \in Run} |-> Nothing]
    /\ kills = 0
    /\ found = [v \in Run |-> Nothing]

\* An operator starts wrapper v; its first act is to look at the ports.
Preflight(v) ==
    /\ run[v].phase = "new"
    /\ Overlap \/ \A w \in Run : run[w].phase \in Ended
    /\ To(v, IF PortsFree THEN "admit" ELSE "dead")
    /\ found' = [found EXCEPT ![v] = [install |-> install, result |-> result[CaseOf[v]]]]
    /\ UNCHANGED <<install, ctp, ports, bundles, used, records, kills>>

Admit(v) ==
    /\ run[v].phase = "admit"
    /\ To(v, IF Admitted(Reserve) THEN "claim" ELSE "dead")
    /\ UNCHANGED <<install, ctp, ports, bundles, used, records, history>>

Claim(v) ==
    /\ run[v].phase = "claim"
    /\ To(v, IF ManifestOf[v] \in bundles THEN "dead" ELSE "backup")
    /\ bundles' = bundles \cup {ManifestOf[v]}
    /\ UNCHANGED <<install, ctp, ports, used, records, history>>

\* Hash and copy conf and databases (what is gone leaves no backup), keep the existing .result.
Backup(v) ==
    /\ run[v].phase = "backup"
    /\ run' = [run EXCEPT ![v].phase = "launch", ![v].backup = install,
                          ![v].kept = result[CaseOf[v]]]
    /\ UNCHANGED <<install, ctp, ports, bundles, used, records, history>>

-----------------------------------------------------------------------------
\* CTP under timeout.  Its run.sh writes the ports into cubrid.conf and leaves its copies there.
Launch(v) ==
    /\ run[v].phase = "launch"
    /\ To(v, "running")
    /\ install' = [install EXCEPT !["conf"] = IF @ = "gone" THEN @ ELSE "changed"]
    /\ UNCHANGED <<ctp, ports, bundles, used, records, history>>

\* CTP's master listens; the shell runner begins its runtime logs anew and dispatches the case.
CtpDispatches(v) ==
    /\ run[v].phase = "running" /\ PortsFree
    /\ ports' = {v}
    /\ logs' = IF v \in Shell THEN v ELSE logs
    /\ UNCHANGED <<run, install, result, bundles, used, records, history>>

CtpRunsCase(v) ==
    /\ run[v].phase = "running" /\ v \in ports
    /\ result' = [result EXCEPT ![CaseOf[v]] = v]
    /\ UNCHANGED <<run, install, logs, ports, bundles, used, records, history>>

\* The SQL runner writes main.info and summary.info into a result directory of its own.
CtpReports(v) ==
    /\ run[v].phase = "running" /\ v \in ports /\ v \notin Shell
    /\ result[CaseOf[v]] = v
    /\ run' = [run EXCEPT ![v].listed = TRUE]
    /\ UNCHANGED <<install, ctp, ports, bundles, used, records, history>>

\* The launcher ends, at its end or at the cap: by the first signal (exit status 124) or, when
\* that does not end it, by the second (137).  Its namespace goes with it.
LauncherEnds(v) ==
    /\ run[v].phase = "running"
    /\ \E status \in Statuses \ {"none"} :
         run' = [run EXCEPT ![v].phase = "collect", ![v].status = status,
                            ![v].capReached = CapReached(status)]
    /\ ports' = ports \ {v}
    /\ UNCHANGED <<install, ctp, bundles, used, records, history>>

-----------------------------------------------------------------------------
\* Copy out what CTP left, whoever's it is, and put the worktree's .result back.
Collect(v) ==
    /\ run[v].phase = "collect"
    /\ run' = [run EXCEPT
         ![v].phase = IF v \in Checked /\ ~run[v].capReached THEN "activate" ELSE "restore",
         ![v].actual = result[CaseOf[v]],
         ![v].runtimeLogs = IF v \in Shell THEN logs ELSE Nothing]
    /\ result' = [result EXCEPT ![CaseOf[v]] = run[v].kept]
    /\ used' = StorageWith(v)
    /\ UNCHANGED <<install, logs, ports, bundles, records, history>>

\* The activation checker: set the port in cubrid.conf, then look at the ports once more.
Activate(v) ==
    /\ run[v].phase = "activate"
    /\ install' = [install EXCEPT !["conf"] = IF @ = "gone" THEN @ ELSE "changed"]
    /\ IF PortsFree
       THEN To(v, "checking") /\ ports' = {v}
       ELSE To(v, "dead") /\ UNCHANGED ports
    /\ UNCHANGED <<ctp, bundles, used, records, history>>

ActivationEnds(v) ==
    /\ run[v].phase = "checking"
    /\ To(v, "restore")
    /\ ports' = ports \ {v}
    /\ UNCHANGED <<install, ctp, bundles, used, records, history>>

\* Restoring, in three commands: remove both trees, copy conf back, copy databases back.
Empty(v) ==
    /\ run[v].phase = "restore"
    /\ IF run[v].backup["conf"] = "gone"
       THEN To(v, "dead") /\ UNCHANGED install
       ELSE To(v, "emptied") /\ install' = [p \in Part |-> "gone"]
    /\ UNCHANGED <<ctp, ports, bundles, used, records, history>>

\* cp -a of a backup: into the place of what was removed, or into what someone put there since.
Refilled(v, part) == IF install[part] = "gone" THEN run[v].backup[part] ELSE "changed"

RestoreConf(v) ==
    /\ run[v].phase = "emptied"
    /\ To(v, "half")
    /\ install' = [install EXCEPT !["conf"] = Refilled(v, "conf")]
    /\ UNCHANGED <<ctp, ports, bundles, used, records, history>>

\* MUTANT: only the configuration is put back.
RestoreNoDatabases(v) ==
    /\ run[v].phase = "half"
    /\ To(v, "records")
    /\ UNCHANGED <<install, ctp, ports, bundles, used, records, history>>

RestoreDatabases(v) ==
    /\ run[v].phase = "half"
    /\ To(v, "records")
    /\ install' = [install EXCEPT !["databases"] = Refilled(v, "databases")]
    /\ UNCHANGED <<ctp, ports, bundles, used, records, history>>

\* The record builder: the manifest, and an attempt record for the case if it was executed.
Records(v) ==
    /\ run[v].phase = "records"
    /\ To(v, "done")
    /\ IF NoProofSource(v)
       THEN UNCHANGED records
       ELSE /\ manifests' = [manifests EXCEPT ![ManifestOf[v]] =
                 [by |-> v, capReached |-> run[v].capReached, proven |-> Proven(v)]]
            /\ attempts' = IF Executed(v)
                 THEN [attempts EXCEPT ![AttemptOf[v]] = [by |-> v, actual |-> run[v].actual]]
                 ELSE attempts
    /\ UNCHANGED <<install, ctp, ports, bundles, used, history>>

\* A wrapper is interrupted, and what it runs with it.
Kill(v) ==
    /\ run[v].phase \notin Ended /\ kills < MaxKills
    /\ To(v, "dead")
    /\ ports' = ports \ {v}
    /\ kills' = kills + 1
    /\ UNCHANGED <<install, ctp, bundles, used, records, found>>

Next ==
    \E v \in Run :
        \/ Preflight(v) \/ Admit(v) \/ Claim(v) \/ Backup(v)
        \/ Launch(v) \/ CtpDispatches(v) \/ CtpRunsCase(v) \/ CtpReports(v) \/ LauncherEnds(v)
        \/ Collect(v) \/ Activate(v) \/ ActivationEnds(v)
        \/ Empty(v) \/ RestoreConf(v) \/ RestoreDatabases(v)
        \/ Records(v) \/ Kill(v)

Spec == Init /\ [][Next]_vars

-----------------------------------------------------------------------------
RunState ==
    [phase : Phases, backup : [Part -> Content], kept : Run \cup {Nothing, Older},
     status : Statuses, capReached : BOOLEAN, listed : BOOLEAN,
     actual : Run \cup {Nothing, Older}, runtimeLogs : Run \cup {Nothing}]

\* Every variable holds a value of its kind.
TypeOK ==
    /\ run \in [Run -> RunState]
    /\ install \in [Part -> Content]
    /\ result \in [Case -> Run \cup {Nothing, Older}]
    /\ logs \in Run \cup {Nothing}
    /\ ports \subseteq Run /\ \A v, w \in ports : v = w
    /\ used \in Nat /\ kills \in 0..MaxKills
    /\ \A a \in DOMAIN attempts : attempts[a] = Nothing \/ attempts[a].by \in Run
    /\ DOMAIN found = Run

(***************************************************************************)
(* Wrappers run one at a time: one that reaches its end leaves conf,        *)
(* databases and the worktree's .result exactly as it found them, whatever  *)
(* CTP did, however CTP ended, and whatever state an earlier wrapper that   *)
(* was killed had left behind.                                              *)
(***************************************************************************)
LeftAsFound ==
    [][\A v \in Run : run[v].phase # "done" /\ run'[v].phase = "done" =>
          found[v] = [install |-> install', result |-> result'[CaseOf[v]]]]_vars

(***************************************************************************)
(* "refuse when the campaign storage would exceed its limit"                *)
(* (campaign_env.sh): no invocation takes the storage over its limit when   *)
(* each stays within the bytes it reserved.                                 *)
(***************************************************************************)
WithinLimit == used <= Limit

(***************************************************************************)
(* An attempt record of the SQL runner shows the .result its own launcher   *)
(* left, never one that lay in the worktree before, also when the launcher  *)
(* ended or was killed before it reached the case.                          *)
(***************************************************************************)
SqlShowsItsOwn ==
    \A a \in DOMAIN attempts :
        attempts[a] # Nothing /\ attempts[a].by \notin Shell =>
            attempts[a].actual = attempts[a].by

-----------------------------------------------------------------------------
(***************************************************************************)
(* "one attempt record per executed case" (ctp_shell_records.py): an        *)
(* attempt record shows a case its invocation executed.                     *)
(***************************************************************************)
OneAttemptPerExecutedCase ==
    \A a \in DOMAIN attempts : attempts[a] # Nothing => attempts[a].actual = attempts[a].by

(***************************************************************************)
(* conf and databases are "restored verbatim" (run_ctp_sql.sh): with no     *)
(* wrapper at work and none killed, the install is as it was.               *)
(***************************************************************************)
RestoredVerbatim ==
    kills = 0 /\ (\A v \in Run : run[v].phase \in Ended) =>
        install = [p \in Part |-> "pristine"]
-----------------------------------------------------------------------------
(***************************************************************************)
(* Why wrappers that run one at a time are safe: what each of them may rely *)
(* on at every place of the script, whatever those before it left behind.   *)
(***************************************************************************)
At(v, phases) == run[v].phase \in phases
Before == {"admit", "claim", "backup"}
Leaving == {"activate", "checking", "restore", "emptied", "half", "records"}

\* One wrapper is at work, and only its processes listen.
Alone ==
    /\ \A v, w \in Run : At(v, Phases \ Ended) /\ At(w, Phases \ Ended) => v = w
    /\ \A v \in ports : At(v, {"running", "checking"})

\* What was admitted fits, until it is taken.
Reserved ==
    \A v \in Run : At(v, {"claim", "backup", "launch", "running", "collect"}) =>
        used + Reserve <= Limit

\* A launcher that lists the case left its own .result, and that is what is collected.
Listed ==
    \A v \in Run \ Shell : run[v].listed =>
        /\ ~At(v, {"new", "launch"} \cup Before)
        /\ At(v, {"running", "collect"}) => result[CaseOf[v]] = v
        /\ At(v, Leaving) => run[v].actual = v

\* The backup is of what was found, and comes back in the order of the three commands.
BackedUp ==
    \A v \in Run :
        /\ At(v, Before) => found[v] = [install |-> install, result |-> result[CaseOf[v]]]
        /\ At(v, {"launch", "running", "collect"} \cup Leaving) =>
             found[v] = [install |-> run[v].backup, result |-> run[v].kept]
        /\ At(v, Leaving) => result[CaseOf[v]] = run[v].kept
        /\ At(v, {"emptied"}) => install["conf"] = "gone" /\ install["databases"] = "gone"
        /\ At(v, {"half"}) => install["conf"] = run[v].backup["conf"] /\ install["databases"] = "gone"
        /\ At(v, {"records"}) => install = run[v].backup

\* Until a wrapper is killed, every one of them finds the pristine install.
PristineFound ==
    kills = 0 =>
        /\ (\A v \in Run : At(v, Ended)) => install = [p \in Part |-> "pristine"]
        /\ \A v \in Run : At(v, Phases \ Ended) => found[v].install = [p \in Part |-> "pristine"]

\* The inductive invariant of wrappers that run one at a time.
IndInv ==
    /\ TypeOK /\ Alone
    /\ WithinLimit /\ Reserved
    /\ SqlShowsItsOwn /\ Listed
    /\ BackedUp /\ PristineFound
=============================================================================
