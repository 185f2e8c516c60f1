---------------------------- MODULE CtpRunProofs -----------------------------
(***************************************************************************)
(* The safety of CtpRun for any invocations, cases, sizes and kills.        *)
(***************************************************************************)
EXTENDS CtpRun, TLAPS

USE CtpAssumption DEF Part, Content, Statuses, Phases

\* Giving one invocation another state of the kind leaves all of them well formed.
LEMMA RunUpdate ==
    ASSUME run \in [Run -> RunState], NEW v \in Run, NEW r \in RunState,
           run' = [run EXCEPT ![v] = r]
    PROVE  run' \in [Run -> RunState]
    OBVIOUS

\* A change of place is a change of one field.
LEMMA ToType ==
    ASSUME run \in [Run -> RunState], NEW v \in Run, NEW phase \in Phases, To(v, phase)
    PROVE  run' \in [Run -> RunState]
<1> DEFINE r == [run[v] EXCEPT !.phase = phase]
<1>1. r \in RunState
    BY DEF RunState
<1>2. run' = [run EXCEPT ![v] = r]
    BY DEF To
<1> QED
    BY <1>1, <1>2, RunUpdate

LEMMA FreshType == Fresh \in RunState
    BY DEF Fresh, RunState

LEMMA InitType == Init => TypeOK
<1> SUFFICES ASSUME Init PROVE TypeOK
    OBVIOUS
<1>1. run \in [Run -> RunState]
    BY FreshType DEF Init
<1>2. /\ install \in [Part -> Content] /\ result \in [Case -> Run \cup {Nothing, Older}]
      /\ logs \in Run \cup {Nothing} /\ used \in Nat /\ kills \in 0..MaxKills
    BY DEF Init
<1>3. ports \subseteq Run /\ \A v, w \in ports : v = w
    BY DEF Init
<1>4. \A a \in DOMAIN attempts : attempts[a] = Nothing \/ attempts[a].by \in Run
    BY DEF Init
<1>5. DOMAIN found = Run
    BY DEF Init
<1> QED
    BY <1>1, <1>2, <1>3, <1>4, <1>5 DEF TypeOK

\* What the steps with a record of their own make of an invocation's state.
LEMMA StateBackedUp ==
    ASSUME NEW s \in RunState, NEW kept \in [Part -> Content], NEW old \in Run \cup {Nothing, Older}
    PROVE  [s EXCEPT !.phase = "launch", !.backup = kept, !.kept = old] \in RunState
    BY DEF RunState

LEMMA StateListed ==
    ASSUME NEW s \in RunState PROVE [s EXCEPT !.listed = TRUE] \in RunState
    BY DEF RunState

LEMMA StateEnded ==
    ASSUME NEW s \in RunState, NEW status \in Statuses, NEW capped \in BOOLEAN
    PROVE  [s EXCEPT !.phase = "collect", !.status = status, !.capReached = capped] \in RunState
    BY DEF RunState

LEMMA StateCollected ==
    ASSUME run \in [Run -> RunState], NEW v \in Run, NEW phase \in Phases,
           NEW own \in Run \cup {Nothing, Older}, NEW runtime \in Run \cup {Nothing},
           run' = [run EXCEPT ![v].phase = phase, ![v].actual = own, ![v].runtimeLogs = runtime]
    PROVE  run' \in [Run -> RunState]
<1> DEFINE r == [run[v] EXCEPT !.phase = phase, !.actual = own, !.runtimeLogs = runtime]
<1>1. ASSUME NEW s \in RunState
      PROVE  [s EXCEPT !.phase = phase, !.actual = own, !.runtimeLogs = runtime] \in RunState
    BY <1>1 DEF RunState
<1>2. r \in RunState
    BY <1>1, Zenon
<1>3. run' = [run EXCEPT ![v] = r]
    OBVIOUS
<1> QED
    BY <1>2, <1>3, RunUpdate

LEMMA StepType == TypeOK /\ [Next]_vars => TypeOK'
<1> SUFFICES ASSUME TypeOK, [Next]_vars PROVE TypeOK'
    OBVIOUS
<1>0. ASSUME NEW v \in Run PROVE run[v] \in RunState
    BY DEF TypeOK
<1> USE DEF TypeOK, vars, records, ctp, history
<1>1. CASE UNCHANGED vars
    BY <1>1
<1>2. ASSUME NEW v \in Run, Preflight(v) PROVE TypeOK'
    BY <1>2, ToType DEF Preflight
<1>3. ASSUME NEW v \in Run, Admit(v) PROVE TypeOK'
    BY <1>3, ToType DEF Admit
<1>4. ASSUME NEW v \in Run, Claim(v) PROVE TypeOK'
    BY <1>4, ToType DEF Claim
<1>5. ASSUME NEW v \in Run, Backup(v) PROVE TypeOK'
  <2> DEFINE r == [run[v] EXCEPT !.phase = "launch", !.backup = install, !.kept = result[CaseOf[v]]]
  <2>1. r \in RunState
    BY <1>0, StateBackedUp DEF TypeOK
  <2>2. run' = [run EXCEPT ![v] = r]
    BY <1>5 DEF Backup
  <2> QED
    BY <1>5, <2>1, <2>2, RunUpdate DEF Backup
<1>6. ASSUME NEW v \in Run, Launch(v) PROVE TypeOK'
    BY <1>6, ToType DEF Launch
<1>7. ASSUME NEW v \in Run, CtpDispatches(v) PROVE TypeOK'
    BY <1>7 DEF CtpDispatches
<1>8. ASSUME NEW v \in Run, CtpRunsCase(v) PROVE TypeOK'
    BY <1>8 DEF CtpRunsCase
<1>9. ASSUME NEW v \in Run, CtpReports(v) PROVE TypeOK'
  <2> DEFINE r == [run[v] EXCEPT !.listed = TRUE]
  <2>1. r \in RunState
    BY <1>0, StateListed
  <2>2. run' = [run EXCEPT ![v] = r]
    BY <1>9 DEF CtpReports
  <2> QED
    BY <1>9, <2>1, <2>2, RunUpdate DEF CtpReports
<1>10. ASSUME NEW v \in Run, LauncherEnds(v) PROVE TypeOK'
  <2>1. PICK status \in Statuses :
          run' = [run EXCEPT ![v].phase = "collect", ![v].status = status,
                             ![v].capReached = CapReached(status)]
    BY <1>10 DEF LauncherEnds
  <2> DEFINE r == [run[v] EXCEPT !.phase = "collect", !.status = status,
                                 !.capReached = CapReached(status)]
  <2>2. r \in RunState
    BY <1>0, StateEnded DEF CapReached
  <2>3. run' = [run EXCEPT ![v] = r]
    BY <2>1
  <2> QED
    BY <1>10, <2>2, <2>3, RunUpdate DEF LauncherEnds
<1>11. ASSUME NEW v \in Run, Collect(v) PROVE TypeOK'
  <2>1. PICK phase \in {"activate", "restore"} :
          phase = IF v \in Checked /\ ~run[v].capReached THEN "activate" ELSE "restore"
    OBVIOUS
  <2>2. result[CaseOf[v]] \in Run \cup {Nothing, Older}
    OBVIOUS
  <2>3. PICK own \in Run \cup {Nothing, Older} : own = result[CaseOf[v]]
    BY <2>2
  <2>4. (IF v \in Shell THEN logs ELSE Nothing) \in Run \cup {Nothing}
    OBVIOUS
  <2>5. PICK runtime \in Run \cup {Nothing} : runtime = IF v \in Shell THEN logs ELSE Nothing
    BY <2>4
  <2>6. run' = [run EXCEPT ![v].phase = phase, ![v].actual = own, ![v].runtimeLogs = runtime]
    BY <1>11, <2>1, <2>3, <2>5 DEF Collect
  <2>7. run' \in [Run -> RunState]
    <3>1. run \in [Run -> RunState] /\ phase \in Phases
      OBVIOUS
    <3> HIDE DEF TypeOK
    <3> QED
      BY ZenonT(60), <2>6, <3>1, StateCollected
  <2>8. run[v].kept \in Run \cup {Nothing, Older} /\ used + Takes[v] \in Nat
    BY DEF RunState
  <2>9. result' \in [Case -> Run \cup {Nothing, Older}] /\ used' \in Nat
    BY <1>11, <2>8 DEF Collect, StorageWith
  <2> QED
    BY <1>11, <2>7, <2>9 DEF Collect
<1>12. ASSUME NEW v \in Run, Activate(v) PROVE TypeOK'
    BY <1>12, ToType DEF Activate
<1>13. ASSUME NEW v \in Run, ActivationEnds(v) PROVE TypeOK'
    BY <1>13, ToType DEF ActivationEnds
<1>14. ASSUME NEW v \in Run, Empty(v) PROVE TypeOK'
    BY <1>14, ToType DEF Empty
<1>15. ASSUME NEW v \in Run, NEW part \in Part PROVE Refilled(v, part) \in Content
    BY DEF Refilled, RunState
<1>16. ASSUME NEW v \in Run, RestoreConf(v) PROVE TypeOK'
    BY <1>15, <1>16, ToType DEF RestoreConf
<1>17. ASSUME NEW v \in Run, RestoreDatabases(v) PROVE TypeOK'
    BY <1>15, <1>17, ToType DEF RestoreDatabases
<1>18. ASSUME NEW v \in Run, Records(v) PROVE TypeOK'
  <2>1. \A a \in DOMAIN attempts' : attempts'[a] = Nothing \/ attempts'[a].by \in Run
    BY <1>18 DEF Records
  <2> QED
    BY <1>18, <2>1, ToType DEF Records
<1>19. ASSUME NEW v \in Run, Kill(v) PROVE TypeOK'
    BY <1>19, ToType DEF Kill
<1> QED
    BY <1>1, <1>2, <1>3, <1>4, <1>5, <1>6, <1>7, <1>8, <1>9, <1>10, <1>11, <1>12, <1>13, <1>14,
       <1>16, <1>17, <1>18, <1>19 DEF Next

(***************************************************************************)
(* TypeOK holds for any invocations, whether or not they overlap: at most   *)
(* one of them has processes that listen on the campaign's ports.           *)
(***************************************************************************)
THEOREM TypeCorrect == Spec => []TypeOK
    BY InitType, StepType, PTL DEF Spec

-----------------------------------------------------------------------------
(* One wrapper at a time. *)

Step(v) ==
    \/ Preflight(v) \/ Admit(v) \/ Claim(v) \/ Backup(v)
    \/ Launch(v) \/ CtpDispatches(v) \/ CtpRunsCase(v) \/ CtpReports(v) \/ LauncherEnds(v)
    \/ Collect(v) \/ Activate(v) \/ ActivationEnds(v)
    \/ Empty(v) \/ RestoreConf(v) \/ RestoreDatabases(v)
    \/ Records(v) \/ Kill(v)

\* While one of them takes a step the others rest.
LEMMA OthersRest ==
    ASSUME ~Overlap, TypeOK, Alone, NEW v \in Run, Step(v), NEW w \in Run, w # v
    PROVE  run[w].phase \in Ended /\ run'[w] = run[w]
<1> USE DEF TypeOK, Alone, Ended, At, To
<1>0. run[v] \in RunState /\ run[w] \in RunState
    OBVIOUS
<1>1. CASE Preflight(v)
    BY <1>0, <1>1 DEF Preflight, RunState
<1>2. CASE Admit(v)
    BY <1>0, <1>2 DEF Admit, RunState
<1>3. CASE Claim(v)
    BY <1>0, <1>3 DEF Claim, RunState
<1>4. CASE Backup(v)
    BY <1>0, <1>4 DEF Backup, RunState
<1>5. CASE Launch(v)
    BY <1>0, <1>5 DEF Launch, RunState
<1>6. CASE CtpDispatches(v)
    BY <1>0, <1>6 DEF CtpDispatches, RunState
<1>7. CASE CtpRunsCase(v)
    BY <1>0, <1>7 DEF CtpRunsCase, RunState
<1>8. CASE CtpReports(v)
    BY <1>0, <1>8 DEF CtpReports, RunState
<1>9. CASE LauncherEnds(v)
    BY <1>0, <1>9 DEF LauncherEnds, RunState
<1>10. CASE Collect(v)
    BY <1>0, <1>10 DEF Collect, RunState
<1>11. CASE Activate(v)
    BY <1>0, <1>11 DEF Activate, RunState
<1>12. CASE ActivationEnds(v)
    BY <1>0, <1>12 DEF ActivationEnds, RunState
<1>13. CASE Empty(v)
    BY <1>0, <1>13 DEF Empty, RunState
<1>14. CASE RestoreConf(v)
    BY <1>0, <1>14 DEF RestoreConf, RunState
<1>15. CASE RestoreDatabases(v)
    BY <1>0, <1>15 DEF RestoreDatabases, RunState
<1>16. CASE Records(v)
    BY SMTT(60), <1>0, <1>16 DEF Records, RunState
<1>17. CASE Kill(v)
    BY <1>0, <1>17 DEF Kill, RunState
<1> QED
    BY <1>1, <1>2, <1>3, <1>4, <1>5, <1>6, <1>7, <1>8, <1>9, <1>10, <1>11, <1>12, <1>13, <1>14, <1>15, <1>16, <1>17 DEF Step

\* Collecting takes what the case's result file holds and puts the kept one back.
LEMMA CollectMoves ==
    ASSUME TypeOK, NEW v \in Run, Collect(v)
    PROVE  /\ run[v].phase = "collect"
           /\ run'[v].phase \in {"activate", "restore"}
           /\ run'[v].actual = result[CaseOf[v]] /\ run'[v].listed = run[v].listed
           /\ run'[v].backup = run[v].backup /\ run'[v].kept = run[v].kept
           /\ result'[CaseOf[v]] = run[v].kept
           /\ used' = used + Takes[v]
           /\ UNCHANGED <<install, ports, attempts, kills, found>>
<1>1. /\ run \in [Run -> RunState] /\ CaseOf[v] \in Case
      /\ result \in [Case -> Run \cup {Nothing, Older}]
    BY CtpAssumption DEF TypeOK
<1>2. PICK phase \in {"activate", "restore"} : \E logged :
          run' = [run EXCEPT ![v].phase = phase, ![v].actual = result[CaseOf[v]],
                             ![v].runtimeLogs = logged]
    BY DEF Collect
<1>3. PICK logged :
          run' = [run EXCEPT ![v].phase = phase, ![v].actual = result[CaseOf[v]],
                             ![v].runtimeLogs = logged]
    BY <1>2
<1> DEFINE r == [run[v] EXCEPT !.phase = phase, !.actual = result[CaseOf[v]],
                               !.runtimeLogs = logged]
<1>4. run' = [run EXCEPT ![v] = r]
    BY <1>1, <1>3
<1>5. r.phase = phase /\ r.actual = result[CaseOf[v]] /\ r.listed = run[v].listed
      /\ r.backup = run[v].backup /\ r.kept = run[v].kept
    BY <1>1 DEF RunState
<1> HIDE DEF r
<1>6. run'[v] = r
    BY <1>1, <1>4
<1>7. /\ run[v].phase = "collect" /\ result' = [result EXCEPT ![CaseOf[v]] = run[v].kept]
      /\ used' = used + Takes[v]
    BY DEF Collect, StorageWith
<1>8. UNCHANGED <<install, ports, attempts, kills, found>>
    BY DEF Collect, records, history
<1> QED
    BY <1>1, <1>2, <1>5, <1>6, <1>7, <1>8

LEMMA StepSafe ==
    ASSUME ~Overlap, IndInv, TypeOK', NEW v \in Run, Step(v)
    PROVE  IndInv'
<1>0. /\ \A w \in Run : w # v => run[w].phase \in Ended /\ run'[w] = run[w]
      /\ TypeOK /\ run[v] \in RunState
    BY OthersRest DEF IndInv, TypeOK
<1> USE DEF IndInv, Alone, WithinLimit, Reserved, SqlShowsItsOwn, Listed, BackedUp, PristineFound,
            At, Before, Leaving, Ended, To, TypeOK, RunState, records, ctp, history
<1>1. CASE Preflight(v)
  <2>1. Alone'
    BY <1>0, <1>1 DEF Preflight, PortsFree
  <2>2. WithinLimit' /\ Reserved'
    BY <1>0, <1>1 DEF Preflight, StorageWith, Admitted
  <2>3. SqlShowsItsOwn'
    BY <1>0, <1>1 DEF Preflight, Executed
  <2>4. Listed'
    BY <1>0, <1>1 DEF Preflight
  <2>5. BackedUp'
    BY <1>0, <1>1 DEF Preflight, Refilled
  <2>6. PristineFound'
    BY ZenonT(60), <1>0, <1>1 DEF Preflight
  <2> QED
    BY <2>1, <2>2, <2>3, <2>4, <2>5, <2>6
<1>2. CASE Admit(v)
  <2>1. Alone'
    BY <1>0, <1>2 DEF Admit, PortsFree
  <2>2. WithinLimit' /\ Reserved'
    BY <1>0, <1>2 DEF Admit, StorageWith, Admitted
  <2>3. SqlShowsItsOwn'
    BY <1>0, <1>2 DEF Admit, Executed
  <2>4. Listed'
    BY <1>0, <1>2 DEF Admit
  <2>5. BackedUp'
    BY <1>0, <1>2 DEF Admit, Refilled
  <2>6. PristineFound'
    BY <1>0, <1>2 DEF Admit
  <2> QED
    BY <2>1, <2>2, <2>3, <2>4, <2>5, <2>6
<1>3. CASE Claim(v)
  <2>1. Alone'
    BY <1>0, <1>3 DEF Claim, PortsFree
  <2>2. WithinLimit' /\ Reserved'
    BY <1>0, <1>3 DEF Claim, StorageWith, Admitted
  <2>3. SqlShowsItsOwn'
    BY <1>0, <1>3 DEF Claim, Executed
  <2>4. Listed'
    BY <1>0, <1>3 DEF Claim
  <2>5. BackedUp'
    BY <1>0, <1>3 DEF Claim, Refilled
  <2>6. PristineFound'
    BY SMTT(60), <1>0, <1>3 DEF Claim
  <2> QED
    BY <2>1, <2>2, <2>3, <2>4, <2>5, <2>6
<1>4. CASE Backup(v)
  <2>1. Alone'
    BY <1>0, <1>4 DEF Backup, PortsFree
  <2>2. WithinLimit' /\ Reserved'
    BY <1>0, <1>4 DEF Backup, StorageWith, Admitted
  <2>3. SqlShowsItsOwn'
    BY <1>0, <1>4 DEF Backup, Executed
  <2>4. Listed'
    BY <1>0, <1>4 DEF Backup
  <2>5. BackedUp'
    BY SMTT(60), <1>0, <1>4 DEF Backup, Refilled
  <2>6. PristineFound'
    BY <1>0, <1>4 DEF Backup
  <2> QED
    BY <2>1, <2>2, <2>3, <2>4, <2>5, <2>6
<1>5. CASE Launch(v)
  <2>1. Alone'
    BY <1>0, <1>5 DEF Launch, PortsFree
  <2>2. WithinLimit' /\ Reserved'
    BY <1>0, <1>5 DEF Launch, StorageWith, Admitted
  <2>3. SqlShowsItsOwn'
    BY <1>0, <1>5 DEF Launch, Executed
  <2>4. Listed'
    BY <1>0, <1>5 DEF Launch
  <2>5. BackedUp'
    BY <1>0, <1>5 DEF Launch, Refilled
  <2>6. PristineFound'
    BY <1>0, <1>5 DEF Launch
  <2> QED
    BY <2>1, <2>2, <2>3, <2>4, <2>5, <2>6
<1>6. CASE CtpDispatches(v)
  <2>1. Alone'
    BY <1>0, <1>6 DEF CtpDispatches, PortsFree
  <2>2. WithinLimit' /\ Reserved'
    BY <1>0, <1>6 DEF CtpDispatches, StorageWith, Admitted
  <2>3. SqlShowsItsOwn'
    BY <1>0, <1>6 DEF CtpDispatches, Executed
  <2>4. Listed'
    BY <1>0, <1>6 DEF CtpDispatches
  <2>5. BackedUp'
    BY <1>0, <1>6 DEF CtpDispatches, Refilled
  <2>6. PristineFound'
    BY <1>0, <1>6 DEF CtpDispatches
  <2> QED
    BY <2>1, <2>2, <2>3, <2>4, <2>5, <2>6
<1>7. CASE CtpRunsCase(v)
  <2>1. Alone'
    BY <1>0, <1>7 DEF CtpRunsCase, PortsFree
  <2>2. WithinLimit' /\ Reserved'
    BY <1>0, <1>7 DEF CtpRunsCase, StorageWith, Admitted
  <2>3. SqlShowsItsOwn'
    BY <1>0, <1>7 DEF CtpRunsCase, Executed
  <2>4. Listed'
    BY <1>0, <1>7 DEF CtpRunsCase
  <2>5. BackedUp'
    BY <1>0, <1>7 DEF CtpRunsCase, Refilled
  <2>6. PristineFound'
    BY <1>0, <1>7 DEF CtpRunsCase
  <2> QED
    BY <2>1, <2>2, <2>3, <2>4, <2>5, <2>6
<1>8. CASE CtpReports(v)
  <2>1. Alone'
    BY <1>0, <1>8 DEF CtpReports, PortsFree
  <2>2. WithinLimit' /\ Reserved'
    BY <1>0, <1>8 DEF CtpReports, StorageWith, Admitted
  <2>3. SqlShowsItsOwn'
    BY <1>0, <1>8 DEF CtpReports, Executed
  <2>4. Listed'
    BY <1>0, <1>8 DEF CtpReports
  <2>5. BackedUp'
    BY <1>0, <1>8 DEF CtpReports, Refilled
  <2>6. PristineFound'
    BY SMTT(60), <1>0, <1>8 DEF CtpReports
  <2> QED
    BY <2>1, <2>2, <2>3, <2>4, <2>5, <2>6
<1>9. CASE LauncherEnds(v)
  <2>1. Alone'
    BY <1>0, <1>9 DEF LauncherEnds, PortsFree
  <2>2. WithinLimit' /\ Reserved'
    BY <1>0, <1>9 DEF LauncherEnds, StorageWith, Admitted
  <2>3. SqlShowsItsOwn'
    BY <1>0, <1>9 DEF LauncherEnds, Executed
  <2>4. Listed'
    BY <1>0, <1>9 DEF LauncherEnds
  <2>5. BackedUp'
    BY <1>0, <1>9 DEF LauncherEnds, Refilled
  <2>6. PristineFound'
    BY SMTT(60), <1>0, <1>9 DEF LauncherEnds
  <2> QED
    BY <2>1, <2>2, <2>3, <2>4, <2>5, <2>6
<1>10. CASE Collect(v)
  <2>0. /\ run[v].phase = "collect"
        /\ run'[v].phase \in {"activate", "restore"}
        /\ run'[v].actual = result[CaseOf[v]] /\ run'[v].listed = run[v].listed
        /\ run'[v].backup = run[v].backup /\ run'[v].kept = run[v].kept
        /\ result'[CaseOf[v]] = run[v].kept
        /\ used' = used + Takes[v]
        /\ UNCHANGED <<install, ports, attempts, kills, found>>
    BY <1>0, <1>10, CollectMoves, Zenon
  <2>1. Alone'
    <3>1. ports = {}
      BY <1>0, <2>0
    <3>2. \A w \in Run : w # v => run'[w].phase \in Ended
      BY <1>0
    <3> QED
      BY <2>0, <3>1, <3>2
  <2>2. WithinLimit' /\ Reserved'
    <3>1. used' <= Limit
      <4>1. used + Reserve <= Limit
        BY <2>0
      <4> QED
        BY <2>0, <4>1
    <3>2. \A w \in Run : run'[w].phase \notin {"claim", "backup", "launch", "running", "collect"}
      BY <1>0, <2>0
    <3> QED
      BY <3>1, <3>2
  <2>3. SqlShowsItsOwn'
    BY <1>0, <2>0
  <2>4. Listed'
    <3>1. v \notin Shell /\ run[v].listed => run'[v].actual = v
      BY <2>0
    <3>2. \A w \in Run : w # v => run'[w] = run[w] /\ run'[w].phase \in Ended
      BY <1>0
    <3> QED
      BY <2>0, <3>1, <3>2
  <2>5. BackedUp'
    BY <1>0, <2>0
  <2>6. PristineFound'
    BY ZenonT(60), <1>0, <2>0
  <2> QED
    BY <2>1, <2>2, <2>3, <2>4, <2>5, <2>6
<1>11. CASE Activate(v)
  <2>0. PortsFree /\ To(v, "checking") /\ ports' = {v}
    BY <1>0, <1>11 DEF Activate, PortsFree
  <2>1. Alone'
    BY <1>0, <1>11, <2>0 DEF Activate
  <2>2. WithinLimit' /\ Reserved'
    BY <1>0, <1>11 DEF Activate, StorageWith, Admitted
  <2>3. SqlShowsItsOwn'
    BY <1>0, <1>11 DEF Activate, Executed
  <2>4. Listed'
    BY <1>0, <1>11 DEF Activate
  <2>5. BackedUp'
    BY SMTT(60), <1>0, <1>11 DEF Activate, Refilled
  <2>6. PristineFound'
    BY <1>0, <1>11, <2>0 DEF Activate
  <2> QED
    BY <2>1, <2>2, <2>3, <2>4, <2>5, <2>6
<1>12. CASE ActivationEnds(v)
  <2>1. Alone'
    BY <1>0, <1>12 DEF ActivationEnds, PortsFree
  <2>2. WithinLimit' /\ Reserved'
    BY <1>0, <1>12 DEF ActivationEnds, StorageWith, Admitted
  <2>3. SqlShowsItsOwn'
    BY <1>0, <1>12 DEF ActivationEnds, Executed
  <2>4. Listed'
    BY <1>0, <1>12 DEF ActivationEnds
  <2>5. BackedUp'
    BY <1>0, <1>12 DEF ActivationEnds, Refilled
  <2>6. PristineFound'
    BY <1>0, <1>12 DEF ActivationEnds
  <2> QED
    BY <2>1, <2>2, <2>3, <2>4, <2>5, <2>6
<1>13. CASE Empty(v)
  <2>0. run'[v].phase \in {"dead", "emptied"} /\ UNCHANGED <<ports, kills, found>>
    BY <1>0, <1>13 DEF Empty
  <2>1. Alone'
    <3>1. ports = {}
      BY SMTT(60), <1>0, <1>13 DEF Empty
    <3>2. \A w \in Run : w # v => run'[w].phase \in Ended
      BY <1>0
    <3> QED
      BY <2>0, <3>1, <3>2
  <2>2. WithinLimit' /\ Reserved'
    BY <1>0, <1>13 DEF Empty, StorageWith, Admitted
  <2>3. SqlShowsItsOwn'
    BY <1>0, <1>13 DEF Empty, Executed
  <2>4. Listed'
    BY <1>0, <1>13 DEF Empty
  <2>5. BackedUp'
    BY SMTT(60), <1>0, <1>13 DEF Empty, Refilled
  <2>6. PristineFound'
    <3>1. CASE run[v].backup["conf"] = "gone"
      <4>1. kills = 0 => found[v].install["conf"] = "pristine"
        BY <1>0, <1>13 DEF Empty
      <4>2. found[v].install = run[v].backup
        BY <1>0, <1>13 DEF Empty
      <4> QED
        BY <2>0, <3>1, <4>1, <4>2
    <3>2. CASE run[v].backup["conf"] # "gone"
      <4>1. run'[v].phase = "emptied"
        BY <1>0, <1>13, <3>2 DEF Empty
      <4>2. kills = 0 => found[v].install = [p \in Part |-> "pristine"]
        BY <1>0, <1>13 DEF Empty
      <4> QED
        BY <1>0, <2>0, <4>1, <4>2
    <3> QED
      BY <3>1, <3>2
  <2> QED
    BY <2>1, <2>2, <2>3, <2>4, <2>5, <2>6
<1>14. CASE RestoreConf(v)
  <2>1. Alone'
    BY <1>0, <1>14 DEF RestoreConf, PortsFree
  <2>2. WithinLimit' /\ Reserved'
    BY <1>0, <1>14 DEF RestoreConf, StorageWith, Admitted
  <2>3. SqlShowsItsOwn'
    BY <1>0, <1>14 DEF RestoreConf, Executed
  <2>4. Listed'
    BY <1>0, <1>14 DEF RestoreConf
  <2>5. BackedUp'
    BY <1>0, <1>14 DEF RestoreConf, Refilled
  <2>6. PristineFound'
    BY <1>0, <1>14 DEF RestoreConf
  <2> QED
    BY <2>1, <2>2, <2>3, <2>4, <2>5, <2>6
<1>15. CASE RestoreDatabases(v)
  <2>1. Alone'
    BY <1>0, <1>15 DEF RestoreDatabases, PortsFree
  <2>2. WithinLimit' /\ Reserved'
    BY <1>0, <1>15 DEF RestoreDatabases, StorageWith, Admitted
  <2>3. SqlShowsItsOwn'
    BY <1>0, <1>15 DEF RestoreDatabases, Executed
  <2>4. Listed'
    BY <1>0, <1>15 DEF RestoreDatabases
  <2>5. BackedUp'
    BY <1>0, <1>15 DEF RestoreDatabases, Refilled
  <2>6. PristineFound'
    BY <1>0, <1>15 DEF RestoreDatabases
  <2> QED
    BY <2>1, <2>2, <2>3, <2>4, <2>5, <2>6
<1>16. CASE Records(v)
  <2>1. Alone'
    BY <1>0, <1>16 DEF Records, PortsFree
  <2>2. WithinLimit' /\ Reserved'
    BY <1>0, <1>16 DEF Records, StorageWith, Admitted
  <2>3. SqlShowsItsOwn'
    <3>1. CASE NoProofSource(v)
      BY <1>0, <1>16, <3>1 DEF Records
    <3>2. CASE ~NoProofSource(v) /\ ~Executed(v)
      BY <1>0, <1>16, <3>2 DEF Records
    <3>3. CASE ~NoProofSource(v) /\ Executed(v)
      <4>1. attempts' = [attempts EXCEPT ![AttemptOf[v]] = [by |-> v, actual |-> run[v].actual]]
        BY <1>16, <3>3 DEF Records
      <4>2. v \notin Shell => run[v].actual = v
        BY <1>0, <1>16, <3>3 DEF Records, Executed
      <4> QED
        BY <4>1, <4>2
    <3> QED
      BY <3>1, <3>2, <3>3
  <2>4. Listed'
    BY <1>0, <1>16 DEF Records
  <2>5. BackedUp'
    BY <1>0, <1>16 DEF Records, Refilled
  <2>6. PristineFound'
    BY <1>0, <1>16 DEF Records
  <2> QED
    BY <2>1, <2>2, <2>3, <2>4, <2>5, <2>6
<1>17. CASE Kill(v)
  <2>1. Alone'
    BY <1>0, <1>17 DEF Kill, PortsFree
  <2>2. WithinLimit' /\ Reserved'
    BY <1>0, <1>17 DEF Kill, StorageWith, Admitted
  <2>3. SqlShowsItsOwn'
    BY <1>0, <1>17 DEF Kill, Executed
  <2>4. Listed'
    BY <1>0, <1>17 DEF Kill
  <2>5. BackedUp'
    BY <1>0, <1>17 DEF Kill, Refilled
  <2>6. PristineFound'
    BY <1>0, <1>17 DEF Kill
  <2> QED
    BY <2>1, <2>2, <2>3, <2>4, <2>5, <2>6
<1> QED
    BY <1>1, <1>2, <1>3, <1>4, <1>5, <1>6, <1>7, <1>8, <1>9, <1>10, <1>11, <1>12, <1>13, <1>14, <1>15, <1>16, <1>17 DEF Step


LEMMA InitSafe == Init => IndInv
<1> SUFFICES ASSUME Init PROVE IndInv
    OBVIOUS
<1>1. TypeOK /\ WithinLimit
    BY InitType DEF Init, WithinLimit
<1>2. \A v \in Run : run[v].phase = "new" /\ run[v].listed = FALSE
    BY DEF Init, Fresh
<1>3. ports = {} /\ install = [p \in Part |-> "pristine"]
    BY DEF Init
<1>4. \A a \in DOMAIN attempts : attempts[a] = Nothing
    BY DEF Init
<1>5. Alone /\ Reserved
    BY <1>2, <1>3 DEF Alone, Reserved, At, Ended
<1>6. SqlShowsItsOwn /\ Listed
    BY <1>2, <1>4 DEF SqlShowsItsOwn, Listed
<1>7. BackedUp /\ PristineFound
    BY <1>2, <1>3 DEF BackedUp, PristineFound, At, Ended, Before, Leaving
<1> QED
    BY <1>1, <1>5, <1>6, <1>7 DEF IndInv

LEMMA NextSafe == ~Overlap /\ IndInv /\ [Next]_vars => IndInv'
<1> SUFFICES ASSUME ~Overlap, IndInv, [Next]_vars PROVE IndInv'
    OBVIOUS
<1>1. TypeOK'
    BY StepType DEF IndInv
<1>2. CASE UNCHANGED vars
    BY <1>1, <1>2 DEF vars, IndInv, Alone, WithinLimit, Reserved, SqlShowsItsOwn, Listed, BackedUp,
                      PristineFound, At
<1>3. ASSUME NEW v \in Run, Step(v) PROVE IndInv'
    BY <1>1, <1>3, StepSafe
<1> QED
    BY <1>2, <1>3 DEF Next, Step

(***************************************************************************)
(* Wrappers started one after another keep IndInv: at every place of the    *)
(* script what a wrapper holds is still true of the install, the worktree   *)
(* and the storage, whatever those before it left when they were killed.    *)
(***************************************************************************)
THEOREM Inductive == ASSUME ~Overlap PROVE Spec => []IndInv
<1>1. Init => IndInv
    BY InitSafe
<1>2. IndInv /\ [Next]_vars => IndInv'
    BY NextSafe
<1> QED
    BY <1>1, <1>2, PTL DEF Spec

(***************************************************************************)
(* One at a time, no invocation takes the storage over its limit.           *)
(***************************************************************************)
THEOREM StorageStaysWithinLimit == ASSUME ~Overlap PROVE Spec => []WithinLimit
<1>1. IndInv => WithinLimit
    BY DEF IndInv
<1> QED
    BY <1>1, Inductive, PTL

(***************************************************************************)
(* One at a time, a record of the SQL runner shows its own .result.         *)
(***************************************************************************)
THEOREM SqlRecordsShowTheirOwn == ASSUME ~Overlap PROVE Spec => []SqlShowsItsOwn
<1>1. IndInv => SqlShowsItsOwn
    BY DEF IndInv
<1> QED
    BY <1>1, Inductive, PTL

(***************************************************************************)
(* One at a time and none killed, the install is as it was whenever no      *)
(* wrapper is at work: what ctp_install refutes holds without the overlap.  *)
(***************************************************************************)
THEOREM InstallIsRestored == ASSUME ~Overlap PROVE Spec => []RestoredVerbatim
<1>1. IndInv => RestoredVerbatim
    BY DEF IndInv, PristineFound, RestoredVerbatim, At
<1> QED
    BY <1>1, Inductive, PTL

(***************************************************************************)
(* One at a time, a wrapper that comes to its end leaves install and        *)
(* worktree as it found them, whatever an earlier one left behind.          *)
(***************************************************************************)
THEOREM EachLeavesWhatItFound == ASSUME ~Overlap PROVE Spec => LeftAsFound
<1>1. ASSUME IndInv, [Next]_vars, NEW v \in Run, run[v].phase # "done", run'[v].phase = "done"
      PROVE  found[v] = [install |-> install', result |-> result'[CaseOf[v]]]
  <2>1. PICK u \in Run : Step(u)
    BY <1>1 DEF Next, Step, vars
  <2>2. u = v
    BY <1>1, <2>1, OthersRest DEF IndInv
  <2>3. run \in [Run -> RunState] /\ Step(v)
    BY <1>1, <2>1, <2>2 DEF IndInv, TypeOK
  <2>4. \A phase : To(v, phase) => run'[v].phase = phase
    BY <2>3 DEF To, RunState
  <2>5. ASSUME CtpReports(v) PROVE run'[v].phase = run[v].phase
    BY <2>3, <2>5 DEF CtpReports, RunState
  <2>6. ASSUME CtpDispatches(v) \/ CtpRunsCase(v) PROVE run'[v].phase = run[v].phase
    BY <2>6 DEF CtpDispatches, CtpRunsCase
  <2>7. ASSUME Backup(v) \/ LauncherEnds(v) \/ Collect(v) PROVE run'[v].phase # "done"
    <3>1. CASE Backup(v)
      BY <2>3, <3>1 DEF Backup, RunState
    <3>2. CASE LauncherEnds(v)
      BY <2>3, <3>2 DEF LauncherEnds, RunState
    <3>3. CASE Collect(v)
      <4>1. PICK phase \in {"activate", "restore"} : \E logged :
              run' = [run EXCEPT ![v].phase = phase, ![v].actual = result[CaseOf[v]],
                                 ![v].runtimeLogs = logged]
        BY <3>3 DEF Collect
      <4>2. run'[v].phase = phase
        BY <2>3, <4>1 DEF RunState
      <4> QED
        BY <4>1, <4>2
    <3> QED
      BY <2>7, <3>1, <3>2, <3>3
  <2>8. Records(v)
    BY <1>1, <2>3, <2>4, <2>5, <2>6, <2>7 DEF Step, Preflight, Admit, Claim, Launch, Activate,
       ActivationEnds, Empty, RestoreConf, RestoreDatabases, Kill
  <2> QED
    BY <1>1, <2>8 DEF Records, IndInv, BackedUp, At, Leaving, ctp
<1>2. IndInv /\ [Next]_vars =>
        [\A v \in Run : run[v].phase # "done" /\ run'[v].phase = "done" =>
            found[v] = [install |-> install', result |-> result'[CaseOf[v]]]]_vars
    BY <1>1
<1> QED
    BY <1>2, Inductive, PTL DEF Spec, LeftAsFound
=============================================================================
