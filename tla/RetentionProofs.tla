--------------------------- MODULE RetentionProofs ---------------------------
(***************************************************************************)
(* Proofs about Retention, for every set of directories, indexes, files and *)
(* expirers, and for any number of crashes and faults: its types, its       *)
(* safety, and that it implements BundleStore.                              *)
(***************************************************************************)
EXTENDS RetentionStore, TLAPS

-----------------------------------------------------------------------------
(***************************************************************************)
(* Types.                                                                   *)
(***************************************************************************)

USE ConstantsAssumption DEF Classes, Sealed

LEMMA BlankType == Blank \in Record /\ IdleTool \in ToolState
    BY DEF Blank, Record, IdleTool, ToolState, Phases

LEMMA InitType == Init => TypeOK
    BY BlankType DEF Init, TypeOK, IdleTriage, Record

\* Rewriting retention fields of an index leaves an index.
LEMMA RecordUpdate ==
    ASSUME NEW r \in Record, NEW n \in Nat \cup {NoDay}, NEW h \in BOOLEAN
    PROVE  /\ [r EXCEPT !.expires = n, !.hold = h] \in Record
           /\ [r EXCEPT !.state = "core-only", !.demoted = TRUE] \in Record
           /\ [r EXCEPT !.hold = TRUE, !.demoted = TRUE] \in Record
    BY DEF Record

\* Only one expirer's state changed, and it is well formed: so are they all.
LEMMA ToolUpdate ==
    ASSUME TypeOK, NEW e \in Expirer, NEW t \in ToolState, tool' = [tool EXCEPT ![e] = t]
    PROVE  tool' \in [Expirer -> ToolState]
    BY DEF TypeOK

LEMMA BlockType ==
    ASSUME TypeOK, NEW i \in Index
    PROVE  RetentionBlock(i, today) \in Record
<1>1. today + BulkDays \in Nat
    BY DEF TypeOK
<1>2. /\ Items[i] \cap disk[Root[i]] \in SUBSET File
      /\ (disk[Root[i]] = Sealed /\ damaged[Root[i]] = {}) \in BOOLEAN
      /\ (Class[i] # "success-bulky") \in BOOLEAN
    OBVIOUS
<1> QED
    BY <1>1, <1>2 DEF RetentionBlock, Record

LEMMA StepType == TypeOK /\ [Next]_vars => TypeOK'
<1> SUFFICES ASSUME TypeOK, [Next]_vars PROVE TypeOK'
    OBVIOUS
<1>1. CASE UNCHANGED vars
    BY <1>1 DEF vars, TypeOK
<1>2. ASSUME NEW i \in Index, BuildIndex(i) PROVE TypeOK'
    BY <1>2, BlockType DEF BuildIndex, TypeOK, store
<1>3. ASSUME NEW i \in Index, Repair(i) PROVE TypeOK'
    BY <1>3 DEF Repair, TypeOK, store, env
<1>4. ASSUME NEW i \in Index, NEW date \in Dates, NEW hold \in BOOLEAN,
             TriageLoad(i, date, hold) PROVE TypeOK'
  <2> DEFINE r == [index[i] EXCEPT !.expires = date + TriageDays, !.hold = hold]
  <2>1. index[i] \in Record /\ date + TriageDays \in Nat
    BY SMTT(60) DEF TypeOK
  <2>2. r \in Record
    BY <2>1, RecordUpdate
  <2>3. triage' = [phase |-> "loaded", idx |-> {i}, new |-> r]
    BY <1>4 DEF TriageLoad
  <2> HIDE DEF r
  <2>4. triage' \in [phase : {"idle", "loaded", "cut"}, idx : SUBSET Index, new : Record]
    BY <2>2, <2>3
  <2> QED
    BY <1>4, <2>4 DEF TriageLoad, TypeOK, store, env
<1>5. CASE TriageTruncate
  <2>1. [triage EXCEPT !.phase = "cut"] \in
          [phase : {"idle", "loaded", "cut"}, idx : SUBSET Index, new : Record]
    BY DEF TypeOK
  <2> QED
    BY <1>5, <2>1 DEF TriageTruncate, TypeOK, store, env
<1>6. CASE TriageWrite
    BY <1>6, BlankType DEF TriageWrite, TypeOK, store, env, IdleTriage
<1>7. CASE TriageCrash
    BY <1>7, BlankType DEF TriageCrash, TypeOK, store, IdleTriage
<1>8. ASSUME NEW e \in Expirer, NEW apply \in BOOLEAN, NEW arg \in EvidenceArgs, Start(e, apply, arg) PROVE TypeOK'
  <2> DEFINE t == [IdleTool EXCEPT !.phase = "scan", !.apply = apply, !.day = today,
                    !.asked = {i \in arg : file[i] = "whole"},
                    !.unreadable = {i \in arg : file[i] = "torn"},
                    !.unread = arg \cup DefaultTree]
  <2>1. tool[e] \in ToolState
    BY SMTT(60) DEF TypeOK
  <2>2. t \in ToolState
    BY <2>1, BlankType DEF ToolState, TypeOK, Phases
  <2>3. tool' = [tool EXCEPT ![e] = t]
    BY <1>8 DEF Start
  <2> HIDE DEF t
  <2>4. tool' \in [Expirer -> ToolState]
    BY <2>2, <2>3, ToolUpdate
  <2> QED
    BY <1>8, <2>4 DEF Start, TypeOK, store, env
<1>9. ASSUME NEW e \in Expirer, NEW i \in Index, Read(e, i) PROVE TypeOK'
  <2> DEFINE t == [tool[e] EXCEPT !.unread = @ \ {i}, !.got = @ \cup {i},
                                 !.snap = [@ EXCEPT ![i] = index[i]]]
             u == [tool[e] EXCEPT !.unread = @ \ {i}]
  <2>1. tool[e] \in ToolState
    BY DEF TypeOK
  <2>2. t \in ToolState /\ u \in ToolState
    <3>1. index[i] \in Record
      BY DEF TypeOK
    <3> QED
      BY <2>1, <3>1 DEF ToolState
  <2>3. tool' = [tool EXCEPT ![e] = t] \/ tool' = [tool EXCEPT ![e] = u]
    BY <1>9 DEF Read
  <2> HIDE DEF t, u
  <2>4. tool' \in [Expirer -> ToolState]
    BY <2>2, <2>3, ToolUpdate
  <2> QED
    BY <1>9, <2>4 DEF Read, TypeOK, store, env
<1>10. ASSUME NEW e \in Expirer, NEW i \in Index, Truncate(e, i) PROVE TypeOK'
  <2> DEFINE t == [tool[e] EXCEPT !.cut = {i}]
  <2>1. tool[e] \in ToolState
    BY DEF TypeOK
  <2>2. t \in ToolState
    BY <2>1 DEF ToolState
  <2>3. tool' = [tool EXCEPT ![e] = t]
    BY <1>10 DEF Truncate
  <2> HIDE DEF t
  <2>4. tool' \in [Expirer -> ToolState]
    BY <2>2, <2>3, ToolUpdate
  <2> QED
    BY <1>10, <2>4 DEF Truncate, TypeOK, store, env
<1>11. ASSUME NEW e \in Expirer, NEW i \in Index, WriteBack(e, i) PROVE TypeOK'
  <2> DEFINE t == [tool[e] EXCEPT !.cut = {}, !.queue = @ \ {i}]
  <2>1. tool[e] \in ToolState
    BY DEF TypeOK
  <2>2. t \in ToolState
    BY <2>1, BlankType DEF ToolState, TypeOK, Phases
  <2>3. tool' = [tool EXCEPT ![e] = t]
    BY <1>11 DEF WriteBack
  <2> HIDE DEF t
  <2>4. tool' \in [Expirer -> ToolState]
    BY <2>2, <2>3, ToolUpdate
  <2>5. index'[i] \in Record
    <3>1. tool[e].snap[i] \in Record
      BY <2>1 DEF ToolState
    <3> QED
      BY <1>11, <3>1, RecordUpdate DEF WriteBack, TypeOK
  <2> QED
    BY <1>11, <2>4, <2>5 DEF WriteBack, TypeOK, store, env
<1>12. ASSUME NEW e \in Expirer, NEW d \in Dir, PassOver(e, d) PROVE TypeOK'
  <2> DEFINE t == [tool[e] EXCEPT !.todo = @ \ {d}]
  <2>1. tool[e] \in ToolState
    BY DEF TypeOK
  <2>2. t \in ToolState
    BY <2>1, BlankType DEF ToolState, TypeOK, Phases
  <2>3. tool' = [tool EXCEPT ![e] = t]
    BY <1>12 DEF PassOver
  <2> HIDE DEF t
  <2>4. tool' \in [Expirer -> ToolState]
    BY <2>2, <2>3, ToolUpdate
  <2> QED
    BY <1>12, <2>4 DEF PassOver, TypeOK, store, env
<1>13. ASSUME NEW e \in Expirer, NEW d \in Dir, CannotKeep(e, d) PROVE TypeOK'
  <2> DEFINE t == [tool[e] EXCEPT !.phase = "record", !.dir = {d},
                                 !.queue = EligibleCiting(e, d)]
  <2>1. tool[e] \in ToolState
    BY DEF TypeOK
  <2>2. t \in ToolState
    BY ZenonT(60), <2>1, BlankType DEF ToolState, TypeOK, Phases, EligibleCiting, Citing
  <2>3. tool' = [tool EXCEPT ![e] = t]
    BY <1>13 DEF CannotKeep
  <2> HIDE DEF t
  <2>4. tool' \in [Expirer -> ToolState]
    BY <2>2, <2>3, ToolUpdate
  <2> QED
    BY SMTT(60), <1>13, <2>4 DEF CannotKeep, TypeOK, store, env
<1>14. ASSUME NEW e \in Expirer, NEW d \in Dir, Demote(e, d) PROVE TypeOK'
  <2> DEFINE t == [tool[e] EXCEPT !.phase = "remove", !.dir = {d},
                                 !.units = RemovalPlan(e, d)]
  <2>1. tool[e] \in ToolState
    BY DEF TypeOK
  <2>2. t \in ToolState
    BY <2>1, BlankType DEF ToolState, TypeOK, Phases, RemovalPlan
  <2>3. tool' = [tool EXCEPT ![e] = t]
    BY <1>14 DEF Demote
  <2> HIDE DEF t
  <2>4. tool' \in [Expirer -> ToolState]
    BY <2>2, <2>3, ToolUpdate
  <2> QED
    BY <1>14, <2>4 DEF Demote, TypeOK, store, env
<1>15. ASSUME NEW e \in Expirer, NEW f \in File, RemoveUnit(e, f) PROVE TypeOK'
  <2> DEFINE t == [tool[e] EXCEPT !.units = @ \ {f}]
             u == IdleTool
  <2>1. tool[e] \in ToolState
    BY DEF TypeOK
  <2>2. t \in ToolState /\ u \in ToolState
    BY <2>1, BlankType DEF ToolState, TypeOK, Phases
  <2>3. tool' = [tool EXCEPT ![e] = t] \/ tool' = [tool EXCEPT ![e] = u]
    BY <1>15 DEF RemoveUnit
  <2> HIDE DEF t, u
  <2>4. tool' \in [Expirer -> ToolState]
    BY <2>2, <2>3, ToolUpdate
  <2>5. disk' \in [Dir -> SUBSET Sealed] /\ removed' \in [Dir -> SUBSET Sealed]
    BY <1>15 DEF RemoveUnit, TypeOK
  <2> QED
    BY <1>15, <2>4, <2>5 DEF RemoveUnit, TypeOK, env
<1>16. ASSUME NEW e \in Expirer, ScanDone(e) PROVE TypeOK'
  <2> DEFINE t == [tool[e] EXCEPT !.phase = "decide",
                                 !.todo = {Root[i] : i \in tool[e].got}]
  <2>1. tool[e] \in ToolState
    BY SMTT(60) DEF TypeOK
  <2>2. t \in ToolState
    <3>1. {Root[i] : i \in tool[e].got} \in SUBSET Dir
      BY <2>1 DEF ToolState
    <3> QED
      BY <2>1, <3>1 DEF ToolState, Phases
  <2>3. tool' = [tool EXCEPT ![e] = t]
    BY <1>16 DEF ScanDone
  <2> HIDE DEF t
  <2>4. tool' \in [Expirer -> ToolState]
    BY <2>2, <2>3, ToolUpdate
  <2> QED
    BY <1>16, <2>4 DEF ScanDone, TypeOK, store, env
<1>17. ASSUME NEW e \in Expirer, Removed(e) PROVE TypeOK'
  <2>1. tool[e] \in ToolState
    BY DEF TypeOK
  <2>2. PICK d \in tool[e].dir : \/ tool' = [tool EXCEPT ![e] = IdleTool]
                               \/ tool' = [tool EXCEPT ![e] = [tool[e] EXCEPT
                                     !.phase = "mark", !.queue = EligibleCiting(e, d)]]
    BY ZenonT(60), <1>17 DEF Removed
  <2> DEFINE t == [tool[e] EXCEPT !.phase = "mark", !.queue = EligibleCiting(e, d)]
  <2>3. t \in ToolState
    BY <2>1 DEF ToolState, Phases, EligibleCiting, Citing
  <2>4. tool' = [tool EXCEPT ![e] = IdleTool] \/ tool' = [tool EXCEPT ![e] = t]
    BY <2>2
  <2> HIDE DEF t
  <2>5. tool' \in [Expirer -> ToolState]
    BY <2>3, <2>4, ToolUpdate, BlankType
  <2> QED
    BY <1>17, <2>5 DEF Removed, TypeOK, store, env
<1>18. ASSUME NEW e \in Expirer, NextDir(e) PROVE TypeOK'
  <2> DEFINE t == [tool[e] EXCEPT !.phase = "decide", !.todo = @ \ tool[e].dir, !.dir = {}]
  <2>1. tool[e] \in ToolState
    BY DEF TypeOK
  <2>2. t \in ToolState
    BY <2>1, BlankType DEF ToolState, TypeOK, Phases
  <2>3. tool' = [tool EXCEPT ![e] = t]
    BY <1>18 DEF NextDir
  <2> HIDE DEF t
  <2>4. tool' \in [Expirer -> ToolState]
    BY <2>2, <2>3, ToolUpdate
  <2> QED
    BY <1>18, <2>4 DEF NextDir, TypeOK, store, env
<1>19. ASSUME NEW e \in Expirer, Finish(e) PROVE TypeOK'
    BY <1>19, BlankType DEF Finish, TypeOK, store, env
<1>20. ASSUME NEW e \in Expirer, Crash(e) PROVE TypeOK'
    BY <1>20, BlankType DEF Crash, TypeOK, store
<1>21. ASSUME NEW d \in Dir, NEW f \in Sealed, Lose(d, f) PROVE TypeOK'
    BY <1>21 DEF Lose, TypeOK, env
<1>22. ASSUME NEW d \in Dir, NEW f \in Sealed, Alter(d, f) PROVE TypeOK'
    BY <1>22 DEF Alter, TypeOK, env
<1>23. CASE Tick
    BY <1>23 DEF Tick, TypeOK, store
<1> QED
    BY <1>1, <1>2, <1>3, <1>4, <1>5, <1>6, <1>7, <1>8, <1>9, <1>10, <1>11, <1>12,
       <1>13, <1>14, <1>15, <1>16, <1>17, <1>18, <1>19, <1>20, <1>21, <1>22, <1>23
    DEF Next, ExpireStep

(***************************************************************************)
(* Every variable keeps its type.                                           *)
(***************************************************************************)
THEOREM TypeCorrect == Spec => []TypeOK
<1>1. Init => TypeOK
    BY InitType
<1>2. TypeOK /\ [Next]_vars => TypeOK'
    BY StepType
<1> QED
    BY <1>1, <1>2, PTL DEF Spec

HIDE ConstantsAssumption DEF Classes, Sealed

-----------------------------------------------------------------------------
(***************************************************************************)
(* The inductive invariant, and what follows from it: no file that a        *)
(* scanned index names is removed, no directory is shrunk against a         *)
(* failing, held or unexpired sibling, no index is marked before the bulk   *)
(* is gone, and no triage is undone.                                        *)
(***************************************************************************)

\* What reading an index does to the expirer that reads it.
LEMMA ReadTool ==
    ASSUME NEW e \in Expirer, NEW i \in Index, Read(e, i)
    PROVE  \/ /\ file[i] = "whole" /\ UNCHANGED overlooked
              /\ tool' = [tool EXCEPT ![e] = [tool[e] EXCEPT
                            !.unread = @ \ {i}, !.got = @ \cup {i},
                            !.snap = [@ EXCEPT ![i] = index[i]]]]
           \/ /\ overlooked' = overlooked \cup {i}
              /\ tool' = [tool EXCEPT ![e] = [tool[e] EXCEPT !.unread = @ \ {i}]]
<1>1. CASE file[i] = "whole"
  <2>1. tool' = [tool EXCEPT ![e].unread = @ \ {i}, ![e].got = @ \cup {i},
                             ![e].snap[i] = index[i]]
    BY <1>1 DEF Read
  <2>2. tool' = [tool EXCEPT ![e] = [tool[e] EXCEPT
                   !.unread = @ \ {i}, !.got = @ \cup {i},
                   !.snap = [@ EXCEPT ![i] = index[i]]]]
    BY <2>1
  <2> QED
    BY <1>1, <2>2 DEF Read
<1>2. CASE file[i] # "whole"
    BY <1>2 DEF Read
<1> QED
    BY <1>1, <1>2

USE ConstantsAssumption DEF Classes, Sealed

\* What every step leaves of the store and the indexes for an expirer that holds a reading of them.
Evolves ==
    /\ today \in Nat /\ today' \in Nat /\ today <= today'
    /\ overlooked \subseteq overlooked'
    /\ \A d \in Dir : disk'[d] \subseteq disk[d]
    /\ \A i \in Index : file[i] # "absent" =>
         /\ file'[i] # "absent"
         /\ index'[i].items = index[i].items
         /\ Class[i] = "success-bulky" => index'[i].expires = index[i].expires

LEMMA ExpiredEvolves ==
    ASSUME TypeOK, Evolves, NEW i \in Index, file[i] # "absent", Expired(i)
    PROVE  Expired(i)'
<1>1. index[i].expires \in Nat \cup {NoDay}
    BY DEF TypeOK, Record
<1>2. index'[i].expires = index[i].expires /\ Class[i] = "success-bulky"
    BY DEF Evolves, Expired
<1> QED
    BY <1>1, <1>2 DEF Evolves, Expired

LEMMA Bystander ==
    ASSUME TypeOK, Evolves, NEW x \in Expirer, tool'[x] = tool[x], ExpirerSound(x)
    PROVE  ExpirerSound(x)'
<1>1. tool[x] \in ToolState
    BY DEF TypeOK
<1>2. ScanCovers(x)'
    BY <1>1 DEF ExpirerSound, ScanCovers, Evolves
<1>3. SnapFaithful(x)'
  <2> SUFFICES ASSUME NEW i \in tool[x].got
               PROVE  /\ file'[i] # "absent"
                      /\ tool[x].snap[i].items = index'[i].items
                      /\ Class[i] = "success-bulky" => tool[x].snap[i].expires = index'[i].expires
                      /\ CoreOnly(tool[x].snap[i]) => Expired(i)'
    BY DEF SnapFaithful, CoreOnly
  <2>1. i \in Index
    BY <1>1 DEF ToolState
  <2>2. /\ file[i] # "absent"
        /\ tool[x].snap[i].items = index[i].items
        /\ Class[i] = "success-bulky" => tool[x].snap[i].expires = index[i].expires
        /\ CoreOnly(tool[x].snap[i]) => Expired(i)
    BY DEF ExpirerSound, SnapFaithful
  <2> QED
    BY <2>1, <2>2, ExpiredEvolves DEF Evolves
<1>4. WorkSound(x)'
  <2>1. WorkSound(x)
    BY DEF ExpirerSound
  <2>2. tool'[x].day <= today'
    BY <1>1, <2>1 DEF WorkSound, Evolves, ToolState
  <2>3. \A d : /\ Released(x, d)' <=> Released(x, d)
               /\ CorePaths(x, d)' = CorePaths(x, d)
    BY DEF Released, CorePaths, Citing, Blocked, CoreOnly, Eligible
  <2>4. \A d \in tool[x].dir : disk'[d] \subseteq disk[d]
    BY <1>1 DEF Evolves, ToolState
  <2> QED
    BY <2>1, <2>2, <2>3, <2>4 DEF WorkSound, Eligible, CoreOnly
<1> QED
    BY <1>2, <1>3, <1>4 DEF ExpirerSound

\* The part of the invariant that is about the store, not about an expirer's state.
StoreSound == RemovalSound /\ IndexSound /\ TriageSound /\ NamedKept /\ CoreOnlyIsShrunk

\* A step of an expirer that touches neither disk nor index keeps the store sound.
LEMMA StoreUntouched ==
    ASSUME TypeOK, StoreSound, UNCHANGED <<file, index, disk, removed, today, triage>>,
           overlooked \subseteq overlooked'
    PROVE  Evolves /\ StoreSound'
<1>1. Evolves
    BY DEF Evolves, TypeOK
<1>2. RemovalSound'
    BY DEF StoreSound, RemovalSound, Expired
<1>3. IndexSound' /\ TriageSound' /\ CoreOnlyIsShrunk'
    BY DEF StoreSound, IndexSound, TriageSound, CoreOnlyIsShrunk, Expired, CoreOnly
<1>4. NamedKept'
    BY DEF StoreSound, NamedKept, Counted
<1> QED
    BY <1>1, <1>2, <1>3, <1>4 DEF StoreSound

\* When one expirer moves and the store evolves, the invariant is a matter of that expirer.
LEMMA OneExpirer ==
    ASSUME TypeOK, Evolves, NEW e \in Expirer,
           \A x \in Expirer : x # e => tool'[x] = tool[x],
           \A x \in Expirer : ExpirerSound(x),
           ExpirerSound(e)'
    PROVE  \A x \in Expirer : ExpirerSound(x)'
<1> TAKE x \in Expirer
<1>1. CASE x = e
    BY <1>1
<1>2. CASE x # e
    BY <1>2, Bystander
<1> QED
    BY <1>1, <1>2

\* Back to idle is always sound.
LEMMA IdleSound ==
    ASSUME TypeOK, Evolves, NEW e \in Expirer, tool' = [tool EXCEPT ![e] = IdleTool]
    PROVE  ExpirerSound(e)'
<1>1. tool'[e] = IdleTool
    BY DEF TypeOK
<1>2. tool'[e].phase = "idle" /\ tool'[e].got = {} /\ tool'[e].day = 0
      /\ tool'[e].dir = {} /\ tool'[e].queue = {} /\ tool'[e].cut = {}
    BY <1>1 DEF IdleTool
<1> QED
    BY <1>2 DEF ExpirerSound, ScanCovers, SnapFaithful, WorkSound, Evolves

LEMMA StartSound ==
    ASSUME IndInv, NEW e \in Expirer, NEW apply \in BOOLEAN, NEW arg \in EvidenceArgs,
           Start(e, apply, arg), Evolves
    PROVE  ExpirerSound(e)'
<1> DEFINE t == [IdleTool EXCEPT !.phase = "scan", !.apply = apply, !.day = today,
                  !.asked = {i \in arg : file[i] = "whole"},
                  !.unreadable = {i \in arg : file[i] = "torn"},
                  !.unread = arg \cup DefaultTree]
<1>1. tool' = [tool EXCEPT ![e] = t] /\ overlooked' = overlooked \cup (Index \ (arg \cup DefaultTree))
      /\ today' = today
    BY DEF Start, env
<1>2. /\ t.phase = "scan" /\ t.got = {} /\ t.day = today /\ t.unread = arg \cup DefaultTree
      /\ t.dir = {} /\ t.queue = {} /\ t.cut = {}
    BY DEF IdleTool
<1>3. tool'[e] = t
    BY <1>1 DEF IndInv, TypeOK
<1> HIDE DEF t
<1>4. ScanCovers(e)'
    BY <1>1, <1>2, <1>3 DEF ScanCovers
<1>5. SnapFaithful(e)'
    BY <1>2, <1>3 DEF SnapFaithful
<1>6. WorkSound(e)'
    BY <1>1, <1>2, <1>3 DEF WorkSound, IndInv, TypeOK
<1> QED
    BY <1>4, <1>5, <1>6 DEF ExpirerSound

LEMMA ReadSound ==
    ASSUME IndInv, NEW e \in Expirer, NEW i \in Index, Read(e, i), Evolves
    PROVE  ExpirerSound(e)'
<1> DEFINE t == [tool[e] EXCEPT !.unread = @ \ {i}, !.got = @ \cup {i},
                               !.snap = [@ EXCEPT ![i] = index[i]]]
           u == [tool[e] EXCEPT !.unread = @ \ {i}]
<1>1. tool[e] \in ToolState /\ ExpirerSound(e) /\ TypeOK /\ IndexSound
    BY DEF IndInv, TypeOK
<1>2. UNCHANGED <<file, index, disk, today>> /\ tool[e].phase = "scan"
    BY DEF Read, store, env
<1>2a. \/ file[i] = "whole" /\ tool' = [tool EXCEPT ![e] = t] /\ UNCHANGED overlooked
       \/ tool' = [tool EXCEPT ![e] = u] /\ overlooked' = overlooked \cup {i}
    BY ReadTool
<1>3. /\ t.phase = "scan" /\ t.unread = tool[e].unread \ {i} /\ t.got = tool[e].got \cup {i}
      /\ t.snap = [tool[e].snap EXCEPT ![i] = index[i]] /\ t.day = tool[e].day
      /\ t.dir = tool[e].dir /\ t.queue = tool[e].queue /\ t.cut = tool[e].cut
    BY <1>1, <1>2 DEF ToolState
<1>4. /\ u.phase = "scan" /\ u.unread = tool[e].unread \ {i} /\ u.got = tool[e].got
      /\ u.snap = tool[e].snap /\ u.day = tool[e].day
      /\ u.dir = tool[e].dir /\ u.queue = tool[e].queue /\ u.cut = tool[e].cut
    BY <1>1, <1>2 DEF ToolState
<1>5. \/ tool'[e] = t /\ file[i] = "whole" /\ UNCHANGED overlooked
      \/ tool'[e] = u /\ overlooked' = overlooked \cup {i}
    BY <1>1, <1>2a DEF TypeOK
<1> HIDE DEF t, u
<1>6. ScanCovers(e)'
    BY <1>1, <1>2, <1>3, <1>4, <1>5 DEF ScanCovers, ExpirerSound
<1>7. SnapFaithful(e)'
  <2>1. tool[e].snap \in [Index -> Record] /\ tool[e].got \subseteq Index
    BY <1>1 DEF ToolState
  <2>2. CASE tool'[e] = t /\ file[i] = "whole"
    <3>1. /\ \A j \in tool[e].got : j # i => t.snap[j] = tool[e].snap[j]
          /\ t.snap[i] = index[i]
      BY <1>3, <2>1
    <3>2. CoreOnly(index[i]) => Expired(i)
      BY <1>1 DEF IndexSound
    <3> QED
      BY <1>1, <1>2, <1>3, <2>1, <2>2, <3>1, <3>2 DEF SnapFaithful, ExpirerSound, CoreOnly, Expired
  <2>3. CASE tool'[e] = u
    BY <1>1, <1>2, <1>4, <2>1, <2>3 DEF SnapFaithful, ExpirerSound, CoreOnly, Expired
  <2> QED
    BY <1>5, <2>2, <2>3
<1>8. WorkSound(e)'
    BY <1>1, <1>2, <1>3, <1>4, <1>5 DEF WorkSound, ExpirerSound
<1> QED
    BY <1>6, <1>7, <1>8 DEF ExpirerSound

\* In phase "decide" an expirer has no work in hand: what it moves on to starts clean.
LEMMA DecideClean ==
    ASSUME IndInv, NEW e \in Expirer, tool[e].phase = "decide"
    PROVE  /\ tool[e] \in ToolState /\ ExpirerSound(e) /\ TypeOK
           /\ tool[e].unread = {} /\ tool[e].queue = {} /\ tool[e].cut = {} /\ tool[e].dir = {}
    BY DEF IndInv, TypeOK, ExpirerSound, WorkSound, ScanCovers

LEMMA ScanDoneSound ==
    ASSUME IndInv, NEW e \in Expirer, ScanDone(e), Evolves
    PROVE  ExpirerSound(e)'
<1> DEFINE t == [tool[e] EXCEPT !.phase = "decide", !.todo = {Root[i] : i \in tool[e].got}]
<1>1. tool[e] \in ToolState /\ ExpirerSound(e) /\ TypeOK
    BY DEF IndInv, TypeOK
<1>2. UNCHANGED <<file, index, disk, today, overlooked>>
      /\ tool[e].phase = "scan" /\ tool[e].unread = {}
    BY DEF ScanDone, store, env
<1>3. /\ t.phase = "decide" /\ t.unread = {} /\ t.got = tool[e].got
      /\ t.snap = tool[e].snap /\ t.day = tool[e].day
      /\ t.dir = tool[e].dir /\ t.queue = tool[e].queue /\ t.cut = tool[e].cut
    BY <1>1, <1>2 DEF ToolState
<1>4. tool'[e] = t
    BY <1>1 DEF ScanDone, TypeOK
<1> HIDE DEF t
<1>5. ScanCovers(e)'
    BY <1>1, <1>2, <1>3, <1>4 DEF ScanCovers, ExpirerSound
<1>6. SnapFaithful(e)'
    BY <1>1, <1>2, <1>3, <1>4 DEF SnapFaithful, ExpirerSound, CoreOnly, Expired
<1>7. WorkSound(e)'
    BY <1>1, <1>2, <1>3, <1>4 DEF WorkSound, ExpirerSound
<1> QED
    BY <1>5, <1>6, <1>7 DEF ExpirerSound

LEMMA PassOverSound ==
    ASSUME IndInv, NEW e \in Expirer, NEW d \in Dir, PassOver(e, d), Evolves
    PROVE  ExpirerSound(e)'
<1> DEFINE t == [tool[e] EXCEPT !.todo = @ \ {d}]
<1>1. tool[e].phase = "decide" /\ UNCHANGED <<file, index, disk, today, overlooked>>
    BY DEF PassOver, store, env
<1>2. /\ tool[e] \in ToolState /\ ExpirerSound(e) /\ TypeOK
      /\ tool[e].unread = {} /\ tool[e].queue = {} /\ tool[e].cut = {} /\ tool[e].dir = {}
    BY <1>1, DecideClean
<1>3. /\ t.phase = "decide" /\ t.unread = {} /\ t.got = tool[e].got
      /\ t.snap = tool[e].snap /\ t.day = tool[e].day
      /\ t.dir = {} /\ t.queue = {} /\ t.cut = {}
    BY <1>1, <1>2 DEF ToolState
<1>4. tool'[e] = t
    BY <1>2 DEF PassOver, TypeOK
<1> HIDE DEF t
<1>5. ScanCovers(e)'
    BY <1>1, <1>2, <1>3, <1>4 DEF ScanCovers, ExpirerSound
<1>6. SnapFaithful(e)'
    BY <1>1, <1>2, <1>3, <1>4 DEF SnapFaithful, ExpirerSound, CoreOnly, Expired
<1>7. WorkSound(e)'
    BY <1>1, <1>2, <1>3, <1>4 DEF WorkSound, ExpirerSound
<1> QED
    BY <1>5, <1>6, <1>7 DEF ExpirerSound

\* A candidate directory was released by every index the expirer read.
LEMMA CandidateReleased ==
    ASSUME NEW e \in Expirer, NEW d \in Dir, Candidate(e, d)
    PROVE  Released(e, d)
    BY DEF Candidate, Released

LEMMA CannotKeepSound ==
    ASSUME IndInv, NEW e \in Expirer, NEW d \in Dir, CannotKeep(e, d), Evolves
    PROVE  ExpirerSound(e)'
<1> DEFINE t == [tool[e] EXCEPT !.phase = "record", !.dir = {d}, !.queue = EligibleCiting(e, d)]
<1>1. /\ tool[e].phase = "decide" /\ UNCHANGED <<file, index, disk, today, overlooked>>
      /\ Candidate(e, d)
    BY DEF CannotKeep, store, env
<1>2. /\ tool[e] \in ToolState /\ ExpirerSound(e) /\ TypeOK
      /\ tool[e].unread = {} /\ tool[e].queue = {} /\ tool[e].cut = {} /\ tool[e].dir = {}
    BY <1>1, DecideClean
<1>3. /\ t.phase = "record" /\ t.unread = {} /\ t.got = tool[e].got
      /\ t.snap = tool[e].snap /\ t.day = tool[e].day
      /\ t.dir = {d} /\ t.queue = EligibleCiting(e, d) /\ t.cut = {}
    BY <1>1, <1>2 DEF ToolState
<1>4. tool'[e] = t
    BY <1>2 DEF CannotKeep, TypeOK
<1> HIDE DEF t
<1>5. ScanCovers(e)'
    BY <1>1, <1>2, <1>3, <1>4 DEF ScanCovers, ExpirerSound
<1>6. SnapFaithful(e)'
    BY <1>1, <1>2, <1>3, <1>4 DEF SnapFaithful, ExpirerSound, CoreOnly, Expired
<1>7. WorkSound(e)'
  <2>1. tool[e].day <= today /\ Released(e, d)
    BY <1>1, <1>2, CandidateReleased DEF ExpirerSound, WorkSound
  <2>2. Released(e, d)'
    BY <2>1, <1>3, <1>4 DEF Released, Citing, Blocked, Eligible, CoreOnly
  <2>3. \A i \in EligibleCiting(e, d) :
          i \in tool[e].got /\ Root[i] = d /\ Eligible(i, tool[e].snap[i], tool[e].day)
    BY DEF EligibleCiting, Citing
  <2> QED
    BY <1>1, <1>3, <1>4, <2>1, <2>2, <2>3 DEF WorkSound, Eligible, CoreOnly
<1> QED
    BY <1>5, <1>6, <1>7 DEF ExpirerSound

LEMMA DemoteSound ==
    ASSUME IndInv, NEW e \in Expirer, NEW d \in Dir, Demote(e, d), Evolves
    PROVE  ExpirerSound(e)'
<1> DEFINE t == [tool[e] EXCEPT !.phase = "remove", !.dir = {d}, !.units = RemovalPlan(e, d)]
<1>1. /\ tool[e].phase = "decide" /\ UNCHANGED <<file, index, disk, today, overlooked>>
      /\ Candidate(e, d)
    BY DEF Demote, store, env
<1>2. /\ tool[e] \in ToolState /\ ExpirerSound(e) /\ TypeOK
      /\ tool[e].unread = {} /\ tool[e].queue = {} /\ tool[e].cut = {} /\ tool[e].dir = {}
    BY <1>1, DecideClean
<1>3. /\ t.phase = "remove" /\ t.unread = {} /\ t.got = tool[e].got
      /\ t.snap = tool[e].snap /\ t.day = tool[e].day /\ t.units = RemovalPlan(e, d)
      /\ t.dir = {d} /\ t.queue = {} /\ t.cut = {}
    BY <1>1, <1>2 DEF ToolState
<1>4. tool'[e] = t
    BY <1>2 DEF Demote, TypeOK
<1> HIDE DEF t
<1>5. ScanCovers(e)'
    BY <1>1, <1>2, <1>3, <1>4 DEF ScanCovers, ExpirerSound
<1>6. SnapFaithful(e)'
    BY <1>1, <1>2, <1>3, <1>4 DEF SnapFaithful, ExpirerSound, CoreOnly, Expired
<1>7. WorkSound(e)'
  <2>1. tool[e].day <= today /\ Released(e, d)
    BY <1>1, <1>2, CandidateReleased DEF ExpirerSound, WorkSound
  <2>2. Released(e, d)'
    BY <2>1, <1>3, <1>4 DEF Released, Citing, Blocked, Eligible, CoreOnly
  <2>3. CorePaths(e, d)' = CorePaths(e, d)
    BY <1>3, <1>4 DEF CorePaths, Citing
  <2>4. /\ RemovalPlan(e, d) \cap CorePaths(e, d) = {}
        /\ disk[d] \subseteq CorePaths(e, d) \cup RemovalPlan(e, d)
    BY DEF RemovalPlan
  <2> QED
    BY <1>1, <1>3, <1>4, <2>1, <2>2, <2>3, <2>4 DEF WorkSound
<1> QED
    BY <1>5, <1>6, <1>7 DEF ExpirerSound

LEMMA RemovedSound ==
    ASSUME IndInv, NEW e \in Expirer, Removed(e), Evolves
    PROVE  ExpirerSound(e)'
<1>1. /\ tool[e].phase = "remove" /\ tool[e].units = {}
      /\ UNCHANGED <<file, index, disk, today, overlooked>>
    BY DEF Removed, store, env
<1>2. tool[e] \in ToolState /\ ExpirerSound(e) /\ TypeOK
    BY DEF IndInv, TypeOK
<1>3. PICK d \in tool[e].dir :
          \/ tool' = [tool EXCEPT ![e] = IdleTool]
          \/ tool' = [tool EXCEPT ![e] = [tool[e] EXCEPT
                        !.phase = "mark", !.queue = EligibleCiting(e, d)]]
    BY ZenonT(60) DEF Removed
<1>4. CASE tool' = [tool EXCEPT ![e] = IdleTool]
    BY <1>2, <1>4, IdleSound
<1>5. CASE tool' = [tool EXCEPT ![e] = [tool[e] EXCEPT
                      !.phase = "mark", !.queue = EligibleCiting(e, d)]]
  <2> DEFINE t == [tool[e] EXCEPT !.phase = "mark", !.queue = EligibleCiting(e, d)]
  <2>1. /\ t.phase = "mark" /\ t.unread = tool[e].unread /\ t.got = tool[e].got
        /\ t.snap = tool[e].snap /\ t.day = tool[e].day
        /\ t.dir = tool[e].dir /\ t.queue = EligibleCiting(e, d) /\ t.cut = tool[e].cut
    BY <1>2 DEF ToolState
  <2>2. tool'[e] = t
    BY <1>2, <1>5 DEF TypeOK
  <2> HIDE DEF t
  <2>3. ScanCovers(e)'
    BY <1>1, <1>2, <2>1, <2>2 DEF ScanCovers, ExpirerSound
  <2>4. SnapFaithful(e)'
    BY <1>1, <1>2, <2>1, <2>2 DEF SnapFaithful, ExpirerSound, CoreOnly, Expired
  <2>5. WorkSound(e)'
    <3>1. WorkSound(e)
      BY <1>2 DEF ExpirerSound
    <3>2. \A c : /\ Released(e, c)' <=> Released(e, c)
                 /\ CorePaths(e, c)' = CorePaths(e, c)
      BY <2>1, <2>2 DEF Released, CorePaths, Citing, Blocked, CoreOnly, Eligible
    <3>3. \A i \in EligibleCiting(e, d) :
            i \in tool[e].got /\ Root[i] = d /\ Eligible(i, tool[e].snap[i], tool[e].day)
      BY DEF EligibleCiting, Citing
    <3>4. \A c \in tool[e].dir : disk[c] \subseteq CorePaths(e, c)
      BY <1>1, <3>1 DEF WorkSound
    <3> QED
      BY <1>1, <1>3, <2>1, <2>2, <3>1, <3>2, <3>3, <3>4 DEF WorkSound, Eligible, CoreOnly
  <2> QED
    BY <2>3, <2>4, <2>5 DEF ExpirerSound
<1> QED
    BY <1>3, <1>4, <1>5

LEMMA NextDirSound ==
    ASSUME IndInv, NEW e \in Expirer, NextDir(e), Evolves
    PROVE  ExpirerSound(e)'
<1> DEFINE t == [tool[e] EXCEPT !.phase = "decide", !.todo = @ \ tool[e].dir, !.dir = {}]
<1>1. /\ tool[e].phase \in {"mark", "record"} /\ tool[e].queue = {} /\ tool[e].cut = {}
      /\ UNCHANGED <<file, index, disk, today, overlooked>>
    BY DEF NextDir, store, env
<1>2. tool[e] \in ToolState /\ ExpirerSound(e) /\ TypeOK
    BY DEF IndInv, TypeOK
<1>3. /\ t.phase = "decide" /\ t.unread = tool[e].unread /\ t.got = tool[e].got
      /\ t.snap = tool[e].snap /\ t.day = tool[e].day
      /\ t.dir = {} /\ t.queue = {} /\ t.cut = {}
    BY <1>1, <1>2 DEF ToolState
<1>4. tool'[e] = t
    BY <1>2 DEF NextDir, TypeOK
<1> HIDE DEF t
<1>5. ScanCovers(e)'
    BY <1>1, <1>2, <1>3, <1>4 DEF ScanCovers, ExpirerSound
<1>6. SnapFaithful(e)'
    BY <1>1, <1>2, <1>3, <1>4 DEF SnapFaithful, ExpirerSound, CoreOnly, Expired
<1>7. WorkSound(e)'
    BY <1>1, <1>2, <1>3, <1>4 DEF WorkSound, ExpirerSound
<1> QED
    BY <1>5, <1>6, <1>7 DEF ExpirerSound

LEMMA TruncateSound ==
    ASSUME IndInv, NEW e \in Expirer, NEW i \in Index, Truncate(e, i), Evolves
    PROVE  ExpirerSound(e)'
<1> DEFINE t == [tool[e] EXCEPT !.cut = {i}]
<1>1. /\ tool[e].phase \in {"mark", "record"} /\ i \in tool[e].queue
      /\ UNCHANGED <<index, disk, today, overlooked>>
      /\ file' = [file EXCEPT ![i] = "torn"]
    BY DEF Truncate, store, env
<1>2. tool[e] \in ToolState /\ ExpirerSound(e) /\ TypeOK
    BY DEF IndInv, TypeOK
<1>3. /\ t.phase = tool[e].phase /\ t.unread = tool[e].unread /\ t.got = tool[e].got
      /\ t.snap = tool[e].snap /\ t.day = tool[e].day
      /\ t.dir = tool[e].dir /\ t.queue = tool[e].queue /\ t.cut = {i}
    BY <1>1, <1>2 DEF ToolState
<1>4. tool'[e] = t
    BY <1>2 DEF Truncate, TypeOK
<1> HIDE DEF t
<1>5. ScanCovers(e)'
    BY <1>1, <1>2, <1>3, <1>4 DEF ScanCovers, ExpirerSound
<1>6. SnapFaithful(e)'
  <2>1. \A j \in tool[e].got : j \in Index /\ file'[j] # "absent"
    BY <1>1, <1>2 DEF SnapFaithful, ExpirerSound, ToolState, TypeOK
  <2> QED
    BY <1>1, <1>2, <1>3, <1>4, <2>1 DEF SnapFaithful, ExpirerSound, CoreOnly, Expired
<1>7. WorkSound(e)'
  <2>1. WorkSound(e)
    BY <1>2 DEF ExpirerSound
  <2>2. \A c : /\ Released(e, c)' <=> Released(e, c)
               /\ CorePaths(e, c)' = CorePaths(e, c)
    BY <1>3, <1>4 DEF Released, CorePaths, Citing, Blocked, CoreOnly, Eligible
  <2> QED
    BY <1>1, <1>3, <1>4, <2>1, <2>2 DEF WorkSound, Eligible, CoreOnly
<1> QED
    BY <1>5, <1>6, <1>7 DEF ExpirerSound

LEMMA WriteBackSound ==
    ASSUME IndInv, NEW e \in Expirer, NEW i \in Index, WriteBack(e, i), Evolves
    PROVE  ExpirerSound(e)'
<1> DEFINE t == [tool[e] EXCEPT !.cut = {}, !.queue = @ \ {i}]
<1>1. /\ tool[e].phase \in {"mark", "record"} /\ i \in tool[e].cut
      /\ UNCHANGED <<disk, today, overlooked>>
    BY DEF WriteBack, store, env
<1>2. tool[e] \in ToolState /\ ExpirerSound(e) /\ TypeOK
    BY DEF IndInv, TypeOK
<1>3. /\ t.phase = tool[e].phase /\ t.unread = tool[e].unread /\ t.got = tool[e].got
      /\ t.snap = tool[e].snap /\ t.day = tool[e].day
      /\ t.dir = tool[e].dir /\ t.queue = tool[e].queue \ {i} /\ t.cut = {}
    BY <1>1, <1>2 DEF ToolState
<1>4. tool'[e] = t
    BY <1>2 DEF WriteBack, TypeOK
<1> HIDE DEF t
<1>5. ScanCovers(e)'
    BY <1>1, <1>2, <1>3, <1>4 DEF ScanCovers, ExpirerSound
<1>6. SnapFaithful(e)'
  <2> SUFFICES ASSUME NEW j \in tool[e].got
               PROVE  /\ file'[j] # "absent"
                      /\ tool[e].snap[j].items = index'[j].items
                      /\ Class[j] = "success-bulky" => tool[e].snap[j].expires = index'[j].expires
                      /\ CoreOnly(tool[e].snap[j]) => Expired(j)'
    BY <1>3, <1>4 DEF SnapFaithful, CoreOnly
  <2>1. j \in Index
    BY <1>2 DEF ToolState
  <2>2. /\ file[j] # "absent"
        /\ tool[e].snap[j].items = index[j].items
        /\ Class[j] = "success-bulky" => tool[e].snap[j].expires = index[j].expires
        /\ CoreOnly(tool[e].snap[j]) => Expired(j)
    BY <1>2 DEF ExpirerSound, SnapFaithful
  <2> QED
    BY <1>2, <2>1, <2>2, ExpiredEvolves DEF Evolves
<1>7. WorkSound(e)'
  <2>1. WorkSound(e)
    BY <1>2 DEF ExpirerSound
  <2>2. \A c : /\ Released(e, c)' <=> Released(e, c)
               /\ CorePaths(e, c)' = CorePaths(e, c)
    BY <1>3, <1>4 DEF Released, CorePaths, Citing, Blocked, CoreOnly, Eligible
  <2> QED
    BY <1>1, <1>3, <1>4, <2>1, <2>2 DEF WorkSound, Eligible, CoreOnly
<1> QED
    BY <1>5, <1>6, <1>7 DEF ExpirerSound

LEMMA RemoveUnitSound ==
    ASSUME IndInv, NEW e \in Expirer, NEW f \in File, RemoveUnit(e, f), Evolves
    PROVE  ExpirerSound(e)'
<1> DEFINE t == [tool[e] EXCEPT !.units = @ \ {f}]
<1>1. /\ tool[e].phase = "remove" /\ f \in tool[e].units
      /\ UNCHANGED <<file, index, today, overlooked>>
    BY DEF RemoveUnit, env
<1>2. tool[e] \in ToolState /\ ExpirerSound(e) /\ TypeOK
    BY DEF IndInv, TypeOK
<1>3. PICK d \in tool[e].dir :
          \/ tool' = [tool EXCEPT ![e] = IdleTool]
          \/ tool' = [tool EXCEPT ![e] = t] /\ disk' = [disk EXCEPT ![d] = @ \ {f}]
    BY DEF RemoveUnit
<1>4. CASE tool' = [tool EXCEPT ![e] = IdleTool]
    BY <1>2, <1>4, IdleSound
<1>5. CASE tool' = [tool EXCEPT ![e] = t] /\ disk' = [disk EXCEPT ![d] = @ \ {f}]
  <2>1. /\ t.phase = "remove" /\ t.unread = tool[e].unread /\ t.got = tool[e].got
        /\ t.snap = tool[e].snap /\ t.day = tool[e].day /\ t.units = tool[e].units \ {f}
        /\ t.dir = tool[e].dir /\ t.queue = tool[e].queue /\ t.cut = tool[e].cut
    BY <1>1, <1>2 DEF ToolState
  <2>2. tool'[e] = t
    BY <1>2, <1>5 DEF TypeOK
  <2> HIDE DEF t
  <2>3. ScanCovers(e)'
    BY <1>1, <1>2, <2>1, <2>2 DEF ScanCovers, ExpirerSound
  <2>4. SnapFaithful(e)'
    BY <1>1, <1>2, <2>1, <2>2 DEF SnapFaithful, ExpirerSound, CoreOnly, Expired
  <2>5. WorkSound(e)'
    <3>1. WorkSound(e)
      BY <1>2 DEF ExpirerSound
    <3>2. \A c : /\ Released(e, c)' <=> Released(e, c)
                 /\ CorePaths(e, c)' = CorePaths(e, c)
      BY <2>1, <2>2 DEF Released, CorePaths, Citing, Blocked, CoreOnly, Eligible
    <3>3. d \in Dir /\ \A c \in tool[e].dir : c = d
      BY <1>2, <1>3, <3>1 DEF WorkSound, ToolState
    <3>4. disk'[d] = disk[d] \ {f}
      BY <1>2, <1>5, <3>3 DEF TypeOK
    <3> QED
      BY <1>1, <2>1, <2>2, <3>1, <3>2, <3>3, <3>4 DEF WorkSound, Eligible, CoreOnly
  <2> QED
    BY <2>3, <2>4, <2>5 DEF ExpirerSound
<1> QED
    BY <1>3, <1>4, <1>5

-----------------------------------------------------------------------------
\* The steps that change the store or an index: what they leave, and that the store stays sound.

LEMMA BuildIndexStore ==
    ASSUME IndInv, NEW i \in Index, BuildIndex(i)
    PROVE  Evolves /\ StoreSound'
<1>1. /\ file[i] = "absent" /\ index' = [index EXCEPT ![i] = RetentionBlock(i, today)]
      /\ file' \in {[file EXCEPT ![i] = "whole"], [file EXCEPT ![i] = "torn"]}
      /\ UNCHANGED <<disk, removed, today, triage, overlooked>>
    BY DEF BuildIndex, store
<1>2. TypeOK /\ RemovalSound /\ IndexSound /\ TriageSound /\ NamedKept /\ CoreOnlyIsShrunk
    BY DEF IndInv
<1>3. /\ index'[i] = RetentionBlock(i, today) /\ file'[i] # "absent"
      /\ \A j \in Index : j # i => index'[j] = index[j] /\ file'[j] = file[j]
    BY <1>1, <1>2 DEF TypeOK
<1>4. /\ index'[i].state = "full" /\ index'[i].items \subseteq disk[Root[i]]
      /\ index'[i].expires = IF Class[i] = "success-bulky" THEN today + BulkDays ELSE NoDay
    BY <1>3 DEF RetentionBlock
<1>5. Evolves
    BY <1>1, <1>2, <1>3 DEF Evolves, TypeOK
<1>6. RemovalSound'
    BY <1>1, <1>2, <1>3 DEF RemovalSound, Expired
<1>7. IndexSound'
    BY <1>1, <1>2, <1>3, <1>4 DEF IndexSound, Expired, CoreOnly
<1>8. TriageSound'
    BY <1>1, <1>2, <1>3 DEF TriageSound, CoreOnly, TypeOK
<1>9. NamedKept'
  <2> SUFFICES ASSUME NEW j \in Index, file'[j] # "absent", j \notin overlooked
               PROVE  removed[Root[j]] \cap (index'[j].items \cup {Sums}) = {}
    BY <1>1 DEF NamedKept, Counted
  <2>1. CASE j = i
    <3>1. Sums \notin removed[Root[i]] /\ removed[Root[i]] \cap disk[Root[i]] = {}
      BY <1>2 DEF RemovalSound
    <3> QED
      BY <1>4, <2>1, <3>1
  <2>2. CASE j # i
    BY <1>2, <1>3, <2>2 DEF NamedKept, Counted
  <2> QED
    BY <2>1, <2>2
<1>10. CoreOnlyIsShrunk'
  <2>1. index[i].items = {}
    BY <1>1, <1>2 DEF IndexSound, Blank
  <2>2. \A j \in Index : CoreOnly(index'[j]) => j # i /\ CoreOnly(index[j])
    BY <1>3, <1>4 DEF CoreOnly
  <2>3. \A j \in Index : index[j].items \subseteq index'[j].items
    BY <1>3, <2>1
  <2> QED
    BY <1>1, <1>2, <2>2, <2>3 DEF CoreOnlyIsShrunk, CoreOnly
<1> QED
    BY <1>5, <1>6, <1>7, <1>8, <1>9, <1>10 DEF StoreSound

LEMMA RepairStore ==
    ASSUME IndInv, NEW i \in Index, Repair(i)
    PROVE  Evolves /\ StoreSound'
<1>1. /\ file[i] = "torn" /\ file' = [file EXCEPT ![i] = "whole"]
      /\ UNCHANGED <<index, disk, removed, today, triage, overlooked>>
    BY DEF Repair, store, env
<1>2. TypeOK /\ RemovalSound /\ IndexSound /\ TriageSound /\ NamedKept /\ CoreOnlyIsShrunk
    BY DEF IndInv
<1>3. \A j \in Index : file'[j] # "absent" <=> file[j] # "absent"
    BY <1>1, <1>2 DEF TypeOK
<1>4. Evolves
    BY <1>1, <1>2, <1>3 DEF Evolves, TypeOK
<1>5. RemovalSound' /\ NamedKept'
    BY <1>1, <1>2, <1>3 DEF RemovalSound, NamedKept, Counted, Expired
<1>6. IndexSound' /\ TriageSound' /\ CoreOnlyIsShrunk'
    BY <1>1, <1>2, <1>3 DEF IndexSound, TriageSound, CoreOnlyIsShrunk, Expired, CoreOnly, TypeOK
<1> QED
    BY <1>4, <1>5, <1>6 DEF StoreSound

LEMMA TriageLoadStore ==
    ASSUME IndInv, NEW i \in Index, NEW date \in Dates, NEW hold \in BOOLEAN,
           TriageLoad(i, date, hold)
    PROVE  Evolves /\ StoreSound'
<1> DEFINE r == [index[i] EXCEPT !.expires = date + TriageDays, !.hold = hold]
<1>1. /\ file[i] = "whole" /\ Class[i] = "failure"
      /\ triage' = [phase |-> "loaded", idx |-> {i}, new |-> r]
      /\ UNCHANGED <<file, index, disk, removed, today, overlooked>>
    BY DEF TriageLoad, store, env
<1>2. TypeOK /\ RemovalSound /\ IndexSound /\ TriageSound /\ NamedKept /\ CoreOnlyIsShrunk
    BY DEF IndInv
<1>3. index[i] \in Record /\ date \in Nat
    BY <1>2 DEF TypeOK
<1>4. /\ r.items = index[i].items /\ r.state = index[i].state
      /\ r.expires = date + TriageDays
    BY <1>3 DEF Record
<1> HIDE DEF r
<1>5. /\ triage'.phase = "loaded" /\ triage'.idx = {i} /\ triage'.new = r
    BY <1>1
<1>6. ~CoreOnly(index[i])
    BY <1>1, <1>2 DEF IndexSound, Expired
<1>7. TriageSound'
  <2>1. date + TriageDays \in Nat
    BY <1>3
  <2>4. date + TriageDays # NoDay
    BY <2>1
  <2>2. ~CoreOnly(r)
    BY <1>4, <1>6 DEF CoreOnly
  <2>3. triage'.phase # "idle"
    BY <1>5
  <2> QED
    BY <1>1, <1>4, <1>5, <1>6, <2>1, <2>2, <2>3, <2>4 DEF TriageSound, CoreOnly
<1>8. Evolves
    BY <1>1, <1>2 DEF Evolves, TypeOK
<1>9. RemovalSound' /\ NamedKept'
    BY <1>1, <1>2 DEF RemovalSound, NamedKept, Counted, Expired
<1>10. IndexSound' /\ CoreOnlyIsShrunk'
    BY <1>1, <1>2 DEF IndexSound, CoreOnlyIsShrunk, Expired, CoreOnly
<1> QED
    BY <1>7, <1>8, <1>9, <1>10 DEF StoreSound

LEMMA TriageTruncateStore ==
    ASSUME IndInv, TriageTruncate
    PROVE  Evolves /\ StoreSound'
<1>1. /\ file' = [i \in Index |-> IF i \in triage.idx THEN "torn" ELSE file[i]]
      /\ triage.phase = "loaded" /\ triage' = [triage EXCEPT !.phase = "cut"]
      /\ UNCHANGED <<index, disk, removed, today, overlooked>>
    BY DEF TriageTruncate, store, env
<1>2. TypeOK /\ RemovalSound /\ IndexSound /\ TriageSound /\ NamedKept /\ CoreOnlyIsShrunk
    BY DEF IndInv
<1>3. triage'.phase = "cut" /\ triage'.idx = triage.idx /\ triage'.new = triage.new
    BY <1>1, <1>2 DEF TypeOK
<1>4. \A j \in Index : file'[j] # "absent" <=> file[j] # "absent"
    BY <1>1, <1>2 DEF TriageSound
<1>5. Evolves
    BY <1>1, <1>2, <1>4 DEF Evolves, TypeOK
<1>6. RemovalSound' /\ NamedKept'
    BY <1>1, <1>2, <1>4 DEF RemovalSound, NamedKept, Counted, Expired
<1>7. IndexSound' /\ CoreOnlyIsShrunk'
    BY <1>1, <1>2, <1>4 DEF IndexSound, CoreOnlyIsShrunk, Expired, CoreOnly
<1>8. TriageSound'
  <2>1. triage.idx \subseteq Index
    BY <1>2 DEF TypeOK
  <2> QED
    BY <1>1, <1>2, <1>3, <1>4, <2>1 DEF TriageSound, CoreOnly
<1> QED
    BY <1>5, <1>6, <1>7, <1>8 DEF StoreSound

LEMMA TriageWriteStore ==
    ASSUME IndInv, TriageWrite
    PROVE  Evolves /\ StoreSound'
<1>1. /\ file' = [i \in Index |-> IF i \in triage.idx THEN "whole" ELSE file[i]]
      /\ index' = [i \in Index |-> IF i \in triage.idx THEN triage.new ELSE index[i]]
      /\ triage' = IdleTriage
      /\ UNCHANGED <<disk, removed, today, overlooked>>
    BY DEF TriageWrite, store, env
<1>2. TypeOK /\ RemovalSound /\ IndexSound /\ TriageSound /\ NamedKept /\ CoreOnlyIsShrunk
    BY DEF IndInv
<1>3. \A i \in triage.idx :
          /\ Class[i] = "failure" /\ file[i] # "absent" /\ index'[i] = triage.new
          /\ triage.new.items = index[i].items /\ ~CoreOnly(triage.new)
    BY <1>1, <1>2 DEF TriageSound, TypeOK
<1>4. \A i \in Index : i \notin triage.idx => index'[i] = index[i] /\ file'[i] = file[i]
    BY <1>1
<1>5. \A i \in Index : index'[i].items = index[i].items /\ (file'[i] # "absent" <=> file[i] # "absent")
    BY <1>1, <1>3, <1>4
<1>6. Evolves
  <2>1. today \in Nat
    BY <1>2 DEF TypeOK
  <2>2. \A i \in Index : Class[i] = "success-bulky" => index'[i] = index[i]
    BY <1>3, <1>4
  <2> QED
    BY <1>1, <1>5, <2>1, <2>2 DEF Evolves
<1>7. RemovalSound'
    BY ZenonT(60), <1>1, <1>2, <1>3, <1>4, <1>5 DEF RemovalSound, Expired
<1>8. NamedKept'
    BY <1>1, <1>2, <1>5 DEF NamedKept, Counted
<1>9. IndexSound'
    BY <1>1, <1>2, <1>3, <1>4, <1>5 DEF IndexSound, Expired
<1>10. TriageSound'
    BY <1>1 DEF TriageSound, IdleTriage
<1>11. CoreOnlyIsShrunk'
  <2>1. \A i \in Index : CoreOnly(index'[i]) => CoreOnly(index[i])
    BY <1>3, <1>4
  <2> QED
    BY <1>1, <1>2, <1>5, <2>1 DEF CoreOnlyIsShrunk, CoreOnly
<1> QED
    BY <1>6, <1>7, <1>8, <1>9, <1>10, <1>11 DEF StoreSound

LEMMA TriageCrashStore ==
    ASSUME IndInv, TriageCrash
    PROVE  Evolves /\ StoreSound'
<1>1. triage' = IdleTriage /\ UNCHANGED <<file, index, disk, removed, today, overlooked>>
    BY DEF TriageCrash, store
<1>2. TypeOK /\ RemovalSound /\ IndexSound /\ TriageSound /\ NamedKept /\ CoreOnlyIsShrunk
    BY DEF IndInv
<1>3. Evolves /\ TriageSound'
    BY <1>1, <1>2 DEF Evolves, TypeOK, TriageSound, IdleTriage
<1>4. RemovalSound' /\ NamedKept'
    BY <1>1, <1>2 DEF RemovalSound, NamedKept, Counted, Expired
<1>5. IndexSound' /\ CoreOnlyIsShrunk'
    BY <1>1, <1>2 DEF IndexSound, CoreOnlyIsShrunk, Expired, CoreOnly
<1> QED
    BY <1>3, <1>4, <1>5 DEF StoreSound

LEMMA EnvironmentStore ==
    ASSUME IndInv, \/ \E d \in Dir, f \in Sealed : Lose(d, f) \/ Alter(d, f)
                   \/ Tick
    PROVE  Evolves /\ StoreSound'
<1>1. TypeOK /\ RemovalSound /\ IndexSound /\ TriageSound /\ NamedKept /\ CoreOnlyIsShrunk
    BY DEF IndInv
<1>2. /\ UNCHANGED <<file, index, removed, triage, overlooked>>
      /\ \A d \in Dir : disk'[d] \subseteq disk[d]
      /\ today' \in {today, today + 1}
    BY <1>1 DEF Lose, Alter, Tick, store, env, TypeOK
<1>3. today \in Nat /\ today' \in Nat /\ today <= today'
    BY <1>1, <1>2 DEF TypeOK
<1>4. Evolves
    BY <1>2, <1>3 DEF Evolves
<1>5. \A i \in Index : index[i].expires \in Nat \cup {NoDay}
    BY <1>1 DEF TypeOK, Record
<1>6. \A i \in Index : Expired(i) => Expired(i)'
    BY <1>2, <1>3, <1>5 DEF Expired
<1>7. RemovalSound'
    BY <1>1, <1>2, <1>6 DEF RemovalSound
<1>8. NamedKept' /\ CoreOnlyIsShrunk'
  <2>1. NamedKept'
    BY <1>1, <1>2 DEF NamedKept, Counted
  <2>2. CoreOnlyIsShrunk'
    BY <1>1, <1>2 DEF CoreOnlyIsShrunk, CoreOnly
  <2> QED
    BY <2>1, <2>2
<1>9. IndexSound'
  <2> SUFFICES ASSUME NEW i \in Index
               PROVE  /\ file[i] = "absent" => index[i] = Blank
                      /\ CoreOnly(index[i]) => Expired(i)'
    BY <1>2 DEF IndexSound, CoreOnly
  <2> QED
    BY <1>1, <1>3, <1>5, <1>6 DEF IndexSound
<1>10. TriageSound'
  <2>1. triage.idx \subseteq Index
    BY <1>1 DEF TypeOK
  <2> QED
    BY <1>1, <1>2, <2>1 DEF TriageSound, CoreOnly
<1> QED
    BY <1>4, <1>7, <1>8, <1>9, <1>10 DEF StoreSound

\* A file is removed only where every index the scan yielded has expired, and none names it.
LEMMA RemoveUnitStore ==
    ASSUME IndInv, NEW e \in Expirer, NEW f \in File, RemoveUnit(e, f)
    PROVE  Evolves /\ StoreSound'
<1>1. /\ tool[e].phase = "remove" /\ f \in tool[e].units
      /\ UNCHANGED <<file, index, today, triage, overlooked>>
    BY DEF RemoveUnit, env
<1>2. TypeOK /\ RemovalSound /\ IndexSound /\ TriageSound /\ NamedKept /\ CoreOnlyIsShrunk
      /\ tool[e] \in ToolState /\ ScanCovers(e) /\ SnapFaithful(e) /\ WorkSound(e)
    BY DEF IndInv, TypeOK, ExpirerSound
<1>3. PICK d \in tool[e].dir :
          \/ UNCHANGED <<disk, removed>>
          \/ /\ disk' = [disk EXCEPT ![d] = @ \ {f}]
             /\ removed' = [removed EXCEPT ![d] = @ \cup {f}]
    BY DEF RemoveUnit
<1>4. CASE UNCHANGED <<disk, removed>>
    BY <1>1, <1>2, <1>4, StoreUntouched DEF StoreSound
<1>5. CASE /\ disk' = [disk EXCEPT ![d] = @ \ {f}]
           /\ removed' = [removed EXCEPT ![d] = @ \cup {f}]
  <2>1. d \in Dir /\ tool[e].got \subseteq Index
    BY <1>2, <1>3 DEF ToolState
  <2>2. /\ disk'[d] = disk[d] \ {f} /\ removed'[d] = removed[d] \cup {f}
        /\ \A c \in Dir : c # d => disk'[c] = disk[c] /\ removed'[c] = removed[c]
    BY <1>2, <1>5, <2>1 DEF TypeOK
  <2>3. /\ d \notin Protected \cup Outside /\ f \notin CorePaths(e, d)
        /\ \A i \in Citing(e, d) : ~Blocked(i, tool[e].snap[i], tool[e].day)
        /\ tool[e].day <= today
    BY <1>1, <1>2, <1>3 DEF WorkSound, Released
  <2>4. \A i \in Index : Root[i] = d /\ i \notin overlooked =>
          i \in Citing(e, d) /\ file[i] # "absent" /\ f \notin index[i].items
    BY <1>1, <1>2, <2>3 DEF ScanCovers, SnapFaithful, Citing, CorePaths
  <2>5. \A i \in Citing(e, d) : Expired(i)
    <3> SUFFICES ASSUME NEW i \in Citing(e, d) PROVE Expired(i)
      OBVIOUS
    <3>1. i \in Index /\ i \in tool[e].got /\ index[i].expires \in Nat \cup {NoDay}
          /\ tool[e].day \in Nat /\ today \in Nat
      BY <1>2, <2>1 DEF Citing, TypeOK, Record, ToolState
    <3>2. CASE CoreOnly(tool[e].snap[i])
      BY <1>2, <3>1, <3>2 DEF SnapFaithful
    <3>3. CASE Eligible(i, tool[e].snap[i], tool[e].day)
      BY <1>2, <2>3, <3>1, <3>3 DEF SnapFaithful, Eligible, Expired
    <3> QED
      BY <2>3, <3>2, <3>3 DEF Blocked
  <2>6. Evolves
    BY <1>1, <1>2, <2>2 DEF Evolves, TypeOK
  <2>7. RemovalSound'
    <3>1. Sums # f
      OBVIOUS
    <3> QED
      BY <1>1, <1>2, <2>2, <2>3, <2>4, <2>5, <3>1 DEF RemovalSound, Expired
  <2>8. NamedKept'
    <3>1. Sums # f
      OBVIOUS
    <3> QED
      BY <1>1, <1>2, <2>2, <2>4, <3>1 DEF NamedKept, Counted
  <2>9. CoreOnlyIsShrunk'
    <3>1. \A c \in Dir : disk'[c] \subseteq disk[c]
      BY <2>2
    <3> QED
      BY <1>1, <1>2, <3>1 DEF CoreOnlyIsShrunk, CoreOnly
  <2>10. IndexSound' /\ TriageSound'
    BY <1>1, <1>2 DEF IndexSound, TriageSound, Expired, CoreOnly
  <2> QED
    BY <2>6, <2>7, <2>8, <2>9, <2>10 DEF StoreSound
<1> QED
    BY <1>3, <1>4, <1>5

LEMMA TruncateStore ==
    ASSUME IndInv, NEW e \in Expirer, NEW i \in Index, Truncate(e, i)
    PROVE  Evolves /\ StoreSound'
<1>1. /\ i \in tool[e].queue /\ file' = [file EXCEPT ![i] = "torn"]
      /\ UNCHANGED <<index, disk, removed, today, triage, overlooked>>
    BY DEF Truncate, store, env
<1>2. TypeOK /\ RemovalSound /\ IndexSound /\ TriageSound /\ NamedKept /\ CoreOnlyIsShrunk
      /\ SnapFaithful(e) /\ WorkSound(e)
    BY DEF IndInv, ExpirerSound
<1>3. \A j \in Index : file'[j] # "absent" <=> file[j] # "absent"
    BY <1>1, <1>2 DEF TypeOK, SnapFaithful, WorkSound
<1>4. Evolves
    BY <1>1, <1>2, <1>3 DEF Evolves, TypeOK
<1>5. RemovalSound' /\ NamedKept'
    BY <1>1, <1>2, <1>3 DEF RemovalSound, NamedKept, Counted, Expired
<1>6. IndexSound' /\ CoreOnlyIsShrunk'
    BY <1>1, <1>2, <1>3 DEF IndexSound, CoreOnlyIsShrunk, Expired, CoreOnly
<1>7. TriageSound'
  <2>1. triage.idx \subseteq Index
    BY <1>2 DEF TypeOK
  <2> QED
    BY <1>1, <1>2, <1>3, <2>1 DEF TriageSound, CoreOnly
<1> QED
    BY <1>4, <1>5, <1>6, <1>7 DEF StoreSound

\* What a rewrite leaves of an index: its items and its expiry, and it is core-only only as a mark.
LEMMA WriteBackIndex ==
    ASSUME IndInv, NEW e \in Expirer, NEW i \in Index, WriteBack(e, i)
    PROVE  /\ \A j \in Index : j # i => index'[j] = index[j] /\ file'[j] = file[j]
           /\ file[i] # "absent" /\ file'[i] # "absent"
           /\ index'[i].items = index[i].items /\ index'[i].expires = index[i].expires
           /\ Expired(i) /\ Root[i] \in tool[e].dir
           /\ CoreOnly(index'[i]) => tool[e].phase = "mark"
<1>1. /\ i \in tool[e].cut /\ file' = [file EXCEPT ![i] = "whole"]
      /\ index' = [index EXCEPT ![i] =
           IF tool[e].phase = "mark"
           THEN [tool[e].snap[i] EXCEPT !.state = "core-only", !.demoted = TRUE]
           ELSE [tool[e].snap[i] EXCEPT !.hold = TRUE, !.demoted = TRUE]]
    BY DEF WriteBack
<1>2. TypeOK /\ tool[e] \in ToolState /\ SnapFaithful(e) /\ WorkSound(e)
    BY DEF IndInv, TypeOK, ExpirerSound
<1>3. /\ i \in tool[e].got /\ Root[i] \in tool[e].dir
      /\ Eligible(i, tool[e].snap[i], tool[e].day) /\ tool[e].day <= today
    BY <1>1, <1>2 DEF WorkSound
<1>4. tool[e].snap[i] \in Record /\ tool[e].day \in Nat /\ today \in Nat
    BY <1>2 DEF ToolState, TypeOK
<1>5. /\ file[i] # "absent" /\ tool[e].snap[i].items = index[i].items
      /\ tool[e].snap[i].expires = index[i].expires
    BY <1>2, <1>3 DEF SnapFaithful, Eligible
<1>6. /\ index'[i].items = tool[e].snap[i].items
      /\ index'[i].expires = tool[e].snap[i].expires
      /\ index'[i].state = IF tool[e].phase = "mark" THEN "core-only" ELSE tool[e].snap[i].state
    BY <1>1, <1>2, <1>4 DEF TypeOK, Record
<1>7. Expired(i)
  <2>1. index[i].expires \in Nat \cup {NoDay}
    BY <1>2 DEF TypeOK, Record
  <2> QED
    BY <1>3, <1>4, <1>5, <2>1 DEF Eligible, Expired
<1>8. CoreOnly(index'[i]) => tool[e].phase = "mark"
    BY <1>3, <1>6 DEF Eligible, CoreOnly
<1>9. /\ file'[i] # "absent"
      /\ \A j \in Index : j # i => index'[j] = index[j] /\ file'[j] = file[j]
    BY <1>1, <1>2 DEF TypeOK
<1> QED
    BY <1>3, <1>5, <1>6, <1>7, <1>8, <1>9

LEMMA WriteBackStore ==
    ASSUME IndInv, NEW e \in Expirer, NEW i \in Index, WriteBack(e, i)
    PROVE  Evolves /\ StoreSound'
<1>1. UNCHANGED <<disk, removed, today, triage, overlooked>>
    BY DEF WriteBack, store, env
<1>2. TypeOK /\ RemovalSound /\ IndexSound /\ TriageSound /\ NamedKept /\ CoreOnlyIsShrunk
      /\ tool[e] \in ToolState /\ SnapFaithful(e) /\ WorkSound(e)
    BY DEF IndInv, TypeOK, ExpirerSound
<1>3. /\ \A j \in Index : j # i => index'[j] = index[j] /\ file'[j] = file[j]
      /\ file[i] # "absent" /\ file'[i] # "absent"
      /\ index'[i].items = index[i].items /\ index'[i].expires = index[i].expires
      /\ Expired(i) /\ Root[i] \in tool[e].dir
      /\ CoreOnly(index'[i]) => tool[e].phase = "mark"
    BY WriteBackIndex
<1>4. \A j \in Index : /\ index'[j].items = index[j].items
                       /\ index'[j].expires = index[j].expires
                       /\ file'[j] # "absent" <=> file[j] # "absent"
    BY <1>3
<1>5. \A j \in Index : Expired(j)' <=> Expired(j)
    BY <1>1, <1>4 DEF Expired
<1>6. Evolves
    BY <1>1, <1>2, <1>4 DEF Evolves, TypeOK
<1>7. RemovalSound' /\ NamedKept'
    BY <1>1, <1>2, <1>4, <1>5 DEF RemovalSound, NamedKept, Counted
<1>8. IndexSound'
    BY <1>1, <1>2, <1>3, <1>4, <1>5 DEF IndexSound, Expired
<1>9. TriageSound'
  <2>1. triage.idx \subseteq Index /\ i \notin triage.idx
    BY <1>2, <1>3 DEF TypeOK, TriageSound, Expired
  <2> QED
    BY <1>1, <1>2, <1>3, <2>1 DEF TriageSound, CoreOnly
<1>10. CoreOnlyIsShrunk'
  <2> SUFFICES ASSUME NEW j \in Index, CoreOnly(index'[j])
               PROVE  disk[Root[j]] \subseteq
                        {Sums} \cup UNION {index'[k].items : k \in {l \in Index : Root[l] = Root[j]}}
    BY <1>1 DEF CoreOnlyIsShrunk, CoreOnly
  <2>1. UNION {index'[k].items : k \in {l \in Index : Root[l] = Root[j]}}
          = UNION {index[k].items : k \in {l \in Index : Root[l] = Root[j]}}
    BY <1>4
  <2>2. CASE j # i
    BY <1>2, <1>3, <2>1, <2>2 DEF CoreOnlyIsShrunk
  <2>3. CASE j = i
    <3>1. disk[Root[i]] \subseteq CorePaths(e, Root[i])
      BY <1>2, <1>3, <2>3 DEF WorkSound
    <3>2. CorePaths(e, Root[i]) \subseteq
            {Sums} \cup UNION {index[k].items : k \in {l \in Index : Root[l] = Root[i]}}
      <4>1. \A k \in Citing(e, Root[i]) :
              k \in Index /\ Root[k] = Root[i] /\ tool[e].snap[k].items = index[k].items
        BY <1>2 DEF Citing, SnapFaithful, ToolState
      <4> QED
        BY <4>1 DEF CorePaths
    <3> QED
      BY <2>1, <2>3, <3>1, <3>2
  <2> QED
    BY <2>2, <2>3
<1> QED
    BY <1>6, <1>7, <1>8, <1>9, <1>10 DEF StoreSound

-----------------------------------------------------------------------------
LEMMA InitSound == Init => IndInv
<1> SUFFICES ASSUME Init PROVE IndInv
    OBVIOUS
<1>1. TypeOK
    BY InitType
<1>2. \A e \in Expirer : tool[e].phase = "idle" /\ tool[e].got = {} /\ tool[e].dir = {}
        /\ tool[e].queue = {} /\ tool[e].cut = {} /\ tool[e].day = 0
    BY DEF Init, IdleTool
<1>3. \A e \in Expirer : ExpirerSound(e)
    BY <1>2 DEF ExpirerSound, ScanCovers, SnapFaithful, WorkSound, Init
<1>4. RemovalSound /\ NamedKept
    BY DEF Init, RemovalSound, NamedKept
<1>5. IndexSound /\ TriageSound /\ CoreOnlyIsShrunk
    BY DEF Init, IndexSound, TriageSound, CoreOnlyIsShrunk, CoreOnly, Blank, IdleTriage
<1> QED
    BY <1>1, <1>3, <1>4, <1>5 DEF IndInv

LEMMA StepSound == IndInv /\ [Next]_vars => IndInv'
<1> SUFFICES ASSUME IndInv, [Next]_vars PROVE IndInv'
    OBVIOUS
<1>1. TypeOK /\ TypeOK' /\ StoreSound /\ \A x \in Expirer : ExpirerSound(x)
    BY StepType DEF IndInv, StoreSound
<1> SUFFICES StoreSound' /\ \A x \in Expirer : ExpirerSound(x)'
    BY <1>1 DEF IndInv, StoreSound
<1>2. ASSUME tool' = tool, Evolves PROVE \A x \in Expirer : ExpirerSound(x)'
    BY <1>1, <1>2, Bystander
<1>3. CASE UNCHANGED vars
  <2>1. tool' = tool /\ UNCHANGED <<file, index, disk, removed, today, triage, overlooked>>
    BY <1>3 DEF vars
  <2> QED
    BY <1>1, <1>2, <2>1, StoreUntouched
<1>4. ASSUME NEW i \in Index, BuildIndex(i) PROVE StoreSound' /\ \A x \in Expirer : ExpirerSound(x)'
    BY <1>2, <1>4, BuildIndexStore DEF BuildIndex
<1>5. ASSUME NEW i \in Index, Repair(i) PROVE StoreSound' /\ \A x \in Expirer : ExpirerSound(x)'
    BY <1>2, <1>5, RepairStore DEF Repair
<1>6. ASSUME NEW i \in Index, NEW date \in Dates, NEW hold \in BOOLEAN,
           TriageLoad(i, date, hold)
      PROVE  StoreSound' /\ \A x \in Expirer : ExpirerSound(x)'
    BY <1>2, <1>6, TriageLoadStore DEF TriageLoad
<1>7. CASE TriageTruncate
    BY <1>2, <1>7, TriageTruncateStore DEF TriageTruncate
<1>8. CASE TriageWrite
    BY <1>2, <1>8, TriageWriteStore DEF TriageWrite
<1>9. CASE TriageCrash
    BY <1>2, <1>9, TriageCrashStore DEF TriageCrash
<1>10. CASE Tick \/ \E d \in Dir, f \in Sealed : Lose(d, f) \/ Alter(d, f)
  <2>1. Evolves /\ StoreSound'
    BY <1>10, EnvironmentStore
  <2>2. tool' = tool
    BY <1>10 DEF Tick, Lose, Alter
  <2> QED
    BY <1>2, <2>1, <2>2
<1>11. ASSUME NEW e \in Expirer,
              \/ \E apply \in BOOLEAN, arg \in EvidenceArgs : Start(e, apply, arg)
              \/ ExpireStep(e) \/ Crash(e)
       PROVE  StoreSound' /\ \A x \in Expirer : ExpirerSound(x)'
  <2>1. \A x \in Expirer : x # e => tool'[x] = tool[x]
    <3>1. tool \in [Expirer -> ToolState]
      BY <1>1 DEF TypeOK
    <3>2. ASSUME NEW i \in Index, Read(e, i) \/ Truncate(e, i) \/ WriteBack(e, i)
          PROVE  \A x \in Expirer : x # e => tool'[x] = tool[x]
      BY <3>1, <3>2 DEF Read, Truncate, WriteBack
    <3>3. ASSUME NEW d \in Dir, PassOver(e, d) \/ CannotKeep(e, d) \/ Demote(e, d)
          PROVE  \A x \in Expirer : x # e => tool'[x] = tool[x]
      BY <3>1, <3>3 DEF PassOver, CannotKeep, Demote
    <3>4. ASSUME NEW f \in File, RemoveUnit(e, f)
          PROVE  \A x \in Expirer : x # e => tool'[x] = tool[x]
      BY <3>1, <3>4 DEF RemoveUnit
    <3>5. ASSUME ScanDone(e) \/ Removed(e) \/ NextDir(e) \/ Finish(e) \/ Crash(e)
          PROVE  \A x \in Expirer : x # e => tool'[x] = tool[x]
      BY <3>1, <3>5 DEF ScanDone, Removed, NextDir, Finish, Crash
    <3>6. ASSUME NEW apply \in BOOLEAN, NEW arg \in EvidenceArgs, Start(e, apply, arg)
          PROVE  \A x \in Expirer : x # e => tool'[x] = tool[x]
      BY <3>1, <3>6 DEF Start
    <3> QED
      BY <1>11, <3>2, <3>3, <3>4, <3>5, <3>6 DEF ExpireStep
  <2>2. ASSUME Evolves, StoreSound', ExpirerSound(e)'
        PROVE  StoreSound' /\ \A x \in Expirer : ExpirerSound(x)'
    BY <1>1, <2>1, <2>2, OneExpirer
  <2>3. ASSUME UNCHANGED <<file, index, disk, removed, today, triage>>,
               overlooked \subseteq overlooked'
        PROVE  Evolves /\ StoreSound'
    BY <1>1, <2>3, StoreUntouched
  <2>4. ASSUME NEW apply \in BOOLEAN, NEW arg \in EvidenceArgs, Start(e, apply, arg)
        PROVE  StoreSound' /\ \A x \in Expirer : ExpirerSound(x)'
    <3>1. Evolves /\ StoreSound'
      BY <2>3, <2>4 DEF Start, store, env
    <3> QED
      BY <2>2, <2>4, <3>1, StartSound
  <2>5. ASSUME NEW i \in Index, Read(e, i) PROVE StoreSound' /\ \A x \in Expirer : ExpirerSound(x)'
    <3>1. Evolves /\ StoreSound'
      BY <2>3, <2>5 DEF Read, store, env
    <3> QED
      BY <2>2, <2>5, <3>1, ReadSound
  <2>6. ASSUME NEW i \in Index, Truncate(e, i) PROVE StoreSound' /\ \A x \in Expirer : ExpirerSound(x)'
    BY <2>2, <2>6, TruncateStore, TruncateSound
  <2>7. ASSUME NEW i \in Index, WriteBack(e, i) PROVE StoreSound' /\ \A x \in Expirer : ExpirerSound(x)'
    BY <2>2, <2>7, WriteBackStore, WriteBackSound
  <2>8. ASSUME NEW d \in Dir, PassOver(e, d) PROVE StoreSound' /\ \A x \in Expirer : ExpirerSound(x)'
    <3>1. Evolves /\ StoreSound'
      BY <2>3, <2>8 DEF PassOver, store, env
    <3> QED
      BY <2>2, <2>8, <3>1, PassOverSound
  <2>9. ASSUME NEW d \in Dir, CannotKeep(e, d) PROVE StoreSound' /\ \A x \in Expirer : ExpirerSound(x)'
    <3>1. Evolves /\ StoreSound'
      BY <2>3, <2>9 DEF CannotKeep, store, env
    <3> QED
      BY <2>2, <2>9, <3>1, CannotKeepSound
  <2>10. ASSUME NEW d \in Dir, Demote(e, d) PROVE StoreSound' /\ \A x \in Expirer : ExpirerSound(x)'
    <3>1. Evolves /\ StoreSound'
      BY <2>3, <2>10 DEF Demote, store, env
    <3> QED
      BY <2>2, <2>10, <3>1, DemoteSound
  <2>11. ASSUME NEW f \in File, RemoveUnit(e, f) PROVE StoreSound' /\ \A x \in Expirer : ExpirerSound(x)'
    BY <2>2, <2>11, RemoveUnitStore, RemoveUnitSound
  <2>12. CASE ScanDone(e)
    <3>1. Evolves /\ StoreSound'
      BY <2>3, <2>12 DEF ScanDone, store, env
    <3> QED
      BY <2>2, <2>12, <3>1, ScanDoneSound
  <2>13. CASE Removed(e)
    <3>1. Evolves /\ StoreSound'
      BY <2>3, <2>13 DEF Removed, store, env
    <3> QED
      BY <2>2, <2>13, <3>1, RemovedSound
  <2>14. CASE NextDir(e)
    <3>1. Evolves /\ StoreSound'
      BY <2>3, <2>14 DEF NextDir, store, env
    <3> QED
      BY <2>2, <2>14, <3>1, NextDirSound
  <2>15. CASE Finish(e) \/ Crash(e)
    <3>1. Evolves /\ StoreSound'
      BY <2>3, <2>15 DEF Finish, Crash, store, env
    <3>2. tool' = [tool EXCEPT ![e] = IdleTool]
      BY <2>15 DEF Finish, Crash
    <3> QED
      BY <1>1, <2>2, <3>1, <3>2, IdleSound
  <2> QED
    BY <1>11, <2>4, <2>5, <2>6, <2>7, <2>8, <2>9, <2>10, <2>11, <2>12, <2>13, <2>14, <2>15
    DEF ExpireStep
<1> QED
    BY <1>3, <1>4, <1>5, <1>6, <1>7, <1>8, <1>9, <1>10, <1>11 DEF Next

-----------------------------------------------------------------------------
(***************************************************************************)
(* The invariant holds in every reachable state, whatever expirers, crashes *)
(* and faults there are: what an expirer has read may be stale, but never   *)
(* in what it decides by.                                                   *)
(***************************************************************************)
THEOREM Inductive == Spec => []IndInv
<1>1. Init => IndInv
    BY InitSound
<1>2. IndInv /\ [Next]_vars => IndInv'
    BY StepSound
<1> QED
    BY <1>1, <1>2, PTL DEF Spec

(***************************************************************************)
(* `expire` removes neither SHA256SUMS nor a file an index it could read    *)
(* names.                                                                   *)
(***************************************************************************)
THEOREM NamedFilesSurvive == Spec => []NamedKept
<1>1. IndInv => NamedKept
    BY DEF IndInv
<1> QED
    BY <1>1, Inductive, PTL

(***************************************************************************)
(* `expire` leaves a directory whole that is protected or outside the       *)
(* storage root, or that a failing, held or unexpired index cites.          *)
(***************************************************************************)
THEOREM BlockersKeepTheDirectory == Spec => []LeftWhole
<1>1. IndInv => LeftWhole
    BY DEF IndInv, RemovalSound, LeftWhole, Counted, Expired
<1> QED
    BY <1>1, Inductive, PTL

(***************************************************************************)
(* An index reads core-only only when its directory has lost its bulk:      *)
(* `expire` removes first and marks afterwards, and no crash reorders it.   *)
(***************************************************************************)
THEOREM MarkedAfterRemoval == Spec => []CoreOnlyIsShrunk
<1>1. IndInv => CoreOnlyIsShrunk
    BY DEF IndInv
<1> QED
    BY <1>1, Inductive, PTL

\* Who writes an index at all.
LEMMA IndexWriters ==
    ASSUME [Next]_vars
    PROVE  \/ index' = index \/ TriageWrite
           \/ \E j \in Index : BuildIndex(j)
           \/ \E e \in Expirer, j \in Index : WriteBack(e, j)
<1>1. ASSUME NEW e \in Expirer, ExpireStep(e)
      PROVE  index' = index \/ \E j \in Index : WriteBack(e, j)
  BY <1>1 DEF ExpireStep, store, Read, ScanDone, PassOver, CannotKeep, Demote, RemoveUnit,
     Removed, Truncate, NextDir, Finish
<1>2. ASSUME NEW e \in Expirer,
             Crash(e) \/ \E apply \in BOOLEAN, arg \in EvidenceArgs : Start(e, apply, arg)
      PROVE  index' = index
  BY <1>2 DEF Crash, Start
<1>3. ASSUME \/ TriageTruncate \/ TriageCrash \/ Tick
             \/ \E d \in Dir, f \in Sealed : Lose(d, f) \/ Alter(d, f)
             \/ \E j \in Index, date \in Dates, hold \in BOOLEAN : TriageLoad(j, date, hold)
             \/ \E j \in Index : Repair(j)
      PROVE  index' = index
  BY <1>3 DEF TriageTruncate, TriageCrash, Tick, Lose, Alter, TriageLoad, Repair
<1>4. CASE UNCHANGED vars
  BY <1>4 DEF vars
<1> QED
  BY <1>1, <1>2, <1>3, <1>4 DEF Next

\* Who writes a triaged index, and what it leaves there.
LEMMA TriageStep ==
    ASSUME IndInv, IndInv', [Next]_vars,
           NEW i \in Index, Class[i] = "failure", index[i].expires # NoDay
    PROVE  /\ ~CoreOnly(index'[i]) /\ index'[i].expires # NoDay
           /\ index'[i] = index[i] \/ (triage.phase = "cut" /\ i \in triage.idx)
<1>1. TypeOK /\ IndexSound /\ IndexSound' /\ TriageSound
    BY DEF IndInv
<1>2. ~CoreOnly(index'[i])
    BY <1>1 DEF IndexSound, Expired, CoreOnly
<1>4. CASE index'[i] = index[i]
    BY <1>2, <1>4
<1>5. CASE TriageWrite
  <2>1. index'[i] = IF i \in triage.idx THEN triage.new ELSE index[i]
    BY <1>5 DEF TriageWrite
  <2>2. triage.phase = "cut" /\ (i \in triage.idx => triage.new.expires # NoDay)
    BY <1>1, <1>5 DEF TriageWrite, TriageSound
  <2> QED
    BY <1>2, <1>4, <2>1, <2>2
<1>6. ASSUME NEW j \in Index, BuildIndex(j) PROVE index'[i] = index[i]
  <2>1. index[j] = Blank /\ index' = [index EXCEPT ![j] = RetentionBlock(j, today)]
    BY <1>1, <1>6 DEF BuildIndex, IndexSound
  <2>2. i # j
    BY <2>1 DEF Blank
  <2> QED
    BY <1>1, <2>1, <2>2 DEF TypeOK
<1>7. ASSUME NEW e \in Expirer, NEW j \in Index, WriteBack(e, j) PROVE index'[i] = index[i]
  <2>1. Expired(j) /\ \A k \in Index : k # j => index'[k] = index[k]
    BY <1>7, WriteBackIndex
  <2>2. i # j
    BY <2>1 DEF Expired
  <2> QED
    BY <2>1, <2>2
<1>8. \/ index' = index \/ TriageWrite
      \/ \E j \in Index : BuildIndex(j)
      \/ \E e \in Expirer, j \in Index : WriteBack(e, j)
    BY IndexWriters
<1> QED
    BY <1>4, <1>5, <1>6, <1>7, <1>8

(***************************************************************************)
(* What triage recorded in a failure bundle stands until triage records     *)
(* something else, and the bundle never becomes core-only.                  *)
(***************************************************************************)
THEOREM TriageIsKept == Spec => TriageSticks
<1>1. IndInv /\ IndInv' /\ [Next]_vars =>
        [\A i \in Index : Class[i] = "failure" /\ index[i].expires # NoDay =>
          /\ ~CoreOnly(index'[i]) /\ index'[i].expires # NoDay
          /\ index'[i] = index[i] \/ (triage.phase = "cut" /\ i \in triage.idx)]_vars
    BY TriageStep
<1>2. Spec => [][Next]_vars
    BY DEF Spec
<1> QED
    BY <1>1, <1>2, Inductive, PTL DEF TriageSticks

-----------------------------------------------------------------------------
(***************************************************************************)
(* When a mark falls back.  Besides the inductive invariant this needs to   *)
(* know where files go, and why an expirer records expired-by-policy.       *)
(***************************************************************************)

\* Without faults, what is gone from a directory was removed by an expirer.
NothingLost == faults = 0 => \A d \in Dir : Sealed \subseteq disk[d] \cup removed[d]

\* An expirer that records expired-by-policy has found the core missing, and no file comes back.
CoreGone(e) == tool[e].phase = "record" => \A d \in tool[e].dir : CoreMissing(e, d)

LossInv == NothingLost /\ \A e \in Expirer : CoreGone(e)

LEMMA NothingLostKept ==
    ASSUME IndInv, NothingLost, [Next]_vars
    PROVE  NothingLost' /\ \A d \in Dir : disk'[d] \subseteq disk[d]
<1>1. TypeOK
    BY DEF IndInv
<1>2. CASE UNCHANGED <<disk, removed, faults>>
    BY <1>2 DEF NothingLost
<1>3. ASSUME NEW d \in Dir, NEW f \in Sealed, Lose(d, f)
      PROVE  faults' # 0 /\ \A c \in Dir : disk'[c] \subseteq disk[c]
    BY <1>1, <1>3 DEF Lose, TypeOK
<1>4. ASSUME NEW d \in Dir, NEW f \in Sealed, Alter(d, f)
      PROVE  faults' # 0 /\ disk' = disk
    BY <1>1, <1>4 DEF Alter, TypeOK
<1>5. ASSUME NEW e \in Expirer, NEW f \in File, RemoveUnit(e, f)
      PROVE  NothingLost' /\ \A d \in Dir : disk'[d] \subseteq disk[d]
  <2>1. faults' = faults
    BY <1>5 DEF RemoveUnit
  <2>2. CASE UNCHANGED <<disk, removed>>
    BY <1>2, <2>1, <2>2
  <2>3. CASE ~UNCHANGED <<disk, removed>>
    <3>1. PICK d \in tool[e].dir : /\ disk' = [disk EXCEPT ![d] = @ \ {f}]
                                   /\ removed' = [removed EXCEPT ![d] = @ \cup {f}]
      BY <1>5, <2>3 DEF RemoveUnit
    <3>2. \A c \in Dir : /\ disk'[c] \subseteq disk[c]
                         /\ disk[c] \cup removed[c] \subseteq disk'[c] \cup removed'[c]
      BY <1>1, <3>1 DEF TypeOK
    <3> QED
      BY <2>1, <3>2 DEF NothingLost
  <2> QED
    BY <2>2, <2>3
<1>6. ASSUME NEW e \in Expirer, ExpireStep(e)
      PROVE  UNCHANGED <<disk, removed, faults>> \/ \E f \in File : RemoveUnit(e, f)
    BY <1>6 DEF ExpireStep, store, Read, ScanDone, PassOver, CannotKeep, Demote, Removed, Truncate,
       WriteBack, NextDir, Finish
<1>7. ASSUME NEW e \in Expirer,
             Crash(e) \/ \E apply \in BOOLEAN, arg \in EvidenceArgs : Start(e, apply, arg)
      PROVE  UNCHANGED <<disk, removed, faults>>
    BY <1>7 DEF Crash, Start, store
<1>8. ASSUME \/ TriageTruncate \/ TriageWrite \/ TriageCrash \/ Tick
             \/ \E i \in Index, date \in Dates, hold \in BOOLEAN : TriageLoad(i, date, hold)
             \/ \E i \in Index : BuildIndex(i) \/ Repair(i)
      PROVE  UNCHANGED <<disk, removed, faults>>
    BY <1>8 DEF TriageTruncate, TriageWrite, TriageCrash, Tick, TriageLoad, BuildIndex, Repair, store
<1>9. CASE UNCHANGED vars
    BY <1>2, <1>9 DEF vars
<1>10. (faults' # 0 => NothingLost') /\ (disk' = disk => \A d \in Dir : disk'[d] \subseteq disk[d])
    BY DEF NothingLost
<1> QED
    BY <1>2, <1>3, <1>4, <1>5, <1>6, <1>7, <1>8, <1>9, <1>10 DEF Next

\* Who records, goes on with what it decided by.
LEMMA CoreGoneKept ==
    ASSUME IndInv, IndInv', [Next]_vars, \A d \in Dir : disk'[d] \subseteq disk[d],
           NEW x \in Expirer, CoreGone(x)
    PROVE  CoreGone(x)'
<1>1. TypeOK /\ TypeOK' /\ tool[x] \in ToolState /\ tool'[x] \in ToolState
    BY DEF IndInv, TypeOK
<1> DEFINE Goes == /\ tool[x].phase = "record" /\ tool'[x].dir \subseteq tool[x].dir
                   /\ tool'[x].got = tool[x].got /\ tool'[x].snap = tool[x].snap
<1>2. ASSUME Goes PROVE CoreGone(x)'
  <2> SUFFICES ASSUME NEW d \in tool'[x].dir PROVE CoreMissing(x, d)'
    BY DEF CoreGone
  <2>1. d \in Dir /\ CoreMissing(x, d)
    BY <1>1, <1>2 DEF CoreGone, ToolState
  <2>2. CorePaths(x, d)' = CorePaths(x, d)
    BY <1>2 DEF CorePaths, Citing
  <2> QED
    BY <2>1, <2>2 DEF CoreMissing
<1>3. ASSUME tool'[x] = tool[x] PROVE CoreGone(x)'
    BY <1>2, <1>3 DEF CoreGone
<1>4. ASSUME tool'[x].phase # "record" PROVE CoreGone(x)'
    BY <1>4 DEF CoreGone
<1>5. CASE tool' = tool
    BY <1>3, <1>5
<1>6. ASSUME NEW e \in Expirer, e # x,
             \/ \E apply \in BOOLEAN, arg \in EvidenceArgs : Start(e, apply, arg)
             \/ ExpireStep(e) \/ Crash(e)
      PROVE  tool'[x] = tool[x]
  <2>1. tool \in [Expirer -> ToolState]
    BY <1>1 DEF TypeOK
  <2>2. ASSUME NEW i \in Index, Read(e, i) \/ Truncate(e, i) \/ WriteBack(e, i)
        PROVE  tool'[x] = tool[x]
    BY <1>6, <2>1, <2>2 DEF Read, Truncate, WriteBack
  <2>3. ASSUME NEW d \in Dir, PassOver(e, d) \/ CannotKeep(e, d) \/ Demote(e, d)
        PROVE  tool'[x] = tool[x]
    BY <1>6, <2>1, <2>3 DEF PassOver, CannotKeep, Demote
  <2>4. ASSUME NEW f \in File, RemoveUnit(e, f) PROVE tool'[x] = tool[x]
    BY <1>6, <2>1, <2>4 DEF RemoveUnit
  <2>5. ASSUME ScanDone(e) \/ Removed(e) \/ NextDir(e) \/ Finish(e) \/ Crash(e)
        PROVE  tool'[x] = tool[x]
    BY SMTT(30), <1>6, <2>1, <2>5 DEF ScanDone, Removed, NextDir, Finish, Crash
  <2>6. ASSUME NEW apply \in BOOLEAN, NEW arg \in EvidenceArgs, Start(e, apply, arg)
        PROVE  tool'[x] = tool[x]
    BY <1>6, <2>1, <2>6 DEF Start
  <2> QED
    BY <1>6, <2>2, <2>3, <2>4, <2>5, <2>6 DEF ExpireStep
<1>7. ASSUME \/ \E apply \in BOOLEAN, arg \in EvidenceArgs : Start(x, apply, arg)
             \/ Crash(x) \/ Finish(x) \/ ScanDone(x) \/ Removed(x) \/ NextDir(x)
             \/ \E i \in Index : Read(x, i)
             \/ \E f \in File : RemoveUnit(x, f)
             \/ \E d \in Dir : PassOver(x, d) \/ Demote(x, d)
      PROVE  tool'[x].phase # "record"
  <2>1. tool \in [Expirer -> ToolState]
    BY <1>1 DEF TypeOK
  <2>3. ASSUME NEW i \in Index, Read(x, i) PROVE tool'[x].phase # "record"
    <3>1. tool'[x].phase = tool[x].phase /\ tool[x].phase = "scan"
      BY <2>1, <2>3 DEF Read, ToolState
    <3> QED
      BY <3>1
  <2>4. ASSUME NEW d \in Dir, PassOver(x, d) \/ Demote(x, d) PROVE tool'[x].phase # "record"
    <3>1. CASE PassOver(x, d)
      BY <2>1, <3>1 DEF PassOver, ToolState
    <3>2. CASE Demote(x, d)
      BY <2>1, <3>2 DEF Demote, ToolState
    <3> QED
      BY <2>4, <3>1, <3>2
  <2>5. ASSUME NEW f \in File, RemoveUnit(x, f) PROVE tool'[x].phase # "record"
    BY <2>1, <2>5 DEF RemoveUnit, ToolState, IdleTool
  <2>6. CASE ScanDone(x) \/ NextDir(x)
    BY <2>1, <2>6 DEF ScanDone, NextDir, ToolState
  <2>7. CASE Removed(x)
    BY <2>1, <2>7 DEF Removed, ToolState, IdleTool
  <2>8. CASE Finish(x) \/ Crash(x)
    <3>1. tool' = [tool EXCEPT ![x] = IdleTool]
      BY <2>8 DEF Finish, Crash
    <3>2. tool'[x] = IdleTool
      BY <2>1, <3>1
    <3> QED
      BY <3>2 DEF IdleTool
  <2>9. ASSUME NEW apply \in BOOLEAN, NEW arg \in EvidenceArgs, Start(x, apply, arg)
        PROVE  tool'[x].phase # "record"
    BY <2>1, <2>9 DEF Start, IdleTool
  <2> QED
    BY <1>7, <2>3, <2>4, <2>5, <2>6, <2>7, <2>8, <2>9
<1>8. ASSUME NEW i \in Index, Truncate(x, i) \/ WriteBack(x, i) PROVE CoreGone(x)'
  <2>1. /\ tool'[x].phase = tool[x].phase /\ tool'[x].dir = tool[x].dir
        /\ tool'[x].got = tool[x].got /\ tool'[x].snap = tool[x].snap
    <3>1. tool \in [Expirer -> ToolState]
      BY <1>1 DEF TypeOK
    <3>2. CASE Truncate(x, i)
      BY <3>1, <3>2 DEF Truncate, ToolState
    <3>3. CASE WriteBack(x, i)
      BY <3>1, <3>3 DEF WriteBack, ToolState
    <3> QED
      BY <1>8, <3>2, <3>3
  <2> QED
    BY <1>2, <1>4, <2>1
<1>9. ASSUME NEW d \in Dir, CannotKeep(x, d) PROVE CoreGone(x)'
  <2>1. /\ tool'[x].dir = {d} /\ tool'[x].got = tool[x].got /\ tool'[x].snap = tool[x].snap
        /\ disk' = disk /\ CoreMissing(x, d)
    BY <1>1, <1>9 DEF TypeOK, CannotKeep, store
  <2>2. CorePaths(x, d)' = CorePaths(x, d)
    BY <2>1 DEF CorePaths, Citing
  <2> QED
    BY <2>1, <2>2 DEF CoreGone, CoreMissing
<1>10. ASSUME NEW e \in Expirer,
              \/ \E apply \in BOOLEAN, arg \in EvidenceArgs : Start(e, apply, arg)
              \/ ExpireStep(e) \/ Crash(e)
       PROVE  CoreGone(x)'
  <2>1. CASE e # x
    BY <1>3, <1>6, <1>10, <2>1
  <2>2. CASE e = x
    BY <1>4, <1>7, <1>8, <1>9, <1>10, <2>2 DEF ExpireStep
  <2> QED
    BY <2>1, <2>2
<1>11. ASSUME \/ TriageTruncate \/ TriageWrite \/ TriageCrash \/ Tick
              \/ \E d \in Dir, f \in Sealed : Lose(d, f) \/ Alter(d, f)
              \/ \E i \in Index, date \in Dates, hold \in BOOLEAN : TriageLoad(i, date, hold)
              \/ \E i \in Index : BuildIndex(i) \/ Repair(i)
       PROVE  tool' = tool
    BY <1>11 DEF TriageTruncate, TriageWrite, TriageCrash, Tick, Lose, Alter, TriageLoad, BuildIndex,
       Repair
<1>12. CASE UNCHANGED vars
    BY <1>5, <1>12 DEF vars
<1> QED
    BY <1>5, <1>10, <1>11, <1>12 DEF Next

LEMMA LossKept == Spec => []LossInv
<1>1. Init => LossInv
    BY DEF Init, LossInv, NothingLost, CoreGone, IdleTool
<1>2. ASSUME IndInv, IndInv', LossInv, [Next]_vars PROVE LossInv'
    BY <1>2, NothingLostKept, CoreGoneKept DEF LossInv
<1> QED
    BY <1>1, <1>2, Inductive, PTL DEF Spec

\* A stale record is written back over a mark only by an expirer that found the core missing.
LEMMA FallsBack ==
    ASSUME IndInv, IndInv', LossInv, [Next]_vars,
           NEW i \in Index, CoreOnly(index[i]), ~CoreOnly(index'[i])
    PROVE  \E j \in Index : /\ Root[j] = Root[i] /\ Short(j)
                            /\ faults > 0 \/ j \in overlooked
<1>1. TypeOK /\ IndexSound /\ TriageSound /\ NamedKept /\ RemovalSound
    BY DEF IndInv
<1>2. Expired(i)
    BY <1>1 DEF IndexSound
<1>3. index'[i] # index[i]
    OBVIOUS
<1>4. ~TriageWrite
  <2>1. i \notin triage.idx
    BY <1>1, <1>2 DEF TriageSound, Expired
  <2> QED
    BY <1>3, <2>1 DEF TriageWrite
<1>5. ASSUME NEW k \in Index, BuildIndex(k) PROVE index'[i] = index[i]
  <2>1. index[k] = Blank /\ index' = [index EXCEPT ![k] = RetentionBlock(k, today)]
    BY <1>1, <1>5 DEF BuildIndex, IndexSound
  <2>2. i # k
    BY <2>1 DEF Blank, CoreOnly
  <2> QED
    BY <1>1, <2>1, <2>2 DEF TypeOK
<1>6. PICK e \in Expirer, k \in Index : WriteBack(e, k)
    BY <1>3, <1>4, <1>5, IndexWriters
<1>7. tool[e] \in ToolState /\ WorkSound(e) /\ SnapFaithful(e) /\ CoreGone(e)
    BY <1>1 DEF IndInv, TypeOK, ExpirerSound, LossInv
<1>8. k = i
    BY <1>3, <1>6, WriteBackIndex
<1>9. tool[e].phase = "record"
  <2>1. tool[e].phase = "mark" =>
          index'[i] = [tool[e].snap[i] EXCEPT !.state = "core-only", !.demoted = TRUE]
    BY <1>1, <1>6, <1>8 DEF WriteBack, TypeOK
  <2>2. tool[e].snap[i] \in Record
    BY <1>7 DEF ToolState
  <2>3. tool[e].phase = "mark" => CoreOnly(index'[i])
    BY <2>1, <2>2 DEF CoreOnly, Record
  <2> QED
    BY <1>6, <2>3 DEF WriteBack
<1>10. i \in tool[e].got /\ Root[i] \in tool[e].dir
    BY <1>6, <1>8, <1>7 DEF WriteBack, WorkSound
<1>11. PICK f : f \in CorePaths(e, Root[i]) /\ f \notin disk[Root[i]]
    BY <1>7, <1>9, <1>10 DEF CoreGone, CoreMissing
<1>12. PICK j \in Citing(e, Root[i]) : f \in index[j].items \cup {Sums}
    BY <1>7, <1>10, <1>11 DEF CorePaths, Citing, SnapFaithful
<1>13. j \in Index /\ Root[j] = Root[i] /\ file[j] # "absent" /\ index[j].items \subseteq File
    BY <1>1, <1>7, <1>12 DEF Citing, ToolState, SnapFaithful, TypeOK, Record
<1>14. Short(j)
    BY <1>11, <1>12, <1>13 DEF Short
<1>15. ASSUME faults = 0 PROVE j \in overlooked
  <2>1. f \in removed[Root[i]]
    BY <1>11, <1>12, <1>13, <1>15 DEF LossInv, NothingLost
  <2> QED
    BY <1>1, <1>12, <1>13, <2>1 DEF NamedKept, Counted
<1> QED
    BY <1>1, <1>13, <1>14, <1>15 DEF TypeOK

(***************************************************************************)
(* A demoted index reads full again only where a named file of its          *)
(* directory is gone: lost behind the tools' back, or removed by an         *)
(* expirer that overlooked the index naming it.                             *)
(***************************************************************************)
THEOREM MarksFallBackOnlyOverAGap == Spec => DemotionStands
<1>1. IndInv /\ IndInv' /\ LossInv /\ [Next]_vars =>
        [\A i \in Index : CoreOnly(index[i]) /\ ~CoreOnly(index'[i]) =>
           \E j \in Index : /\ Root[j] = Root[i] /\ Short(j)
                            /\ faults > 0 \/ j \in overlooked]_vars
    BY FallsBack
<1>2. Spec => [][Next]_vars
    BY DEF Spec
<1> QED
    BY <1>1, <1>2, Inductive, LossKept, PTL DEF DemotionStands

-----------------------------------------------------------------------------
(***************************************************************************)
(* The refinement: the initial states map to initial states of the policy,  *)
(* and under the inductive invariant every step maps to one of its steps.   *)
(***************************************************************************)

\* A step that moves no file, writes no index anew and lets no day pass only loses sight of indexes.
LEMMA Quiet ==
    ASSUME TypeOK, TypeOK', UNCHANGED <<disk, removed>>, overlooked \subseteq overlooked',
           \A i \in Index : /\ file'[i] # "absent" <=> file[i] # "absent"
                            /\ index'[i].items = index[i].items
                            /\ CoreOnly(index'[i]) <=> CoreOnly(index[i])
                            /\ Expired(i)' <=> Expired(i)
    PROVE  Store!LoseSight
<1>1. overlooked' \subseteq Index
    BY DEF TypeOK
<1>2. [i \in Index |-> index[i].items]' = [i \in Index |-> index[i].items]
    OBVIOUS
<1>3. /\ {i \in Index : file[i] # "absent"}' = {i \in Index : file[i] # "absent"}
      /\ {i \in Index : file[i] # "absent" /\ Expired(i)}'
           = {i \in Index : file[i] # "absent" /\ Expired(i)}
      /\ {i \in Index : CoreOnly(index[i])}' = {i \in Index : CoreOnly(index[i])}
    BY DEF CoreOnly
<1> QED
    BY <1>1, <1>2, <1>3 DEF Store!LoseSight

\* The common case: neither the indexes nor the calendar move, and no file comes to be or goes.
LEMMA Still ==
    ASSUME TypeOK, TypeOK', UNCHANGED <<disk, removed, index, today>>,
           overlooked \subseteq overlooked',
           \A i \in Index : file'[i] # "absent" <=> file[i] # "absent"
    PROVE  Store!LoseSight
<1>1. \A i \in Index : Expired(i)' <=> Expired(i)
    BY DEF Expired
<1> QED
    BY <1>1, Quiet DEF CoreOnly

LEMMA BuildCites ==
    ASSUME IndInv, TypeOK', NEW i \in Index, BuildIndex(i)
    PROVE  Store!Cite(i)
<1>1. TypeOK /\ IndexSound
    BY DEF IndInv
<1>2. /\ file[i] = "absent" /\ index[i] = Blank
      /\ index' = [index EXCEPT ![i] = RetentionBlock(i, today)]
      /\ file'[i] # "absent" /\ \A j \in Index : j # i => file'[j] = file[j]
      /\ UNCHANGED <<disk, removed, today, overlooked>>
    BY <1>1 DEF BuildIndex, store, IndexSound, TypeOK
<1>3. /\ index'[i] = RetentionBlock(i, today)
      /\ \A j \in Index : j # i => index'[j] = index[j]
    BY <1>1, <1>2 DEF TypeOK
<1>4. /\ RetentionBlock(i, today).items = Items[i] \cap disk[Root[i]]
      /\ ~CoreOnly(RetentionBlock(i, today))
      /\ RetentionBlock(i, today).expires
           = IF Class[i] = "success-bulky" THEN today + BulkDays ELSE NoDay
    BY DEF RetentionBlock, CoreOnly
<1>5. ~Expired(i)'
    BY <1>1, <1>2, <1>3, <1>4, ConstantsAssumption DEF Expired, TypeOK
<1>6. \A j \in Index : j # i => (Expired(j)' <=> Expired(j))
    BY <1>2, <1>3 DEF Expired
<1>7. ~CoreOnly(index[i])
    BY <1>2 DEF Blank, CoreOnly
<1>8. [j \in Index |-> index[j].items]' =
        [[j \in Index |-> index[j].items] EXCEPT ![i] = Items[i] \cap disk[Root[i]]]
    BY <1>3, <1>4
<1>9. Items[i] \cap disk[Root[i]] \in SUBSET (File \cap disk[Root[i]])
    BY ConstantsAssumption
<1>10. {j \in Index : file[j] # "absent"}' = {j \in Index : file[j] # "absent"} \cup {i}
    BY <1>2
<1>11. /\ {j \in Index : file[j] # "absent" /\ Expired(j)}'
            = {j \in Index : file[j] # "absent" /\ Expired(j)}
       /\ {j \in Index : CoreOnly(index[j])}' = {j \in Index : CoreOnly(index[j])}
    BY <1>2, <1>3, <1>4, <1>5, <1>6, <1>7 DEF CoreOnly
<1> QED
    BY <1>2, <1>8, <1>9, <1>10, <1>11 DEF Store!Cite

LEMMA RemovalSheds ==
    ASSUME IndInv, IndInv', NEW e \in Expirer, NEW f \in File, RemoveUnit(e, f)
    PROVE  Store!LoseSight \/ \E d \in Dir : Store!Shed(d, f)
<1>1. /\ tool[e].phase = "remove" /\ f \in tool[e].units
      /\ UNCHANGED <<file, index, today, overlooked>>
    BY DEF RemoveUnit, env
<1>2. TypeOK /\ TypeOK' /\ tool[e] \in ToolState /\ WorkSound(e) /\ RemovalSound'
      /\ ScanCovers(e) /\ SnapFaithful(e)
    BY DEF IndInv, TypeOK, ExpirerSound
<1>3. CASE UNCHANGED <<disk, removed>>
    BY <1>1, <1>2, <1>3, Still
<1>4. CASE ~UNCHANGED <<disk, removed>>
  <2>1. PICK d \in tool[e].dir :
            /\ f \in disk[d]
            /\ disk' = [disk EXCEPT ![d] = @ \ {f}]
            /\ removed' = [removed EXCEPT ![d] = @ \cup {f}]
    BY <1>4 DEF RemoveUnit
  <2>2. d \in Dir /\ removed'[d] # {}
    BY <1>2, <2>1 DEF ToolState, TypeOK
  <2>3. /\ d \notin Protected \cup Outside
        /\ \A i \in Index : Root[i] = d /\ i \notin overlooked => file[i] # "absent" /\ Expired(i)
    BY <1>1, <1>2, <2>2 DEF RemovalSound, Expired
  <2>4. \A i \in Index : Root[i] = d /\ i \notin overlooked => f \notin index[i].items
    BY <1>1, <1>2, <2>1 DEF WorkSound, ScanCovers, SnapFaithful, Citing, CorePaths
  <2>5. \A i \in Index \ overlooked : Root[i] = d =>
          /\ i \in {j \in Index : file[j] # "absent" /\ Expired(j)}
          /\ f \notin [j \in Index |-> index[j].items][i]
    BY <2>3, <2>4
  <2>6. Store!Shed(d, f)
    <3>1. /\ [j \in Index |-> index[j].items]' = [j \in Index |-> index[j].items]
          /\ {j \in Index : file[j] # "absent"}' = {j \in Index : file[j] # "absent"}
          /\ {j \in Index : CoreOnly(index[j])}' = {j \in Index : CoreOnly(index[j])}
          /\ {j \in Index : file[j] # "absent" /\ Expired(j)}'
               = {j \in Index : file[j] # "absent" /\ Expired(j)}
      BY <1>1 DEF Expired, CoreOnly
    <3> QED
      BY <1>1, <2>1, <2>3, <2>5, <3>1 DEF Store!Shed
  <2> QED
    BY <2>2, <2>6
<1> QED
    BY <1>3, <1>4

LEMMA WriteBackSays ==
    ASSUME IndInv, IndInv', NEW e \in Expirer, NEW i \in Index, WriteBack(e, i)
    PROVE  Store!SayCore(i) \/ Store!Unsay(i)
<1>1. UNCHANGED <<disk, removed, today, overlooked>>
    BY DEF WriteBack, store, env
<1>2. /\ \A j \in Index : j # i => index'[j] = index[j] /\ file'[j] = file[j]
      /\ file[i] # "absent" /\ file'[i] # "absent"
      /\ index'[i].items = index[i].items /\ index'[i].expires = index[i].expires
      /\ Expired(i)
    BY WriteBackIndex
<1>3. /\ [j \in Index |-> index[j].items]' = [j \in Index |-> index[j].items]
      /\ {j \in Index : file[j] # "absent"}' = {j \in Index : file[j] # "absent"}
    BY <1>2
<1>4. \A j \in Index : Expired(j)' <=> Expired(j)
    BY <1>1, <1>2 DEF Expired
<1>5. /\ {j \in Index : file[j] # "absent" /\ Expired(j)}'
           = {j \in Index : file[j] # "absent" /\ Expired(j)}
      /\ i \in {j \in Index : file[j] # "absent" /\ Expired(j)}
    BY <1>2, <1>4
<1>6. CASE CoreOnly(index'[i])
  <2>1. disk[Root[i]] \subseteq
          {Sums} \cup UNION {index'[j].items : j \in {k \in Index : Root[k] = Root[i]}}
    BY <1>1, <1>6 DEF IndInv, CoreOnlyIsShrunk, CoreOnly
  <2>2. UNION {index'[j].items : j \in {k \in Index : Root[k] = Root[i]}} =
        UNION {[j \in Index |-> index[j].items][k] : k \in {k \in Index : Root[k] = Root[i]}}
    BY <1>2
  <2>3. {j \in Index : CoreOnly(index[j])}' = {j \in Index : CoreOnly(index[j])} \cup {i}
    BY <1>2, <1>6 DEF CoreOnly
  <2> QED
    BY <1>1, <1>3, <1>5, <2>1, <2>2, <2>3 DEF Store!SayCore
<1>7. CASE ~CoreOnly(index'[i])
  <2>1. {j \in Index : CoreOnly(index[j])}' = {j \in Index : CoreOnly(index[j])} \ {i}
    BY <1>2, <1>7 DEF CoreOnly
  <2> QED
    BY <1>1, <1>3, <1>5, <2>1 DEF Store!Unsay
<1> QED
    BY <1>6, <1>7

LEMMA TriageQuiet ==
    ASSUME IndInv, IndInv', TriageWrite
    PROVE  Store!LoseSight
<1>1. /\ file' = [i \in Index |-> IF i \in triage.idx THEN "whole" ELSE file[i]]
      /\ index' = [i \in Index |-> IF i \in triage.idx THEN triage.new ELSE index[i]]
      /\ UNCHANGED <<disk, removed, today, overlooked>>
    BY DEF TriageWrite, store, env
<1>2. TypeOK /\ TypeOK' /\ TriageSound /\ IndexSound
    BY DEF IndInv
<1>3. ASSUME NEW i \in triage.idx
      PROVE  /\ Class[i] = "failure" /\ file[i] # "absent" /\ i \in Index
             /\ triage.new.items = index[i].items /\ ~CoreOnly(triage.new)
             /\ ~CoreOnly(index[i])
  <2>1. Class[i] = "failure" /\ file[i] # "absent" /\ i \in Index
        /\ triage.new.items = index[i].items /\ ~CoreOnly(triage.new)
    BY <1>2, <1>3 DEF TriageSound, TypeOK
  <2>2. ~CoreOnly(index[i])
    BY <1>2, <2>1 DEF IndexSound, Expired
  <2> QED
    BY <2>1, <2>2
<1>4. \A i \in Index : file'[i] # "absent" <=> file[i] # "absent"
    BY <1>1, <1>3
<1>5. \A i \in Index : index'[i].items = index[i].items
    BY <1>1, <1>3
<1>6. \A i \in Index : CoreOnly(index'[i]) <=> CoreOnly(index[i])
    BY <1>1, <1>3
<1>7. \A i \in Index : Expired(i)' <=> Expired(i)
    BY <1>1, <1>3 DEF Expired
<1> QED
    BY <1>1, <1>2, <1>4, <1>5, <1>6, <1>7, Quiet

\* What an expirer does besides removing a file or rewriting an index is nobody's business.
LEMMA ExpirerMaps ==
    ASSUME IndInv, IndInv', NEW e \in Expirer,
           \/ ExpireStep(e) \/ Crash(e)
           \/ \E apply \in BOOLEAN, arg \in EvidenceArgs : Start(e, apply, arg)
    PROVE  Store!StoreNext
<1>1. TypeOK /\ TypeOK'
    BY DEF IndInv
<1>2. ASSUME NEW f \in File, RemoveUnit(e, f) PROVE Store!StoreNext
    BY <1>2, RemovalSheds DEF Store!StoreNext
<1>3. ASSUME NEW i \in Index, WriteBack(e, i) PROVE Store!StoreNext
    BY <1>3, WriteBackSays DEF Store!StoreNext
<1>4. ASSUME NEW i \in Index, Truncate(e, i) PROVE Store!StoreNext
  <2>1. /\ file' = [file EXCEPT ![i] = "torn"] /\ i \in tool[e].cut \cup tool[e].queue
        /\ UNCHANGED <<disk, removed, index, today, overlooked>>
    BY <1>4 DEF Truncate, store, env
  <2>2. tool[e] \in ToolState /\ SnapFaithful(e) /\ WorkSound(e)
    BY <1>1 DEF IndInv, TypeOK, ExpirerSound
  <2>3. file[i] # "absent"
    BY <2>1, <2>2 DEF WorkSound, SnapFaithful
  <2>4. \A j \in Index : file'[j] # "absent" <=> file[j] # "absent"
    BY <1>1, <2>1, <2>3 DEF TypeOK
  <2> QED
    BY <1>1, <2>1, <2>4, Still DEF Store!StoreNext
<1>5. ASSUME UNCHANGED <<disk, removed, index, today, file>>, overlooked \subseteq overlooked'
      PROVE  Store!StoreNext
    BY <1>1, <1>5, Still DEF Store!StoreNext
<1>6. ASSUME NEW i \in Index, Read(e, i) PROVE Store!StoreNext
    BY <1>5, <1>6 DEF Read, store, env
<1>7. ASSUME NEW d \in Dir, PassOver(e, d) \/ CannotKeep(e, d) \/ Demote(e, d)
      PROVE  Store!StoreNext
    BY <1>5, <1>7 DEF PassOver, CannotKeep, Demote, store, env
<1>8. CASE ScanDone(e) \/ Removed(e) \/ NextDir(e) \/ Finish(e)
    BY <1>5, <1>8 DEF ScanDone, Removed, NextDir, Finish, store, env
<1>9. CASE Crash(e)
    BY SMTT(60), <1>5, <1>9 DEF Crash, store
<1>10. CASE \E apply \in BOOLEAN, arg \in EvidenceArgs : Start(e, apply, arg)
    BY <1>5, <1>10 DEF Start, store, env
<1> QED
    BY <1>2, <1>3, <1>4, <1>6, <1>7, <1>8, <1>9, <1>10 DEF ExpireStep

LEMMA TickLetsGo ==
    ASSUME IndInv, Tick
    PROVE  Store!LetGo
<1>1. UNCHANGED <<disk, removed, file, index, overlooked>> /\ today' = today + 1
    BY DEF Tick, store
<1>2. TypeOK
    BY DEF IndInv
<1>3. \A i \in Index : Expired(i) => Expired(i)'
    BY <1>1, <1>2 DEF Expired, TypeOK, Record
<1>4. \A i \in Index : Expired(i)' => Class[i] = "success-bulky"
    BY DEF Expired
<1>5. /\ [i \in Index |-> index[i].items]' = [i \in Index |-> index[i].items]
      /\ {i \in Index : file[i] # "absent"}' = {i \in Index : file[i] # "absent"}
      /\ {i \in Index : CoreOnly(index[i])}' = {i \in Index : CoreOnly(index[i])}
      /\ {i \in Index : file[i] # "absent" /\ Expired(i)}
            \subseteq {i \in Index : file[i] # "absent" /\ Expired(i)}'
      /\ {i \in Index : file[i] # "absent" /\ Expired(i)}'
            \subseteq {i \in Index : file[i] # "absent"}
                       \cap {i \in Index : Class[i] = "success-bulky"}
    BY <1>1, <1>3, <1>4 DEF CoreOnly
<1> QED
    BY <1>1, <1>5 DEF Store!LetGo

LEMMA EnvironmentMaps ==
    ASSUME IndInv, IndInv', NEW d \in Dir, NEW f \in Sealed, Lose(d, f) \/ Alter(d, f)
    PROVE  Store!StoreNext
<1>1. TypeOK /\ TypeOK' /\ f \in File \cup {Sums}
    BY DEF IndInv, Sealed
<1>2. CASE Alter(d, f)
    BY <1>1, <1>2, Still DEF Alter, env, Store!StoreNext
<1>3. CASE Lose(d, f)
  <2>1. /\ disk' = [disk EXCEPT ![d] = @ \ {f}]
        /\ UNCHANGED <<removed, file, index, today, overlooked>>
    BY <1>3 DEF Lose, env
  <2>2. /\ [i \in Index |-> index[i].items]' = [i \in Index |-> index[i].items]
        /\ {i \in Index : file[i] # "absent"}' = {i \in Index : file[i] # "absent"}
        /\ {i \in Index : CoreOnly(index[i])}' = {i \in Index : CoreOnly(index[i])}
        /\ {i \in Index : file[i] # "absent" /\ Expired(i)}'
             = {i \in Index : file[i] # "absent" /\ Expired(i)}
    BY <2>1 DEF Expired, CoreOnly
  <2>3. Store!Vanish(d, f)
    BY <2>1, <2>2 DEF Store!Vanish
  <2> QED
    BY <1>1, <2>3 DEF Store!StoreNext
<1> QED
    BY <1>2, <1>3

LEMMA InitMaps == Init => Store!StoreInit
<1> SUFFICES ASSUME Init PROVE Store!StoreInit
    OBVIOUS
<1>1. \A i \in Index : file[i] = "absent" /\ index[i].items = {} /\ ~CoreOnly(index[i])
    BY DEF Init, Blank, CoreOnly
<1> QED
    BY <1>1 DEF Init, Sealed, Store!StoreInit

LEMMA StepMaps == IndInv /\ IndInv' /\ [Next]_vars => [Store!StoreNext]_(Store!storeVars)
<1> SUFFICES ASSUME IndInv, IndInv', Next PROVE Store!StoreNext
  <2>1. UNCHANGED vars => UNCHANGED Store!storeVars
    BY DEF vars, Store!storeVars, Expired, CoreOnly
  <2> QED
    BY <2>1
<1>1. TypeOK /\ TypeOK'
    BY DEF IndInv
<1>2. ASSUME NEW i \in Index, BuildIndex(i) PROVE Store!StoreNext
    BY <1>1, <1>2, BuildCites DEF Store!StoreNext
<1>3. ASSUME NEW i \in Index, Repair(i) PROVE Store!StoreNext
  <2>1. \A j \in Index : file'[j] # "absent" <=> file[j] # "absent"
    BY <1>1, <1>3 DEF Repair, TypeOK
  <2> QED
    BY <1>1, <1>3, <2>1, Still DEF Repair, store, env, Store!StoreNext
<1>4. ASSUME NEW i \in Index, NEW date \in Dates, NEW hold \in BOOLEAN, TriageLoad(i, date, hold)
      PROVE  Store!StoreNext
    BY <1>1, <1>4, Still DEF TriageLoad, store, env, Store!StoreNext
<1>5. CASE TriageTruncate
  <2>1. \A i \in Index : file'[i] # "absent" <=> file[i] # "absent"
    BY <1>1, <1>5 DEF TriageTruncate, IndInv, TriageSound
  <2> QED
    BY <1>1, <1>5, <2>1, Still DEF TriageTruncate, store, env, Store!StoreNext
<1>6. CASE TriageWrite
    BY <1>6, TriageQuiet DEF Store!StoreNext
<1>7. CASE TriageCrash
    BY <1>1, <1>7, Still DEF TriageCrash, store, Store!StoreNext
<1>8. CASE Tick
    BY <1>8, TickLetsGo DEF Store!StoreNext
<1>9. ASSUME NEW d \in Dir, NEW f \in Sealed, Lose(d, f) \/ Alter(d, f) PROVE Store!StoreNext
    BY <1>9, EnvironmentMaps
<1>10. ASSUME NEW e \in Expirer,
              \/ ExpireStep(e) \/ Crash(e)
              \/ \E apply \in BOOLEAN, arg \in EvidenceArgs : Start(e, apply, arg)
       PROVE  Store!StoreNext
    BY <1>10, ExpirerMaps
<1> QED
    BY <1>2, <1>3, <1>4, <1>5, <1>6, <1>7, <1>8, <1>9, <1>10 DEF Next

(***************************************************************************)
(* retention.py, its triage, the builders and whatever kills or damages     *)
(* them change the bundles only as the retention policy allows: a file is   *)
(* given up only when every index that could be read had let go of its      *)
(* directory and none names it.                                             *)
(***************************************************************************)
THEOREM ImplementsPolicy == Spec => PolicyKept
<1>1. Init => Store!StoreInit
    BY InitMaps
<1>2. IndInv /\ IndInv' /\ [Next]_vars => [Store!StoreNext]_(Store!storeVars)
    BY StepMaps
<1>3. Spec => Init /\ [][Next]_vars
    BY DEF Spec
<1> QED
    BY <1>1, <1>2, <1>3, Inductive, PTL DEF PolicyKept, Store!StoreSpec
==============================================================================
