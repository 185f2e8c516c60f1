--------------------------- MODULE ResourceSampler ---------------------------
(***************************************************************************)
(* resource_sampler.py: while a command runs, its process tree is read out  *)
(* of /proc again and again and the CPU ticks of the tree are added up.     *)
(*                                                                          *)
(* /proc is not read at once: the sampler lists the pids, then reads one    *)
(* stat file after another while processes run, fork and exit.  A process   *)
(* that exits leaves its ticks behind and its children to Reaper, the init  *)
(* process of the namespace CTP runs in.  Pids grow: they do not wrap       *)
(* around while a command runs.                                             *)
(***************************************************************************)
EXTENDS Naturals, Functions

CONSTANTS
    LastPid,     \* bound: the highest pid
    Root,        \* the command the sampler started
    Reaper,      \* the process that adopts orphans
    MaxTicks,    \* bound: ticks of one process
    MaxSamples   \* bound: samples taken

Pid == 1..LastPid

ASSUME SamplerAssumption ==
    /\ {LastPid, MaxTicks, MaxSamples} \subseteq Nat
    /\ Root \in Pid /\ Reaper \in Pid /\ Root < Reaper

VARIABLES
    proc,     \* proc[p]: its state, parent and ticks, as the kernel has them
    walk,     \* the pids listed and not read yet, and the table read so far
    live,     \* live[p]: the last reading of each process seen in the tree
    retired,  \* the last readings of those that have left it
    sum,      \* the ticks of the last sample
    samples,  \* samples taken
    burnt     \* history: all ticks burnt when the last sample's walk and this one's began

samplerVars == <<proc, walk, live, retired, sum, samples, burnt>>

\* sum(live.values()): what the figures of some processes come to.
RunningTotal(f) ==
    LET upTo[p \in 0..LastPid] ==
            IF p = 0 THEN 0 ELSE upTo[p - 1] + (IF p \in DOMAIN f THEN f[p] ELSE 0)
    IN  upTo
Total(f) == RunningTotal(f)[LastPid]

Burnt == Total([p \in Pid |-> proc[p].ticks])
There == {p \in Pid : proc[p].state \in {"runs", "zombie"}}
Empty == [p \in {} |-> 0]
NoWalk == [todo |-> {}, table |-> Empty, on |-> FALSE]

\* What the table says of the tree: the root, and whatever has a parent in the tree.
Descendants(table, root) ==
    LET Closed(S) == root \in S /\ \A p \in DOMAIN table : table[p].parent \in S => p \in S
        pids == DOMAIN table \cup {root}
    IN  {p \in pids : \A S \in SUBSET pids : Closed(S) => p \in S}

SamplerInit ==
    /\ proc = [p \in Pid |-> [state |-> IF p \in {Root, Reaper} THEN "runs" ELSE "free",
                              parent |-> Root, ticks |-> 0]]
    /\ walk = NoWalk
    /\ live = Empty /\ retired = 0 /\ sum = 0 /\ samples = 0
    /\ burnt = [before |-> 0, now |-> 0]

-----------------------------------------------------------------------------
\* The command's processes.
Burn(p) ==
    /\ proc[p].state = "runs" /\ proc[p].ticks < MaxTicks
    /\ proc' = [proc EXCEPT ![p].ticks = @ + 1]
    /\ UNCHANGED <<walk, live, retired, sum, samples, burnt>>

Fork(p, child) ==
    /\ proc[p].state = "runs" /\ proc[child].state = "free"
    /\ \A q \in Pid : q > child => proc[q].state = "free"
    /\ proc' = [proc EXCEPT ![child] = [state |-> "runs", parent |-> p, ticks |-> 0]]
    /\ UNCHANGED <<walk, live, retired, sum, samples, burnt>>

Exit(p) ==
    /\ proc[p].state = "runs" /\ p \notin {Root, Reaper}
    /\ proc' = [q \in Pid |->
                  IF q = p THEN [proc[q] EXCEPT !.state = "zombie"]
                  ELSE IF proc[q].parent = p THEN [proc[q] EXCEPT !.parent = Reaper]
                  ELSE proc[q]]
    /\ UNCHANGED <<walk, live, retired, sum, samples, burnt>>

Reap(p) ==
    /\ proc[p].state = "zombie"
    /\ proc' = [proc EXCEPT ![p].state = "gone"]
    /\ UNCHANGED <<walk, live, retired, sum, samples, burnt>>

-----------------------------------------------------------------------------
\* os.listdir
List ==
    /\ ~walk.on /\ samples < MaxSamples
    /\ walk' = [todo |-> There, table |-> Empty, on |-> TRUE]
    /\ burnt' = [before |-> burnt.now, now |-> Burnt]
    /\ UNCHANGED <<proc, live, retired, sum, samples>>

\* MUTANT: the stat files are read in no order.
NextPids(todo) == todo

\* The listing is in the order of the pids.
NextPid(todo) == {p \in todo : \A q \in todo : p <= q}

\* One stat file; a process that has gone meanwhile is passed over.
ReadStat(p) ==
    /\ walk.on /\ walk.todo # {} /\ p \in NextPid(walk.todo)
    /\ walk' = [walk EXCEPT
                 !.todo = @ \ {p},
                 !.table = IF p \in There
                           THEN [q \in DOMAIN @ \cup {p} |->
                                   IF q = p THEN [parent |-> proc[p].parent, ticks |-> proc[p].ticks]
                                   ELSE @[q]]
                           ELSE @]
    /\ UNCHANGED <<proc, live, retired, sum, samples, burnt>>

\* What leaves the tree keeps contributing its last reading.
Retire(old, seen) == Total(Restrict(old, DOMAIN old \ DOMAIN seen))

Sample ==
    /\ walk.on /\ walk.todo = {}
    /\ LET tree == Descendants(walk.table, Root) \cap DOMAIN walk.table
           seen == [p \in tree |-> walk.table[p].ticks]
       IN /\ live' = seen
          /\ retired' = retired + Retire(live, seen)
          /\ sum' = retired' + Total(live')
    /\ samples' = samples + 1 /\ walk' = NoWalk
    /\ UNCHANGED <<proc, burnt>>

SamplerNext ==
    \/ \E p \in Pid : Burn(p) \/ Exit(p) \/ Reap(p) \/ ReadStat(p)
    \/ \E p, child \in Pid : Fork(p, child)
    \/ List \/ Sample

SamplerSpec == SamplerInit /\ [][SamplerNext]_samplerVars

-----------------------------------------------------------------------------
(***************************************************************************)
(* No tick is counted twice, although a walk sees every process at another  *)
(* moment: a process that was retired because one walk missed it is not met *)
(* by a later one, so what the sampler has added up never exceeds what the  *)
(* command's processes have really burnt.                                   *)
(***************************************************************************)
NoTickTwice == sum <= Burnt

(***************************************************************************)
(* The CPU a sample reports is never negative and was burnt since the walk  *)
(* of the sample before began: a process that ended keeps its last reading, *)
(* and one that escaped a walk and is met by the next brings in nothing     *)
(* older.                                                                   *)
(***************************************************************************)
SampleIsRecent ==
    [][/\ sum' >= sum
       /\ samples' # samples /\ samples > 0 => sum' - sum <= Burnt - burnt.before]_samplerVars
=============================================================================
