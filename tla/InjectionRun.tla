---------------------------- MODULE InjectionRun -----------------------------
(***************************************************************************)
(* The injection sites of ticket 16: the handlers that apply_t16_patches.py *)
(* puts into the engine, run by the threads of a server, and t16_run.sh,    *)
(* which drives one site's scenario with the fault armed or as a control.   *)
(*                                                                          *)
(* Each mode has a database of its own, with its own server and error log;  *)
(* the configuration file of the install is one.  A log is never removed.   *)
(***************************************************************************)
EXTENDS Naturals, Sequences

CONSTANTS
    Threads,     \* the threads of a server
    Plans,       \* the scenarios: steps, the reach to fire at, and whether the site crashes
    ScriptRuns,  \* bound: runs of the script
    MaxReach     \* bound: reaches of the site in the life of one server

Mode == {"fault", "control"}

\* The parameters of a server: is the site's code among the armed ones, and the reach to fire at.
Disarmed == [armed |-> FALSE, fireAt |-> 0]

\* At step i the server of the run is off: it was stopped or killed or not there, and not started since.
Off(steps, i) ==
    \E j \in 1 .. i - 1 :
        steps[j] \in {"create", "stop", "kill"} /\ \A k \in j + 1 .. i - 1 : steps[k] # "start"

\* Every scenario disarms the configuration first, stops its server last, and starts one only
\* where it has none.
ASSUME InjectionAssumption ==
    /\ ScriptRuns \in Nat /\ MaxReach \in Nat
    /\ \A p \in Plans :
         /\ p.fireAt \in Nat /\ p.crash \in BOOLEAN /\ Len(p.steps) \in Nat \ {0}
         /\ p.steps[1] = "conf" /\ p.steps[Len(p.steps)] = "stop"
         /\ \A i \in 1 .. Len(p.steps) : p.steps[i] = "start" => Off(p.steps, i)

VARIABLES
    plan,       \* the scenario of the site
    driver,     \* the script: phase, mode, step, lives before it, kills and runs so far
    conf,       \* cubrid.conf, as parameters
    server,     \* server[m]: alive, its life, its parameters, the counters of the site's descriptor
    at,         \* at[m][t]: where thread t of that server is in the handler, with its locals
    errlog,     \* errlog[m]: the acknowledgements in the error logs of that database
    acted,      \* history: the acknowledgements on which a site acted
    collected   \* acks.txt, as the last run that came to its end left it

injectionVars == <<plan, driver, conf, server, at, errlog, acted, collected>>

-----------------------------------------------------------------------------
(* The scenarios. *)

CommonStart == <<"conf", "create", "start">>
Arming == <<"arm ids", "arm fire_at">>

Once == CommonStart \o Arming \o <<"disarm", "stop">>
OverVacuum == CommonStart \o Arming \o <<"stop">>
Restarted == CommonStart \o Arming \o <<"stop", "start", "stop">>
ArmedTwice == CommonStart \o Arming \o <<"stop", "start">> \o Arming \o <<"stop">>
Recovered == CommonStart \o <<"kill", "arm conf", "start", "stop", "conf", "start", "stop">>

T16Plans ==
    {[steps |-> Once, fireAt |-> k, crash |-> FALSE] : k \in {0, 2}}
    \cup {[steps |-> s, fireAt |-> 1, crash |-> FALSE] : s \in {OverVacuum, Restarted, Recovered}}
    \cup {[steps |-> Restarted, fireAt |-> 1, crash |-> TRUE],
          [steps |-> ArmedTwice, fireAt |-> 0, crash |-> FALSE]}

-----------------------------------------------------------------------------
Out == [in |-> "code"]   \* a thread that is not in the handler
Down == [alive |-> FALSE, life |-> 0, par |-> Disarmed, reach |-> 0, fired |-> 0]

InjectionInit ==
    /\ plan \in Plans
    /\ driver = [phase |-> "idle", mode |-> "fault", pc |-> 0, since |-> 0, runs |-> 0, killed |-> FALSE]
    /\ conf = Disarmed
    /\ server = [m \in Mode |-> Down]
    /\ at = [m \in Mode |-> [t \in Threads |-> Out]]
    /\ errlog = [m \in Mode |-> {}] /\ acted = {} /\ collected = {}

(* The handler: one thread at a site whose code is armed. *)

Reach(m, t) ==
    /\ server[m].alive /\ server[m].par.armed /\ server[m].reach < MaxReach
    /\ at[m][t] = Out
    /\ server' = [server EXCEPT ![m].reach = @ + 1]
    /\ at' = [at EXCEPT ![m][t] = [in |-> "asks", reach |-> server[m].reach + 1]]
    /\ UNCHANGED <<plan, driver, conf, errlog, acted, collected>>

\* MUTANT: the descriptor's counter is read again where the handler has to use its own reach.
FiresByCounter(m, own, fireAt) == fireAt = 0 \/ server[m].reach = fireAt

Fires(m, own, fireAt) == fireAt = 0 \/ own = fireAt

Ask(m, t) ==
    /\ at[m][t].in = "asks"
    /\ LET k == server[m].par.fireAt IN
       IF Fires(m, at[m][t].reach, k)
       THEN at' = [at EXCEPT ![m][t] = [in |-> "fires", reach |-> at[m][t].reach, fireAt |-> k]]
       ELSE at' = [at EXCEPT ![m][t] = Out]
    /\ UNCHANGED <<plan, driver, conf, server, errlog, acted, collected>>

CountFired(m, t) ==
    /\ at[m][t].in = "fires"
    /\ server' = [server EXCEPT ![m].fired = @ + 1]
    /\ at' = [at EXCEPT ![m][t] =
                [in |-> "acks",
                 ack |-> [life |-> server[m].life, reach |-> at[m][t].reach,
                          fired |-> server[m].fired + 1, fireAt |-> at[m][t].fireAt]]]
    /\ UNCHANGED <<plan, driver, conf, errlog, acted, collected>>

Acknowledge(m, t) ==
    /\ at[m][t].in = "acks"
    /\ errlog' = [errlog EXCEPT ![m] = @ \cup {at[m][t].ack}]
    /\ at' = [at EXCEPT ![m][t].in = "acts"]
    /\ UNCHANGED <<plan, driver, conf, server, acted, collected>>

\* A server that has gone takes its threads with it, wherever they are.
Gone(m) ==
    /\ server' = [server EXCEPT ![m].alive = FALSE]
    /\ at' = [at EXCEPT ![m] = [t \in Threads |-> Out]]

\* The site fails, throws or skips ...
SiteFails(m, t) ==
    /\ at[m][t].in = "acts" /\ ~plan.crash
    /\ acted' = acted \cup {at[m][t].ack}
    /\ at' = [at EXCEPT ![m][t] = Out]
    /\ UNCHANGED <<plan, driver, conf, server, errlog, collected>>

\* ... or ends the server.
SiteCrashes(m, t) ==
    /\ at[m][t].in = "acts" /\ plan.crash
    /\ acted' = acted \cup {at[m][t].ack}
    /\ Gone(m)
    /\ UNCHANGED <<plan, driver, conf, errlog, collected>>

\* The engine may take the failure for a fatal one.
EngineDies(m) ==
    /\ server[m].alive /\ \E a \in acted : a.life = server[m].life
    /\ Gone(m)
    /\ UNCHANGED <<plan, driver, conf, errlog, acted, collected>>

-----------------------------------------------------------------------------
(* The script. *)

Step == plan.steps[driver.pc]
Advance == driver' = [driver EXCEPT !.pc = @ + 1]
Lives == CHOOSE n \in {server[m].life : m \in Mode} : \A m \in Mode : server[m].life <= n

StartRun(m) ==
    /\ driver.phase # "runs" /\ driver.runs < ScriptRuns
    /\ driver' = [driver EXCEPT !.phase = "runs", !.mode = m, !.pc = 1, !.since = Lives, !.runs = @ + 1]
    /\ UNCHANGED <<plan, conf, server, at, errlog, acted, collected>>

AtStep(step) == driver.phase = "runs" /\ driver.pc <= Len(plan.steps) /\ Step = step

\* A control arms a code that no site tests.
AsArmed(k) == [armed |-> driver.mode = "fault", fireAt |-> k]

\* t16_conf writes the file anew, without a code or, for a restart, with one.
WriteConf ==
    /\ \/ AtStep("conf") /\ conf' = Disarmed
       \/ AtStep("arm conf") /\ conf' = AsArmed(plan.fireAt)
    /\ Advance /\ UNCHANGED <<plan, server, at, errlog, acted, collected>>

\* No database is made over one whose server runs.
DbCreate ==
    /\ AtStep("create") /\ ~server[driver.mode].alive
    /\ Advance /\ UNCHANGED <<plan, conf, server, at, errlog, acted, collected>>

\* Busy ports, a database that cannot be made or a server that does not start end the script at once.
Refuse ==
    /\ AtStep("create") \/ (AtStep("start") /\ driver.pc = Len(CommonStart))
    /\ driver' = [driver EXCEPT !.phase = "refused"]
    /\ UNCHANGED <<plan, conf, server, at, errlog, acted, collected>>

ServerStart ==
    /\ AtStep("start")
    /\ server' = [server EXCEPT ![driver.mode] =
                    [Down EXCEPT !.alive = TRUE, !.life = Lives + 1, !.par = conf]]
    /\ Advance /\ UNCHANGED <<plan, conf, at, errlog, acted, collected>>

\* The two parameters of one statement are set one after the other, if a server is there.
SetParameter ==
    LET m == driver.mode
        par == server[m].par
        New == CASE AtStep("arm ids") -> [par EXCEPT !.armed = m = "fault"]
                 [] AtStep("arm fire_at") -> [par EXCEPT !.fireAt = plan.fireAt]
                 [] AtStep("disarm") -> [par EXCEPT !.armed = FALSE]
    IN /\ AtStep("arm ids") \/ AtStep("arm fire_at") \/ AtStep("disarm")
       /\ IF server[m].alive THEN server' = [server EXCEPT ![m].par = New] ELSE UNCHANGED server
       /\ Advance /\ UNCHANGED <<plan, conf, at, errlog, acted, collected>>

\* A stop lets the threads come out of the handler first; one of a server that has gone does nothing.
ServerStop ==
    /\ AtStep("stop")
    /\ \A t \in Threads : at[driver.mode][t] = Out
    /\ Gone(driver.mode)
    /\ Advance /\ UNCHANGED <<plan, conf, errlog, acted, collected>>

ServerKill ==
    /\ AtStep("kill")
    /\ Gone(driver.mode)
    /\ Advance /\ UNCHANGED <<plan, conf, errlog, acted, collected>>

Collect ==
    /\ driver.phase = "runs" /\ driver.pc > Len(plan.steps)
    /\ collected' = errlog[driver.mode]
    /\ driver' = [driver EXCEPT !.phase = "done"]
    /\ UNCHANGED <<plan, conf, server, at, errlog, acted>>

\* One kill of the script, which leaves its server and the configuration as they are.
KillDriver ==
    /\ driver.phase = "runs" /\ ~driver.killed
    /\ driver' = [driver EXCEPT !.phase = "killed", !.killed = TRUE]
    /\ UNCHANGED <<plan, conf, server, at, errlog, acted, collected>>

InjectionNext ==
    \/ \E m \in Mode, t \in Threads :
         Reach(m, t) \/ Ask(m, t) \/ CountFired(m, t) \/ Acknowledge(m, t)
         \/ SiteFails(m, t) \/ SiteCrashes(m, t)
    \/ \E m \in Mode : EngineDies(m) \/ StartRun(m)
    \/ WriteConf \/ DbCreate \/ Refuse \/ ServerStart \/ SetParameter \/ ServerStop \/ ServerKill
    \/ Collect \/ KillDriver

InjectionSpec == InjectionInit /\ [][InjectionNext]_injectionVars

-----------------------------------------------------------------------------
(***************************************************************************)
(* The acknowledgements prove what fired, with any threads at the site at   *)
(* once and any server or script ended anywhere: a control has none; of one *)
(* server no two have a reach or a count in common, and with a reach to     *)
(* fire at exactly that reach has one; the server's count is that of its    *)
(* acknowledgements and of the threads about to write one; no site acts     *)
(* without one; and what the sites did in a run is in what it collected.    *)
(***************************************************************************)
AckProvesFault ==
    /\ errlog["control"] = {}
    /\ \A a, b \in errlog["fault"] :
         /\ a.fireAt > 0 => a.reach = a.fireAt
         /\ a # b /\ a.life = b.life => a.reach # b.reach /\ a.fired # b.fired
    /\ \A m \in Mode : server[m].alive =>
         1 .. server[m].fired
           = {a.fired : a \in {b \in errlog[m] : b.life = server[m].life}}
             \cup {at[m][t].ack.fired : t \in {u \in Threads : at[m][u].in = "acks"}}
    /\ acted \subseteq errlog["fault"]
    /\ driver.phase = "done" /\ driver.mode = "fault" =>
         {a \in acted : a.life > driver.since} \subseteq collected
=============================================================================
