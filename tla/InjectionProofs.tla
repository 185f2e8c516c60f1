---------------------------- MODULE InjectionProofs ----------------------------
(***************************************************************************)
(* Proofs about the injection sites of ticket 16: what the acknowledgements *)
(* in the error logs prove of the faults that fired.                        *)
(***************************************************************************)
EXTENDS InjectionRun, TLAPS

-----------------------------------------------------------------------------
(* What there is. *)

Parameters == [armed : BOOLEAN, fireAt : Nat]
Server == [alive : BOOLEAN, life : Nat, par : Parameters, reach : Nat, fired : Nat]
Ack == [life : Nat, reach : Nat, fired : Nat, fireAt : Nat]

Asking == [in : {"asks"}, reach : Nat]
Firing == [in : {"fires"}, reach : Nat, fireAt : Nat]
Acking == [in : {"acks", "acts"}, ack : Ack]
Place == {Out} \cup Asking \cup Firing \cup Acking

Driver == [phase : {"idle", "runs", "refused", "killed", "done"}, mode : Mode, pc : Nat,
           since : Nat, runs : Nat, killed : BOOLEAN]

\* The threads that have a reach and no acknowledgement yet.
Holding(place) == {t \in Threads : place[t].in \in {"asks", "fires"}}

\* The acknowledgements of a server: in its log, or owed by one of its threads.
Owed(place) == {place[t].ack : t \in {u \in Threads : place[u].in = "acks"}}
AcksOf(s, place, log) == {b \in log : b.life = s.life} \cup Owed(place)

\* An acknowledgement names the reach the site was to fire at, and two of them differ.
AtItsReach(r, k) == k > 0 => r = k
Differ(A) == \A a, b \in A : a # b => a.reach # b.reach /\ a.fired # b.fired

\* Each thread with a reach has one of its own among the first n, that no acknowledgement has.
Held(place, acks, n) ==
    \A t \in Holding(place) :
        /\ place[t].reach <= n
        /\ \A a \in acks : a.reach # place[t].reach
        /\ \A u \in Holding(place) : u # t => place[u].reach # place[t].reach
        /\ place[t].in = "fires" => AtItsReach(place[t].reach, place[t].fireAt)

(***************************************************************************)
(* A server that is up: its count is that of its acknowledgements, which    *)
(* differ; each thread in the handler has a reach of its own, that no       *)
(* acknowledgement has.                                                     *)
(***************************************************************************)
Counted(s, place, log) ==
    LET acks == AcksOf(s, place, log) IN
    /\ 1 .. s.fired = {a.fired : a \in acks}
    /\ Differ(acks)
    /\ \A a \in acks : a.life = s.life /\ a.reach <= s.reach /\ AtItsReach(a.reach, a.fireAt)
    /\ Held(place, acks, s.reach)

\* A log, of this server and those before it.
Logged(s, log) ==
    /\ \A a \in log : a.life <= s.life /\ AtItsReach(a.reach, a.fireAt)
    /\ \A n \in Nat : Differ({a \in log : a.life = n})

\* One mode's server, threads and log.
ServerInv(s, place, log) ==
    /\ s \in Server /\ place \in [Threads -> Place] /\ log \subseteq Ack
    /\ s.alive => Counted(s, place, log)
    /\ ~s.alive => \A t \in Threads : place[t] = Out
    /\ Logged(s, log)
    /\ \A t \in Threads : place[t].in = "acts" => place[t].ack \in log

-----------------------------------------------------------------------------
(* One server, step by step. *)

LEMMA Places ==
    ASSUME NEW x \in Place
    PROVE  /\ x.in \in {"code", "asks", "fires", "acks", "acts"}
           /\ x.in = "code" => x = Out
           /\ x.in = "asks" => x \in Asking
           /\ x.in = "fires" => x \in Firing
           /\ x.in \in {"acks", "acts"} => x \in Acking
    BY DEF Place, Out, Asking, Firing, Acking

\* A thread that moves to another place leaves the others where they are.
LEMMA OneMoves ==
    ASSUME NEW place \in [Threads -> Place], NEW t \in Threads, NEW x \in Place,
           NEW place2, place2 = [place EXCEPT ![t] = x]
    PROVE  /\ place2 \in [Threads -> Place]
           /\ place2[t] = x
           /\ \A u \in Threads \ {t} : place2[u] = place[u]
    OBVIOUS

LEMMA DownIsSound ==
    ASSUME NEW s, NEW log, s \in Server, log \subseteq Ack, Logged(s, log), ~s.alive,
           NEW place, place = [t \in Threads |-> Out]
    PROVE  ServerInv(s, place, log)
<1>1. \A t \in Threads : place[t] = Out
  OBVIOUS
<1>2. place \in [Threads -> Place]
  BY DEF Place
<1>3. \A t \in Threads : place[t].in # "acts"
  BY <1>1 DEF Out
<1> QED
  BY <1>1, <1>2, <1>3 DEF ServerInv

\* A server that ends.
LEMMA EndKeeps ==
    ASSUME NEW s, NEW place, NEW log, ServerInv(s, place, log), NEW s2, NEW place2,
           s2 = [s EXCEPT !.alive = FALSE], place2 = [t \in Threads |-> Out]
    PROVE  ServerInv(s2, place2, log)
<1>1. s2 \in Server /\ ~s2.alive /\ s2.life = s.life
  BY DEF ServerInv, Server
<1>2. Logged(s2, log)
  BY <1>1 DEF ServerInv, Logged
<1> QED
  BY <1>1, <1>2, DownIsSound DEF ServerInv

\* A server that starts, with a life that none before it had.
LEMMA StartKeeps ==
    ASSUME NEW s, NEW place, NEW log, ServerInv(s, place, log), ~s.alive,
           NEW life \in Nat, life > s.life, NEW par \in Parameters,
           NEW s2, s2 = [alive |-> TRUE, life |-> life, par |-> par, reach |-> 0, fired |-> 0]
    PROVE  ServerInv(s2, place, log)
<1>2. s2 \in Server /\ s2.alive = TRUE /\ s2.life = life /\ s2.fired = 0
  BY DEF Server
<1>3. \A a \in log : a.life <= s.life /\ a.life \in Nat
  BY DEF ServerInv, Logged, Ack
<1>4. s.life \in Nat
  BY DEF ServerInv, Server
<1>5. \A a \in log : a.life < life
  BY <1>3, <1>4
<1>6. \A t \in Threads : place[t].in = "code"
  <2>1. \A t \in Threads : place[t] = Out
    BY DEF ServerInv
  <2>2. Out.in = "code"
    BY DEF Out
  <2> QED
    BY <2>1, <2>2
<1>7. Holding(place) = {} /\ Owed(place) = {}
  BY <1>6 DEF Holding, Owed
<1>8. AcksOf(s2, place, log) = {}
  BY <1>2, <1>5, <1>3, <1>7 DEF AcksOf
<1>9. 1 .. s2.fired = {}
  BY <1>2
<1>10. Counted(s2, place, log)
  BY <1>7, <1>8, <1>9 DEF Counted, Differ, Held
<1>11. Logged(s2, log)
  BY <1>2, <1>3, <1>5 DEF ServerInv, Logged
<1> QED
  BY <1>2, <1>10, <1>11 DEF ServerInv

\* Parameters are set.
LEMMA SettingKeeps ==
    ASSUME NEW s, NEW place, NEW log, ServerInv(s, place, log), NEW par \in Parameters,
           NEW s2, s2 = [s EXCEPT !.par = par]
    PROVE  ServerInv(s2, place, log)
<1>1. /\ s2 \in Server /\ s2.alive = s.alive /\ s2.life = s.life
      /\ s2.fired = s.fired /\ s2.reach = s.reach
  BY DEF ServerInv, Server
<1>2. AcksOf(s2, place, log) = AcksOf(s, place, log)
  BY <1>1 DEF AcksOf
<1>3. Counted(s, place, log) => Counted(s2, place, log)
  BY <1>1, <1>2 DEF Counted
<1>4. Logged(s2, log)
  BY <1>1 DEF ServerInv, Logged
<1> QED
  BY <1>1, <1>3, <1>4 DEF ServerInv

-----------------------------------------------------------------------------
(* One thread, step by step. *)

\* Thread t moved from place to place2, and the others did not.
Moved(place, place2, t) ==
    /\ place \in [Threads -> Place] /\ place2 \in [Threads -> Place] /\ t \in Threads
    /\ \A u \in Threads \ {t} : place2[u] = place[u]

LEMMA OthersHold ==
    ASSUME NEW place, NEW place2, NEW t, Moved(place, place2, t)
    PROVE  /\ Holding(place2) \ {t} = Holding(place) \ {t}
           /\ \A u \in Holding(place2) \ {t} : place2[u] = place[u]
    BY DEF Moved, Holding

LEMMA OwedStays ==
    ASSUME NEW place, NEW place2, NEW t, Moved(place, place2, t),
           place[t].in # "acks", place2[t].in # "acks"
    PROVE  Owed(place2) = Owed(place)
<1>1. ASSUME NEW u \in Threads
      PROVE  /\ (place[u].in = "acks") <=> (place2[u].in = "acks")
             /\ place[u].in = "acks" => place2[u] = place[u]
  <2>1. CASE u = t
    BY <2>1
  <2>2. CASE u # t
    BY <2>2 DEF Moved
  <2> QED
    BY <2>1, <2>2
<1> QED
  BY <1>1 DEF Owed

\* A thread that gives its reach up, or keeps it.
LEMMA HeldStays ==
    ASSUME NEW place, NEW place2, NEW t, NEW acks, NEW n, Held(place, acks, n), Moved(place, place2, t),
           t \in Holding(place2) =>
             /\ t \in Holding(place) /\ place2[t].reach = place[t].reach
             /\ place2[t].in = "fires" => AtItsReach(place2[t].reach, place2[t].fireAt)
    PROVE  Held(place2, acks, n)
<1>1. ASSUME NEW u \in Holding(place2)
      PROVE  u \in Holding(place) /\ place2[u].reach = place[u].reach
  BY OthersHold
<1>2. ASSUME NEW u \in Holding(place2)
      PROVE  place2[u].in = "fires" => AtItsReach(place2[u].reach, place2[u].fireAt)
  <2>1. u # t => place2[u] = place[u] /\ u \in Holding(place)
    BY OthersHold
  <2> QED
    BY <2>1 DEF Held
<1>3. ASSUME NEW u \in Holding(place2), NEW v \in Holding(place2), v # u
      PROVE  place2[v].reach # place2[u].reach
  <2>1. place[v].reach # place[u].reach
    BY <1>1, <1>3 DEF Held
  <2> QED
    BY <1>1, <2>1
<1>4. ASSUME NEW u \in Holding(place2)
      PROVE  place2[u].reach <= n /\ \A a \in acks : a.reach # place2[u].reach
  BY <1>1 DEF Held
<1> QED
  BY <1>2, <1>3, <1>4 DEF Held

\* What a server that is up has.
LEMMA CountedTypes ==
    ASSUME NEW s, NEW place, NEW log, ServerInv(s, place, log), s.alive
    PROVE  LET acks == AcksOf(s, place, log) IN
           /\ s.reach \in Nat /\ s.fired \in Nat /\ s.life \in Nat
           /\ acks \subseteq Ack /\ 1 .. s.fired = {a.fired : a \in acks} /\ Differ(acks)
           /\ \A a \in acks : a.life = s.life /\ a.reach <= s.reach /\ AtItsReach(a.reach, a.fireAt)
           /\ \A u \in Holding(place) : place[u].reach \in Nat
           /\ Held(place, acks, s.reach)
<1>1. \A u \in Threads : place[u].in = "acks" => place[u].ack \in Ack
  BY Places DEF ServerInv, Acking
<1>2. AcksOf(s, place, log) \subseteq Ack
  BY <1>1 DEF ServerInv, AcksOf, Owed
<1>3. \A u \in Holding(place) : place[u].reach \in Nat
  BY Places DEF ServerInv, Holding, Asking, Firing
<1>4. s.reach \in Nat /\ s.fired \in Nat /\ s.life \in Nat
  BY DEF ServerInv, Server
<1> QED
  BY <1>2, <1>3, <1>4 DEF ServerInv, Counted

LEMMA ReachKeeps ==
    ASSUME NEW s, NEW place, NEW log, ServerInv(s, place, log), s.alive, NEW t \in Threads,
           place[t] = Out, NEW s2, s2 = [s EXCEPT !.reach = s.reach + 1],
           NEW place2, place2 = [place EXCEPT ![t] = [in |-> "asks", reach |-> s.reach + 1]]
    PROVE  ServerInv(s2, place2, log)
<1> DEFINE r == s.reach + 1
           acks == AcksOf(s, place, log)
<1>1. s.reach \in Nat /\ r \in Nat /\ s.reach < r
  BY DEF ServerInv, Server
<1>2. /\ s2 \in Server /\ s2.alive = s.alive /\ s2.life = s.life
      /\ s2.fired = s.fired /\ s2.reach = r
  BY <1>1 DEF ServerInv, Server
<1>3. [in |-> "asks", reach |-> r] \in Asking
  BY <1>1 DEF Asking
<1>4. [in |-> "asks", reach |-> r] \in Place
  BY <1>3 DEF Place
<1>5. place2[t] = [in |-> "asks", reach |-> r] /\ Moved(place, place2, t)
  BY <1>4, OneMoves DEF ServerInv, Moved
<1>6. place2[t].in = "asks" /\ place2[t].reach = r
  BY <1>5
<1>7. place[t].in = "code"
  BY DEF Out
<1>8. AcksOf(s2, place2, log) = acks
  BY ZenonT(60), <1>2, <1>5, <1>6, <1>7, OwedStays DEF AcksOf
<1>9. /\ acks \subseteq Ack /\ 1 .. s.fired = {a.fired : a \in acks} /\ Differ(acks)
      /\ \A a \in acks : a.life = s.life /\ a.reach <= s.reach /\ AtItsReach(a.reach, a.fireAt)
      /\ \A u \in Holding(place) : place[u].reach \in Nat
      /\ Held(place, acks, s.reach)
  BY CountedTypes
<1> HIDE DEF acks, r
<1>10. \A a \in acks : a.reach <= r /\ a.reach # r
  <2>1. \A a \in acks : a.reach \in Nat
    BY <1>9 DEF Ack
  <2> QED
    BY <1>1, <1>9, <2>1
<1>11. \A u \in Holding(place) : place[u].reach <= r /\ place[u].reach # r
  <2>1. \A u \in Holding(place) : place[u].reach <= s.reach /\ place[u].reach \in Nat
    BY <1>9 DEF Held
  <2> QED
    BY <1>1, <2>1
<1>12. \A u \in Holding(place2) : u = t \/ (u \in Holding(place) /\ place2[u] = place[u])
  BY <1>5, OthersHold
<1>13. Held(place2, acks, r)
  <2>1. ASSUME NEW u \in Holding(place2)
        PROVE  /\ place2[u].reach <= r /\ \A a \in acks : a.reach # place2[u].reach
               /\ place2[u].in = "fires" => AtItsReach(place2[u].reach, place2[u].fireAt)
    <3>1. CASE u = t
      <4>1. place2[u].reach = r /\ place2[u].in # "fires"
        BY <1>6, <3>1
      <4>2. r <= r
        BY <1>1
      <4> QED
        BY <1>10, <4>1, <4>2
    <3>2. CASE u # t
      <4>1. u \in Holding(place) /\ place2[u] = place[u]
        BY <1>12, <3>2
      <4>2. /\ \A a \in acks : a.reach # place[u].reach
            /\ place[u].in = "fires" => AtItsReach(place[u].reach, place[u].fireAt)
        BY <1>9, <4>1 DEF Held
      <4> QED
        BY <1>11, <4>1, <4>2
    <3> QED
      BY <3>1, <3>2
  <2>2. ASSUME NEW u \in Holding(place2), NEW v \in Holding(place2), v # u
        PROVE  place2[v].reach # place2[u].reach
    <3>1. CASE u = t
      <4>1. v \in Holding(place) /\ place2[v] = place[v]
        BY <1>12, <2>2, <3>1
      <4>2. place2[v].reach # r
        BY <1>11, <4>1
      <4>3. place2[u].reach = r
        BY <1>6, <3>1
      <4> QED
        BY <4>2, <4>3
    <3>2. CASE v = t
      <4>1. u \in Holding(place) /\ place2[u] = place[u]
        BY <1>12, <2>2, <3>2
      <4>2. place2[u].reach # r
        BY <1>11, <4>1
      <4>3. place2[v].reach = r
        BY <1>6, <3>2
      <4> QED
        BY <4>2, <4>3
    <3>3. CASE u # t /\ v # t
      <4>1. /\ u \in Holding(place) /\ place2[u] = place[u]
            /\ v \in Holding(place) /\ place2[v] = place[v]
        BY <1>12, <3>3
      <4>2. place[v].reach # place[u].reach
        BY <1>9, <2>2, <4>1 DEF Held
      <4> QED
        BY <4>1, <4>2
    <3> QED
      BY <3>1, <3>2, <3>3
  <2> QED
    BY <2>1, <2>2 DEF Held
<1>14. Counted(s2, place2, log)
  BY <1>2, <1>8, <1>9, <1>10, <1>13 DEF Counted
<1>15. Logged(s2, log)
  BY <1>2 DEF ServerInv, Logged
<1>16. \A u \in Threads : place2[u].in = "acts" => place2[u].ack \in log
  BY <1>5, <1>6 DEF ServerInv, Moved
<1> QED
  BY <1>2, <1>5, <1>14, <1>15, <1>16 DEF ServerInv, Moved

\* A thread that goes on to fire, or does not, or comes out of the handler.
LEMMA OnwardKeeps ==
    ASSUME NEW s, NEW place, NEW log, ServerInv(s, place, log), s.alive, NEW t \in Threads,
           place[t].in # "acks", NEW x \in Place, NEW place2, place2 = [place EXCEPT ![t] = x],
           \/ x = Out
           \/ /\ x.in = "fires" /\ place[t].in = "asks" /\ x.reach = place[t].reach
              /\ AtItsReach(x.reach, x.fireAt)
    PROVE  ServerInv(s, place2, log)
<1>1. place2[t] = x /\ Moved(place, place2, t)
  BY OneMoves DEF ServerInv, Moved
<1>2. x.in \in {"code", "fires"}
  BY DEF Out
<1>3. AcksOf(s, place2, log) = AcksOf(s, place, log)
  BY <1>1, <1>2, OwedStays DEF AcksOf
<1>4. Held(place, AcksOf(s, place, log), s.reach)
  BY DEF ServerInv, Counted
<1>5. t \in Holding(place2) => x.in = "fires" /\ t \in Holding(place)
  BY <1>1, <1>2 DEF Holding, Out
<1>6. Held(place2, AcksOf(s, place, log), s.reach)
  <2>1. t \in Holding(place2) =>
             /\ t \in Holding(place) /\ place2[t].reach = place[t].reach
             /\ place2[t].in = "fires" => AtItsReach(place2[t].reach, place2[t].fireAt)
    BY <1>1, <1>5 DEF Out
  <2> QED
    BY <1>1, <1>4, <2>1, HeldStays
<1>7. Counted(s, place2, log)
  BY <1>3, <1>6 DEF ServerInv, Counted
<1>8. \A u \in Threads : place2[u].in = "acts" => place2[u].ack \in log
  BY <1>1, <1>2 DEF ServerInv, Moved
<1> QED
  BY <1>1, <1>7, <1>8 DEF ServerInv, Moved

\* The count is taken, and the acknowledgement owed.
LEMMA CountKeeps ==
    ASSUME NEW s, NEW place, NEW log, ServerInv(s, place, log), s.alive, NEW t \in Threads,
           place[t].in = "fires", NEW new,
           new = [life |-> s.life, reach |-> place[t].reach, fired |-> s.fired + 1, fireAt |-> place[t].fireAt],
           NEW s2, s2 = [s EXCEPT !.fired = s.fired + 1],
           NEW place2, place2 = [place EXCEPT ![t] = [in |-> "acks", ack |-> new]]
    PROVE  ServerInv(s2, place2, log)
<1> DEFINE acks == AcksOf(s, place, log)
<1>1. /\ s.reach \in Nat /\ s.fired \in Nat /\ s.life \in Nat
      /\ acks \subseteq Ack /\ 1 .. s.fired = {a.fired : a \in acks} /\ Differ(acks)
      /\ \A a \in acks : a.life = s.life /\ a.reach <= s.reach /\ AtItsReach(a.reach, a.fireAt)
      /\ Held(place, acks, s.reach)
  BY CountedTypes
<1>2. place[t] \in Firing /\ t \in Holding(place)
  BY Places DEF ServerInv, Holding
<1>3. place[t].reach \in Nat /\ place[t].fireAt \in Nat
  BY <1>2 DEF Firing
<1>4. new \in Ack
  BY <1>1, <1>3 DEF Ack
<1>5. /\ new.life = s.life /\ new.reach = place[t].reach /\ new.fired = s.fired + 1
      /\ new.fireAt = place[t].fireAt
  OBVIOUS
<1>6. /\ s2 \in Server /\ s2.alive = s.alive /\ s2.life = s.life
      /\ s2.fired = s.fired + 1 /\ s2.reach = s.reach
  <2>1. s \in Server /\ s.fired + 1 \in Nat
    BY <1>1 DEF ServerInv
  <2> QED
    BY <2>1 DEF Server
<1>7. [in |-> "acks", ack |-> new] \in Acking
  BY <1>4 DEF Acking
<1>8. [in |-> "acks", ack |-> new] \in Place
  BY <1>7 DEF Place
<1>9. place2[t] = [in |-> "acks", ack |-> new] /\ Moved(place, place2, t)
  BY <1>8, OneMoves DEF ServerInv, Moved
<1>10. place2[t].in = "acks" /\ place2[t].ack = new
  BY <1>9
<1>11. Owed(place2) = Owed(place) \cup {new}
  <2>1. \A u \in Threads \ {t} : place2[u] = place[u]
    BY <1>9 DEF Moved
  <2>2. place[t].in # "acks"
    OBVIOUS
  <2>3. {u \in Threads : place2[u].in = "acks"} = {u \in Threads : place[u].in = "acks"} \cup {t}
    BY <1>10, <2>1, <2>2
  <2>4. \A u \in {v \in Threads : place[v].in = "acks"} : place2[u].ack = place[u].ack
    BY <2>1, <2>2
  <2> QED
    BY <1>10, <2>3, <2>4 DEF Owed
<1>12. AcksOf(s2, place2, log) = acks \cup {new}
  BY <1>6, <1>11 DEF AcksOf
<1> HIDE DEF acks
<1>13. /\ \A a \in acks : a.reach # new.reach
       /\ new.reach <= s.reach /\ AtItsReach(new.reach, new.fireAt)
       /\ \A u \in Holding(place) \ {t} : place[u].reach # new.reach
  BY <1>1, <1>2, <1>5 DEF Held
<1>14. \A a \in acks : a.fired # new.fired
  <2>1. \A a \in acks : a.fired \in 1 .. s.fired
    BY <1>1
  <2> QED
    BY <1>1, <1>5, <2>1
<1>15. Differ(acks \cup {new})
  <2>1. ASSUME NEW a \in acks \cup {new}, NEW b \in acks \cup {new}, a # b
        PROVE  a.reach # b.reach /\ a.fired # b.fired
    <3>1. CASE a = new
      BY <1>13, <1>14, <2>1, <3>1
    <3>2. CASE b = new
      BY <1>13, <1>14, <2>1, <3>2
    <3>3. CASE a # new /\ b # new
      BY <1>1, <2>1, <3>3 DEF Differ
    <3> QED
      BY <3>1, <3>2, <3>3
  <2> QED
    BY <2>1 DEF Differ
<1>16. 1 .. s2.fired = {a.fired : a \in acks \cup {new}}
  <2>1. 1 .. s.fired + 1 = (1 .. s.fired) \cup {s.fired + 1}
    BY <1>1
  <2>2. {a.fired : a \in acks \cup {new}} = {a.fired : a \in acks} \cup {new.fired}
    OBVIOUS
  <2> QED
    BY <1>1, <1>5, <1>6, <2>1, <2>2
<1>17. t \notin Holding(place2)
  BY <1>10 DEF Holding
<1>18. Held(place2, acks, s.reach)
  BY <1>1, <1>9, <1>17, HeldStays
<1>19. Held(place2, acks \cup {new}, s.reach)
  <2>1. ASSUME NEW u \in Holding(place2) PROVE \A a \in acks \cup {new} : a.reach # place2[u].reach
    <3>1. u \in Holding(place) \ {t} /\ place2[u] = place[u]
      BY <1>9, <1>17, OthersHold
    <3>2. new.reach # place2[u].reach
      BY <1>13, <3>1
    <3>3. \A a \in acks : a.reach # place2[u].reach
      BY <1>18 DEF Held
    <3> QED
      BY <3>2, <3>3
  <2> QED
    BY <1>18, <2>1 DEF Held
<1>20. \A a \in acks \cup {new} : a.life = s2.life /\ a.reach <= s2.reach /\ AtItsReach(a.reach, a.fireAt)
  BY <1>1, <1>5, <1>6, <1>13
<1>21. Counted(s2, place2, log)
  BY <1>6, <1>12, <1>15, <1>16, <1>19, <1>20 DEF Counted
<1>22. Logged(s2, log)
  BY <1>6 DEF ServerInv, Logged
<1>23. \A u \in Threads : place2[u].in = "acts" => place2[u].ack \in log
  BY <1>9, <1>10 DEF ServerInv, Moved
<1> QED
  BY <1>6, <1>9, <1>21, <1>22, <1>23 DEF ServerInv, Moved

\* An acknowledgement that was owed is written.
LEMMA AcknowledgeKeeps ==
    ASSUME NEW s, NEW place, NEW log, ServerInv(s, place, log), s.alive, NEW t \in Threads,
           place[t].in = "acks", NEW log2, log2 = log \cup {place[t].ack},
           NEW place2, place2 = [place EXCEPT ![t] = [in |-> "acts", ack |-> place[t].ack]]
    PROVE  ServerInv(s, place2, log2)
<1> DEFINE new == place[t].ack
           acks == AcksOf(s, place, log)
<1>1. /\ s.life \in Nat /\ acks \subseteq Ack /\ Differ(acks)
      /\ \A a \in acks : a.life = s.life /\ a.reach <= s.reach /\ AtItsReach(a.reach, a.fireAt)
      /\ Held(place, acks, s.reach)
  BY CountedTypes
<1>2. new \in Owed(place)
  BY DEF Owed
<1>3. new \in acks
  BY <1>2 DEF AcksOf
<1>4. new \in Ack /\ new.life = s.life /\ AtItsReach(new.reach, new.fireAt)
  BY <1>1, <1>3
<1>5. [in |-> "acts", ack |-> new] \in Acking
  BY <1>4 DEF Acking
<1>6. [in |-> "acts", ack |-> new] \in Place
  BY <1>5 DEF Place
<1>7. place2[t] = [in |-> "acts", ack |-> new] /\ Moved(place, place2, t)
  BY <1>6, OneMoves DEF ServerInv, Moved
<1>8. place2[t].in = "acts" /\ place2[t].ack = new
  BY <1>7
<1>9. \A u \in Threads \ {t} : place2[u] = place[u]
  BY <1>7 DEF Moved
<1>10. Owed(place) = Owed(place2) \cup {new}
  <2>1. {u \in Threads : place[u].in = "acks"} = {u \in Threads : place2[u].in = "acks"} \cup {t}
    BY <1>8, <1>9
  <2>2. \A u \in {v \in Threads : place2[v].in = "acks"} : place2[u].ack = place[u].ack
    BY <1>8, <1>9
  <2> QED
    BY <2>1, <2>2 DEF Owed
<1>11. {b \in log2 : b.life = s.life} = {b \in log : b.life = s.life} \cup {new}
  BY <1>4
<1>12. AcksOf(s, place2, log2) = acks
  BY <1>10, <1>11 DEF AcksOf
<1>13. t \notin Holding(place2)
  BY <1>8 DEF Holding
<1>14. Held(place2, acks, s.reach)
  BY <1>1, <1>7, <1>13, HeldStays
<1>15. Counted(s, place2, log2)
  BY <1>12, <1>14 DEF ServerInv, Counted
<1>16. Logged(s, log2)
  <2>1. \A a \in log : a.life <= s.life /\ AtItsReach(a.reach, a.fireAt)
    BY DEF ServerInv, Logged
  <2>2. s.life <= s.life
    BY <1>1
  <2>3. \A a \in log2 : a.life <= s.life /\ AtItsReach(a.reach, a.fireAt)
    BY <1>4, <2>1, <2>2
  <2>4. ASSUME NEW n \in Nat PROVE Differ({a \in log2 : a.life = n})
    <3>1. CASE n = s.life
      <4>1. {a \in log2 : a.life = n} \subseteq acks
        BY <1>3, <1>11, <3>1 DEF AcksOf
      <4> HIDE DEF acks
      <4> QED
        BY <1>1, <4>1 DEF Differ
    <3>2. CASE n # s.life
      <4>1. {a \in log2 : a.life = n} = {a \in log : a.life = n}
        BY <1>4, <3>2
      <4> QED
        BY <4>1 DEF ServerInv, Logged
    <3> QED
      BY <3>1, <3>2
  <2> QED
    BY <2>3, <2>4 DEF Logged
<1>17. \A u \in Threads : place2[u].in = "acts" => place2[u].ack \in log2
  BY <1>8, <1>9 DEF ServerInv
<1>18. log2 \subseteq Ack
  BY <1>4 DEF ServerInv
<1> QED
  BY <1>7, <1>15, <1>16, <1>17, <1>18 DEF ServerInv, Moved

-----------------------------------------------------------------------------
(* The whole. *)

Servers ==
    /\ server \in [Mode -> Server] /\ at \in [Mode -> [Threads -> Place]] /\ errlog \in [Mode -> SUBSET Ack]
    /\ \A m \in Mode : ServerInv(server[m], at[m], errlog[m])

\* The site of a control is never armed, so no thread of it ever enters the handler.
ControlIsQuiet ==
    /\ server["control"].par.armed = FALSE /\ errlog["control"] = {}
    /\ \A t \in Threads : at["control"][t] = Out

\* What the script has done so far: the configuration disarmed before anything else, the server
\* off where the scenario has it off, and off for good when the acknowledgements are collected.
Scripted ==
    /\ plan \in Plans /\ driver \in Driver /\ conf \in Parameters
    /\ driver.phase = "runs" =>
         /\ driver.pc \in 1 .. Len(plan.steps) + 1
         /\ driver.mode = "control" /\ driver.pc > 1 => conf.armed = FALSE
         /\ Off(plan.steps, driver.pc) => ~server[driver.mode].alive
    /\ driver.phase = "done" /\ driver.mode = "fault" => ~server["fault"].alive /\ acted \subseteq collected

InjInv == Servers /\ ControlIsQuiet /\ Scripted /\ acted \subseteq errlog["fault"]

\* One mode's server, threads and log change, and no others.
Changes(m, s, place, log) ==
    /\ server' = [server EXCEPT ![m] = s] /\ at' = [at EXCEPT ![m] = place]
    /\ errlog' = [errlog EXCEPT ![m] = log]

LEMMA OneServerChanges ==
    ASSUME Servers, NEW m \in Mode, NEW s, NEW place, NEW log, ServerInv(s, place, log),
           Changes(m, s, place, log)
    PROVE  /\ Servers'
           /\ server'[m] = s /\ at'[m] = place /\ errlog'[m] = log
           /\ \A k \in Mode \ {m} : server'[k] = server[k] /\ at'[k] = at[k] /\ errlog'[k] = errlog[k]
<1>1. s \in Server /\ place \in [Threads -> Place] /\ log \in SUBSET Ack
  BY DEF ServerInv
<1>2. /\ server' \in [Mode -> Server] /\ server'[m] = s
      /\ \A k \in Mode \ {m} : server'[k] = server[k]
  BY <1>1 DEF Changes, Servers
<1>3. /\ at' \in [Mode -> [Threads -> Place]] /\ at'[m] = place
      /\ \A k \in Mode \ {m} : at'[k] = at[k]
  BY <1>1 DEF Changes, Servers
<1>4. /\ errlog' \in [Mode -> SUBSET Ack] /\ errlog'[m] = log
      /\ \A k \in Mode \ {m} : errlog'[k] = errlog[k]
  BY <1>1 DEF Changes, Servers
<1>5. ASSUME NEW k \in Mode PROVE ServerInv(server'[k], at'[k], errlog'[k])
  <2>1. CASE k = m
    BY <1>2, <1>3, <1>4, <2>1
  <2>2. CASE k # m
    BY <1>2, <1>3, <1>4, <2>2 DEF Servers
  <2> QED
    BY <2>1, <2>2
<1> QED
  BY <1>2, <1>3, <1>4, <1>5 DEF Servers

\* Where the script goes on, the server is off at the next step if this one makes it so, or if
\* it is off now and this one does not start it.
LEMMA OffNext ==
    ASSUME NEW steps, NEW i \in Nat \ {0}, Off(steps, i + 1)
    PROVE  \/ steps[i] \in {"create", "stop", "kill"}
           \/ steps[i] # "start" /\ Off(steps, i)
<1>1. PICK j \in 1 .. i + 1 - 1 :
        steps[j] \in {"create", "stop", "kill"} /\ \A k \in j + 1 .. i + 1 - 1 : steps[k] # "start"
  BY DEF Off
<1>2. CASE j = i
  BY <1>1, <1>2
<1>3. CASE j # i
  <2>1. j \in 1 .. i - 1 /\ i \in j + 1 .. i + 1 - 1
    BY <1>1, <1>3
  <2>2. \A k \in j + 1 .. i - 1 : k \in j + 1 .. i + 1 - 1
    BY <2>1
  <2> QED
    BY <1>1, <2>1, <2>2 DEF Off
<1> QED
  BY <1>2, <1>3

LEMMA LivesAreNumbers ==
    ASSUME Servers
    PROVE  Lives \in Nat /\ \A m \in Mode : server[m].life <= Lives
<1>1. \A m \in Mode : server[m].life \in Nat
  BY DEF Servers, Server
<1>2. "fault" \in Mode /\ "control" \in Mode /\ \A m \in Mode : m = "fault" \/ m = "control"
  BY DEF Mode
<1>3. \E n \in {server[m].life : m \in Mode} : \A m \in Mode : server[m].life <= n
  <2>1. CASE server["fault"].life <= server["control"].life
    BY <1>1, <1>2, <2>1
  <2>2. CASE server["control"].life <= server["fault"].life
    BY <1>1, <1>2, <2>2
  <2> QED
    BY <1>1, <1>2, <2>1, <2>2
<1>4. /\ Lives \in {server[m].life : m \in Mode}
      /\ \A m \in Mode : server[m].life <= Lives
  BY <1>3 DEF Lives
<1> QED
  BY <1>1, <1>4

LEMMA InjInitInv == InjectionInit => InjInv
<1> SUFFICES ASSUME InjectionInit PROVE InjInv
  OBVIOUS
<1>1. Down.alive = FALSE /\ Down.par = Disarmed /\ Disarmed.armed = FALSE
  BY DEF Down, Disarmed
<1>2. Disarmed \in Parameters
  BY DEF Disarmed, Parameters
<1>3. Down \in Server
  BY <1>2 DEF Down, Server
<1>4. ASSUME NEW m \in Mode
      PROVE  /\ server[m] = Down /\ at[m] = [t \in Threads |-> Out] /\ errlog[m] = {}
             /\ ServerInv(server[m], at[m], errlog[m])
  <2>1. server[m] = Down /\ at[m] = [t \in Threads |-> Out] /\ errlog[m] = {}
    BY DEF InjectionInit
  <2>2. Logged(Down, {})
    BY DEF Logged, Differ
  <2> QED
    BY <1>1, <1>3, <2>1, <2>2, DownIsSound
<1>5. Out \in Place
  BY DEF Place
<1>6. Servers
  BY <1>3, <1>4, <1>5 DEF InjectionInit, Servers
<1>7. ControlIsQuiet
  <2>1. "control" \in Mode
    BY DEF Mode
  <2> QED
    BY <1>1, <1>4, <2>1 DEF ControlIsQuiet
<1>8. /\ driver \in Driver /\ driver.phase = "idle"
  BY DEF InjectionInit, Driver, Mode
<1>9. Scripted
  BY <1>2, <1>8 DEF InjectionInit, Scripted
<1>10. acted \subseteq errlog["fault"]
  BY DEF InjectionInit
<1> QED
  BY <1>6, <1>7, <1>9, <1>10 DEF InjInv

-----------------------------------------------------------------------------
(* The threads. *)

LEMMA InHandlerIsFault ==
    ASSUME InjInv, NEW m \in Mode, NEW t \in Threads, at[m][t].in # "code"
    PROVE  m = "fault" /\ server[m].alive
<1>1. Out.in = "code"
  BY DEF Out
<1>2. m = "fault"
  BY <1>1 DEF InjInv, ControlIsQuiet, Mode
<1>3. ~server[m].alive => at[m][t] = Out
  BY DEF InjInv, Servers, ServerInv
<1> QED
  BY <1>1, <1>2, <1>3

\* A server that is up, and its threads, leave the rest as it was.
LEMMA ServerMoves ==
    ASSUME InjInv, NEW m \in Mode, server[m].alive,
           NEW s, NEW place, NEW log, ServerInv(s, place, log), Changes(m, s, place, log),
           s.par = server[m].par, errlog[m] \subseteq log,
           m = "control" => log = {} /\ (\A t \in Threads : place[t] = Out) /\ acted' = acted,
           plan' = plan, driver' = driver, conf' = conf, collected' = collected,
           acted' \subseteq acted \cup errlog'["fault"]
    PROVE  InjInv'
<1>1. /\ Servers' /\ server'[m] = s /\ at'[m] = place /\ errlog'[m] = log
      /\ \A k \in Mode \ {m} : server'[k] = server[k] /\ at'[k] = at[k] /\ errlog'[k] = errlog[k]
  BY OneServerChanges DEF InjInv
<1>2. "control" \in Mode /\ "fault" \in Mode
  BY DEF Mode
<1>3. ControlIsQuiet'
  <2>1. CASE m = "control"
    BY <1>1, <2>1 DEF InjInv, ControlIsQuiet
  <2>2. CASE m # "control"
    BY <1>1, <1>2, <2>2 DEF InjInv, ControlIsQuiet
  <2> QED
    BY <2>1, <2>2
<1>4. acted' \subseteq errlog'["fault"]
  <2>1. errlog["fault"] \subseteq errlog'["fault"]
    BY <1>1, <1>2
  <2> QED
    BY <2>1 DEF InjInv
<1>5. ASSUME NEW k \in Mode, ~server[k].alive PROVE ~server'[k].alive
  BY <1>1, <1>5
<1>6. driver \in Driver /\ driver.mode \in Mode
  BY DEF InjInv, Scripted, Driver
<1>7. driver.phase = "runs" /\ Off(plan.steps, driver.pc) => ~server'[driver.mode].alive
  BY <1>5, <1>6 DEF InjInv, Scripted
<1>8. ASSUME driver.phase = "done", driver.mode = "fault"
      PROVE  ~server'["fault"].alive /\ acted' \subseteq collected
  <2>1. ~server["fault"].alive /\ acted \subseteq collected
    BY <1>8 DEF InjInv, Scripted
  <2>2. m = "control"
    BY <2>1 DEF Mode
  <2> QED
    BY <1>2, <1>5, <2>1, <2>2
<1>9. Scripted'
  BY <1>6, <1>7, <1>8 DEF InjInv, Scripted
<1> QED
  BY <1>1, <1>3, <1>4, <1>9 DEF InjInv

LEMMA ThreadKeeps ==
    ASSUME InjInv, NEW m \in Mode, NEW t \in Threads,
           Reach(m, t) \/ Ask(m, t) \/ CountFired(m, t) \/ Acknowledge(m, t)
             \/ SiteFails(m, t) \/ SiteCrashes(m, t)
    PROVE  InjInv'
<1>1. /\ server \in [Mode -> Server] /\ at \in [Mode -> [Threads -> Place]]
      /\ errlog \in [Mode -> SUBSET Ack]
      /\ ServerInv(server[m], at[m], errlog[m])
  BY DEF InjInv, Servers
<1>2. Out.in = "code" /\ at[m][t] \in Place
  BY <1>1 DEF Out
<1>3. "fault" # "control"
  OBVIOUS
<1>4. CASE Reach(m, t)
  <2>1. server[m].alive /\ at[m][t] = Out /\ server[m].par.armed
    BY <1>4 DEF Reach
  <2>2. m # "control"
    BY <2>1 DEF InjInv, ControlIsQuiet
  <2> DEFINE s2 == [server[m] EXCEPT !.reach = server[m].reach + 1]
             place2 == [at[m] EXCEPT ![t] = [in |-> "asks", reach |-> server[m].reach + 1]]
  <2>3. ServerInv(s2, place2, errlog[m])
    BY <1>1, <2>1, ReachKeeps
  <2>4. Changes(m, s2, place2, errlog[m])
    BY <1>1, <1>4 DEF Reach, Changes
  <2>5. s2.par = server[m].par
    BY <1>1 DEF Server
  <2>6. plan' = plan /\ driver' = driver /\ conf' = conf /\ collected' = collected /\ acted' = acted
    BY <1>4 DEF Reach
  <2> HIDE DEF s2, place2
  <2> QED
    BY <2>1, <2>2, <2>3, <2>4, <2>5, <2>6, ServerMoves
<1>5. CASE Ask(m, t)
  <2>1. at[m][t].in = "asks"
    BY <1>5 DEF Ask
  <2>2. m = "fault" /\ server[m].alive
    BY <2>1, InHandlerIsFault
  <2>3. at[m][t] \in Asking
    BY <1>2, <2>1, Places
  <2>4. at[m][t].reach \in Nat /\ server[m].par.fireAt \in Nat
    BY <1>1, <2>3 DEF Asking, Server, Parameters
  <2> DEFINE k == server[m].par.fireAt
             fires == [in |-> "fires", reach |-> at[m][t].reach, fireAt |-> k]
  <2>5. PICK x \in {Out, fires} :
          /\ at' = [at EXCEPT ![m] = [at[m] EXCEPT ![t] = x]]
          /\ x = fires => Fires(m, at[m][t].reach, k)
    <3>1. fires.in = "fires"
      OBVIOUS
    <3>2. Out # fires
      BY <1>2, <3>1
    <3>3. at' = IF Fires(m, at[m][t].reach, k)
                THEN [at EXCEPT ![m] = [at[m] EXCEPT ![t] = fires]]
                ELSE [at EXCEPT ![m] = [at[m] EXCEPT ![t] = Out]]
      BY <1>5 DEF Ask
    <3> HIDE DEF fires, k
    <3>4. CASE Fires(m, at[m][t].reach, k)
      BY <3>3, <3>4
    <3>5. CASE ~Fires(m, at[m][t].reach, k)
      BY <3>2, <3>3, <3>5
    <3> QED
      BY <3>4, <3>5
  <2>6. fires \in Firing /\ fires.in = "fires" /\ fires.reach = at[m][t].reach /\ fires.fireAt = k
    BY <2>4 DEF Firing
  <2>7. Fires(m, at[m][t].reach, k) => AtItsReach(at[m][t].reach, k)
    BY <2>4 DEF Fires, AtItsReach
  <2> HIDE DEF fires, k
  <2>8. x \in Place
    BY <2>5, <2>6 DEF Place
  <2> DEFINE place2 == [at[m] EXCEPT ![t] = x]
  <2>9. \/ x = Out
        \/ /\ x.in = "fires" /\ at[m][t].in = "asks" /\ x.reach = at[m][t].reach
           /\ AtItsReach(x.reach, x.fireAt)
    BY <2>1, <2>5, <2>6, <2>7
  <2>10. ServerInv(server[m], place2, errlog[m])
    <3>1. at[m][t].in # "acks"
      BY <2>1
    <3> QED
      BY <1>1, <2>2, <2>8, <2>9, <3>1, OnwardKeeps
  <2>11. Changes(m, server[m], place2, errlog[m])
    <3>1. server' = server /\ errlog' = errlog
      BY <1>5 DEF Ask
    <3> QED
      BY <1>1, <2>5, <3>1 DEF Changes
  <2>12. plan' = plan /\ driver' = driver /\ conf' = conf /\ collected' = collected /\ acted' = acted
    BY <1>5 DEF Ask
  <2> HIDE DEF place2
  <2> QED
    BY <1>3, <2>2, <2>10, <2>11, <2>12, ServerMoves
<1>6. CASE CountFired(m, t)
  <2>1. at[m][t].in = "fires"
    BY <1>6 DEF CountFired
  <2>2. m = "fault" /\ server[m].alive
    BY <2>1, InHandlerIsFault
  <2> DEFINE new == [life |-> server[m].life, reach |-> at[m][t].reach,
                     fired |-> server[m].fired + 1, fireAt |-> at[m][t].fireAt]
             s2 == [server[m] EXCEPT !.fired = server[m].fired + 1]
             place2 == [at[m] EXCEPT ![t] = [in |-> "acks", ack |-> new]]
  <2>3. ServerInv(s2, place2, errlog[m])
    BY <1>1, <2>1, <2>2, CountKeeps
  <2>4. Changes(m, s2, place2, errlog[m])
    BY <1>1, <1>6 DEF CountFired, Changes
  <2>5. s2.par = server[m].par
    BY <1>1 DEF Server
  <2>6. plan' = plan /\ driver' = driver /\ conf' = conf /\ collected' = collected /\ acted' = acted
    BY <1>6 DEF CountFired
  <2> HIDE DEF s2, place2
  <2> QED
    BY <1>3, <2>2, <2>3, <2>4, <2>5, <2>6, ServerMoves
<1>7. CASE Acknowledge(m, t)
  <2>1. at[m][t].in = "acks"
    BY <1>7 DEF Acknowledge
  <2>2. m = "fault" /\ server[m].alive
    BY <2>1, InHandlerIsFault
  <2>3. at[m][t] \in Acking
    BY <1>2, <2>1, Places
  <2> DEFINE place2 == [at[m] EXCEPT ![t] = [in |-> "acts", ack |-> at[m][t].ack]]
             log2 == errlog[m] \cup {at[m][t].ack}
  <2>4. ServerInv(server[m], place2, log2)
    BY <1>1, <2>1, <2>2, AcknowledgeKeeps
  <2>5. Changes(m, server[m], place2, log2)
    <3>1. [at[m][t] EXCEPT !.in = "acts"] = [in |-> "acts", ack |-> at[m][t].ack]
      BY <2>3 DEF Acking
    <3>2. at' = [at EXCEPT ![m] = [at[m] EXCEPT ![t] = [at[m][t] EXCEPT !.in = "acts"]]]
      BY <1>7 DEF Acknowledge
    <3>3. at' = [at EXCEPT ![m] = place2]
      BY <3>1, <3>2
    <3>4. server' = server /\ errlog' = [errlog EXCEPT ![m] = log2]
      BY <1>7 DEF Acknowledge
    <3> QED
      BY <1>1, <3>3, <3>4 DEF Changes
  <2>6. plan' = plan /\ driver' = driver /\ conf' = conf /\ collected' = collected /\ acted' = acted
    BY <1>7 DEF Acknowledge
  <2>7. errlog[m] \subseteq log2
    OBVIOUS
  <2> HIDE DEF log2, place2
  <2> QED
    BY <1>3, <2>2, <2>4, <2>5, <2>6, <2>7, ServerMoves
<1>8. CASE SiteFails(m, t) \/ SiteCrashes(m, t)
  <2>1. at[m][t].in = "acts"
    BY <1>8 DEF SiteFails, SiteCrashes
  <2>2. m = "fault" /\ server[m].alive
    BY <2>1, InHandlerIsFault
  <2>3. at[m][t].ack \in errlog[m]
    BY <1>1, <2>1 DEF ServerInv
  <2>4. /\ plan' = plan /\ driver' = driver /\ conf' = conf /\ collected' = collected
        /\ acted' = acted \cup {at[m][t].ack} /\ errlog' = errlog
    BY <1>8 DEF SiteFails, SiteCrashes
  <2>5. acted' \subseteq acted \cup errlog'["fault"]
    BY <2>2, <2>3, <2>4
  <2>6. CASE SiteFails(m, t)
    <3> DEFINE place2 == [at[m] EXCEPT ![t] = Out]
    <3>1. Out \in Place /\ at[m][t].in # "acks"
      BY <2>1 DEF Place
    <3>2. ServerInv(server[m], place2, errlog[m])
      BY <1>1, <2>2, <3>1, OnwardKeeps
    <3>3. Changes(m, server[m], place2, errlog[m])
      <4>1. server' = server /\ at' = [at EXCEPT ![m] = place2]
        BY <2>6 DEF SiteFails
      <4> QED
        BY <1>1, <2>4, <4>1 DEF Changes
    <3> HIDE DEF place2
    <3> QED
      BY <1>3, <2>2, <2>4, <2>5, <3>2, <3>3, ServerMoves
  <2>7. CASE SiteCrashes(m, t)
    <3> DEFINE s2 == [server[m] EXCEPT !.alive = FALSE]
               place2 == [u \in Threads |-> Out]
    <3>1. ServerInv(s2, place2, errlog[m])
      BY <1>1, EndKeeps
    <3>2. Changes(m, s2, place2, errlog[m])
      <4>1. server' = [server EXCEPT ![m] = s2] /\ at' = [at EXCEPT ![m] = place2]
        BY <2>7 DEF SiteCrashes, Gone
      <4> QED
        BY <1>1, <2>4, <4>1 DEF Changes
    <3>3. s2.par = server[m].par
      BY <1>1 DEF Server
    <3> HIDE DEF s2, place2
    <3> QED
      BY <1>3, <2>2, <2>4, <2>5, <3>1, <3>2, <3>3, ServerMoves
  <2> QED
    BY <1>8, <2>6, <2>7
<1> QED
  BY <1>4, <1>5, <1>6, <1>7, <1>8

LEMMA EngineKeeps ==
    ASSUME InjInv, NEW m \in Mode, EngineDies(m)
    PROVE  InjInv'
<1>1. /\ server \in [Mode -> Server] /\ at \in [Mode -> [Threads -> Place]]
      /\ errlog \in [Mode -> SUBSET Ack]
      /\ ServerInv(server[m], at[m], errlog[m])
  BY DEF InjInv, Servers
<1> DEFINE s2 == [server[m] EXCEPT !.alive = FALSE]
           place2 == [u \in Threads |-> Out]
<1>2. ServerInv(s2, place2, errlog[m])
  BY <1>1, EndKeeps
<1>3. Changes(m, s2, place2, errlog[m])
  <2>1. server' = [server EXCEPT ![m] = s2] /\ at' = [at EXCEPT ![m] = place2] /\ errlog' = errlog
    BY DEF EngineDies, Gone
  <2> QED
    BY <1>1, <2>1 DEF Changes
<1>4. s2.par = server[m].par /\ \A u \in Threads : place2[u] = Out
  BY <1>1 DEF Server
<1>5. /\ plan' = plan /\ driver' = driver /\ conf' = conf /\ collected' = collected /\ acted' = acted
      /\ server[m].alive
  BY DEF EngineDies
<1>6. m = "control" => errlog[m] = {}
  BY DEF InjInv, ControlIsQuiet
<1> HIDE DEF s2, place2
<1> QED
  BY <1>2, <1>3, <1>4, <1>5, <1>6, ServerMoves

-----------------------------------------------------------------------------
(* The script. *)

\* The script goes one step on, with a configuration and its server as that step left them.
LEMMA Advanced ==
    ASSUME InjInv, driver.phase = "runs", driver.pc <= Len(plan.steps), Advance,
           plan' = plan, acted' = acted, collected' = collected,
           Servers', ControlIsQuiet', errlog' = errlog, conf' \in Parameters,
           driver.mode = "control" => conf'.armed = FALSE,
           \/ Step \in {"create", "stop", "kill"} /\ ~server'[driver.mode].alive
           \/ Step = "start"
           \/ Step \notin {"create", "stop", "kill"} /\ server'[driver.mode].alive = server[driver.mode].alive
    PROVE  InjInv'
<1>1. driver \in Driver /\ driver.pc \in 1 .. Len(plan.steps) + 1 /\ Len(plan.steps) \in Nat
  BY InjectionAssumption DEF InjInv, Scripted
<1>2. /\ driver' \in Driver /\ driver'.phase = "runs" /\ driver'.mode = driver.mode
      /\ driver'.pc = driver.pc + 1
  <2>1. driver.pc \in Nat /\ driver.pc + 1 \in Nat
    BY <1>1
  <2>2. driver' = [driver EXCEPT !.pc = driver.pc + 1]
    BY DEF Advance
  <2> QED
    BY <1>1, <2>1, <2>2 DEF Driver
<1>3. driver.pc + 1 \in 1 .. Len(plan.steps) + 1 /\ driver.pc \in Nat \ {0}
  BY <1>1
<1>4. ASSUME Off(plan.steps, driver.pc + 1) PROVE ~server'[driver.mode].alive
  <2>1. Step \in {"create", "stop", "kill"} \/ (Step # "start" /\ Off(plan.steps, driver.pc))
    BY <1>3, <1>4, OffNext DEF Step
  <2>2. Off(plan.steps, driver.pc) => ~server[driver.mode].alive
    BY DEF InjInv, Scripted
  <2> QED
    BY <2>1, <2>2
<1>5. Scripted'
  BY <1>2, <1>3, <1>4 DEF InjInv, Scripted
<1> QED
  BY <1>5 DEF InjInv

LEMMA AtStepMeans ==
    ASSUME InjInv, NEW step, AtStep(step)
    PROVE  /\ driver.phase = "runs" /\ driver.pc <= Len(plan.steps) /\ Step = step
           /\ driver.mode \in Mode
           /\ step # "conf" => (driver.mode = "control" => conf.armed = FALSE)
<1>1. driver.phase = "runs" /\ driver.pc <= Len(plan.steps) /\ Step = step
  BY DEF AtStep
<1>2. driver.pc \in 1 .. Len(plan.steps) + 1 /\ driver.mode \in Mode
  BY <1>1 DEF InjInv, Scripted, Driver
<1>3. plan.steps[1] = "conf"
  BY InjectionAssumption DEF InjInv, Scripted
<1>4. step # "conf" => driver.pc > 1
  BY <1>1, <1>2, <1>3 DEF Step
<1> QED
  BY <1>1, <1>2, <1>4 DEF InjInv, Scripted

\* A step that leaves the servers alone.
LEMMA SameServers ==
    ASSUME InjInv, server' = server, at' = at, errlog' = errlog
    PROVE  Servers' /\ ControlIsQuiet'
    BY DEF InjInv, Servers, ControlIsQuiet

\* A step that changes the server of the run.
LEMMA RunsServer ==
    ASSUME InjInv, driver.mode \in Mode, NEW s, NEW place,
           ServerInv(s, place, errlog[driver.mode]), Changes(driver.mode, s, place, errlog[driver.mode]),
           driver.mode = "control" => s.par.armed = FALSE /\ \A t \in Threads : place[t] = Out
    PROVE  Servers' /\ ControlIsQuiet' /\ errlog' = errlog /\ server'[driver.mode] = s
<1> DEFINE m == driver.mode
<1>1. /\ Servers' /\ server'[m] = s /\ at'[m] = place /\ errlog'[m] = errlog[m]
      /\ \A k \in Mode \ {m} : server'[k] = server[k] /\ at'[k] = at[k] /\ errlog'[k] = errlog[k]
  BY OneServerChanges DEF InjInv
<1>2. errlog' = errlog
  BY DEF Changes, InjInv, Servers
<1>3. ControlIsQuiet'
  <2>1. CASE m = "control"
    BY <1>1, <1>2, <2>1 DEF InjInv, ControlIsQuiet
  <2>2. CASE m # "control"
    <3>1. "control" \in Mode \ {m}
      BY <2>2 DEF Mode
    <3> QED
      BY <1>1, <1>2, <3>1 DEF InjInv, ControlIsQuiet
  <2> QED
    BY <2>1, <2>2
<1> QED
  BY <1>1, <1>2, <1>3

LEMMA ConfKeeps == ASSUME InjInv, WriteConf PROVE InjInv'
<1>1. PICK step \in {"conf", "arm conf"} : AtStep(step)
  BY DEF WriteConf
<1>2. driver.phase = "runs" /\ driver.pc <= Len(plan.steps) /\ Step = step /\ driver.mode \in Mode
  BY <1>1, AtStepMeans
<1>3. plan.fireAt \in Nat
  BY InjectionAssumption DEF InjInv, Scripted
<1>4. conf' = Disarmed \/ conf' = AsArmed(plan.fireAt)
  BY DEF WriteConf
<1>5. /\ Disarmed \in Parameters /\ Disarmed.armed = FALSE
      /\ AsArmed(plan.fireAt) \in Parameters
      /\ driver.mode = "control" => AsArmed(plan.fireAt).armed = FALSE
  BY <1>3 DEF Disarmed, AsArmed, Parameters
<1>6. conf' \in Parameters /\ (driver.mode = "control" => conf'.armed = FALSE)
  BY <1>4, <1>5
<1>7. /\ Advance /\ plan' = plan /\ acted' = acted /\ collected' = collected
      /\ server' = server /\ at' = at /\ errlog' = errlog
  BY DEF WriteConf
<1>8. Servers' /\ ControlIsQuiet'
  BY <1>7, SameServers
<1> QED
  BY <1>1, <1>2, <1>6, <1>7, <1>8, Advanced

LEMMA CreateKeeps == ASSUME InjInv, DbCreate PROVE InjInv'
<1>1. AtStep("create") /\ ~server[driver.mode].alive
  BY DEF DbCreate
<1>2. /\ driver.phase = "runs" /\ driver.pc <= Len(plan.steps) /\ Step = "create"
      /\ driver.mode = "control" => conf.armed = FALSE
  BY <1>1, AtStepMeans
<1>3. /\ Advance /\ plan' = plan /\ acted' = acted /\ collected' = collected /\ conf' = conf
      /\ server' = server /\ at' = at /\ errlog' = errlog
  BY DEF DbCreate
<1>4. Servers' /\ ControlIsQuiet'
  BY <1>3, SameServers
<1>5. conf \in Parameters
  BY DEF InjInv, Scripted
<1> QED
  BY <1>1, <1>2, <1>3, <1>4, <1>5, Advanced

LEMMA FreshServer ==
    ASSUME NEW life, NEW par, NEW s, s = [Down EXCEPT !.alive = TRUE, !.life = life, !.par = par]
    PROVE  s = [alive |-> TRUE, life |-> life, par |-> par, reach |-> 0, fired |-> 0]
    BY DEF Down

LEMMA ServerStartKeeps == ASSUME InjInv, ServerStart PROVE InjInv'
<1> DEFINE m == driver.mode
           s2 == [alive |-> TRUE, life |-> Lives + 1, par |-> conf, reach |-> 0, fired |-> 0]
<1>1. AtStep("start")
  BY DEF ServerStart
<1>2. /\ driver.phase = "runs" /\ driver.pc <= Len(plan.steps) /\ Step = "start" /\ m \in Mode
      /\ m = "control" => conf.armed = FALSE
  <2>1. "start" # "conf"
    OBVIOUS
  <2> QED
    BY <1>1, <2>1, AtStepMeans
<1>3. conf \in Parameters
  BY DEF InjInv, Scripted
<1>4. ~server[m].alive
  <2>1. driver.pc \in 1 .. Len(plan.steps)
    BY <1>2 DEF InjInv, Scripted
  <2>2. Off(plan.steps, driver.pc)
    BY <1>2, <2>1, InjectionAssumption DEF InjInv, Scripted, Step
  <2> QED
    BY <1>2, <2>2 DEF InjInv, Scripted
<1>5. ServerInv(server[m], at[m], errlog[m]) /\ server[m].life \in Nat
  BY <1>2 DEF InjInv, Servers, Server
<1>6. Lives + 1 \in Nat /\ Lives + 1 > server[m].life
  BY <1>2, <1>5, LivesAreNumbers DEF InjInv
<1>7. ServerInv(s2, at[m], errlog[m])
  BY <1>3, <1>4, <1>5, <1>6, StartKeeps
<1>8. Changes(m, s2, at[m], errlog[m])
  <2> DEFINE new == [Down EXCEPT !.alive = TRUE, !.life = Lives + 1, !.par = conf]
  <2>1. server' = [server EXCEPT ![m] = new]
    BY DEF ServerStart
  <2>2. new = s2
    BY FreshServer
  <2>3. server' = [server EXCEPT ![m] = s2]
    <3> HIDE DEF new, s2
    <3> QED
      BY <2>1, <2>2
  <2>4. at' = at /\ errlog' = errlog
    BY DEF ServerStart
  <2> QED
    BY <1>2, <2>3, <2>4 DEF Changes, InjInv, Servers
<1>9. s2.par = conf
  OBVIOUS
<1>10. m = "control" => \A t \in Threads : at[m][t] = Out
  BY DEF InjInv, ControlIsQuiet
<1> HIDE DEF s2
<1>11. Servers' /\ ControlIsQuiet' /\ errlog' = errlog
  BY <1>2, <1>7, <1>8, <1>9, <1>10, RunsServer
<1>12. /\ Advance /\ plan' = plan /\ acted' = acted /\ collected' = collected /\ conf' = conf
  BY DEF ServerStart
<1> QED
  BY <1>2, <1>3, <1>11, <1>12, Advanced

LEMMA SettingStepKeeps == ASSUME InjInv, SetParameter PROVE InjInv'
<1> DEFINE m == driver.mode
           par == server[m].par
<1>1. PICK step \in {"arm ids", "arm fire_at", "disarm"} : AtStep(step)
  BY DEF SetParameter
<1>2. /\ driver.phase = "runs" /\ driver.pc <= Len(plan.steps) /\ Step = step /\ m \in Mode
      /\ m = "control" => conf.armed = FALSE
  BY <1>1, AtStepMeans
<1>3. conf \in Parameters
  BY DEF InjInv, Scripted
<1>4. /\ Advance /\ plan' = plan /\ acted' = acted /\ collected' = collected /\ conf' = conf
      /\ at' = at /\ errlog' = errlog
  BY DEF SetParameter
<1>5. server[m] \in Server /\ ServerInv(server[m], at[m], errlog[m])
  BY <1>2 DEF InjInv, Servers
<1>6. par \in Parameters
  BY <1>5 DEF Server
<1>7. PICK par2 \in {[par EXCEPT !.armed = m = "fault"], [par EXCEPT !.fireAt = plan.fireAt],
                     [par EXCEPT !.armed = FALSE]} :
        server[m].alive => server' = [server EXCEPT ![m] = [server[m] EXCEPT !.par = par2]]
  <2>1. /\ AtStep("arm ids") => step = "arm ids"
        /\ AtStep("arm fire_at") => step = "arm fire_at"
        /\ AtStep("disarm") => step = "disarm"
    BY <1>1 DEF AtStep
  <2>2. CASE step = "arm ids"
    BY <1>1, <2>1, <2>2 DEF SetParameter
  <2>3. CASE step = "arm fire_at"
    BY <1>1, <2>1, <2>3 DEF SetParameter
  <2>4. CASE step = "disarm"
    BY <1>1, <2>1, <2>4 DEF SetParameter
  <2> QED
    BY <2>2, <2>3, <2>4
<1>8. plan.fireAt \in Nat
  BY InjectionAssumption DEF InjInv, Scripted
<1>9. m = "control" => par.armed = FALSE
  BY DEF InjInv, ControlIsQuiet
<1>10. par2 \in Parameters /\ (m = "control" => par2.armed = FALSE)
  BY <1>6, <1>7, <1>8, <1>9 DEF Parameters
<1>11. /\ Servers' /\ ControlIsQuiet'
       /\ server'[m].alive = server[m].alive
  <2>1. CASE server[m].alive
    <3> DEFINE s2 == [server[m] EXCEPT !.par = par2]
    <3>1. ServerInv(s2, at[m], errlog[m])
      BY <1>5, <1>10, SettingKeeps
    <3>2. Changes(m, s2, at[m], errlog[m])
      BY <1>2, <1>4, <1>7, <2>1 DEF Changes, InjInv, Servers
    <3>3. s2.par = par2 /\ s2.alive = server[m].alive
      BY <1>5 DEF Server
    <3>4. m = "control" => \A t \in Threads : at[m][t] = Out
      BY DEF InjInv, ControlIsQuiet
    <3> HIDE DEF s2
    <3>5. Servers' /\ ControlIsQuiet' /\ server'[m] = s2
      BY <1>2, <1>10, <3>1, <3>2, <3>3, <3>4, RunsServer
    <3> QED
      BY <3>3, <3>5
  <2>2. CASE ~server[m].alive
    <3>1. server' = server
      BY <2>2 DEF SetParameter
    <3> QED
      BY <1>4, <3>1, SameServers
  <2> QED
    BY <2>1, <2>2
<1> HIDE DEF par
<1> QED
  BY <1>1, <1>2, <1>3, <1>4, <1>11, Advanced

LEMMA StopKeeps == ASSUME InjInv, ServerStop \/ ServerKill PROVE InjInv'
<1> DEFINE m == driver.mode
           s2 == [server[m] EXCEPT !.alive = FALSE]
           place2 == [t \in Threads |-> Out]
<1>1. PICK step \in {"stop", "kill"} : AtStep(step)
  BY DEF ServerStop, ServerKill
<1>2. /\ driver.phase = "runs" /\ driver.pc <= Len(plan.steps) /\ Step = step /\ m \in Mode
      /\ m = "control" => conf.armed = FALSE
  BY <1>1, AtStepMeans
<1>3. conf \in Parameters
  BY DEF InjInv, Scripted
<1>4. /\ Advance /\ plan' = plan /\ acted' = acted /\ collected' = collected /\ conf' = conf
      /\ errlog' = errlog /\ Gone(m)
  BY DEF ServerStop, ServerKill
<1>5. server[m] \in Server /\ ServerInv(server[m], at[m], errlog[m])
  BY <1>2 DEF InjInv, Servers
<1>6. ServerInv(s2, place2, errlog[m])
  BY <1>5, EndKeeps
<1>7. Changes(m, s2, place2, errlog[m])
  BY <1>2, <1>4 DEF Gone, Changes, InjInv, Servers
<1>8. s2.alive = FALSE /\ s2.par = server[m].par /\ \A t \in Threads : place2[t] = Out
  BY <1>5 DEF Server
<1>9. m = "control" => s2.par.armed = FALSE
  BY <1>8 DEF InjInv, ControlIsQuiet
<1> HIDE DEF s2, place2
<1>10. Servers' /\ ControlIsQuiet' /\ server'[m] = s2
  BY <1>2, <1>6, <1>7, <1>8, <1>9, RunsServer
<1> QED
  BY <1>1, <1>2, <1>3, <1>4, <1>8, <1>10, Advanced

LEMMA BeginKeeps == ASSUME InjInv, NEW m \in Mode, StartRun(m) PROVE InjInv'
<1>1. /\ plan' = plan /\ acted' = acted /\ collected' = collected /\ conf' = conf
      /\ server' = server /\ at' = at /\ errlog' = errlog
      /\ driver' = [driver EXCEPT !.phase = "runs", !.mode = m, !.pc = 1, !.since = Lives,
                                  !.runs = driver.runs + 1]
  BY DEF StartRun
<1>2. Lives \in Nat
  BY LivesAreNumbers DEF InjInv
<1>3. driver \in Driver /\ driver.runs + 1 \in Nat
  BY DEF InjInv, Scripted, Driver
<1>4. driver' \in Driver /\ driver'.phase = "runs" /\ driver'.pc = 1
  BY <1>1, <1>2, <1>3 DEF Driver
<1>5. Servers' /\ ControlIsQuiet'
  BY <1>1, SameServers
<1>6. ~Off(plan.steps, 1)
  <2>1. 1 .. 1 - 1 = {}
    OBVIOUS
  <2> QED
    BY <2>1 DEF Off
<1>7. 1 \in 1 .. Len(plan.steps) + 1
  <2>1. Len(plan.steps) \in Nat
    BY InjectionAssumption DEF InjInv, Scripted
  <2> QED
    BY <2>1
<1>8. Scripted'
  BY <1>1, <1>4, <1>6, <1>7 DEF InjInv, Scripted
<1> QED
  BY <1>1, <1>5, <1>8 DEF InjInv

LEMMA LeaveKeeps == ASSUME InjInv, Refuse \/ KillDriver PROVE InjInv'
<1>1. /\ plan' = plan /\ acted' = acted /\ collected' = collected /\ conf' = conf
      /\ server' = server /\ at' = at /\ errlog' = errlog
  BY DEF Refuse, KillDriver
<1>2. driver \in Driver
  BY DEF InjInv, Scripted
<1>3. driver' \in Driver /\ driver'.phase \in {"refused", "killed"}
  BY <1>2 DEF Driver, Refuse, KillDriver
<1>4. Servers' /\ ControlIsQuiet'
  BY <1>1, SameServers
<1>5. Scripted'
  BY <1>1, <1>3 DEF InjInv, Scripted
<1> QED
  BY <1>1, <1>4, <1>5 DEF InjInv

LEMMA CollectKeeps == ASSUME InjInv, Collect PROVE InjInv'
<1>1. /\ plan' = plan /\ acted' = acted /\ conf' = conf
      /\ server' = server /\ at' = at /\ errlog' = errlog
      /\ driver.phase = "runs" /\ driver.pc > Len(plan.steps)
      /\ driver' = [driver EXCEPT !.phase = "done"] /\ collected' = errlog[driver.mode]
  BY DEF Collect
<1>2. driver \in Driver
  BY DEF InjInv, Scripted
<1>3. driver' \in Driver /\ driver'.phase = "done" /\ driver'.mode = driver.mode
  BY <1>1, <1>2 DEF Driver
<1>4. Servers' /\ ControlIsQuiet'
  BY <1>1, SameServers
<1>5. Len(plan.steps) \in Nat \ {0} /\ plan.steps[Len(plan.steps)] = "stop"
  BY InjectionAssumption DEF InjInv, Scripted
<1>6. driver.pc = Len(plan.steps) + 1
  BY <1>1, <1>5 DEF InjInv, Scripted
<1>7. Off(plan.steps, Len(plan.steps) + 1)
  <2> DEFINE n == Len(plan.steps)
  <2>1. n \in 1 .. n + 1 - 1 /\ n + 1 .. n + 1 - 1 = {}
    BY <1>5
  <2> QED
    BY <1>5, <2>1 DEF Off
<1>8. ~server[driver.mode].alive
  BY <1>1, <1>6, <1>7 DEF InjInv, Scripted
<1>9. Scripted'
  BY <1>1, <1>3, <1>8 DEF InjInv, Scripted
<1> QED
  BY <1>1, <1>4, <1>9 DEF InjInv

LEMMA InjStepInv == ASSUME InjInv, [InjectionNext]_injectionVars PROVE InjInv'
<1>1. CASE UNCHANGED injectionVars
  BY <1>1 DEF injectionVars, InjInv, Servers, ControlIsQuiet, Scripted
<1>2. CASE InjectionNext
  BY <1>2, ThreadKeeps, EngineKeeps, BeginKeeps, ConfKeeps, CreateKeeps, LeaveKeeps, ServerStartKeeps,
     SettingStepKeeps, StopKeeps, CollectKeeps DEF InjectionNext
<1> QED
  BY <1>1, <1>2

(***************************************************************************)
(* The acknowledgements prove what fired, for any scenarios whose servers   *)
(* are started where there is none, any number of threads at the site,      *)
(* reaches and runs, and any server or script ended anywhere: a control has *)
(* none, of one server no two have a reach or a count in common, the count  *)
(* is theirs, no site acts without one, and a run collects them all.        *)
(***************************************************************************)
THEOREM AcknowledgementsProveTheFault == InjectionSpec => []AckProvesFault
<1>1. InjInv => AckProvesFault
  <2> SUFFICES ASSUME InjInv PROVE AckProvesFault
    OBVIOUS
  <2>1. errlog["control"] = {} /\ acted \subseteq errlog["fault"] /\ "fault" \in Mode
    BY DEF InjInv, ControlIsQuiet, Mode
  <2>2. ASSUME NEW a \in errlog["fault"], NEW b \in errlog["fault"]
        PROVE  /\ a.fireAt > 0 => a.reach = a.fireAt
               /\ a # b /\ a.life = b.life => a.reach # b.reach /\ a.fired # b.fired
    <3>1. Logged(server["fault"], errlog["fault"]) /\ errlog["fault"] \subseteq Ack
      BY <2>1 DEF InjInv, Servers, ServerInv
    <3>2. a.life \in Nat
      BY <3>1 DEF Ack
    <3>3. Differ({c \in errlog["fault"] : c.life = a.life})
      BY <3>1, <3>2 DEF Logged
    <3> QED
      BY <3>1, <3>3 DEF Logged, Differ, AtItsReach
  <2>3. ASSUME NEW m \in Mode, server[m].alive
        PROVE  1 .. server[m].fired
                 = {a.fired : a \in {b \in errlog[m] : b.life = server[m].life}}
                   \cup {at[m][t].ack.fired : t \in {u \in Threads : at[m][u].in = "acks"}}
    <3>1. 1 .. server[m].fired = {a.fired : a \in AcksOf(server[m], at[m], errlog[m])}
      BY <2>3 DEF InjInv, Servers, ServerInv, Counted
    <3> QED
      BY <3>1 DEF AcksOf, Owed
  <2>4. driver.phase = "done" /\ driver.mode = "fault" =>
          {a \in acted : a.life > driver.since} \subseteq collected
    BY DEF InjInv, Scripted
  <2> QED
    BY <2>1, <2>2, <2>3, <2>4 DEF AckProvesFault
<1> QED
  BY <1>1, InjInitInv, InjStepInv, PTL DEF InjectionSpec
=============================================================================
