----------------------------- MODULE BundleStore -----------------------------
(***************************************************************************)
(* What the retention policy promises of the campaign's replay bundles,     *)
(* without the commands that carry it out: directories of files, indexes    *)
(* that cite a directory and claim some of its files, and a directory that  *)
(* is shed down to what is claimed once everybody who cites it has let go.  *)
(* Retention is shown to implement this.                                    *)
(***************************************************************************)
EXTENDS FiniteSets

CONSTANTS
    Dir,      \* bundle directories
    Index,    \* bundle indexes
    File,     \* files of a bundle
    Sums,     \* the seal of a directory
    Root,     \* Root[i]: the directory index i cites
    Passing,  \* indexes of passing attempts: only they ever let go
    Kept      \* directories the policy never touches

VARIABLES
    held,      \* held[d]: the files of d that are there
    shed,      \* shed[d]: the files of d the policy gave up
    cited,     \* indexes that have been written
    claim,     \* claim[i]: the files index i names
    released,  \* indexes that have let go of the bulk of their directory
    core,      \* indexes that say only the core is left
    unseen     \* indexes nobody can vouch for having read

storeVars == <<held, shed, cited, claim, released, core, unseen>>

StoreInit ==
    /\ held = [d \in Dir |-> File \cup {Sums}]
    /\ shed = [d \in Dir |-> {}]
    /\ cited = {} /\ claim = [i \in Index |-> {}]
    /\ released = {} /\ core = {} /\ unseen = {}

\* An index is written: it claims only what is there.
Cite(i) ==
    /\ i \notin cited
    /\ \E fs \in SUBSET (File \cap held[Root[i]]) : claim' = [claim EXCEPT ![i] = fs]
    /\ cited' = cited \cup {i}
    /\ UNCHANGED <<held, shed, released, core, unseen>>

\* Passing attempts let go of the bulk, for good.
LetGo ==
    /\ released \subseteq released' /\ released' \subseteq cited \cap Passing
    /\ UNCHANGED <<held, shed, cited, claim, core, unseen>>

\* Some indexes are from now on nobody's to vouch for.
LoseSight ==
    /\ unseen \subseteq unseen' /\ unseen' \subseteq Index
    /\ UNCHANGED <<held, shed, cited, claim, released, core>>

\* The policy gives up one file: every index that counts let go and none claims it.
Shed(d, f) ==
    /\ d \notin Kept /\ f \in File \cap held[d]
    /\ \A i \in Index \ unseen : Root[i] = d => i \in released /\ f \notin claim[i]
    /\ held' = [held EXCEPT ![d] = @ \ {f}]
    /\ shed' = [shed EXCEPT ![d] = @ \cup {f}]
    /\ UNCHANGED <<cited, claim, released, core, unseen>>

\* An index says what has become of its directory, once it has.
SayCore(i) ==
    /\ i \in released
    /\ held[Root[i]] \subseteq
         {Sums} \cup UNION {claim[j] : j \in {k \in Index : Root[k] = Root[i]}}
    /\ core' = core \cup {i}
    /\ UNCHANGED <<held, shed, cited, claim, released, unseen>>

\* An index that let go may be recorded without the mark (its core could not be kept).
Unsay(i) ==
    /\ i \in released /\ core' = core \ {i}
    /\ UNCHANGED <<held, shed, cited, claim, released, unseen>>

\* The disk loses a file: nobody gave it up.
Vanish(d, f) ==
    /\ held' = [held EXCEPT ![d] = @ \ {f}]
    /\ UNCHANGED <<shed, cited, claim, released, core, unseen>>

StoreNext ==
    \/ \E i \in Index : Cite(i) \/ SayCore(i) \/ Unsay(i)
    \/ \E d \in Dir, f \in File \cup {Sums} : Shed(d, f) \/ Vanish(d, f)
    \/ LetGo \/ LoseSight

StoreSpec == StoreInit /\ [][StoreNext]_storeVars
=============================================================================
