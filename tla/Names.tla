-------------------------------- MODULE Names --------------------------------
(* The names of podman's objects and PostgreSQL's slots, as ids.rs and     *)
(* names.rs make them out of the names of clusters and poolers, and back.  *)
(*                                                                         *)
(* A name is the sequence of its words, the hyphen between them left out:  *)
(* an empty word is a hyphen next to another or at an end.                 *)
EXTENDS Integers, Sequences, FiniteSets

CONSTANTS
    Letters,   \* words that begin with a letter
    Numbers,   \* ordinals, as they are written
    Foul,      \* words with a character that no name may have
    MaxWords,  \* bound: 40 characters
    Jobs,      \* what the containers of jobs are named, after an instance
    ClusterJobs, \* and after a cluster
    JobWords,  \* the words of those
    MaxObjects \* bound: clusters and poolers at a time

\* Read from the end, two jobs' names differ before one of them is over.
EndApart(j, k) ==
    \E n \in 1..Len(j) : n <= Len(k) /\ j[Len(j) + 1 - n] # k[Len(k) + 1 - n]

\* No job is called like an ordinal, and none like the end of another.
ASSUME NamesOK ==
    /\ "" \notin Letters \cup Numbers \cup Foul
    /\ "pgpod" \in Letters /\ "pooler" \in Letters
    /\ \A j \in Jobs \cup ClusterJobs :
        j \in Seq(JobWords) /\ j # <<>> /\ j[Len(j)] \notin Numbers
    /\ Jobs \cap ClusterJobs = {}
    /\ \A j, k \in Jobs \cup ClusterJobs : j # k => EndApart(j, k)
    /\ MaxWords \in Nat /\ MaxObjects \in Nat

Word     == Letters \cup Numbers \cup Foul \cup {""}
NameText == UNION {[1..n -> Word] : n \in 0..(MaxWords + 1)}

VARIABLE objects  \* the clusters and the poolers there are

-----------------------------------------------------------------------------
\* ClusterId::new and PoolerId::new: a letter first, no hyphen last.
ValidName(s) ==
    /\ s # <<>> /\ Len(s) <= MaxWords
    /\ Head(s) \in Letters
    /\ s[Len(s)] # ""
    /\ \A k \in DOMAIN s : s[k] \notin Foul

Cluster(s) == [kind |-> "cluster", name |-> s]
Pooler(s)  == [kind |-> "pooler", name |-> s]

Instances(c) == {[cluster |-> c.name, ordinal |-> n] : n \in Numbers \ {"0"}}

\* Display and from_str of an instance's id: the last hyphen separates.
Shown(i) == i.cluster \o <<i.ordinal>>

NoInstance == [cluster |-> <<>>, ordinal |-> "0"]

\* Mutant: split at the first one.
SplitFirst(s) ==
    IF Len(s) > 1 /\ ValidName(<<Head(s)>>) /\ s[2] \in Numbers \ {"0"}
    THEN [cluster |-> <<Head(s)>>, ordinal |-> s[2]]
    ELSE NoInstance

ParseInstance(s) ==
    LET n == Len(s) IN
    IF n > 1 /\ s[n] \in Numbers \ {"0"} /\ ValidName(SubSeq(s, 1, n - 1))
    THEN [cluster |-> SubSeq(s, 1, n - 1), ordinal |-> s[n]]
    ELSE NoInstance

Prefixed(s) == <<"pgpod">> \o s

ContainerName(i) == Prefixed(Shown(i))
JobName(i, job)  == Prefixed(Shown(i)) \o job
VolumeName(i)    == Prefixed(Shown(i)) \o <<"pgdata">>
SlotName(i)      == Prefixed(Shown(i))
NetworkName(c)   == Prefixed(c.name)

\* Mutant: a pooler's container is named like an instance's.
Unmarked(p) == Prefixed(p.name)

\* pgpod-pooler-<name>, "not pgpod-<name>".
PoolerContainerName(p) == <<"pgpod", "pooler">> \o p.name

SecretRoles == {<<"superuser">>, <<"replication">>, <<"monitor">>, <<"app", "owner">>}

ClusterSecrets(c)  == {Prefixed(c.name) \o r : r \in SecretRoles}
LookupSecret(c)    == Prefixed(c.name) \o <<"pooler">>
AdminSecret(p)     == <<"pgpod", "pooler">> \o p.name \o <<"admin">>

\* The names an object has taken, by namespace.
Containers(o) ==
    IF o.kind = "pooler" THEN {PoolerContainerName(o)}
    ELSE {Prefixed(o.name) \o j : j \in ClusterJobs}
         \cup UNION {{ContainerName(i)} \cup {JobName(i, j) : j \in Jobs} :
                         i \in Instances(o)}
SecretsOf(o) ==
    IF o.kind = "pooler" THEN {AdminSecret(o)}
    ELSE ClusterSecrets(o) \cup {LookupSecret(o)}
VolumesOf(o)  == IF o.kind = "pooler" THEN {} ELSE {VolumeName(i) : i \in Instances(o)}
NetworksOf(o) == IF o.kind = "pooler" THEN {} ELSE {NetworkName(o)}
SlotsOf(o)    == IF o.kind = "pooler" THEN {} ELSE {SlotName(i) : i \in Instances(o)}

-----------------------------------------------------------------------------
Take ==
    /\ Cardinality(objects) < MaxObjects
    /\ \E s \in NameText :
        /\ ValidName(s)
        /\ \E o \in {Cluster(s), Pooler(s)} \ objects :
            objects' = objects \cup {o}

GiveBack(o) == objects' = objects \ {o}

NamesInit == objects = {}

NamesNext ==
    \/ Take
    \/ \E o \in objects : GiveBack(o)

NamesSpec == NamesInit /\ [][NamesNext]_objects

-----------------------------------------------------------------------------
(* Properties.                                                             *)

\* A cluster called "pooler", or whose name begins with "pooler-", names its
\* containers as poolers are named, which ValidName does not refuse.
Masquerades(o) == o.kind = "cluster" /\ Head(o.name) = "pooler"

Apart(o, p) ==
    /\ SecretsOf(o) \cap SecretsOf(p) = {}
    /\ VolumesOf(o) \cap VolumesOf(p) = {}
    /\ NetworksOf(o) \cap NetworksOf(p) = {}
    /\ SlotsOf(o) \cap SlotsOf(p) = {}
    /\ Containers(o) \cap Containers(p) = {} \/ Masquerades(o) \/ Masquerades(p)

\* "A name computed ad hoc somewhere else is a bug waiting for a restart": two
\* objects never share a name of podman's or a slot (the masquerade excepted,
\* and only for containers), whatever hyphens and numbers their names have,
\* and an instance's id is read back as that instance.
NamesTellApart ==
    \A o \in objects :
        /\ o.kind = "cluster" =>
            \A i \in Instances(o) : ParseInstance(Shown(i)) = i
        /\ \A p \in objects \ {o} : Apart(o, p)
=============================================================================
