--------------------------- MODULE PoolerManifests ---------------------------
(* What becomes of a pooler's manifest: the checks of `pgpod apply`, the   *)
(* pools it resolves to, the specification and the secrets handed to the   *)
(* agent, and the pg_doorman.yaml the agent renders from them.             *)
(*                                                                         *)
(* What is read and written when, and what other commands do meanwhile, is *)
(* Poolers'.                                                               *)
EXTENDS Integers, Sequences

CONSTANTS
    PoolerFile,  \* the manifests that are applied
    NoPoolerFile,\* what is there before any is
    Clusters     \* what the registry may know: a cluster's default database

-----------------------------------------------------------------------------
(* Manifests.                                                              *)

\* "none" is a field that is left out.  "a." is no name a cluster may have.
ClusterName  == {"a", "b", "a."}
DatabaseName == {"", "app", "other"}
ParameterKey == [name : {"worker_threads", "port", "pools", "query_wait_timeout"},
                 capitals : BOOLEAN]
PoolRef      == [database : DatabaseName, as : DatabaseName \cup {"none", "x"}]
PoolerManifestType ==
    [head : BOOLEAN, type : {"rw", "ro"},
     clusters : Seq([cluster : ClusterName, pools : Seq(PoolRef)]),
     size : Nat, hold : Nat, keys : SUBSET ParameterKey]

ASSUME PoolerManifestsOK ==
    /\ \A m \in PoolerFile : m \in PoolerManifestType
    /\ NoPoolerFile \notin PoolerFile
    /\ \A k \in Clusters :
        /\ DOMAIN k \subseteq ClusterName \ {"a."}
        /\ \A c \in DOMAIN k : k[c] \in DatabaseName \cup {"none"}

PoolName(p) == IF p.as = "none" THEN p.database ELSE p.as

\* The places of a manifest's pools.
Places(m) == UNION {{i} \X DOMAIN m.clusters[i].pools : i \in DOMAIN m.clusters}
Written(m, at) == m.clusters[at[1]].pools[at[2]]

\* PoolerManifest::from_yaml and validate.
ValidatePooler(m) ==
    /\ m.head
    /\ m.type = "rw"
    /\ m.clusters # <<>>
    /\ m.size > 0
    /\ \A i \in DOMAIN m.clusters : m.clusters[i].cluster # "a."
    /\ \A i, j \in DOMAIN m.clusters :
        i # j => m.clusters[i].cluster # m.clusters[j].cluster
    /\ \A at \in Places(m) : Written(m, at).database # ""
    /\ \A at, bt \in Places(m) :
        at # bt => PoolName(Written(m, at)) # PoolName(Written(m, bt))

-----------------------------------------------------------------------------
VARIABLES
    pfile,   \* the manifest that is being applied
    pat,     \* how far it has got
    known,   \* the registry: the clusters and their application databases
    pspec,   \* PoolerSpec: what is handed to the agent
    looked,  \* the clusters that have a lookup role and its secret
    networks,\* the container: the clusters' networks it joined
    mounts,  \* the container: the cluster of each lookup secret, by index
    doorman  \* pg_doorman.yaml

poolerVars == <<pfile, pat, known, pspec, looked, networks, mounts, doorman>>

-----------------------------------------------------------------------------
(* On the host.                                                            *)

\* A cluster for which no pool is written exports its application database.
ClusterPools(m, i) ==
    LET c == m.clusters[i] IN
    IF c.pools = <<>>
    THEN {[cluster |-> c.cluster, index |-> i, place |-> 1,
           database |-> known[c.cluster], name |-> known[c.cluster]]}
    ELSE {[cluster |-> c.cluster, index |-> i, place |-> j,
           database |-> c.pools[j].database, name |-> PoolName(c.pools[j])] :
              j \in DOMAIN c.pools}

AllPools(m) == UNION {ClusterPools(m, i) : i \in DOMAIN m.clusters}

\* resolve_pools, with collision: a default can be what somebody else wrote.
Resolves(m) ==
    /\ \A i \in DOMAIN m.clusters : m.clusters[i].cluster \in DOMAIN known
    /\ \A i \in DOMAIN m.clusters :
        m.clusters[i].pools = <<>> => known[m.clusters[i].cluster] # "none"
    /\ \A p, q \in AllPools(m) : p # q => p.name # q.name

\* Mutant: the secret is looked up by the pool's place.
ByPlace(p) == p.place

\* The secrets are mounted by the index of the cluster in the manifest.
SecretIndex(p) == p.index

PoolTarget(p) == [name |-> p.name, cluster |-> p.cluster, database |-> p.database,
                  host |-> p.cluster, secret |-> SecretIndex(p)]

ReservedDoorman == {"host", "port", "admin_username", "admin_password",
                    "query_wait_timeout", "daemon_pid_file", "pools"}

Lowered(k) == k.name

ValidatePoolerParameters(keys) == \A k \in keys : Lowered(k) \notin ReservedDoorman

PoolerSpecValid(s) ==
    /\ s.pools # {}
    /\ s.size > 0 /\ s.hold > 0
    /\ \A p, q \in s.pools : p # q => p.name # q.name
    /\ \A p \in s.pools : p.database # ""

NoPoolerSpec == [pools |-> {}, size |-> 0, hold |-> 0, keys |-> {}]
NoDoorman    == [pools |-> <<>>, general |-> <<>>]

\* The first apply; a later one is refused or takes over what is there.
Submit ==
    /\ pat = "idle"
    /\ pfile' \in PoolerFile /\ known' \in Clusters
    /\ pat' = "parse"
    /\ UNCHANGED <<pspec, looked, networks, mounts, doorman>>

ParsePooler ==
    /\ pat = "parse"
    /\ pat' = IF ValidatePooler(pfile) THEN "resolve" ELSE "refused"
    /\ UNCHANGED <<pfile, known, pspec, looked, networks, mounts, doorman>>

ResolvePooler ==
    /\ pat = "resolve"
    /\ \/ /\ Resolves(pfile)
          /\ pspec' = [pools |-> {PoolTarget(p) : p \in AllPools(pfile)},
                       size |-> pfile.size, hold |-> pfile.hold, keys |-> pfile.keys]
          /\ pat' = "roles"
       \/ /\ ~Resolves(pfile)
          /\ pat' = "refused"
          /\ UNCHANGED pspec
    /\ UNCHANGED <<pfile, known, looked, networks, mounts, doorman>>

\* ensure_pooler_role, for each cluster, before the rest is looked at.
EnsureRoles ==
    /\ pat = "roles" /\ pat' = "check"
    /\ looked' = {pfile.clusters[i].cluster : i \in DOMAIN pfile.clusters}
    /\ UNCHANGED <<pfile, known, pspec, networks, mounts, doorman>>

CheckPooler ==
    /\ pat = "check"
    /\ pat' = IF ValidatePoolerParameters(pspec.keys) /\ PoolerSpecValid(pspec)
              THEN "create" ELSE "refused"
    /\ UNCHANGED <<pfile, known, pspec, looked, networks, mounts, doorman>>

\* pooler_container_spec: a network for each cluster, a secret for each index.
CreatePoolerContainer ==
    /\ pat = "create" /\ pat' = "render"
    /\ networks' = {p.cluster : p \in pspec.pools}
    /\ mounts' = [k \in {p.secret : p \in pspec.pools} |->
                     CHOOSE c \in {p.cluster : p \in {p \in pspec.pools : p.secret = k}} :
                        TRUE]
    /\ UNCHANGED <<pfile, known, pspec, looked, doorman>>

-----------------------------------------------------------------------------
(* In the pooler's container.                                              *)

\* [general]: what the manifest adds, and pgpod's own.
General(s) ==
    [k \in {Lowered(key) : key \in s.keys} \cup (ReservedDoorman \ {"pools", "daemon_pid_file"})
        |-> IF k \in {Lowered(key) : key \in s.keys} THEN "manifest" ELSE "pgpod"]

\* [pools], by name; each with its lookup's password.
PoolSections(s) ==
    [n \in {p.name : p \in s.pools} |->
        LET p == CHOOSE p \in s.pools : p.name = n
        IN [host |-> p.host, database |-> p.database, password |-> mounts[p.secret]]]

\* read_secrets and render.
RenderDoorman ==
    /\ pat = "render"
    /\ IF /\ PoolerSpecValid(pspec) /\ ValidatePoolerParameters(pspec.keys)
          /\ \A p \in pspec.pools : p.secret \in DOMAIN mounts
       THEN /\ doorman' = [pools |-> PoolSections(pspec), general |-> General(pspec)]
            /\ pat' = "serving"
       ELSE /\ pat' = "failed"
            /\ UNCHANGED doorman
    /\ UNCHANGED <<pfile, known, pspec, looked, networks, mounts>>

\* What a hold on a cluster pauses.
PoolsFor(c) == {p.name : p \in {p \in pspec.pools : p.cluster = c}}

-----------------------------------------------------------------------------
PoolerManifestsInit ==
    /\ pfile = NoPoolerFile /\ pat = "idle" /\ known = <<>>
    /\ pspec = NoPoolerSpec /\ looked = {} /\ networks = {}
    /\ mounts = <<>> /\ doorman = NoDoorman

PoolerManifestsNext ==
    \/ Submit \/ ParsePooler \/ ResolvePooler \/ EnsureRoles \/ CheckPooler
    \/ CreatePoolerContainer \/ RenderDoorman

PoolerManifestsSpec == PoolerManifestsInit /\ [][PoolerManifestsNext]_poolerVars

-----------------------------------------------------------------------------
(* Properties.                                                             *)

\* A pooler that apply lets through is one the agent renders, and each of its
\* pools answers: every cluster has one, the names are told apart, the pool
\* leads to the cluster whose clients it holds, over a network that the
\* container has joined and with that cluster's lookup password, and nothing
\* of [general] that pgpod depends on comes from the manifest.
EveryPoolAnswers ==
    /\ pat # "failed"
    /\ pat = "serving" =>
        /\ \A i \in DOMAIN pfile.clusters :
            LET c == pfile.clusters[i].cluster IN
            /\ PoolsFor(c) # {}
            /\ \A n \in PoolsFor(c) :
                /\ doorman.pools[n].host = c /\ doorman.pools[n].password = c
                /\ c \in networks \cap looked
        /\ \A c, d \in networks : c # d => PoolsFor(c) \cap PoolsFor(d) = {}
        /\ \A k \in ReservedDoorman \cap DOMAIN doorman.general :
            doorman.general[k] = "pgpod"
=============================================================================
