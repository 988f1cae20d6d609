-------------------------- MODULE MCPoolerManifests --------------------------
EXTENDS PoolerManifests, FiniteSets
Ref(d, a) == [database |-> d, as |-> a]
Entry(c, ps) == [cluster |-> c, pools |-> ps]
Refs == {Ref(d, a) : d \in DatabaseName, a \in {"none", "x", "app"}}
PoolLists == {<<>>} \cup {<<r>> : r \in Refs}
             \cup {<<Ref("app", "none"), r>> : r \in Refs}
OneDoor == [head |-> TRUE, type |-> "rw", clusters |-> <<Entry("a", <<>>)>>,
            size |-> 40, hold |-> 60, keys |-> {}]
Doors ==
    {[OneDoor EXCEPT !.head = h, !.type = t, !.size = z, !.hold = d] :
         h \in BOOLEAN, t \in {"rw", "ro"}, z \in {0, 40}, d \in {0, 60}}
    \cup {[OneDoor EXCEPT !.keys = ks] :
              ks \in {ks \in SUBSET ParameterKey : Cardinality(ks) = 1}}
    \cup {[OneDoor EXCEPT !.clusters = <<>>]}
    \cup {[OneDoor EXCEPT !.clusters = <<Entry("a.", <<>>)>>]}
    \cup {[OneDoor EXCEPT !.clusters = <<Entry("a", ps), Entry(c, qs)>>] :
              c \in {"a", "b"}, ps \in PoolLists, qs \in PoolLists}
Registries == {<<>>, [a |-> "app"], [a |-> "app", b |-> "app"],
               [a |-> "app", b |-> "other"], [a |-> "none", b |-> "other"]}
=============================================================================
