---------------------------- MODULE MCManifests ----------------------------
EXTENDS Manifests, TLC, FiniteSets
Base == [head |-> "cluster", name |-> TRUE, instances |-> 1, image |-> TRUE,
         keys |-> {}, destinations |-> <<>>, volume |-> FALSE,
         retention |-> "none", enforce |-> FALSE,
         database |-> "none", owner |-> "none"]
Url(s, h, p) == [scheme |-> s, host |-> h, path |-> p, endpoint |-> "none",
                 option |-> "none", credentials |-> FALSE]
Bucket == Url("s3", "bucket", "other")
Local  == Url("file", "", "archive")
Urls   == {Url(s, h, p) : s \in {"none", "file", "s3", "memory", "ftp"},
                          h \in {"", "archive", "bucket"}, p \in {"", "archive"}}
          \cup {[Bucket EXCEPT !.endpoint = e] : e \in {"host", "url", "badport"}}
          \cup {[Bucket EXCEPT !.option = o, !.credentials = c] :
                    o \in {"plain", "credential"}, c \in BOOLEAN}
AllManifests ==
    {Base}
    \cup {[Base EXCEPT !.head = h] : h \in {"pooler", "version", "unknown"}}
    \cup {[Base EXCEPT !.name = n, !.image = i, !.instances = k] :
              n \in BOOLEAN, i \in BOOLEAN, k \in 0..2}
    \cup {[Base EXCEPT !.keys = ks] : ks \in {ks \in SUBSET Key : Cardinality(ks) = 1}}
    \cup {[Base EXCEPT !.destinations = <<d>>, !.volume = v] :
              d \in Urls, v \in BOOLEAN}
    \cup {[Base EXCEPT !.destinations = <<Local, Bucket>>, !.volume = TRUE,
                       !.database = "app", !.owner = "app"]}
    \cup {[Base EXCEPT !.destinations = [k \in 1..n |-> Bucket]] : n \in 4..5}
    \cup {[Base EXCEPT !.destinations = <<Bucket>>, !.retention = r, !.enforce = e] :
              r \in {"none", "14d", "36h", "0d", "14"}, e \in BOOLEAN}
    \cup {[Base EXCEPT !.database = d, !.owner = o] :
              d \in {"none", "app", "Bad"},
              o \in {"none", "app", "Bad", "streaming_replica"}}
=============================================================================
