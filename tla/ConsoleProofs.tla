---------------------------- MODULE ConsoleProofs ----------------------------
(***************************************************************************)
(* Proofs about Console: for any number of pools, any order of the columns *)
(* and however the stream is cut, an answer is taken for the command that  *)
(* it answers.                                                             *)
(***************************************************************************)
EXTENDS Console, FiniteSetTheorems, SequenceTheorems, TLAPS

-----------------------------------------------------------------------------
(* Counting.  The libraries' induction theorems have an operator for a     *)
(* parameter, and the provers cannot instantiate it; this one is about a   *)
(* set.  Its proof counts: a set of numbers without a least one would have *)
(* as many elements as itself without its greatest one.                    *)

LEMMA Induction ==
    ASSUME NEW S, 0 \in S, \A k \in Nat : k \in S => k + 1 \in S
    PROVE  \A n \in Nat : n \in S
  <1> SUFFICES ASSUME NEW n \in Nat, n \notin S PROVE FALSE
    OBVIOUS
  <1> DEFINE T == (0..n) \ S
             U == T \ {n}
             f == [k \in T |-> k - 1]
  <1>1. n \in T /\ \A k \in T : k \in Nat /\ k <= n /\ k # 0
    OBVIOUS
  <1>2. \A k \in T : k - 1 \in U
    <2> SUFFICES ASSUME NEW k \in T PROVE k - 1 \in U
      OBVIOUS
    <2>1. k \in Nat /\ k - 1 \in Nat /\ (k - 1) + 1 = k /\ k <= n
      BY <1>1
    <2>2. k - 1 \notin S
      BY <2>1
    <2> QED BY <2>1, <2>2
  <1>3. IsFiniteSet(T)
    <2>1. IsFiniteSet(0..n)
      BY FS_Interval
    <2> QED BY <2>1, FS_Subset
  <1>4. IsFiniteSet(U) /\ Cardinality(U) = Cardinality(T) - 1
    BY <1>1, <1>3, FS_RemoveElement
  <1>5. Cardinality(T) \in Nat /\ Cardinality(U) < Cardinality(T)
    <2>1. Cardinality(T) \in Nat
      BY <1>3, FS_CardinalityType
    <2> QED BY <1>4, <2>1
  <1>6. f \in [T -> U]
    BY <1>2
  <1> HIDE DEF T, U, f
  <1>7. \E x, y \in T : x # y /\ f[x] = f[y]
    BY <1>3, <1>4, <1>5, <1>6, FS_PigeonHole
  <1> QED BY <1>1, <1>7 DEF f

\* Rows that are each followed by the next, and the last by something else.
Unrolled(g, n, row, last) ==
    \A k \in 1..(n + 1) : g[k] = IF k > n THEN last ELSE row[k] \o g[k + 1]

LEMMA Unrolling ==
    ASSUME NEW B, NEW n \in Nat, NEW row \in [1..n -> Seq(B)], NEW last \in Seq(B)
    PROVE  \E g \in [1..(n + 1) -> Seq(B)] : Unrolled(g, n, row, last)
  <1> DEFINE From(i) == ((n + 1) - i)..(n + 1)
             Good(g, i) == \A k \in From(i) :
                               g[k] = IF k > n THEN last ELSE row[k] \o g[k + 1]
             S == {i \in Nat : i <= n => \E g \in [From(i) -> Seq(B)] : Good(g, i)}
  <1>1. 0 \in S
    <2> DEFINE e == [k \in From(0) |-> last]
    <2>1. From(0) = {n + 1}
      OBVIOUS
    <2> HIDE DEF From
    <2>2. e \in [From(0) -> Seq(B)]
      OBVIOUS
    <2>3. \A k \in From(0) : e[k] = last /\ k > n
      BY <2>1
    <2> HIDE DEF e
    <2>4. Good(e, 0)
      BY <2>3
    <2> QED BY <2>2, <2>4
  <1>2. ASSUME NEW i \in Nat, i \in S PROVE i + 1 \in S
    <2> SUFFICES ASSUME i + 1 <= n
                 PROVE  \E g \in [From(i + 1) -> Seq(B)] : Good(g, i + 1)
      <3> HIDE DEF From, Good
      <3> QED OBVIOUS
    <2>1. PICK h \in [From(i) -> Seq(B)] : Good(h, i)
      <3>1. i <= n
        OBVIOUS
      <3> HIDE DEF From, Good
      <3> QED BY <1>2, <3>1
    <2> DEFINE m == n - i
               g == [k \in From(i + 1) |-> IF k = m THEN row[m] \o h[m + 1] ELSE h[k]]
    <2>2. m \in 1..n /\ m + 1 \in From(i) /\ From(i + 1) = {m} \cup From(i) /\ m \notin From(i)
      OBVIOUS
    <2>3. row[m] \o h[m + 1] \in Seq(B)
      <3>1. row[m] \in Seq(B) /\ h[m + 1] \in Seq(B)
        BY <2>2
      <3> QED BY <3>1, ConcatProperties
    <2>4. g \in [From(i + 1) -> Seq(B)]
      BY <2>2, <2>3
    <2>5. ASSUME NEW k \in From(i + 1)
          PROVE  g[k] = IF k > n THEN last ELSE row[k] \o g[k + 1]
      <3>1. CASE k = m
        <4>1. g[k] = row[m] \o h[m + 1] /\ g[m + 1] = h[m + 1]
          BY <3>1, <2>2
        <4> HIDE DEF g
        <4>2. ~(k > n) /\ g[k] = row[k] \o g[k + 1]
          BY <3>1, <4>1, <2>2
        <4> QED BY <4>2
      <3>2. CASE k # m
        <4>1. k \in From(i) /\ g[k] = h[k]
          BY <3>2, <2>2
        <4>2. k <= n => k + 1 \in From(i) /\ g[k + 1] = h[k + 1]
          BY <4>1, <2>2
        <4>3. h[k] = IF k > n THEN last ELSE row[k] \o h[k + 1]
          BY <4>1, <2>1
        <4> HIDE DEF g
        <4>4. CASE k > n
          BY <4>1, <4>3, <4>4
        <4>5. CASE ~(k > n)
          <5>1. k <= n
            BY <4>5
          <5> QED BY <4>1, <4>2, <4>3, <4>5, <5>1
        <4> QED BY <4>4, <4>5
      <3> QED BY <3>1, <3>2
    <2> HIDE DEF g
    <2> QED BY <2>4, <2>5
  <1>3. n \in S
    <2> HIDE DEF S
    <2> QED BY <1>1, <1>2, Induction
  <1>4. PICK g \in [From(n) -> Seq(B)] : Good(g, n)
    BY <1>3
  <1>5. From(n) = 1..(n + 1)
    OBVIOUS
  <1> QED BY <1>4, <1>5 DEF Unrolled

-----------------------------------------------------------------------------
(* What the stream is made of.                                             *)

\* The strings of the protocol, in tags and bodies.
Strings == {"R", "S", "Z", "E", "C", "T", "D", "N",
            "salt", "server_version", "16", "I", "PAUSE", "SHOW", "notice",
            "password", "No pool for database", "out of memory", "none",
            "0", "1", "9"}
Bytes   == Strings \cup Int \cup NamesOfPools
           \cup UNION {{l[k] : k \in DOMAIN l} : l \in Layouts}
Stream  == Seq(Bytes)

Last == Len(PoolNames)

LEMMA Pools ==
    /\ Last \in Nat /\ Last > 0 /\ DOMAIN PoolNames = 1..Last
    /\ \A k \in 1..Last : PoolNames[k] \in NamesOfPools
    /\ NamesOfPools = {PoolNames[k] : k \in 1..Last}
  <1>1. PoolNames \in Seq(NamesOfPools) /\ PoolNames # <<>>
    BY ConsoleOK
  <1>2. Last \in Nat /\ Last > 0 /\ DOMAIN PoolNames = 1..Last
    BY <1>1, EmptySeq, LenProperties DEF Last
  <1> QED BY <1>2 DEF NamesOfPools

LEMMA Sorts ==
    /\ Strings \subseteq Bytes /\ Int \subseteq Bytes /\ NamesOfPools \subseteq Bytes
    /\ \A l \in Layouts : l \in Seq(Bytes) /\ Len(l) \in Nat /\ DOMAIN l = 1..Len(l)
  <1>1. /\ Strings \subseteq Bytes /\ Int \subseteq Bytes /\ NamesOfPools \subseteq Bytes
    BY DEF Bytes
  <1>2. ASSUME NEW l \in Layouts PROVE l \in Seq(Bytes)
    <2> DEFINE C == {l[k] : k \in DOMAIN l}
    <2>1. l \in Seq(C)
      BY ConsoleOK
    <2>2. C \subseteq Bytes
      BY DEF Bytes
    <2> HIDE DEF C
    <2> QED BY <2>1, <2>2, SeqMonotonic
  <1> QED BY <1>1, <1>2

LEMMA TaggedIs ==
    ASSUME NEW tag \in Bytes, NEW body \in Stream
    PROVE  /\ Tagged(tag, body) \in Stream
           /\ Len(Tagged(tag, body)) = Len(body) + 2
           /\ Tagged(tag, body)[1] = tag /\ Tagged(tag, body)[2] = Len(body) + 1
           /\ \A k \in 1..Len(body) : Tagged(tag, body)[k + 2] = body[k]
  <1>1. <<tag, Len(body) + 1>> \in Stream
    BY Sorts DEF Stream
  <1> QED BY <1>1, ConcatProperties DEF Tagged, Stream

LEMMA Joined ==
    ASSUME NEW s \in Stream, NEW t \in Stream
    PROVE  s \o t \in Stream /\ Len(s \o t) = Len(s) + Len(t)
           /\ \A k \in 1..(Len(s) + Len(t)) :
                  (s \o t)[k] = IF k <= Len(s) THEN s[k] ELSE t[k - Len(s)]
  BY ConcatProperties DEF Stream

LEMMA Regrouped ==
    \A s, t, u \in Stream : (s \o t) \o u = s \o (t \o u)
  BY ConcatAssociative DEF Stream

\* A buffer, and what comes after it, begin with a message.
Begins(b, y, tag, body, tail) == b \o y = Tagged(tag, body) \o tail

\* What decode makes of it: nothing, an error, or the message and what follows.
InOrder(b, y, tag, body, tail) ==
    \/ Decode(b).message = None
    \/ Decode(b).message = [kind |-> "malformed"]
    \/ /\ Decode(b).message = ParseMessage(tag, body)
       /\ Decode(b).rest \in Stream
       /\ Decode(b).rest \o y = tail

\* What is at the front of a buffer is a message of the stream, once all of it
\* is there; what is left of the buffer goes on with the stream.
LEMMA DecodesInOrder ==
    ASSUME NEW tag \in Bytes, NEW body \in Stream, NEW tail \in Stream,
           NEW b \in Stream, NEW y \in Stream, Begins(b, y, tag, body, tail)
    PROVE  InOrder(b, y, tag, body, tail)
  <1> USE DEF Begins, InOrder
  <1> DEFINE m == Tagged(tag, body)
             n == Len(body)
             rest == SubSeq(b, 2 + b[2], Len(b))
  <1>1. /\ m \in Stream /\ Len(m) = n + 2 /\ m[1] = tag /\ m[2] = n + 1
        /\ \A k \in 1..n : m[k + 2] = body[k]
    BY TaggedIs
  <1>2. n \in Nat /\ Len(b) \in Nat /\ Len(y) \in Nat /\ Len(tail) \in Nat
    BY DEF Stream
  <1>3. /\ Len(b) + Len(y) = Len(m) + Len(tail)
        /\ \A k \in 1..(Len(b) + Len(y)) :
              (IF k <= Len(b) THEN b[k] ELSE y[k - Len(b)])
                  = IF k <= Len(m) THEN m[k] ELSE tail[k - Len(m)]
    <2> HIDE DEF m
    <2>1. /\ Len(b \o y) = Len(b) + Len(y) /\ Len(m \o tail) = Len(m) + Len(tail)
          /\ b \o y = m \o tail
      BY <1>1, Joined DEF m
    <2>2. Len(b) + Len(y) = Len(m) + Len(tail)
      BY <2>1
    <2>3. ASSUME NEW k \in 1..(Len(b) + Len(y))
          PROVE  (IF k <= Len(b) THEN b[k] ELSE y[k - Len(b)])
                  = IF k <= Len(m) THEN m[k] ELSE tail[k - Len(m)]
      <3>1. (b \o y)[k] = IF k <= Len(b) THEN b[k] ELSE y[k - Len(b)]
        BY Joined
      <3>2. (m \o tail)[k] = IF k <= Len(m) THEN m[k] ELSE tail[k - Len(m)]
        BY Joined, <1>1, <2>2
      <3> QED BY <3>1, <3>2, <2>1
    <2> QED BY <2>2, <2>3
  <1> HIDE DEF m
  <1>4. CASE Len(b) < 2
    BY <1>4 DEF Decode
  <1>5. CASE Len(b) >= 2
    <2>1. b[1] = tag /\ b[2] = n + 1
      <3>1. ASSUME NEW k \in {1, 2} PROVE b[k] = m[k]
        <4>1. k \in 1..(Len(b) + Len(y)) /\ k <= Len(b) /\ k <= Len(m)
          BY <1>1, <1>2, <1>5
        <4> QED BY <4>1, <1>3
      <3> QED BY <3>1, <1>1
    <2>2. CASE b[2] \notin 1..MaxLength
      BY <2>2, <1>2, <1>5 DEF Decode
    <2>3. CASE b[2] \in 1..MaxLength /\ Len(b) < 1 + b[2]
      BY <2>3, <1>2, <1>5 DEF Decode
    <2>4. CASE b[2] \in 1..MaxLength /\ Len(b) >= 1 + b[2]
      <3>1. Len(b) >= n + 2
        BY <2>1, <2>4, <1>2
      <3>2. SubSeq(b, 3, 1 + b[2]) = body
        <4> DEFINE s == SubSeq(b, 3, n + 2)
        <4>1. s \in Stream /\ Len(s) = n /\ \A k \in 1..n : s[k] = b[k + 2]
          BY <1>2, <3>1 DEF Stream
        <4>2. \A k \in 1..n : b[k + 2] = body[k]
          BY <1>1, <1>2, <1>3, <3>1
        <4> HIDE DEF s
        <4>3. s = body
          BY <4>1, <4>2, SeqEqual DEF Stream
        <4>4. 1 + b[2] = n + 2
          BY <2>1, <1>2
        <4> QED BY <4>3, <4>4 DEF s
      <3>3. rest \in Stream /\ Len(rest) = Len(b) - (n + 2)
            /\ \A k \in 1..Len(rest) : rest[k] = b[k + (n + 2)]
        BY <1>2, <2>1, <3>1 DEF Stream
      <3>4. rest \o y = tail
        <4> HIDE DEF rest
        <4>1. rest \o y \in Stream /\ Len(rest \o y) = Len(tail)
          <5>1. rest \o y \in Stream /\ Len(rest \o y) = Len(rest) + Len(y)
            BY <3>3, Joined
          <5>2. Len(rest) + Len(y) = Len(tail)
            BY <1>1, <1>2, <1>3, <3>3
          <5> QED BY <5>1, <5>2
        <4>2. ASSUME NEW k \in 1..Len(tail) PROVE (rest \o y)[k] = tail[k]
          <5>1. k + (n + 2) \in 1..(Len(b) + Len(y)) /\ k \in 1..(Len(rest) + Len(y))
            BY <1>1, <1>2, <1>3, <3>3
          <5>2. (rest \o y)[k] = IF k <= Len(rest) THEN rest[k] ELSE y[k - Len(rest)]
            BY <3>3, <5>1, Joined
          <5>3. CASE k <= Len(rest)
            <6>1. (rest \o y)[k] = b[k + (n + 2)] /\ k + (n + 2) <= Len(b)
              BY <1>2, <5>2, <5>3, <3>3
            <6>2. b[k + (n + 2)] = tail[(k + (n + 2)) - Len(m)]
              BY <1>1, <1>2, <1>3, <5>1, <6>1
            <6>3. (k + (n + 2)) - Len(m) = k
              BY <1>1, <1>2
            <6> QED BY <6>1, <6>2, <6>3
          <5>4. CASE k > Len(rest)
            <6>1. (rest \o y)[k] = y[k - Len(rest)]
              BY <1>2, <3>3, <5>2, <5>4
            <6>2. /\ ~(k + (n + 2) <= Len(b)) /\ ~(k + (n + 2) <= Len(m))
                  /\ (k + (n + 2)) - Len(b) = k - Len(rest) /\ (k + (n + 2)) - Len(m) = k
              BY <1>1, <1>2, <3>3, <5>4
            <6>3. y[(k + (n + 2)) - Len(b)] = tail[(k + (n + 2)) - Len(m)]
              BY <1>3, <5>1, <6>2
            <6> QED BY <6>1, <6>2, <6>3
          <5>5. k \in Int /\ Len(rest) \in Int
            BY <1>2, <3>3
          <5>6. k <= Len(rest) \/ k > Len(rest)
            BY <5>5
          <5> HIDE DEF rest
          <5> QED BY <5>3, <5>4, <5>6, Zenon
        <4> QED BY <4>1, <4>2, SeqEqual DEF Stream
      <3>5. Decode(b).message = ParseMessage(tag, body) /\ Decode(b).rest = rest
        <4>1. Decode(b) = [message |-> ParseMessage(b[1], SubSeq(b, 3, 1 + b[2])),
                           rest |-> rest]
          BY <1>2, <1>5, <2>1, <2>4 DEF Decode
        <4> HIDE DEF rest
        <4>2. ParseMessage(b[1], SubSeq(b, 3, 1 + b[2])) = ParseMessage(tag, body)
          BY <2>1, <3>2, Zenon
        <4> DEFINE p == ParseMessage(b[1], SubSeq(b, 3, 1 + b[2]))
        <4>3. Decode(b).message = p /\ Decode(b).rest = rest
          <5>1. Decode(b) = [message |-> p, rest |-> rest]
            BY <4>1
          <5> HIDE DEF p
          <5> QED BY <5>1
        <4> QED BY <4>2, <4>3
      <3> QED BY <3>3, <3>4, <3>5
    <2> QED BY <2>2, <2>3, <2>4, <1>2, <2>1
  <1> QED BY <1>2, <1>4, <1>5

-----------------------------------------------------------------------------
(* The messages of the protocol, and what the agent makes of them.         *)

LEMMA Bodies ==
    /\ <<5, "salt">> \in Stream /\ <<"server_version", "16">> \in Stream
    /\ \A c \in Int : <<c>> \in Stream
    /\ \A x \in Strings : <<x>> \in Stream
    /\ <<>> \in Stream
    /\ \A v \in Stream : <<Len(v)>> \o v \in Stream
  <1>1. 5 \in Bytes /\ \A x \in {"salt", "server_version", "16"} : x \in Bytes
    <2>1. \A x \in {"salt", "server_version", "16"} : x \in Strings
      BY DEF Strings
    <2> QED BY <2>1, Sorts
  <1>2. /\ <<5, "salt">> \in Stream /\ <<"server_version", "16">> \in Stream
        /\ <<>> \in Stream
    BY <1>1 DEF Stream
  <1>3. /\ \A c \in Int : <<c>> \in Stream
        /\ \A x \in Strings : <<x>> \in Stream
    BY Sorts DEF Stream
  <1>4. ASSUME NEW v \in Stream PROVE <<Len(v)>> \o v \in Stream
    <2>1. Len(v) \in Int
      BY DEF Stream
    <2> QED BY <2>1, <1>3, Joined
  <1> QED BY <1>2, <1>3, <1>4

LEMMA Tags ==
    \A tag \in {"R", "S", "Z", "E", "C", "T", "D", "N"} : tag \in Bytes
  BY Sorts DEF Strings

LEMMA ParsesWords ==
    /\ ParseMessage("R", <<5, "salt">>) = [kind |-> "auth", code |-> 5]
    /\ \A c \in {0, 3} : ParseMessage("R", <<c>>) = [kind |-> "auth", code |-> c]
    /\ ParseMessage("S", <<"server_version", "16">>) = [kind |-> "other"]
    /\ ParseMessage("N", <<"notice">>) = [kind |-> "other"]
    /\ ParseMessage("Z", <<"I">>) = [kind |-> "ready"]
    /\ \A x : ParseMessage("C", <<x>>) = [kind |-> "complete"]
    /\ \A x : ParseMessage("E", <<x>>) = [kind |-> "error", text |-> x]
  <1>1. ParseMessage("R", <<5, "salt">>) = [kind |-> "auth", code |-> 5]
    BY DEF ParseMessage
  <1>2. \A c \in {0, 3} : ParseMessage("R", <<c>>) = [kind |-> "auth", code |-> c]
    BY DEF ParseMessage
  <1>3. /\ ParseMessage("S", <<"server_version", "16">>) = [kind |-> "other"]
        /\ ParseMessage("N", <<"notice">>) = [kind |-> "other"]
        /\ ParseMessage("Z", <<"I">>) = [kind |-> "ready"]
    BY DEF ParseMessage
  <1>4. \A x : ParseMessage("C", <<x>>) = [kind |-> "complete"]
    BY DEF ParseMessage
  <1>5. \A x : ParseMessage("E", <<x>>) = [kind |-> "error", text |-> x]
    BY DEF ParseMessage
  <1> QED BY <1>1, <1>2, <1>3, <1>4, <1>5

LEMMA ParsesRows ==
    ASSUME NEW v \in Stream
    PROVE  /\ ParseMessage("T", <<Len(v)>> \o v) = [kind |-> "columns", values |-> v]
           /\ ParseMessage("D", <<Len(v)>> \o v) = [kind |-> "row", values |-> v]
  <1> DEFINE n == Len(v)
             b == <<n>> \o v
             s == SubSeq(b, 2, 1 + n)
  <1>1. n \in Nat /\ <<n>> \in Stream /\ Len(<<n>>) = 1 /\ <<n>>[1] = n
    <2>1. n \in Nat
      BY DEF Stream
    <2> QED BY <2>1, Bodies
  <1>2. /\ b \in Stream /\ Len(b) = 1 + n
        /\ \A k \in 1..(1 + n) : b[k] = IF k <= 1 THEN n ELSE v[k - 1]
    <2>1. /\ b \in Stream /\ Len(b) = Len(<<n>>) + n
          /\ \A k \in 1..(Len(<<n>>) + n) :
                b[k] = IF k <= Len(<<n>>) THEN <<n>>[k] ELSE v[k - Len(<<n>>)]
      <3> HIDE DEF n
      <3> QED BY <1>1, Joined DEF n
    <2> QED BY <2>1, <1>1
  <1> HIDE DEF b
  <1>3. b # <<>> /\ b[1] = n /\ ~(Len(b) < 1 + b[1])
    BY <1>1, <1>2
  <1>4. s = v
    <2>1. s \in Stream /\ Len(s) = n /\ \A k \in 1..n : s[k] = b[k + 1]
      BY <1>1, <1>2 DEF Stream
    <2>2. \A k \in 1..n : b[k + 1] = v[k]
      BY <1>1, <1>2
    <2> HIDE DEF s
    <2> QED BY <2>1, <2>2, SeqEqual DEF Stream
  <1>5. Values(b) = v
    BY <1>3, <1>4 DEF Values
  <1>6. /\ ParseMessage("T", b) = [kind |-> "columns", values |-> v]
        /\ ParseMessage("D", b) = [kind |-> "row", values |-> v]
    BY <1>3, <1>5 DEF ParseMessage
  <1> QED BY <1>6 DEF b

-----------------------------------------------------------------------------
(* What is still to come.                                                  *)

\* The stream from the front of b on is t: what is in b, what is on the wire,
\* and what was sent and never arrives.
OwedBy(b, w, t) == \E z \in Stream : b \o (w \o z) = t

Notice  == Tagged("N", <<"notice">>)
Garbage == <<"C", 0>>

\* The same, whatever the console says of its own accord first.
Owing(b, w, t) == OwedBy(b, w, t) \/ OwedBy(b, w, Notice \o t) \/ OwedBy(b, w, Garbage \o t)

\* A message is taken whole, and the next one is what is owed then.
LEMMA Takes ==
    ASSUME buffer \in Stream, wire \in Stream,
           NEW tag \in Bytes, NEW body \in Stream, NEW tail \in Stream,
           OwedBy(buffer, wire, Tagged(tag, body) \o tail),
           NEW kind, kind \notin {"none", "malformed"}, Took(kind)
    PROVE  /\ Decode(buffer).message = ParseMessage(tag, body)
           /\ ParseMessage(tag, body).kind = kind
           /\ buffer' \in Stream /\ OwedBy(buffer', wire, tail)
  <1>1. PICK z \in Stream : buffer \o (wire \o z) = Tagged(tag, body) \o tail
    BY DEF OwedBy
  <1> DEFINE y == wire \o z
  <1>2. y \in Stream /\ buffer \o y = Tagged(tag, body) \o tail
    BY <1>1, Joined
  <1> HIDE DEF y
  <1>3. \/ Decode(buffer).message = None
        \/ Decode(buffer).message = [kind |-> "malformed"]
        \/ /\ Decode(buffer).message = ParseMessage(tag, body)
           /\ Decode(buffer).rest \in Stream
           /\ Decode(buffer).rest \o y = tail
    <2>1. Begins(buffer, y, tag, body, tail)
      BY <1>2 DEF Begins
    <2>2. InOrder(buffer, y, tag, body, tail)
      BY <1>2, <2>1, DecodesInOrder
    <2> QED BY <2>2 DEF InOrder
  <1>4. Decode(buffer).message.kind = kind /\ buffer' = Decode(buffer).rest
    BY DEF Took
  <1>5. Decode(buffer).message # None
    BY <1>4 DEF None
  <1>6. Decode(buffer).message # [kind |-> "malformed"]
    BY <1>4
  <1> QED BY <1>3, <1>4, <1>5, <1>6 DEF OwedBy, y

LEMMA GarbageStops ==
    ASSUME buffer \in Stream, wire \in Stream, NEW tail \in Stream,
           OwedBy(buffer, wire, Garbage \o tail),
           NEW kind, kind \notin {"none", "malformed"}, Took(kind)
    PROVE  FALSE
  <1>1. PICK z \in Stream : buffer \o (wire \o z) = Garbage \o tail
    BY DEF OwedBy
  <1> DEFINE y == wire \o z
  <1>2. y \in Stream /\ Len(y) \in Nat /\ Len(buffer) \in Nat /\ Len(tail) \in Nat
    BY Joined DEF Stream
  <1> HIDE DEF y
  <1>3. Garbage \in Stream /\ Len(Garbage) = 2 /\ Garbage[2] = 0
    <2>1. "C" \in Bytes /\ 0 \in Bytes
      BY Sorts, Tags
    <2> QED BY <2>1 DEF Garbage, Stream
  <1>4. Len(buffer) >= 2 => buffer[2] = 0
    <2> HAVE Len(buffer) >= 2
    <2>1. (buffer \o y)[2] = buffer[2]
      BY <1>2, Joined
    <2>2. (Garbage \o tail)[2] = 0
      <3>1. \A k \in 1..(Len(Garbage) + Len(tail)) :
              (Garbage \o tail)[k] = IF k <= Len(Garbage) THEN Garbage[k]
                                      ELSE tail[k - Len(Garbage)]
        BY <1>3, Joined
      <3>2. 2 \in 1..(Len(Garbage) + Len(tail)) /\ 2 <= Len(Garbage)
        BY <1>2, <1>3
      <3> QED BY <3>1, <3>2, <1>3
    <2> QED BY <1>1, <2>1, <2>2 DEF y
  <1>5. \/ Decode(buffer).message = None
        \/ Decode(buffer).message = [kind |-> "malformed"]
    BY <1>2, <1>4 DEF Decode
  <1> QED BY <1>5 DEF Took, None

\* Reading moves the wire's front to the buffer's end.
LEMMA Reads ==
    ASSUME buffer \in Stream, wire \in Stream, Receive
    PROVE  /\ buffer' \in Stream /\ wire' \in Stream
           /\ \A t : OwedBy(buffer, wire, t) => OwedBy(buffer', wire', t)
  <1>1. PICK n \in 1..Len(wire) :
            /\ buffer' = buffer \o SubSeq(wire, 1, n)
            /\ wire' = SubSeq(wire, n + 1, Len(wire))
    BY DEF Receive
  <1> DEFINE x == SubSeq(wire, 1, n)
             y == SubSeq(wire, n + 1, Len(wire))
  <1>2. x \in Stream /\ y \in Stream /\ x \o y = wire
    <2>1. n \in Nat /\ Len(wire) \in Nat /\ n <= Len(wire)
      BY DEF Stream
    <2>2. x \in Stream /\ Len(x) = n /\ \A k \in 1..n : x[k] = wire[k]
      BY <2>1 DEF Stream
    <2>3. /\ y \in Stream /\ Len(y) = Len(wire) - n
          /\ \A k \in 1..(Len(wire) - n) : y[k] = wire[k + n]
      BY <2>1 DEF Stream
    <2> HIDE DEF x, y
    <2>4. /\ x \o y \in Stream /\ Len(x \o y) = Len(wire)
          /\ \A k \in 1..Len(wire) : (x \o y)[k] = IF k <= n THEN x[k] ELSE y[k - n]
      <3>1. /\ x \o y \in Stream /\ Len(x \o y) = Len(x) + Len(y)
            /\ \A k \in 1..(Len(x) + Len(y)) :
                  (x \o y)[k] = IF k <= Len(x) THEN x[k] ELSE y[k - Len(x)]
        BY <2>2, <2>3, Joined
      <3>2. Len(x) + Len(y) = Len(wire)
        BY <2>1, <2>2, <2>3
      <3> QED BY <3>1, <3>2, <2>2
    <2>5. ASSUME NEW k \in 1..Len(wire) PROVE (x \o y)[k] = wire[k]
      <3>1. (x \o y)[k] = IF k <= n THEN x[k] ELSE y[k - n]
        BY <2>4
      <3>2. CASE k <= n
        BY <3>1, <3>2, <2>1, <2>2
      <3>3. CASE ~(k <= n)
        <4>1. k - n \in 1..(Len(wire) - n) /\ (k - n) + n = k
          BY <3>3, <2>1
        <4> QED BY <3>1, <3>3, <4>1, <2>3
      <3> QED BY <3>2, <3>3
    <2> DEFINE u == x \o y
    <2>6. u \in Stream /\ Len(u) = Len(wire) /\ \A k \in 1..Len(u) : u[k] = wire[k]
      BY <2>4, <2>5
    <2> HIDE DEF u
    <2>7. u = wire
      BY <2>6, SeqEqual DEF Stream
    <2> QED BY <2>2, <2>3, <2>7 DEF u
  <1> HIDE DEF x, y
  <1>3. buffer' = buffer \o x /\ wire' = y
    BY <1>1 DEF x, y
  <1>4. ASSUME NEW t, NEW z \in Stream, buffer \o (wire \o z) = t
        PROVE  buffer' \o (wire' \o z) = t
    <2>1. wire \o z = x \o (y \o z)
      <3>0. x \in Stream /\ y \in Stream
        BY <1>2
      <3>1. (x \o y) \o z = x \o (y \o z)
        BY <3>0, Regrouped
      <3> QED BY <3>1, <1>2
    <2>2. y \o z \in Stream
      BY <1>2, Joined
    <2>3. buffer \o (x \o (y \o z)) = (buffer \o x) \o (y \o z)
      <3>0. x \in Stream /\ y \o z \in Stream
        BY <1>2, <2>2
      <3> QED BY <3>0, Regrouped
    <2> QED BY <1>3, <1>4, <2>1, <2>3
  <1>5. buffer' \in Stream /\ wire' \in Stream
    BY <1>2, <1>3, Joined
  <1> QED BY <1>4, <1>5 DEF OwedBy

\* A new answer comes when nothing is owed any more.
LEMMA NothingLeft ==
    ASSUME wire \in Stream, NEW b \in Stream, OwedBy(b, wire, <<>>)
    PROVE  b = <<>> /\ wire = <<>>
  <1>1. PICK z \in Stream : b \o (wire \o z) = <<>>
    BY DEF OwedBy
  <1>2. wire \o z \in Stream
    BY Joined
  <1>3. b = <<>> /\ wire \o z = <<>>
    BY <1>1, <1>2, ConcatEqualIffEmpty DEF Stream
  <1> QED BY <1>3, ConcatEqualIffEmpty DEF Stream

LEMMA Sends ==
    ASSUME wire \in Stream, buffer' \in Stream, OwedBy(buffer', wire, <<>>),
           NEW t \in Stream, t # <<>>, Send(t)
    PROVE  wire' \in Stream /\ Owing(buffer', wire', t)
  <1>1. buffer' = <<>> /\ wire = <<>>
    BY NothingLeft
  <1>2. <<"C", 0>> \in Stream /\ Notice \in Stream /\ <<>> \in Stream
    <2>1. <<"notice">> \in Stream /\ <<>> \in Stream
      BY Bodies DEF Strings
    <2>2. "C" \in Bytes /\ 0 \in Bytes
      BY Sorts, Tags
    <2>3. <<"C", 0>> \in Stream
      BY <2>2 DEF Stream
    <2>4. Notice \in Stream
      BY <2>1, Tags, TaggedIs DEF Notice
    <2> QED BY <2>1, <2>3, <2>4
  <1>3. Faulty(t) \in Stream /\ Owing(<<>>, Faulty(t), t)
    <2>1. CASE console.fault = "closes"
      <3> DEFINE x == SubSeq(t, 1, Len(t) - 1)
                 z == <<t[Len(t)]>>
      <3>1. Len(t) \in Nat /\ Len(t) > 0
        BY DEF Stream
      <3>2. x \in Stream /\ z \in Stream /\ x \o z = t
        <4>1. /\ x \in Stream /\ Len(x) = Len(t) - 1
              /\ \A k \in 1..(Len(t) - 1) : x[k] = t[k]
          <5>1. \A k \in 1..(Len(t) - 1) : t[k] \in Bytes
            BY <3>1 DEF Stream
          <5>2. /\ x \in Stream
                /\ Len(x) = IF 1 <= Len(t) - 1 THEN ((Len(t) - 1) - 1) + 1 ELSE 0
                /\ \A k \in 1..(((Len(t) - 1) - 1) + 1) : x[k] = t[(1 + k) - 1]
            BY <3>1, <5>1, SubSeqProperties DEF Stream
          <5> HIDE DEF x
          <5>3. /\ (IF 1 <= Len(t) - 1 THEN ((Len(t) - 1) - 1) + 1 ELSE 0) = Len(t) - 1
                /\ \A k \in 1..(Len(t) - 1) : (1 + k) - 1 = k /\ k \in 1..(((Len(t) - 1) - 1) + 1)
            <6> DEFINE n == Len(t)
            <6>1. n \in Nat /\ n > 0
              BY <3>1
            <6> HIDE DEF n
            <6>2. (IF 1 <= n - 1 THEN ((n - 1) - 1) + 1 ELSE 0) = n - 1
              BY <6>1
            <6>3. \A k \in 1..(n - 1) : (1 + k) - 1 = k /\ k \in 1..(((n - 1) - 1) + 1)
              BY <6>1
            <6> QED BY <6>2, <6>3 DEF n
          <5> QED BY <5>2, <5>3
        <4>2. z \in Stream /\ Len(z) = 1 /\ z[1] = t[Len(t)]
          BY <3>1 DEF Stream
        <4> HIDE DEF x, z
        <4>3. /\ x \o z \in Stream /\ Len(x \o z) = Len(t)
              /\ \A k \in 1..Len(t) :
                   (x \o z)[k] = IF k <= Len(t) - 1 THEN x[k] ELSE z[k - (Len(t) - 1)]
          <5>1. /\ x \o z \in Stream /\ Len(x \o z) = Len(x) + Len(z)
                /\ \A k \in 1..(Len(x) + Len(z)) :
                     (x \o z)[k] = IF k <= Len(x) THEN x[k] ELSE z[k - Len(x)]
            BY <4>1, <4>2, Joined
          <5>2. Len(x) + Len(z) = Len(t)
            BY <3>1, <4>1, <4>2
          <5> QED BY <5>1, <5>2, <4>1
        <4>4. ASSUME NEW k \in 1..Len(t) PROVE (x \o z)[k] = t[k]
          <5>1. CASE k <= Len(t) - 1
            BY <5>1, <4>1, <4>3, <3>1
          <5>2. CASE ~(k <= Len(t) - 1)
            <6>1. k = Len(t) /\ k - (Len(t) - 1) = 1
              BY <5>2, <3>1
            <6> QED BY <6>1, <5>2, <4>2, <4>3
          <5> QED BY <5>1, <5>2
        <4> DEFINE u == x \o z
        <4>5. u \in Stream /\ Len(u) = Len(t) /\ \A k \in 1..Len(u) : u[k] = t[k]
          BY <4>3, <4>4
        <4> HIDE DEF u
        <4>6. u = t
          BY <4>5, SeqEqual DEF Stream
        <4> QED BY <4>1, <4>2, <4>6 DEF u
      <3>3. Faulty(t) = x
        BY <2>1 DEF Faulty
      <3> HIDE DEF x, z
      <3>4. <<>> \o (x \o z) = t
        BY <3>2, ConcatEmptySeq DEF Stream
      <3> QED BY <3>2, <3>3, <3>4 DEF Owing, OwedBy
    <2>2. CASE console.fault = "silent"
      <3>1. Faulty(t) = <<>>
        BY <2>2 DEF Faulty
      <3>2. <<>> \o (<<>> \o t) = t
        BY ConcatEmptySeq DEF Stream
      <3> QED BY <1>2, <3>1, <3>2 DEF Owing, OwedBy
    <2>3. CASE console.fault = "garbled"
      <3>1. Faulty(t) = Garbage \o t
        BY <2>3 DEF Faulty, Garbage
      <3>2. Garbage \o t \in Stream
        BY <1>2, Joined DEF Garbage
      <3>3. <<>> \o ((Garbage \o t) \o <<>>) = Garbage \o t
        BY <3>2, ConcatEmptySeq DEF Stream
      <3> QED BY <1>2, <3>1, <3>2, <3>3 DEF Owing, OwedBy
    <2>4. CASE console.fault = "chatty"
      <3>1. Faulty(t) = Notice \o t
        BY <2>4 DEF Faulty, Notice
      <3>2. Notice \o t \in Stream
        BY <1>2, Joined
      <3>3. <<>> \o ((Notice \o t) \o <<>>) = Notice \o t
        BY <3>2, ConcatEmptySeq DEF Stream
      <3> QED BY <1>2, <3>1, <3>2, <3>3 DEF Owing, OwedBy
    <2>5. CASE console.fault \notin {"closes", "silent", "garbled", "chatty"}
      <3>1. Faulty(t) = t
        BY <2>5 DEF Faulty
      <3>2. <<>> \o (t \o <<>>) = t
        BY ConcatEmptySeq DEF Stream
      <3> QED BY <1>2, <3>1, <3>2 DEF Owing, OwedBy
    <2> QED BY <2>1, <2>2, <2>3, <2>4, <2>5
  <1>4. wire' = Faulty(t)
    <2>1. wire' = <<>> \o Faulty(t)
      BY <1>1 DEF Send
    <2> QED BY <2>1, <1>3, ConcatEmptySeq DEF Stream
  <1> QED BY <1>1, <1>3, <1>4

-----------------------------------------------------------------------------
(* Logging in.                                                             *)

LEMMA TakesLast ==
    ASSUME buffer \in Stream, wire \in Stream,
           NEW tag \in Bytes, NEW body \in Stream,
           OwedBy(buffer, wire, Tagged(tag, body)),
           NEW kind, kind \notin {"none", "malformed"}, Took(kind)
    PROVE  /\ Decode(buffer).message = ParseMessage(tag, body)
           /\ ParseMessage(tag, body).kind = kind
           /\ buffer' \in Stream /\ OwedBy(buffer', wire, <<>>)
  <1>1. Tagged(tag, body) \o <<>> = Tagged(tag, body)
    BY TaggedIs, ConcatEmptySeq DEF Stream
  <1>2. OwedBy(buffer, wire, Tagged(tag, body) \o <<>>)
    BY <1>1
  <1>3. <<>> \in Stream
    BY Bodies
  <1> QED BY <1>2, <1>3, Takes

LEMMA NothingTaken ==
    ASSUME buffer \in Stream, wire \in Stream, OwedBy(buffer, wire, <<>>),
           NEW kind, kind # "none", Took(kind)
    PROVE  FALSE
  <1>1. buffer = <<>>
    BY NothingLeft
  <1>2. Decode(buffer).message = None
    BY <1>1 DEF Decode
  <1> QED BY <1>2 DEF Took, None

LoginStreams ==
    {AuthRequest(5), AuthRequest(3), AuthRequest(0) \o (Status \o Ready),
     Status \o Ready, Ready, Error("password"), <<>>}

LEMMA Words ==
    /\ AuthRequest(5) = Tagged("R", <<5, "salt">>)
    /\ \A c \in {0, 3} : AuthRequest(c) = Tagged("R", <<c>>) /\ <<c>> \in Stream
    /\ Status = Tagged("S", <<"server_version", "16">>)
    /\ Ready = Tagged("Z", <<"I">>) /\ <<"I">> \in Stream
    /\ \A x : Error(x) = Tagged("E", <<x>>) /\ CommandComplete(x) = Tagged("C", <<x>>)
    /\ Status \in Stream /\ Ready \in Stream /\ AuthRequest(0) \in Stream
    /\ AuthRequest(3) \in Stream /\ AuthRequest(5) \in Stream
    /\ Error("password") \in Stream /\ Notice \in Stream /\ Ready # <<>>
  <1>1. /\ AuthRequest(5) = Tagged("R", <<5, "salt">>)
        /\ \A c \in {0, 3} : AuthRequest(c) = Tagged("R", <<c>>)
        /\ Status = Tagged("S", <<"server_version", "16">>)
        /\ Ready = Tagged("Z", <<"I">>)
        /\ \A x : Error(x) = Tagged("E", <<x>>) /\ CommandComplete(x) = Tagged("C", <<x>>)
    BY DEF AuthRequest, Status, Ready, Error, CommandComplete
  <1>2. \A x \in {"I", "password", "notice"} : <<x>> \in Stream
    <2>1. \A x \in {"I", "password", "notice"} : x \in Strings
      BY DEF Strings
    <2> QED BY <2>1, Bodies
  <1>3. \A c \in {0, 3} : <<c>> \in Stream
    <2>1. \A c \in {0, 3} : c \in Int
      OBVIOUS
    <2> QED BY <2>1, Bodies
  <1>4. Status \in Stream
    BY <1>1, Bodies, Tags, TaggedIs
  <1>5. Ready \in Stream /\ Len(Ready) = 3
    <2>1. /\ Tagged("Z", <<"I">>) \in Stream
          /\ Len(Tagged("Z", <<"I">>)) = Len(<<"I">>) + 2
      <3>1. <<"I">> \in Stream /\ "Z" \in Bytes
        BY <1>2, Tags
      <3> QED BY <3>1, TaggedIs
    <2>2. Len(<<"I">>) = 1
      OBVIOUS
    <2> QED BY <1>1, <2>1, <2>2
  <1>6. AuthRequest(5) \in Stream
    BY <1>1, Bodies, Tags, TaggedIs
  <1>7. AuthRequest(0) \in Stream /\ AuthRequest(3) \in Stream
    BY <1>1, <1>3, Tags, TaggedIs
  <1>8. Error("password") \in Stream /\ Notice \in Stream
    BY <1>1, <1>2, Tags, TaggedIs DEF Notice
  <1>9. Ready # <<>>
    BY <1>5
  <1> QED BY <1>1, <1>2, <1>3, <1>4, <1>5, <1>6, <1>7, <1>8, <1>9

LEMMA LoginTakes ==
    ASSUME buffer \in Stream, wire \in Stream, NEW t \in LoginStreams,
           OwedBy(buffer, wire, t),
           NEW kind \in {"auth", "error", "other", "ready"}, Took(kind)
    PROVE  /\ buffer' \in Stream
           /\ \/ /\ kind = "auth" /\ Decode(buffer).message.code = 5
                 /\ OwedBy(buffer', wire, <<>>)
              \/ kind = "auth" /\ Decode(buffer).message.code = 3
              \/ /\ kind = "auth" /\ Decode(buffer).message.code = 0
                 /\ OwedBy(buffer', wire, Status \o Ready)
              \/ kind = "other" /\ OwedBy(buffer', wire, Ready)
              \/ kind = "ready" /\ OwedBy(buffer', wire, <<>>)
              \/ kind = "error"
  <1>0. kind \notin {"none", "malformed"}
    OBVIOUS
  <1>1. CASE t = AuthRequest(5)
    <2>1. /\ Decode(buffer).message = ParseMessage("R", <<5, "salt">>)
          /\ ParseMessage("R", <<5, "salt">>).kind = kind
          /\ buffer' \in Stream /\ OwedBy(buffer', wire, <<>>)
      BY <1>0, <1>1, Words, Bodies, Tags, TakesLast
    <2> QED BY <2>1, ParsesWords
  <1>2. CASE t = AuthRequest(3)
    <2>1. /\ Decode(buffer).message = ParseMessage("R", <<3>>)
          /\ ParseMessage("R", <<3>>).kind = kind
          /\ buffer' \in Stream
      BY <1>0, <1>2, Words, Tags, TakesLast
    <2> QED BY <2>1, ParsesWords
  <1>3. CASE t = AuthRequest(0) \o (Status \o Ready)
    <2> DEFINE tail == Status \o Ready
    <2>1. tail \in Stream
      BY Words, Joined
    <2>2. OwedBy(buffer, wire, Tagged("R", <<0>>) \o tail)
      BY <1>3, Words
    <2> HIDE DEF tail
    <2>3. /\ Decode(buffer).message = ParseMessage("R", <<0>>)
          /\ ParseMessage("R", <<0>>).kind = kind
          /\ buffer' \in Stream /\ OwedBy(buffer', wire, tail)
      BY <1>0, <2>1, <2>2, Words, Tags, Takes
    <2> QED BY <2>3, ParsesWords DEF tail
  <1>4. CASE t = Status \o Ready
    <2>1. OwedBy(buffer, wire, Tagged("S", <<"server_version", "16">>) \o Ready)
      BY <1>4, Words
    <2>2. /\ ParseMessage("S", <<"server_version", "16">>).kind = kind
          /\ buffer' \in Stream /\ OwedBy(buffer', wire, Ready)
      BY <1>0, <2>1, Words, Bodies, Tags, Takes
    <2> QED BY <2>2, ParsesWords
  <1>5. CASE t = Ready
    <2>1. /\ ParseMessage("Z", <<"I">>).kind = kind
          /\ buffer' \in Stream /\ OwedBy(buffer', wire, <<>>)
      BY <1>0, <1>5, Words, Tags, TakesLast
    <2> QED BY <2>1, ParsesWords
  <1>6. CASE t = Error("password")
    <2>1. <<"password">> \in Stream
      BY Bodies DEF Strings
    <2>2. /\ ParseMessage("E", <<"password">>).kind = kind
          /\ buffer' \in Stream
      BY <1>0, <1>6, <2>1, Words, Tags, TakesLast
    <2>3. ParseMessage("E", <<"password">>) = [kind |-> "error", text |-> "password"]
      BY ParsesWords
    <2> QED BY <2>2, <2>3
  <1>7. CASE t = <<>>
    BY <1>0, <1>7, NothingTaken
  <1> QED BY <1>1, <1>2, <1>3, <1>4, <1>5, <1>6, <1>7 DEF LoginStreams

-----------------------------------------------------------------------------
(* The answer to a verb.                                                   *)

\* What the agent is told of a pool.
Verdict(p) ==
    CASE console.pool[p] = "ok"      -> "none"
      [] console.pool[p] = "missing" -> "No pool for database"
      [] OTHER                       -> "out of memory"

\* The message that says it.
Says(p) == IF console.pool[p] = "ok" THEN CommandComplete("PAUSE") ELSE Error(Verdict(p))

LEMMA AnswerIs ==
    ASSUME NEW p
    PROVE  /\ AnswerTo(p) = Says(p) \o Ready
           /\ Says(p) \in Stream /\ AnswerTo(p) \in Stream /\ AnswerTo(p) # <<>>
           /\ Verdict(p) \in Strings
           /\ <<Verdict(p)>> \in Stream /\ <<"PAUSE">> \in Stream
  <1>1. AnswerTo(p) = Says(p) \o Ready
    BY DEF AnswerTo, Says, Verdict
  <1>2. Verdict(p) \in Strings
    BY DEF Verdict, Strings
  <1>3. "PAUSE" \in Strings
    BY DEF Strings
  <1>4. <<Verdict(p)>> \in Stream /\ <<"PAUSE">> \in Stream
    BY <1>2, <1>3, Bodies
  <1>5. Says(p) \in Stream
    BY <1>4, Tags, TaggedIs, Words DEF Says
  <1>6. AnswerTo(p) \in Stream
    BY <1>1, <1>5, Words, Joined
  <1>7. AnswerTo(p) # <<>>
    <2>1. Says(p) \o Ready = <<>> => Ready = <<>>
      BY <1>5, Words, ConcatEqualIffEmpty DEF Stream
    <2> QED BY <1>1, <2>1, Words
  <1> QED BY <1>1, <1>2, <1>4, <1>5, <1>6, <1>7

LEMMA NoticeTaken ==
    ASSUME buffer \in Stream, wire \in Stream, NEW t \in Stream,
           OwedBy(buffer, wire, Notice \o t),
           NEW kind, kind \notin {"none", "malformed"}, Took(kind)
    PROVE  kind = "other" /\ buffer' \in Stream /\ OwedBy(buffer', wire, t)
  <1>1. <<"notice">> \in Stream
    BY Bodies DEF Strings
  <1>2. OwedBy(buffer, wire, Tagged("N", <<"notice">>) \o t)
    BY DEF Notice
  <1>3. /\ ParseMessage("N", <<"notice">>).kind = kind
        /\ buffer' \in Stream /\ OwedBy(buffer', wire, t)
    BY <1>1, <1>2, Tags, Takes
  <1> QED BY <1>3, ParsesWords

LEMMA ReadyTaken ==
    ASSUME buffer \in Stream, wire \in Stream, OwedBy(buffer, wire, Ready),
           NEW kind, kind \notin {"none", "malformed"}, Took(kind)
    PROVE  kind = "ready" /\ buffer' \in Stream /\ OwedBy(buffer', wire, <<>>)
  <1>1. /\ ParseMessage("Z", <<"I">>).kind = kind
        /\ buffer' \in Stream /\ OwedBy(buffer', wire, <<>>)
    BY Words, Tags, TakesLast
  <1> QED BY <1>1, ParsesWords

LEMMA VerbTakes ==
    ASSUME buffer \in Stream, wire \in Stream, NEW p,
           Owing(buffer, wire, AnswerTo(p)),
           NEW kind, kind \notin {"none", "malformed"}, Took(kind)
    PROVE  /\ buffer' \in Stream
           /\ \/ kind = "other" /\ OwedBy(buffer', wire, AnswerTo(p))
              \/ /\ kind = "complete" /\ Verdict(p) = "none"
                 /\ OwedBy(buffer', wire, Ready)
              \/ /\ kind = "error" /\ Decode(buffer).message.text = Verdict(p)
                 /\ OwedBy(buffer', wire, Ready)
  <1>1. AnswerTo(p) \in Stream
    BY AnswerIs
  <1>2. CASE OwedBy(buffer, wire, Garbage \o AnswerTo(p))
    BY <1>1, <1>2, GarbageStops
  <1>3. CASE OwedBy(buffer, wire, Notice \o AnswerTo(p))
    BY <1>1, <1>3, NoticeTaken
  <1>4. CASE OwedBy(buffer, wire, AnswerTo(p)) /\ console.pool[p] = "ok"
    <2>1. OwedBy(buffer, wire, Tagged("C", <<"PAUSE">>) \o Ready)
      BY <1>4, AnswerIs, Words DEF Says
    <2>2. /\ ParseMessage("C", <<"PAUSE">>).kind = kind
          /\ buffer' \in Stream /\ OwedBy(buffer', wire, Ready)
      BY <2>1, AnswerIs, Words, Tags, Takes
    <2> QED BY <1>4, <2>2, ParsesWords DEF Verdict
  <1>5. CASE OwedBy(buffer, wire, AnswerTo(p)) /\ console.pool[p] # "ok"
    <2>1. OwedBy(buffer, wire, Tagged("E", <<Verdict(p)>>) \o Ready)
      BY <1>5, AnswerIs, Words DEF Says
    <2>2. /\ Decode(buffer).message = ParseMessage("E", <<Verdict(p)>>)
          /\ ParseMessage("E", <<Verdict(p)>>).kind = kind
          /\ buffer' \in Stream /\ OwedBy(buffer', wire, Ready)
      BY <2>1, AnswerIs, Words, Tags, Takes
    <2>3. ParseMessage("E", <<Verdict(p)>>) = [kind |-> "error", text |-> Verdict(p)]
      BY ParsesWords
    <2> QED BY <2>2, <2>3
  <1> QED BY <1>2, <1>3, <1>4, <1>5 DEF Owing

-----------------------------------------------------------------------------
(* The answer to SHOW POOLS.                                               *)

CellsOf(p) == [k \in DOMAIN console.layout |-> Cell(p, console.layout[k])]

\* g[k] is what follows the rows of the pools before the k-th.
RowsAre(g) ==
    \A k \in 1..(Last + 1) :
        g[k] = IF k > Last THEN CommandComplete("SHOW") \o Ready
               ELSE Row("D", CellsOf(PoolNames[k])) \o g[k + 1]

LEMMA CellsAre ==
    ASSUME console \in ConsoleType, NEW p \in NamesOfPools
    PROVE  CellsOf(p) \in Stream /\ <<Len(CellsOf(p))>> \o CellsOf(p) \in Stream
           /\ Row("D", CellsOf(p)) \in Stream
  <1>1. console.layout \in Layouts
    BY DEF ConsoleType
  <1>2. Len(console.layout) \in Nat /\ DOMAIN console.layout = 1..Len(console.layout)
    BY <1>1, Sorts
  <1>3. \A c : Cell(p, c) \in Bytes
    <2>1. \A x \in {"0", "1", "9"} : x \in Strings
      BY DEF Strings
    <2>2. \A x \in {"0", "1", "9"} : x \in Bytes
      BY <2>1, Sorts
    <2>3. p \in Bytes
      BY Sorts
    <2> QED BY <2>2, <2>3 DEF Cell
  <1>4. CellsOf(p) \in [1..Len(console.layout) -> Bytes]
    BY <1>2, <1>3 DEF CellsOf
  <1>5. CellsOf(p) \in Stream
    BY <1>2, <1>4, SeqDef DEF Stream
  <1>6. <<Len(CellsOf(p))>> \o CellsOf(p) \in Stream
    BY <1>5, Bodies
  <1>7. Row("D", CellsOf(p)) \in Stream
    BY <1>6, Tags, TaggedIs DEF Row
  <1> QED BY <1>5, <1>6, <1>7

LEMMA Complete ==
    /\ <<"SHOW">> \in Stream /\ CommandComplete("SHOW") = Tagged("C", <<"SHOW">>)
    /\ CommandComplete("SHOW") \in Stream
    /\ CommandComplete("SHOW") \o Ready \in Stream
  <1>1. "SHOW" \in Strings
    BY DEF Strings
  <1>2. <<"SHOW">> \in Stream
    BY <1>1, Bodies
  <1>3. CommandComplete("SHOW") = Tagged("C", <<"SHOW">>)
    BY Words
  <1>4. CommandComplete("SHOW") \in Stream
    BY <1>2, <1>3, Tags, TaggedIs
  <1> QED BY <1>2, <1>3, <1>4, Words, Joined

\* The definition by recursion says what it should.
LEMMA RowsFromAre ==
    ASSUME console \in ConsoleType
    PROVE  RowsFrom \in [1..(Last + 1) -> Stream] /\ RowsAre(RowsFrom)
  <1> DEFINE last == CommandComplete("SHOW") \o Ready
             row == [k \in 1..Last |-> Row("D", CellsOf(PoolNames[k]))]
             Follows(g) == [k \in 1..(Last + 1) |->
                               IF k > Last THEN last
                               ELSE PoolRowOf(PoolNames[k]) \o g[k + 1]]
  <1>1. Last \in Nat /\ \A k \in 1..Last : PoolNames[k] \in NamesOfPools
    BY Pools
  <1>2. row \in [1..Last -> Stream]
    BY <1>1, CellsAre
  <1>3. last \in Stream
    BY Complete
  <1>4. \A k \in 1..Last : row[k] = PoolRowOf(PoolNames[k])
    BY DEF PoolRowOf, CellsOf
  <1> HIDE DEF last, row
  <1>5. PICK g \in [1..(Last + 1) -> Stream] :
            \A k \in 1..(Last + 1) : g[k] = IF k > Last THEN last ELSE row[k] \o g[k + 1]
    <2>1. row \in [1..Last -> Seq(Bytes)] /\ last \in Seq(Bytes)
      BY <1>2, <1>3 DEF Stream
    <2>2. \E g \in [1..(Last + 1) -> Seq(Bytes)] : Unrolled(g, Last, row, last)
      BY <1>1, <2>1, Unrolling
    <2> QED BY <2>2 DEF Stream, Unrolled
  <1>6. \A k \in 1..(Last + 1) :
            g[k] = IF k > Last THEN last ELSE PoolRowOf(PoolNames[k]) \o g[k + 1]
    <2> TAKE k \in 1..(Last + 1)
    <2>1. CASE k > Last
      BY <2>1, <1>5
    <2>2. CASE ~(k > Last)
      <3>1. k \in 1..Last
        BY <2>2, <1>1
      <3> QED BY <2>2, <3>1, <1>4, <1>5
    <2> QED BY <2>1, <2>2
  <1>7. g = Follows(g)
    BY <1>5, <1>6
  <1>8. RowsFrom = CHOOSE f : f = Follows(f)
    BY DEF RowsFrom, Last, last
  <1>9. RowsFrom = Follows(RowsFrom)
    <2> HIDE DEF Follows
    <2> QED BY <1>7, <1>8
  <1>10. \A k \in 1..(Last + 1) :
             RowsFrom[k] = IF k > Last THEN last
                           ELSE Row("D", CellsOf(PoolNames[k])) \o RowsFrom[k + 1]
    <2> SUFFICES ASSUME NEW k \in 1..(Last + 1)
                 PROVE  RowsFrom[k] = IF k > Last THEN last
                           ELSE Row("D", CellsOf(PoolNames[k])) \o RowsFrom[k + 1]
      OBVIOUS
    <2>1. Row("D", CellsOf(PoolNames[k])) = PoolRowOf(PoolNames[k])
      BY DEF PoolRowOf, CellsOf
    <2>2. Follows(RowsFrom)[k] = IF k > Last THEN last
                                 ELSE PoolRowOf(PoolNames[k]) \o RowsFrom[k + 1]
      OBVIOUS
    <2> HIDE DEF Follows
    <2> QED BY <1>9, <2>1, <2>2
  <1>11. \A k \in 1..(Last + 1) : RowsFrom[k] \in Stream
    <2> DEFINE S == {i \in Nat : i <= Last => RowsFrom[(Last + 1) - i] \in Stream}
    <2>1. 0 \in S
      <3>1. (Last + 1) - 0 = Last + 1 /\ Last + 1 \in 1..(Last + 1) /\ Last + 1 > Last
        BY <1>1
      <3>2. RowsFrom[Last + 1] = last
        BY <3>1, <1>10
      <3> QED BY <3>1, <3>2, <1>3
    <2>2. ASSUME NEW i \in Nat, i \in S PROVE i + 1 \in S
      <3> SUFFICES ASSUME i + 1 <= Last PROVE RowsFrom[(Last + 1) - (i + 1)] \in Stream
        OBVIOUS
      <3> DEFINE k == (Last + 1) - (i + 1)
      <3>1. k \in 1..Last /\ k \in 1..(Last + 1) /\ ~(k > Last) /\ k + 1 = (Last + 1) - i
        BY <1>1
      <3>2. RowsFrom[k + 1] \in Stream
        BY <2>2, <3>1, <1>1
      <3> HIDE DEF k
      <3>3. RowsFrom[k] = Row("D", CellsOf(PoolNames[k])) \o RowsFrom[k + 1]
        BY <3>1, <1>10
      <3>4. Row("D", CellsOf(PoolNames[k])) \in Stream
        BY <3>1, <1>1, CellsAre
      <3>5. RowsFrom[k] \in Stream
        BY <3>2, <3>3, <3>4, Joined
      <3> QED BY <3>5 DEF k
    <2>3. \A i \in Nat : i \in S
      <3> HIDE DEF S
      <3> QED BY <2>1, <2>2, Induction
    <2> TAKE k \in 1..(Last + 1)
    <2>4. (Last + 1) - k \in Nat /\ (Last + 1) - k <= Last /\ (Last + 1) - ((Last + 1) - k) = k
      BY <1>1
    <2>5. (Last + 1) - k \in S
      BY <2>3, <2>4
    <2> QED BY <2>4, <2>5
  <1>12. RowsFrom = [k \in 1..(Last + 1) |-> RowsFrom[k]]
    <2>1. Follows(RowsFrom) = [k \in 1..(Last + 1) |-> Follows(RowsFrom)[k]]
      OBVIOUS
    <2> HIDE DEF Follows
    <2> QED BY <1>9, <2>1
  <1>13. RowsAre(RowsFrom)
    BY <1>10 DEF RowsAre, last
  <1> QED BY <1>11, <1>12, <1>13

LEMMA LayoutIs ==
    ASSUME console \in ConsoleType
    PROVE  /\ console.layout \in Stream
           /\ <<Len(console.layout)>> \o console.layout \in Stream
           /\ Row("T", console.layout) \in Stream
  <1>1. console.layout \in Layouts
    BY DEF ConsoleType
  <1>2. console.layout \in Stream
    BY <1>1, Sorts DEF Stream
  <1>3. <<Len(console.layout)>> \o console.layout \in Stream
    BY <1>2, Bodies
  <1> QED BY <1>2, <1>3, Tags, TaggedIs DEF Row

LEMMA ColumnsTaken ==
    ASSUME console \in ConsoleType, buffer \in Stream, wire \in Stream,
           NEW t \in Stream, Owing(buffer, wire, Row("T", console.layout) \o t),
           NEW kind, kind \notin {"none", "malformed"}, Took(kind)
    PROVE  /\ buffer' \in Stream
           /\ \/ /\ kind = "other"
                 /\ OwedBy(buffer', wire, Row("T", console.layout) \o t)
              \/ /\ kind = "columns" /\ Decode(buffer).message.values = console.layout
                 /\ OwedBy(buffer', wire, t)
  <1> DEFINE s == Row("T", console.layout) \o t
  <1>1. s \in Stream
    BY LayoutIs, Joined
  <1>2. CASE OwedBy(buffer, wire, Garbage \o s)
    <2> HIDE DEF s
    <2> QED BY <1>1, <1>2, GarbageStops
  <1>3. CASE OwedBy(buffer, wire, Notice \o s)
    <2> HIDE DEF s
    <2>1. kind = "other" /\ buffer' \in Stream /\ OwedBy(buffer', wire, s)
      BY <1>1, <1>3, NoticeTaken
    <2> QED BY <2>1 DEF s
  <1>4. CASE OwedBy(buffer, wire, s)
    <2> DEFINE body == <<Len(console.layout)>> \o console.layout
    <2>1. OwedBy(buffer, wire, Tagged("T", body) \o t) /\ body \in Stream
      BY <1>4, LayoutIs DEF Row
    <2>2. ParseMessage("T", body) = [kind |-> "columns", values |-> console.layout]
      BY LayoutIs, ParsesRows
    <2> HIDE DEF body
    <2>3. /\ Decode(buffer).message = ParseMessage("T", body)
          /\ ParseMessage("T", body).kind = kind
          /\ buffer' \in Stream /\ OwedBy(buffer', wire, t)
      BY <2>1, Tags, Takes
    <2> QED BY <2>2, <2>3
  <1> QED BY <1>2, <1>3, <1>4 DEF Owing

LEMMA RowTaken ==
    ASSUME console \in ConsoleType, buffer \in Stream, wire \in Stream,
           NEW g \in [1..(Last + 1) -> Stream], RowsAre(g),
           NEW j \in 0..Last, OwedBy(buffer, wire, g[j + 1]),
           NEW kind, kind \notin {"none", "malformed"}, Took(kind)
    PROVE  /\ buffer' \in Stream
           /\ \/ /\ j < Last /\ kind = "row"
                 /\ Decode(buffer).message.values = CellsOf(PoolNames[j + 1])
                 /\ OwedBy(buffer', wire, g[j + 2])
              \/ j = Last /\ kind = "complete" /\ OwedBy(buffer', wire, Ready)
  <1>1. CASE j < Last
    <2>1. j + 1 \in 1..Last /\ j + 1 \in 1..(Last + 1) /\ ~(j + 1 > Last)
          /\ (j + 1) + 1 = j + 2 /\ j + 2 \in 1..(Last + 1)
      BY <1>1, Pools
    <2> DEFINE cells == CellsOf(PoolNames[j + 1])
               body == <<Len(cells)>> \o cells
               t == g[j + 2]
    <2>2. g[j + 1] = Row("D", cells) \o t
      BY <2>1 DEF RowsAre
    <2>3. cells \in Stream /\ body \in Stream /\ t \in Stream
      BY <2>1, Pools, CellsAre
    <2> HIDE DEF cells, t
    <2>4. ParseMessage("D", body) = [kind |-> "row", values |-> cells]
      BY <2>3, ParsesRows
    <2>5. OwedBy(buffer, wire, Tagged("D", body) \o t)
      BY <2>2 DEF Row
    <2> HIDE DEF body
    <2>6. /\ Decode(buffer).message = ParseMessage("D", body)
          /\ ParseMessage("D", body).kind = kind
          /\ buffer' \in Stream /\ OwedBy(buffer', wire, t)
      BY <2>3, <2>5, Tags, Takes
    <2> QED BY <1>1, <2>4, <2>6 DEF cells, t
  <1>2. CASE j = Last
    <2>1. g[j + 1] = CommandComplete("SHOW") \o Ready
      <3>1. j + 1 \in 1..(Last + 1) /\ j + 1 > Last
        BY <1>2, Pools
      <3> QED BY <3>1 DEF RowsAre
    <2>2. OwedBy(buffer, wire, Tagged("C", <<"SHOW">>) \o Ready)
      BY <2>1, Complete
    <2>3. /\ ParseMessage("C", <<"SHOW">>).kind = kind
          /\ buffer' \in Stream /\ OwedBy(buffer', wire, Ready)
      BY <2>2, Complete, Words, Tags, Takes
    <2>4. ParseMessage("C", <<"SHOW">>) = [kind |-> "complete"]
      BY ParsesWords
    <2> QED BY <1>2, <2>3, <2>4
  <1>3. j < Last \/ j = Last
    BY Pools
  <1> QED BY <1>1, <1>2, <1>3

-----------------------------------------------------------------------------
(* The inductive invariant: where the conversation stands, and that what   *)
(* is still to come is the rest of the answer to the command it is at.     *)

Typed ==
    /\ task \in [work : {"verbs", "show"}, in : {"idle", "login", "command", "done"}]
    /\ buffer \in Stream /\ wire \in Stream
    /\ result \in [columns : Stream, rows : Seq(Stream), failure : Strings]
    /\ task.in # "idle" => console \in ConsoleType

\* No command was sent yet.
Unused == turn = 0 /\ result = NoResult /\ applied = {} /\ reply = NoReply

VerbUnderWay ==
    /\ turn \in 1..Last /\ reply = NoReply
    /\ applied = OfKind("ok", Before(turn)) /\ OfKind("error", Before(turn)) = {}
    /\ \/ result.failure = "none" /\ Owing(buffer, wire, AnswerTo(PoolNames[turn]))
       \/ result.failure = Verdict(PoolNames[turn]) /\ OwedBy(buffer, wire, Ready)

Collected(j) ==
    /\ result.columns = console.layout
    /\ result.rows = [k \in 1..j |-> CellsOf(PoolNames[k])]

ShowUnderWay ==
    /\ turn = 1 /\ reply = NoReply /\ result.failure = "none"
    /\ \E g \in [1..(Last + 1) -> Stream] :
        /\ RowsAre(g)
        /\ \/ /\ result.rows = <<>>
              /\ Owing(buffer, wire, Row("T", console.layout) \o g[1])
           \/ \E j \in 0..Last : Collected(j) /\ OwedBy(buffer, wire, g[j + 1])
           \/ Collected(Last) /\ OwedBy(buffer, wire, Ready)

Conversation ==
    /\ task.in = "idle" => Unused /\ buffer = <<>> /\ wire = <<>>
    /\ task.in = "login" => Unused /\ \E t \in LoginStreams : OwedBy(buffer, wire, t)
    /\ task.in = "command" /\ task.work = "verbs" => VerbUnderWay
    /\ task.in = "command" /\ task.work = "show" => ShowUnderWay
    /\ task.in = "done" => AnswersItsCommand

IInv == Typed /\ Conversation

LEMMA ConversationHolds == IInv => AnswersItsCommand
  <1> SUFFICES ASSUME IInv PROVE AnswersItsCommand
    OBVIOUS
  <1>1. CASE task.in = "done"
    BY <1>1 DEF IInv, Conversation
  <1>2. CASE task.in # "done"
    <2>1. reply = NoReply
      BY <1>2 DEF IInv, Typed, Conversation, Unused, VerbUnderWay, ShowUnderWay
    <2> QED BY <2>1 DEF AnswersItsCommand, NoReply
  <1> QED BY <1>1, <1>2

LEMMA Starts == ConsoleInit => IInv
  <1> SUFFICES ASSUME ConsoleInit PROVE IInv
    OBVIOUS
  <1>1. <<>> \in Stream /\ <<>> \in Seq(Stream) /\ "none" \in Strings
    BY Bodies, EmptySeq DEF Strings
  <1>2. result \in [columns : Stream, rows : Seq(Stream), failure : Strings]
    BY <1>1 DEF ConsoleInit, NoResult
  <1>3. Typed
    BY <1>1, <1>2 DEF ConsoleInit, Typed, NoTask
  <1>4. Conversation
    BY DEF ConsoleInit, Conversation, NoTask, Unused
  <1> QED BY <1>3, <1>4 DEF IInv

-----------------------------------------------------------------------------
(* One lemma for each action.                                              *)

LEMMA Blank == NoResult \in [columns : Stream, rows : Seq(Stream), failure : Strings]
  <1>1. <<>> \in Stream /\ <<>> \in Seq(Stream) /\ "none" \in Strings
    BY Bodies, EmptySeq DEF Strings
  <1> QED BY <1>1 DEF NoResult

\* What was agreed to be owed before the first byte moves is owed on the wire.
LEMMA AllSent ==
    ASSUME NEW t \in Stream
    PROVE  OwedBy(<<>>, t, t)
  <1>1. <<>> \in Stream /\ t \o <<>> = t /\ <<>> \o t = t
    BY Bodies, ConcatEmptySeq DEF Stream
  <1>2. <<>> \o (t \o <<>>) = t
    BY <1>1
  <1> QED BY <1>1, <1>2 DEF OwedBy

LEMMA OpenStep ==
    ASSUME IInv, OpenConsole
    PROVE  IInv'
  <1>1. console'.method \in {5, 3} /\ console' \in ConsoleType
    BY DEF OpenConsole, ConsoleType
  <1>2. buffer = <<>> /\ Unused
    BY DEF IInv, Conversation, OpenConsole
  <1> DEFINE t == AuthRequest(console'.method)
  <1>3. t \in Stream /\ t \in LoginStreams
    BY <1>1, Words DEF LoginStreams
  <1>4. wire' = t /\ buffer' = <<>>
    BY <1>2 DEF OpenConsole
  <1> HIDE DEF t
  <1>5. OwedBy(buffer', wire', t)
    BY <1>3, <1>4, AllSent
  <1>6. task' \in [work : {"verbs", "show"}, in : {"login"}]
    BY DEF OpenConsole
  <1>7. Typed'
    BY <1>1, <1>3, <1>4, <1>6, Bodies DEF IInv, Typed, OpenConsole
  <1>8. Unused'
    BY <1>2 DEF Unused, OpenConsole
  <1>9. Conversation'
    BY <1>3, <1>5, <1>6, <1>8 DEF Conversation
  <1> QED BY <1>7, <1>9 DEF IInv

LEMMA ReceiveStep ==
    ASSUME IInv, Receive
    PROVE  IInv'
  <1>1. /\ buffer' \in Stream /\ wire' \in Stream
        /\ \A t : OwedBy(buffer, wire, t) => OwedBy(buffer', wire', t)
    BY Reads DEF IInv, Typed
  <1>2. UNCHANGED <<console, closed, task, turn, result, applied, reply>>
    BY DEF Receive
  <1>3. Typed'
    BY <1>1, <1>2 DEF IInv, Typed
  <1>4. \A t : Owing(buffer, wire, t) => Owing(buffer', wire', t)
    BY <1>1 DEF Owing
  <1>5. CASE task.in = "login"
    <2>1. Unused'
      BY <1>2, <1>5 DEF IInv, Conversation, Unused
    <2>2. \E t \in LoginStreams : OwedBy(buffer', wire', t)
      BY <1>1, <1>5 DEF IInv, Conversation
    <2> QED BY <1>2, <1>3, <1>5, <2>1, <2>2 DEF IInv, Conversation
  <1>6. CASE task.in = "command" /\ task.work = "verbs"
    <2>1. VerbUnderWay
      BY <1>6 DEF IInv, Conversation
    <2>2. VerbUnderWay'
      BY <1>1, <1>2, <1>4, <2>1 DEF VerbUnderWay, AnswerTo, Verdict, OfKind
    <2> QED BY <1>2, <1>3, <1>6, <2>2 DEF IInv, Conversation
  <1>7. CASE task.in = "command" /\ task.work = "show"
    <2>1. ShowUnderWay
      BY <1>7 DEF IInv, Conversation
    <2>2. PICK g \in [1..(Last + 1) -> Stream] :
            /\ RowsAre(g)
            /\ \/ /\ result.rows = <<>>
                  /\ Owing(buffer, wire, Row("T", console.layout) \o g[1])
               \/ \E j \in 0..Last : Collected(j) /\ OwedBy(buffer, wire, g[j + 1])
               \/ Collected(Last) /\ OwedBy(buffer, wire, Ready)
      BY <2>1 DEF ShowUnderWay
    <2>3. RowsAre(g)'
      BY <1>2, <2>2 DEF RowsAre, CellsOf, Cell
    <2>4. \A j : Collected(j) => Collected(j)'
      BY <1>2 DEF Collected, CellsOf, Cell
    <2>5. CASE result.rows = <<>> /\ Owing(buffer, wire, Row("T", console.layout) \o g[1])
      <3>1. result'.rows = <<>> /\ Owing(buffer', wire', Row("T", console'.layout) \o g[1])
        BY <1>2, <1>4, <2>5
      <3> QED BY <1>2, <1>3, <1>7, <2>1, <2>3, <3>1 DEF IInv, Conversation, ShowUnderWay
    <2>6. CASE \E j \in 0..Last : Collected(j) /\ OwedBy(buffer, wire, g[j + 1])
      <3>1. \E j \in 0..Last : Collected(j)' /\ OwedBy(buffer', wire', g[j + 1])
        BY <1>1, <2>4, <2>6
      <3> QED BY <1>2, <1>3, <1>7, <2>1, <2>3, <3>1 DEF IInv, Conversation, ShowUnderWay
    <2>7. CASE Collected(Last) /\ OwedBy(buffer, wire, Ready)
      <3>1. Collected(Last)' /\ OwedBy(buffer', wire', Ready)
        BY <1>1, <2>4, <2>7
      <3> QED BY <1>2, <1>3, <1>7, <2>1, <2>3, <3>1 DEF IInv, Conversation, ShowUnderWay
    <2> QED BY <2>2, <2>5, <2>6, <2>7
  <1> QED BY <1>5, <1>6, <1>7 DEF IInv, Typed, Receive, Working

\* A task that ends without an answer, or before a command was sent.
LEMMA EndsEarly ==
    ASSUME Typed, NEW outcome \in {"broken", "refused"}, End(outcome),
           outcome = "broken" \/ turn' = 0,
           task.in # "idle", console' = console, result' = result,
           buffer' \in Stream, wire' \in Stream
    PROVE  IInv'
  <1>1. /\ task' \in [work : {"verbs", "show"}, in : {"done"}]
        /\ reply'.kind = outcome
    BY DEF End, Typed
  <1>2. Typed'
    BY <1>1 DEF Typed
  <1>3. AnswersItsCommand'
    BY <1>1 DEF AnswersItsCommand
  <1> QED BY <1>1, <1>2, <1>3 DEF IInv, Conversation

LEMMA GivesUpStep ==
    ASSUME IInv, GivesUp
    PROVE  IInv'
  BY EndsEarly DEF IInv, Typed, GivesUp, Working

\* Whatever is decoded, the rest of a buffer is a sequence of bytes.
LEMMA RestIs ==
    ASSUME NEW b \in Stream
    PROVE  Decode(b).rest \in Stream
  <1>1. Len(b) \in Nat
    BY DEF Stream
  <1>2. CASE Len(b) >= 2 /\ b[2] \in 1..MaxLength /\ Len(b) >= 1 + b[2]
    <2>1. b[2] \in Nat
      BY <1>2, ConsoleOK
    <2> DEFINE r == SubSeq(b, 2 + b[2], Len(b))
    <2>2. r \in Stream
      <3>1. \A k \in (2 + b[2])..Len(b) : b[k] \in Bytes
        BY <1>1, <2>1 DEF Stream
      <3> QED BY <1>1, <2>1, <3>1, SubSeqProperties DEF Stream
    <2> HIDE DEF r
    <2>3. Decode(b).rest = r
      BY <1>1, <1>2, <2>1 DEF Decode, r
    <2> QED BY <2>2, <2>3
  <1>3. CASE ~(Len(b) >= 2 /\ b[2] \in 1..MaxLength /\ Len(b) >= 1 + b[2])
    <2>1. Decode(b).rest = b
      BY <1>1, <1>3, ConsoleOK DEF Decode
    <2> QED BY <2>1
  <1> QED BY <1>2, <1>3

LEMMA MalformedStep ==
    ASSUME IInv, Malformed
    PROVE  IInv'
  <1>1. buffer' \in Stream
    BY RestIs DEF IInv, Typed, Malformed, Took
  <1> QED BY <1>1, EndsEarly DEF IInv, Typed, Malformed, Took, Working

\* The pools before one, and those before the next.
LEMMA BeforeIs ==
    /\ Before(1) = {}
    /\ \A k \in 1..Last : Before(k + 1) = Before(k) \cup {PoolNames[k]}
    /\ Before(Last + 1) = NamesOfPools
  <1>1. Before(1) = {}
    BY DEF Before
  <1>2. \A k \in 1..Last : Before(k + 1) = Before(k) \cup {PoolNames[k]}
    <2> TAKE k \in 1..Last
    <2>1. 1..((k + 1) - 1) = (1..(k - 1)) \cup {k}
      <3>1. k \in Nat /\ k >= 1
        BY Pools
      <3> QED BY <3>1
    <2> QED BY <2>1 DEF Before
  <1>3. Before(Last + 1) = NamesOfPools
    <2>1. (Last + 1) - 1 = Last
      BY Pools
    <2> QED BY <2>1, Pools DEF Before
  <1> QED BY <1>1, <1>2, <1>3

LEMMA AuthenticateStep ==
    ASSUME IInv, Authenticate
    PROVE  IInv'
  <1>1. /\ task.in = "login" /\ Unused /\ Typed
        /\ \E t \in LoginStreams : OwedBy(buffer, wire, t)
    BY DEF IInv, Conversation, Authenticate, LoggingIn
  <1>2. UNCHANGED <<console, result, applied>>
    BY DEF Authenticate
  <1>3. PICK kind \in {"auth", "error", "other", "ready"} : Took(kind)
    BY DEF Authenticate
  <1>4. /\ buffer' \in Stream
        /\ \/ /\ kind = "auth" /\ Decode(buffer).message.code = 5
              /\ OwedBy(buffer', wire, <<>>)
           \/ kind = "auth" /\ Decode(buffer).message.code = 3
           \/ /\ kind = "auth" /\ Decode(buffer).message.code = 0
              /\ OwedBy(buffer', wire, Status \o Ready)
           \/ kind = "other" /\ OwedBy(buffer', wire, Ready)
           \/ kind = "ready" /\ OwedBy(buffer', wire, <<>>)
           \/ kind = "error"
    BY <1>1, <1>3, LoginTakes DEF Typed
  <1>5. \A other : Took(other) => other = kind
    BY <1>3 DEF Took
  <1>6. console \in ConsoleType
    BY <1>1 DEF Typed
  \* What stays in the login goes on with what is owed.
  <1>7. ASSUME task' = task, reply' = reply, turn' = turn, wire' \in Stream,
               NEW t \in LoginStreams, OwedBy(buffer', wire', t)
        PROVE  IInv'
    <2>1. Typed'
      BY <1>1, <1>2, <1>4, <1>7 DEF Typed
    <2>2. Unused'
      BY <1>1, <1>2, <1>7 DEF Unused
    <2> QED BY <1>1, <1>7, <2>1, <2>2 DEF IInv, Conversation
  <1>8. CASE kind = "auth"
    <2> DEFINE code == Decode(buffer).message.code
    <2>1. /\ turn' = turn
          /\ \/ /\ code = 5
                /\ wire' = wire \o IF console.password
                                   THEN AuthRequest(0) \o Status \o Ready
                                   ELSE Error("password")
                /\ UNCHANGED <<task, reply>>
             \/ code = 0 /\ UNCHANGED <<task, reply, wire>>
             \/ code \notin {0, 5} /\ End("refused") /\ UNCHANGED wire
      BY <1>3, <1>5, <1>8 DEF Authenticate
    <2>2. CASE code = 5
      <3>1. buffer' = <<>> /\ wire = <<>>
        <4>1. OwedBy(buffer', wire, <<>>)
          BY <1>4, <1>8, <2>2
        <4> QED BY <1>1, <1>4, <4>1, NothingLeft DEF Typed
      <3> DEFINE t == IF console.password THEN (AuthRequest(0) \o Status) \o Ready
                                          ELSE Error("password")
      <3>2. t \in Stream /\ t \in LoginStreams
        <4>1. (AuthRequest(0) \o Status) \o Ready = AuthRequest(0) \o (Status \o Ready)
          <5>1. AuthRequest(0) \in Stream /\ Status \in Stream /\ Ready \in Stream
            BY Words
          <5> QED BY <5>1, Regrouped
        <4>2. AuthRequest(0) \o Status \in Stream
          BY Words, Joined
        <4>3. (AuthRequest(0) \o Status) \o Ready \in Stream
          BY <4>2, Words, Joined
        <4> QED BY <4>1, <4>3, Words DEF LoginStreams
      <3>3. wire' = t /\ UNCHANGED <<task, reply, turn>>
        <4>1. wire' = <<>> \o t /\ UNCHANGED <<task, reply, turn>>
          BY <2>1, <2>2, <3>1
        <4> HIDE DEF t
        <4> QED BY <3>2, <4>1, ConcatEmptySeq DEF Stream
      <3> HIDE DEF t
      <3>4. OwedBy(buffer', wire', t)
        BY <3>1, <3>2, <3>3, AllSent
      <3> QED BY <1>7, <3>2, <3>3, <3>4
    <2>3. CASE code = 0
      <3>1. OwedBy(buffer', wire, Status \o Ready)
        BY <1>4, <1>8, <2>3
      <3>2. UNCHANGED <<task, reply, turn, wire>>
        BY <2>1, <2>3
      <3>3. Status \o Ready \in LoginStreams /\ wire' \in Stream
        BY <1>1, <3>2 DEF LoginStreams, Typed
      <3> QED BY <1>7, <3>1, <3>2, <3>3
    <2>4. CASE code \notin {0, 5}
      <3>1. End("refused") /\ wire' = wire /\ turn' = 0
        BY <1>1, <2>1, <2>4 DEF Unused
      <3> QED BY <1>1, <1>2, <1>4, <3>1, EndsEarly DEF Typed
    <2> QED BY <2>2, <2>3, <2>4
  <1>9. CASE kind = "error"
    <2>1. End("refused") /\ wire' = wire /\ turn' = 0
      BY <1>1, <1>5, <1>9 DEF Authenticate, Unused
    <2> QED BY <1>1, <1>2, <1>4, <2>1, EndsEarly DEF Typed
  <1>10. CASE kind = "other"
    <2>1. UNCHANGED <<task, reply, wire, turn>>
      BY <1>5, <1>10 DEF Authenticate
    <2>2. Ready \in LoginStreams /\ wire' \in Stream /\ OwedBy(buffer', wire', Ready)
      BY <1>1, <1>4, <1>10, <2>1 DEF LoginStreams, Typed
    <2> QED BY <1>7, <2>1, <2>2
  <1>11. CASE kind = "ready"
    <2>1. /\ task' = [task EXCEPT !.in = "command"] /\ turn' = 1 /\ reply' = reply
          /\ Send(IF task.work = "show" THEN PoolsAnswer ELSE AnswerTo(PoolNames[1]))
      BY <1>5, <1>11 DEF Authenticate
    <2>2. OwedBy(buffer', wire, <<>>)
      BY <1>4, <1>11
    <2>3. /\ task' \in [work : {"verbs", "show"}, in : {"command"}]
          /\ task'.work = task.work
      BY <1>1, <2>1 DEF Typed
    <2>4. result' = NoResult /\ reply' = NoReply /\ applied' = {}
      BY <1>1, <1>2, <2>1 DEF Unused
    <2>5. CASE task.work = "verbs"
      <3>1. AnswerTo(PoolNames[1]) \in Stream /\ AnswerTo(PoolNames[1]) # <<>>
        BY AnswerIs
      <3>2. Send(AnswerTo(PoolNames[1]))
        BY <2>1, <2>5
      <3>3. wire' \in Stream /\ Owing(buffer', wire', AnswerTo(PoolNames[1]))
        BY <1>1, <1>4, <2>2, <3>1, <3>2, Sends DEF Typed
      <3>4. AnswerTo(PoolNames[1])' = AnswerTo(PoolNames[1])
        BY <1>2 DEF AnswerTo
      <3>5. Typed'
        BY <1>1, <1>2, <1>4, <2>3, <2>4, <3>3, Blank DEF Typed
      <3>6. VerbUnderWay'
        <4>1. turn' \in 1..Last /\ turn' = 1
          BY <2>1, Pools
        <4>2. Before(turn') = {}
          BY <4>1, BeforeIs
        <4>3. result'.failure = "none"
          BY <2>4 DEF NoResult
        <4> QED BY <2>4, <3>3, <3>4, <4>1, <4>2, <4>3 DEF VerbUnderWay, OfKind, Before
      <3> QED BY <2>3, <2>5, <3>5, <3>6 DEF IInv, Conversation
    <2>6. CASE task.work = "show"
      <3>1. RowsFrom \in [1..(Last + 1) -> Stream] /\ RowsAre(RowsFrom)
        BY <1>6, RowsFromAre
      <3> DEFINE t == Row("T", console.layout) \o RowsFrom[1]
      <3>2. RowsFrom[1] \in Stream
        BY <3>1, Pools
      <3>3. t \in Stream /\ t # <<>>
        <4>1. Row("T", console.layout) \in Stream
          BY <1>6, LayoutIs
        <4>2. Len(Row("T", console.layout)) > 0
          <5>1. <<Len(console.layout)>> \o console.layout \in Stream
            BY <1>6, LayoutIs
          <5> DEFINE b == <<Len(console.layout)>> \o console.layout
          <5>2. Len(Tagged("T", b)) = Len(b) + 2 /\ Len(b) \in Nat
            <6>1. b \in Stream
              BY <5>1
            <6> HIDE DEF b
            <6> QED BY <6>1, Tags, TaggedIs DEF Stream
          <5> QED BY <5>2 DEF Row
        <4>3. t = <<>> => Row("T", console.layout) = <<>>
          BY <3>2, <4>1, ConcatEqualIffEmpty DEF Stream
        <4> QED BY <3>2, <4>1, <4>2, <4>3, Joined
      <3>4. Send(t)
        BY <2>1, <2>6 DEF PoolsAnswer
      <3>5. wire' \in Stream /\ Owing(buffer', wire', t)
        <4> HIDE DEF t
        <4> QED BY <1>1, <1>4, <2>2, <3>3, <3>4, Sends DEF Typed
      <3>6. Typed'
        BY <1>1, <1>2, <1>4, <2>3, <2>4, <3>5, Blank DEF Typed
      <3>7. ShowUnderWay'
        <4>1. turn' = 1 /\ result'.failure = "none" /\ result'.rows = <<>>
          BY <2>1, <2>4 DEF NoResult
        <4>2. PICK g \in [1..(Last + 1) -> Stream] :
                  RowsAre(g) /\ Owing(buffer', wire', Row("T", console.layout) \o g[1])
          BY <3>1, <3>5
        <4>3. RowsAre(g)'
          BY <1>2, <4>2 DEF RowsAre, CellsOf, Cell
        <4>4. Owing(buffer', wire', Row("T", console'.layout) \o g[1])
          BY <1>2, <4>2
        <4> QED BY <2>4, <4>1, <4>3, <4>4 DEF ShowUnderWay
      <3> QED BY <2>3, <2>6, <3>6, <3>7 DEF IInv, Conversation
    <2> QED BY <1>1, <2>5, <2>6 DEF Typed
  <1> QED BY <1>8, <1>9, <1>10, <1>11

LEMMA CollectStep ==
    ASSUME IInv, Collect
    PROVE  IInv'
  <1>1. /\ task.in = "command" /\ Typed /\ console \in ConsoleType
        /\ task.work = "verbs" => VerbUnderWay
        /\ task.work = "show" => ShowUnderWay
    BY DEF IInv, Conversation, Typed, Collect, Executing
  <1>2. UNCHANGED <<console, wire, task, turn, applied, reply>>
    BY DEF Collect
  <1> DEFINE m == Decode(buffer).message
  <1>3. PICK kind \in {"columns", "row", "error", "complete", "other"} :
            /\ Took(kind)
            /\ result' = CASE kind = "columns" -> [result EXCEPT !.columns = m.values]
                           [] kind = "row" -> [result EXCEPT !.rows = Append(@, m.values)]
                           [] kind = "error" -> [result EXCEPT !.failure = m.text]
                           [] OTHER -> result
    BY DEF Collect
  <1> HIDE DEF m
  <1>4. kind \notin {"none", "malformed", "ready"}
    OBVIOUS
  <1>5. CASE task.work = "verbs"
    <2> DEFINE p == PoolNames[turn]
    <2>1. VerbUnderWay
      BY <1>1, <1>5
    <2>2. Owing(buffer, wire, AnswerTo(p)) /\ result.failure = "none"
      <3>1. CASE OwedBy(buffer, wire, Ready)
        BY <1>1, <1>3, <1>4, <3>1, ReadyTaken DEF Typed
      <3> QED BY <2>1, <3>1 DEF VerbUnderWay
    <2>3. /\ buffer' \in Stream
          /\ \/ kind = "other" /\ OwedBy(buffer', wire, AnswerTo(p))
             \/ /\ kind = "complete" /\ Verdict(p) = "none"
                /\ OwedBy(buffer', wire, Ready)
             \/ /\ kind = "error" /\ m.text = Verdict(p)
                /\ OwedBy(buffer', wire, Ready)
      BY <1>1, <1>3, <1>4, <2>2, VerbTakes DEF Typed, m
    <2>4. AnswerTo(p)' = AnswerTo(p) /\ Verdict(p)' = Verdict(p)
      BY <1>2 DEF AnswerTo, Verdict
    <2>5. /\ result' \in [columns : Stream, rows : Seq(Stream), failure : Strings]
          /\ result'.failure = IF kind = "error" THEN Verdict(p) ELSE "none"
      <3>1. CASE kind = "error"
        <4>1. result' = [result EXCEPT !.failure = Verdict(p)] /\ Verdict(p) \in Strings
          BY <1>3, <2>3, <3>1, AnswerIs
        <4> QED BY <1>1, <3>1, <4>1 DEF Typed
      <3>2. CASE kind \in {"other", "complete"}
        <4>1. result' = result
          BY <1>3, <3>2
        <4> QED BY <1>1, <2>2, <3>2, <4>1 DEF Typed
      <3> QED BY <2>3, <3>1, <3>2
    <2>6. Typed'
      BY <1>1, <1>2, <2>3, <2>5 DEF Typed
    <2>7. VerbUnderWay'
      <3>1. /\ turn' \in 1..Last /\ reply' = NoReply
            /\ applied' = OfKind("ok", Before(turn))'
            /\ (OfKind("error", Before(turn)) = {})'
        BY <1>2, <2>1 DEF VerbUnderWay, OfKind, Before
      <3>2. \/ result'.failure = "none" /\ Owing(buffer', wire', AnswerTo(p)')
            \/ result'.failure = Verdict(p)' /\ OwedBy(buffer', wire', Ready)
        <4> HIDE DEF p
        <4> QED BY <1>2, <2>3, <2>4, <2>5 DEF Owing
      <3> QED BY <3>1, <3>2 DEF VerbUnderWay
    <2> QED BY <1>1, <1>2, <1>5, <2>6, <2>7 DEF IInv, Conversation
  <1>6. CASE task.work = "show"
    <2>1. ShowUnderWay
      BY <1>1, <1>6
    <2>2. PICK g \in [1..(Last + 1) -> Stream] :
            /\ RowsAre(g)
            /\ \/ /\ result.rows = <<>>
                  /\ Owing(buffer, wire, Row("T", console.layout) \o g[1])
               \/ \E j \in 0..Last : Collected(j) /\ OwedBy(buffer, wire, g[j + 1])
               \/ Collected(Last) /\ OwedBy(buffer, wire, Ready)
      BY <2>1 DEF ShowUnderWay
    <2>3. RowsAre(g)'
      BY <1>2, <2>2 DEF RowsAre, CellsOf, Cell
    <2>4. \A j : Collected(j)' <=>
              /\ result'.columns = console.layout
              /\ result'.rows = [k \in 1..j |-> CellsOf(PoolNames[k])]
      BY <1>2 DEF Collected, CellsOf, Cell
    \* It is enough that the answer is taken one message further.
    <2>5. ASSUME buffer' \in Stream, result'.failure = result.failure,
                 result' \in [columns : Stream, rows : Seq(Stream), failure : Strings],
                 \/ /\ result'.rows = <<>>
                    /\ OwedBy(buffer', wire, Row("T", console.layout) \o g[1])
                 \/ \E j \in 0..Last : Collected(j)' /\ OwedBy(buffer', wire, g[j + 1])
                 \/ Collected(Last)' /\ OwedBy(buffer', wire, Ready)
          PROVE  IInv'
      <3>1. Typed'
        BY <1>1, <1>2, <2>5 DEF Typed
      <3>2. turn' = 1 /\ reply' = NoReply /\ result'.failure = "none"
        BY <1>2, <2>1, <2>5 DEF ShowUnderWay
      <3>3. \/ /\ result'.rows = <<>>
               /\ Owing(buffer', wire', Row("T", console'.layout) \o g[1])
            \/ \E j \in 0..Last : Collected(j)' /\ OwedBy(buffer', wire', g[j + 1])
            \/ Collected(Last)' /\ OwedBy(buffer', wire', Ready)
        BY <1>2, <2>5 DEF Owing
      <3>4. ShowUnderWay'
        BY <2>3, <3>2, <3>3 DEF ShowUnderWay
      <3> QED BY <1>1, <1>2, <1>6, <3>1, <3>4 DEF IInv, Conversation
    <2>6. CASE /\ result.rows = <<>>
               /\ Owing(buffer, wire, Row("T", console.layout) \o g[1])
      <3>1. g[1] \in Stream
        BY Pools
      <3>2. /\ buffer' \in Stream
            /\ \/ /\ kind = "other"
                  /\ OwedBy(buffer', wire, Row("T", console.layout) \o g[1])
               \/ /\ kind = "columns" /\ m.values = console.layout
                  /\ OwedBy(buffer', wire, g[1])
        BY <1>1, <1>3, <1>4, <2>6, <3>1, ColumnsTaken DEF Typed, m
      <3>3. CASE kind = "other"
        <4>1. result' = result
          BY <1>3, <3>3
        <4> QED BY <1>1, <2>5, <2>6, <3>2, <3>3, <4>1 DEF Typed
      <3>4. CASE kind = "columns"
        <4>1. result' = [result EXCEPT !.columns = console.layout]
          BY <1>3, <3>2, <3>4
        <4>2. console.layout \in Stream
          BY <1>1, LayoutIs
        <4>3. /\ result' \in [columns : Stream, rows : Seq(Stream), failure : Strings]
              /\ result'.columns = console.layout /\ result'.rows = <<>>
              /\ result'.failure = result.failure
          BY <1>1, <2>6, <4>1, <4>2 DEF Typed
        <4>4. [k \in 1..0 |-> CellsOf(PoolNames[k])] = <<>>
          OBVIOUS
        <4>5. Collected(0)'
          BY <2>4, <4>3, <4>4
        <4>6. 0 \in 0..Last /\ g[0 + 1] = g[1]
          BY Pools
        <4>7. OwedBy(buffer', wire, g[0 + 1])
          BY <3>2, <3>4, <4>6
        <4> QED BY <2>5, <3>2, <4>3, <4>5, <4>6, <4>7
      <3> QED BY <3>2, <3>3, <3>4
    <2>7. CASE \E j \in 0..Last : Collected(j) /\ OwedBy(buffer, wire, g[j + 1])
      <3>1. PICK j \in 0..Last : Collected(j) /\ OwedBy(buffer, wire, g[j + 1])
        BY <2>7
      <3>2. /\ buffer' \in Stream
            /\ \/ /\ j < Last /\ kind = "row"
                  /\ m.values = CellsOf(PoolNames[j + 1])
                  /\ OwedBy(buffer', wire, g[j + 2])
               \/ j = Last /\ kind = "complete" /\ OwedBy(buffer', wire, Ready)
        BY <1>1, <1>3, <1>4, <2>2, <3>1, RowTaken DEF Typed, m
      <3>3. CASE kind = "row"
        <4> DEFINE cells == CellsOf(PoolNames[j + 1])
        <4>1. j + 1 \in 1..Last /\ j + 1 \in 0..Last /\ (j + 1) + 1 = j + 2 /\ j \in Nat
          BY <3>2, <3>3, Pools
        <4>2. cells \in Stream
          BY <1>1, <4>1, Pools, CellsAre
        <4>3. result' = [result EXCEPT !.rows = Append(@, cells)]
          BY <1>3, <3>2, <3>3
        <4>4. /\ result.rows \in Seq(Stream)
              /\ result.rows = [k \in 1..j |-> CellsOf(PoolNames[k])]
          BY <1>1, <3>1 DEF Typed, Collected
        <4>5. Len(result.rows) = j
          <5>1. DOMAIN result.rows = 1..j
            BY <4>4
          <5>2. DOMAIN result.rows = 1..Len(result.rows) /\ Len(result.rows) \in Nat
            BY <4>4, LenProperties
          <5> QED BY <4>1, <5>1, <5>2
        <4> DEFINE rows == Append(result.rows, cells)
                   want == [k \in 1..(j + 1) |-> CellsOf(PoolNames[k])]
        <4>6. /\ rows \in Seq(Stream) /\ Len(rows) = j + 1
              /\ \A k \in 1..j : rows[k] = result.rows[k]
              /\ rows[j + 1] = cells
          <5> HIDE DEF cells
          <5> QED BY <4>1, <4>2, <4>4, <4>5, AppendProperties
        <4>7. rows = want
          <5> HIDE DEF rows
          <5>1. rows = [k \in 1..(j + 1) |-> rows[k]]
            BY <4>6, LenProperties
          <5>2. ASSUME NEW k \in 1..(j + 1) PROVE rows[k] = CellsOf(PoolNames[k])
            <6>1. k \in 1..j \/ k = j + 1
              BY <4>1
            <6> QED BY <4>4, <4>6, <6>1
          <5> QED BY <5>1, <5>2
        <4>8. /\ result'.rows = rows /\ result'.columns = result.columns
              /\ result'.failure = result.failure
              /\ result' \in [columns : Stream, rows : Seq(Stream), failure : Strings]
          <5> HIDE DEF cells
          <5> QED BY <1>1, <4>3, <4>6 DEF Typed
        <4>9. Collected(j + 1)'
          <5>1. result'.columns = console.layout
            BY <3>1, <4>8 DEF Collected
          <5>2. result'.rows = want
            BY <4>7, <4>8
          <5> QED BY <2>4, <5>1, <5>2
        <4>10. OwedBy(buffer', wire, g[(j + 1) + 1])
          BY <3>2, <3>3, <4>1
        <4> QED BY <2>5, <3>2, <4>1, <4>8, <4>9, <4>10
      <3>4. CASE kind = "complete"
        <4>1. result' = result
          BY <1>3, <3>4
        <4>2. Collected(Last)'
          BY <2>4, <3>1, <3>2, <3>4, <4>1 DEF Collected
        <4> QED BY <1>1, <2>5, <3>2, <3>4, <4>1, <4>2 DEF Typed
      <3> QED BY <3>2, <3>3, <3>4
    <2>8. CASE Collected(Last) /\ OwedBy(buffer, wire, Ready)
      BY <1>1, <1>3, <1>4, <2>8, ReadyTaken DEF Typed
    <2> QED BY <2>2, <2>6, <2>7, <2>8
  <1> QED BY <1>1, <1>5, <1>6 DEF Typed

LEMMA VerbStep ==
    ASSUME IInv, task.in = "command", task.work = "verbs", Took("ready"),
           NextVerb(result.failure), console' = console
    PROVE  IInv'
  <1> DEFINE p == PoolNames[turn]
             done == applied \cup IF result.failure = "none" THEN {p} ELSE {}
  <1>1. Typed /\ console \in ConsoleType /\ VerbUnderWay
    BY DEF IInv, Conversation, Typed
  <1>2. turn \in 1..Last /\ turn \in Nat /\ turn > 0 /\ p \in NamesOfPools
    BY <1>1, Pools DEF VerbUnderWay
  <1>3. result.failure = Verdict(p) /\ buffer' \in Stream /\ OwedBy(buffer', wire, <<>>)
    <2>1. ~Owing(buffer, wire, AnswerTo(p))
      <3> SUFFICES ASSUME Owing(buffer, wire, AnswerTo(p)) PROVE FALSE
        OBVIOUS
      <3> HIDE DEF p
      <3>1. "ready" \notin {"none", "malformed"} /\ "ready" \notin {"other", "complete", "error"}
        OBVIOUS
      <3> QED BY <1>1, <3>1, VerbTakes DEF Typed
    <2>2. result.failure = Verdict(p) /\ OwedBy(buffer, wire, Ready)
      BY <1>1, <2>1 DEF VerbUnderWay
    <2> QED BY <1>1, <2>2, ReadyTaken DEF Typed
  <1>4. /\ applied' = done /\ result' = NoResult
        /\ IF result.failure = "none" \/ IsMissingPool(result.failure)
           THEN IF turn < Last
                THEN /\ turn' = turn + 1
                     /\ Send(AnswerTo(PoolNames[turn + 1]))
                     /\ UNCHANGED <<task, reply>>
                ELSE End("ok") /\ UNCHANGED <<wire, closed, turn>>
           ELSE End("refused") /\ UNCHANGED <<wire, closed, turn>>
    BY DEF NextVerb, Last
  <1>5. /\ console.pool[p] \in {"ok", "missing", "error"}
        /\ result.failure = "none" <=> console.pool[p] = "ok"
        /\ IsMissingPool(result.failure) <=> console.pool[p] = "missing"
    <2>1. console.pool[p] \in {"ok", "missing", "error"}
      BY <1>1, <1>2 DEF ConsoleType
    <2> QED BY <1>3, <2>1 DEF Verdict, IsMissingPool
  <1>6. /\ applied = OfKind("ok", Before(turn)) /\ OfKind("error", Before(turn)) = {}
        /\ Before(turn + 1) = Before(turn) \cup {p}
    BY <1>1, <1>2, BeforeIs DEF VerbUnderWay
  <1>7. CASE console.pool[p] = "error"
    <2>1. End("refused") /\ UNCHANGED <<wire, turn>> /\ applied' = applied
      BY <1>4, <1>5, <1>7
    <2>2. /\ task' \in [work : {"verbs", "show"}, in : {"done"}]
          /\ reply'.kind = "refused"
      BY <1>1, <2>1 DEF End, Typed
    <2>3. Typed'
      BY <1>1, <1>3, <1>4, <2>1, <2>2, Blank DEF Typed
    <2>4. AnswersItsCommand'
      <3>1. console'.pool[PoolNames[turn']] = "error"
        BY <1>7, <2>1
      <3>2. applied' = OfKind("ok", Before(turn))'
        BY <1>6, <2>1 DEF OfKind, Before
      <3> QED BY <2>2, <3>1, <3>2 DEF AnswersItsCommand
    <2> QED BY <2>2, <2>3, <2>4 DEF IInv, Conversation
  <1>8. CASE console.pool[p] # "error"
    <2>1. done = OfKind("ok", Before(turn + 1)) /\ OfKind("error", Before(turn + 1)) = {}
      BY <1>5, <1>6, <1>8 DEF OfKind
    <2>2. CASE turn < Last
      <3> DEFINE q == PoolNames[turn + 1]
      <3>1. turn' = turn + 1 /\ Send(AnswerTo(q)) /\ UNCHANGED <<task, reply>>
        BY <1>4, <1>5, <1>8, <2>2
      <3>2. wire' \in Stream /\ Owing(buffer', wire', AnswerTo(q))
        <4>1. AnswerTo(q) \in Stream /\ AnswerTo(q) # <<>>
          BY AnswerIs
        <4> QED BY <1>1, <1>3, <3>1, <4>1, Sends DEF Typed
      <3>3. Typed'
        BY <1>1, <1>3, <1>4, <3>1, <3>2, Blank DEF Typed
      <3>4. VerbUnderWay'
        <4>1. turn' \in 1..Last
          BY <1>2, <2>2, <3>1, Pools
        <4>2. reply' = NoReply
          BY <1>1, <3>1 DEF VerbUnderWay
        <4>3. /\ applied' = OfKind("ok", Before(turn))'
              /\ (OfKind("error", Before(turn)) = {})'
          BY <1>4, <2>1, <3>1 DEF OfKind, Before
        <4>4. result'.failure = "none"
          BY <1>4 DEF NoResult
        <4>5. Owing(buffer', wire', AnswerTo(PoolNames[turn])')
          <5>1. AnswerTo(PoolNames[turn])' = AnswerTo(q)
            BY <3>1 DEF AnswerTo
          <5> QED BY <3>2, <5>1
        <4> QED BY <4>1, <4>2, <4>3, <4>4, <4>5 DEF VerbUnderWay
      <3> QED BY <3>1, <3>3, <3>4 DEF IInv, Conversation
    <2>3. CASE ~(turn < Last)
      <3>0. turn = Last
        BY <1>2, <2>3, Pools
      <3>1. End("ok") /\ UNCHANGED <<wire, turn>> /\ turn = Last
        BY <1>4, <1>5, <1>8, <2>3, <3>0
      <3>2. /\ task' \in [work : {"verbs", "show"}, in : {"done"}]
            /\ reply'.kind = "ok"
        BY <1>1, <3>1 DEF End, Typed
      <3>3. Typed'
        BY <1>1, <1>3, <1>4, <3>1, <3>2, Blank DEF Typed
      <3>4. Before(turn + 1) = NamesOfPools
        BY <3>1, BeforeIs
      <3>5. applied' = OfKind("ok", NamesOfPools)' /\ (OfKind("error", NamesOfPools) = {})'
        BY <1>4, <2>1, <3>4 DEF OfKind
      <3>6. AnswersItsCommand'
        BY <3>2, <3>5 DEF AnswersItsCommand
      <3> QED BY <3>2, <3>3, <3>6 DEF IInv, Conversation
    <2> QED BY <2>2, <2>3
  <1> QED BY <1>7, <1>8

\* What parse_pools makes of the rows.
LEMMA PoolsParsed ==
    ASSUME console \in ConsoleType, Collected(Last),
           Column("database") # {}, Column("paused") # {}
    PROVE  ParsePools = [k \in DOMAIN PoolNames |->
                [database |-> PoolNames[k],
                 paused |-> console.pool[PoolNames[k]] = "ok"]]
  <1> DEFINE d == CHOOSE k \in Column("database") : TRUE
             q == CHOOSE k \in Column("paused") : TRUE
  <1>1. /\ d \in DOMAIN console.layout /\ console.layout[d] = "database"
        /\ q \in DOMAIN console.layout /\ console.layout[q] = "paused"
    <2>1. d \in Column("database") /\ q \in Column("paused")
      OBVIOUS
    <2> HIDE DEF d, q
    <2> QED BY <2>1 DEF Column, Collected
  <1>2. /\ ParsePools = [r \in DOMAIN result.rows |->
                            [database |-> result.rows[r][d],
                             paused |-> result.rows[r][q] = "1"]]
    BY DEF ParsePools
  <1> HIDE DEF d, q
  <1>3. DOMAIN result.rows = 1..Last /\ DOMAIN PoolNames = 1..Last
    BY Pools DEF Collected
  <1>4. ASSUME NEW k \in 1..Last
        PROVE  /\ result.rows[k][d] = PoolNames[k]
               /\ (result.rows[k][q] = "1") = (console.pool[PoolNames[k]] = "ok")
    <2>1. result.rows[k] = CellsOf(PoolNames[k])
      BY DEF Collected
    <2>2. result.rows[k][d] = Cell(PoolNames[k], "database")
      BY <1>1, <2>1 DEF CellsOf
    <2>3. result.rows[k][q] = Cell(PoolNames[k], "paused")
      BY <1>1, <2>1 DEF CellsOf
    <2>4. Cell(PoolNames[k], "database") = PoolNames[k]
      BY DEF Cell
    <2>5. Cell(PoolNames[k], "paused") = IF console.pool[PoolNames[k]] = "ok" THEN "1" ELSE "0"
      BY DEF Cell
    <2> QED BY <2>2, <2>3, <2>4, <2>5
  <1> QED BY <1>2, <1>3, <1>4

LEMMA ShowStep ==
    ASSUME IInv, task.in = "command", task.work = "show", Took("ready"),
           console' = console, UNCHANGED <<wire, closed, turn, result, applied>>,
           IF /\ result.failure = "none"
              /\ \A c \in {"database", "user", "paused"} : Column(c) # {}
           THEN End("pools") ELSE End("broken")
    PROVE  IInv'
  <1>1. Typed /\ console \in ConsoleType /\ ShowUnderWay
    BY DEF IInv, Conversation, Typed
  <1>2. "ready" \notin {"none", "malformed"} /\ "ready" \notin {"other", "columns", "row", "complete"}
    OBVIOUS
  <1>3. Collected(Last) /\ OwedBy(buffer, wire, Ready)
    <2>1. PICK g \in [1..(Last + 1) -> Stream] :
            /\ RowsAre(g)
            /\ \/ /\ result.rows = <<>>
                  /\ Owing(buffer, wire, Row("T", console.layout) \o g[1])
               \/ \E j \in 0..Last : Collected(j) /\ OwedBy(buffer, wire, g[j + 1])
               \/ Collected(Last) /\ OwedBy(buffer, wire, Ready)
      BY <1>1 DEF ShowUnderWay
    <2>2. ~Owing(buffer, wire, Row("T", console.layout) \o g[1])
      <3>1. g[1] \in Stream
        BY Pools
      <3> QED BY <1>1, <1>2, <3>1, ColumnsTaken DEF Typed
    <2>3. ~ \E j \in 0..Last : OwedBy(buffer, wire, g[j + 1])
      BY <1>1, <1>2, <2>1, RowTaken DEF Typed
    <2> QED BY <2>1, <2>2, <2>3
  <1>4. buffer' \in Stream
    BY <1>1, <1>2, <1>3, ReadyTaken DEF Typed
  <1>5. CASE End("broken")
    BY <1>1, <1>4, <1>5, EndsEarly DEF Typed
  <1>6. CASE /\ End("pools")
             /\ \A c \in {"database", "user", "paused"} : Column(c) # {}
    <2>1. /\ task' \in [work : {"verbs", "show"}, in : {"done"}]
          /\ reply'.kind = "pools" /\ reply'.pools = ParsePools
      BY <1>1, <1>6 DEF End, Typed
    <2>2. ParsePools = [k \in DOMAIN PoolNames |->
                [database |-> PoolNames[k],
                 paused |-> console.pool[PoolNames[k]] = "ok"]]
      BY <1>1, <1>3, <1>6, PoolsParsed
    <2>3. Typed'
      BY <1>1, <1>4, <2>1 DEF Typed
    <2>4. AnswersItsCommand'
      BY <2>1, <2>2 DEF AnswersItsCommand
    <2> QED BY <2>1, <2>3, <2>4 DEF IInv, Conversation
  <1> QED BY <1>5, <1>6

LEMMA ExecuteStep ==
    ASSUME IInv, Execute
    PROVE  IInv'
  <1>1. task.in = "command" /\ Took("ready") /\ console' = console
    BY DEF Execute, Executing
  <1>2. CASE task.work = "verbs"
    BY <1>1, <1>2, VerbStep DEF Execute
  <1>3. CASE task.work = "show"
    BY <1>1, <1>3, ShowStep DEF Execute
  <1> QED BY <1>2, <1>3 DEF IInv, Typed

LEMMA StutterStep ==
    ASSUME IInv, UNCHANGED consoleVars
    PROVE  IInv'
  <1>1. UNCHANGED <<console, wire, closed, task, buffer, turn, result, applied, reply>>
    BY DEF consoleVars
  <1>2. Typed'
    BY <1>1 DEF IInv, Typed
  <1>3. Unused => Unused'
    BY <1>1 DEF Unused
  <1>4. VerbUnderWay => VerbUnderWay'
    BY <1>1 DEF VerbUnderWay, AnswerTo, Verdict, OfKind, Owing, OwedBy
  <1>5. ShowUnderWay => ShowUnderWay'
    <2>1. \A g : RowsAre(g) => RowsAre(g)'
      BY <1>1 DEF RowsAre, CellsOf, Cell
    <2>2. \A j : Collected(j) => Collected(j)'
      BY <1>1 DEF Collected, CellsOf, Cell
    <2> QED BY <1>1, <2>1, <2>2 DEF ShowUnderWay
  <1>6. AnswersItsCommand => AnswersItsCommand'
    BY <1>1 DEF AnswersItsCommand, OfKind, Before
  <1> QED BY <1>1, <1>2, <1>3, <1>4, <1>5, <1>6 DEF IInv, Conversation

-----------------------------------------------------------------------------
\* However the stream is cut, and whatever the console says of its own accord,
\* an answer is taken for the command that it answers: for any number of pools,
\* any order of the columns and any limit on a message's length.
THEOREM AnswersFit == ConsoleSpec => []AnswersItsCommand
  <1>1. ConsoleInit => IInv
    BY Starts
  <1>2. IInv /\ [ConsoleNext]_consoleVars => IInv'
    <2> SUFFICES ASSUME IInv, [ConsoleNext]_consoleVars PROVE IInv'
      OBVIOUS
    <2>1. CASE OpenConsole
      BY <2>1, OpenStep
    <2>2. CASE Receive
      BY <2>2, ReceiveStep
    <2>3. CASE GivesUp
      BY <2>3, GivesUpStep
    <2>4. CASE Authenticate
      BY <2>4, AuthenticateStep
    <2>5. CASE Malformed
      BY <2>5, MalformedStep
    <2>6. CASE Collect
      BY <2>6, CollectStep
    <2>7. CASE Execute
      BY <2>7, ExecuteStep
    <2>8. CASE UNCHANGED consoleVars
      BY <2>8, StutterStep
    <2> QED BY <2>1, <2>2, <2>3, <2>4, <2>5, <2>6, <2>7, <2>8 DEF ConsoleNext
  <1>3. IInv => AnswersItsCommand
    BY ConversationHolds
  <1> QED BY <1>1, <1>2, <1>3, PTL DEF ConsoleSpec

=============================================================================
