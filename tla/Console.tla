------------------------------- MODULE Console -------------------------------
(* The agent of a pooler and pg_doorman's admin console: the messages, the *)
(* stream they arrive on in pieces, and the conversation of one connection *)
(* - logging in, one command for each pool of a cluster, or SHOW POOLS.    *)
(*                                                                         *)
(* PoolerAgent has what the commands do to clients, and how connections    *)
(* interleave; here is whether an answer is taken for the command it       *)
(* answers.                                                                *)
EXTENDS Integers, Sequences

CONSTANTS
    PoolNames,   \* the cluster's pools, in the specification's order
    Layouts,     \* orders in which SHOW POOLS may have its columns
    MaxLength    \* bound: 2^30 - 1, the longest message that is accepted

NamesOfPools == {PoolNames[k] : k \in DOMAIN PoolNames}

\* A cluster without pools is refused before a connection is opened.
ASSUME ConsoleOK ==
    /\ PoolNames \in Seq(NamesOfPools) /\ PoolNames # <<>>
    /\ \A k, l \in DOMAIN PoolNames : k # l => PoolNames[k] # PoolNames[l]
    /\ \A l \in Layouts : l \in Seq({l[k] : k \in DOMAIN l})
    /\ MaxLength \in Nat

-----------------------------------------------------------------------------
(* Messages.  A byte is a member of the stream; a length, a number in a    *)
(* body and a string are one each.  The length counts itself.              *)

Tagged(tag, body) == <<tag, Len(body) + 1>> \o body

AuthRequest(code) == Tagged("R", IF code = 5 THEN <<5, "salt">> ELSE <<code>>)
Status       == Tagged("S", <<"server_version", "16">>)
Ready        == Tagged("Z", <<"I">>)
Error(text)  == Tagged("E", <<text>>)
CommandComplete(v)  == Tagged("C", <<v>>)
Row(tag, values) == Tagged(tag, <<Len(values)>> \o values)

None == [kind |-> "none"]

\* A body that ends before what it announces is a protocol error.
Values(body) ==
    IF body = <<>> \/ Len(body) < 1 + body[1] THEN <<>>
    ELSE SubSeq(body, 2, 1 + body[1])

\* parse: what pgpod acts on; the rest is skipped.
ParseMessage(tag, body) ==
    CASE tag = "R" -> IF body = <<>> THEN [kind |-> "malformed"]
                      ELSE IF body[1] = 5 /\ Len(body) < 2
                      THEN [kind |-> "malformed"]
                      ELSE [kind |-> "auth", code |-> body[1]]
      [] tag \in {"T", "D"} ->
            IF body = <<>> \/ Len(body) < 1 + body[1] THEN [kind |-> "malformed"]
            ELSE [kind |-> IF tag = "T" THEN "columns" ELSE "row",
                  values |-> Values(body)]
      [] tag = "C" -> [kind |-> "complete"]
      [] tag = "E" -> [kind |-> "error", text |-> body[1]]
      [] tag = "Z" -> [kind |-> "ready"]
      [] OTHER     -> [kind |-> "other"]

\* decode: one message from the front, or none before all of it is there.
Decode(bytes) ==
    IF Len(bytes) < 2 THEN [message |-> None, rest |-> bytes]
    ELSE IF bytes[2] \notin 1..MaxLength
    THEN [message |-> [kind |-> "malformed"], rest |-> bytes]
    ELSE IF Len(bytes) < 1 + bytes[2] THEN [message |-> None, rest |-> bytes]
    ELSE [message |-> ParseMessage(bytes[1], SubSeq(bytes, 3, 1 + bytes[2])),
          rest |-> SubSeq(bytes, 2 + bytes[2], Len(bytes))]

-----------------------------------------------------------------------------
VARIABLES
    console,   \* pg_doorman: what it will answer
    wire,      \* what it has sent and the agent has not read
    closed,    \* whether it has closed its end
    task,      \* the agent: what it is doing on this connection
    buffer,    \* bytes read and not decoded
    turn,      \* the pool whose command was sent
    result,    \* QueryResult and failure of the command
    applied,   \* the pools that the command applied to
    reply      \* what is answered to the daemon

consoleVars == <<console, wire, closed, task, buffer, turn, result, applied, reply>>

NoTask   == [work |-> "verbs", in |-> "idle"]
NoResult == [columns |-> <<>>, rows |-> <<>>, failure |-> "none"]

-----------------------------------------------------------------------------
(* pg_doorman.                                                             *)

ConsoleType ==
    [method : {5, 3}, password : BOOLEAN,
     pool : [NamesOfPools -> {"ok", "missing", "error"}],
     layout : Layouts,
     fault : {"none", "closes", "silent", "garbled", "chatty"}]

\* A truncated answer, none, one with an impossible length, or one with a
\* notice that nobody asked for.
Faulty(bytes) ==
    CASE console.fault = "closes"  -> SubSeq(bytes, 1, Len(bytes) - 1)
      [] console.fault = "silent"  -> <<>>
      [] console.fault = "garbled" -> <<"C", 0>> \o bytes
      [] console.fault = "chatty"  -> Tagged("N", <<"notice">>) \o bytes
      [] OTHER -> bytes

AnswerTo(pool) ==
    CASE console.pool[pool] = "ok"      -> CommandComplete("PAUSE") \o Ready
      [] console.pool[pool] = "missing" -> Error("No pool for database") \o Ready
      [] OTHER                          -> Error("out of memory") \o Ready

Cell(pool, column) ==
    CASE column = "database" -> pool
      [] column = "paused"   -> IF console.pool[pool] = "ok" THEN "1" ELSE "0"
      [] OTHER               -> "9"

PoolRowOf(pool) ==
    Row("D", [k \in DOMAIN console.layout |-> Cell(pool, console.layout[k])])

\* From the row of the k-th pool on.
RowsFrom[k \in 1..(Len(PoolNames) + 1)] ==
    IF k > Len(PoolNames) THEN CommandComplete("SHOW") \o Ready
    ELSE PoolRowOf(PoolNames[k]) \o RowsFrom[k + 1]

PoolsAnswer == Row("T", console.layout) \o RowsFrom[1]

-----------------------------------------------------------------------------
(* The agent.                                                              *)

Send(answer) ==
    /\ wire' = wire \o Faulty(answer)
    /\ closed' = (closed \/ console.fault = "closes")

\* By column name; what pgpod needs and does not find is an error.
Column(name) == {k \in DOMAIN result.columns : result.columns[k] = name}
ParsePools ==
    [r \in DOMAIN result.rows |->
        [database |-> result.rows[r][CHOOSE k \in Column("database") : TRUE],
         paused |-> result.rows[r][CHOOSE k \in Column("paused") : TRUE] = "1"]]

NoReply == [kind |-> "none", pools |-> <<>>]

End(outcome) ==
    /\ task' = [task EXCEPT !.in = "done"]
    /\ reply' = [kind |-> outcome,
                 pools |-> IF outcome = "pools" THEN ParsePools ELSE <<>>]

\* The connection, for a verb on each pool or for SHOW POOLS.
OpenConsole ==
    /\ task.in = "idle"
    /\ console' \in ConsoleType
    /\ \E t \in {"verbs", "show"} :
        task' = [work |-> t, in |-> "login"]
    /\ wire' = AuthRequest(console'.method)
    /\ UNCHANGED <<closed, buffer, turn, result, applied, reply>>

Working == task.in \in {"login", "command"}

\* A read returns what has arrived, at least a byte.
Receive ==
    /\ Working /\ Decode(buffer).message = None
    /\ wire # <<>>
    /\ \E n \in 1..Len(wire) :
        /\ buffer' = buffer \o SubSeq(wire, 1, n)
        /\ wire' = SubSeq(wire, n + 1, Len(wire))
    /\ UNCHANGED <<console, closed, task, turn, result, applied, reply>>

\* The end of the stream in the middle of an answer, or 30 s without a byte.
GivesUp ==
    /\ Working /\ Decode(buffer).message = None
    /\ wire = <<>>
    /\ closed \/ console.fault = "silent"
    /\ End("broken")
    /\ UNCHANGED <<console, wire, closed, buffer, turn, result, applied>>

Took(kind) ==
    /\ Working
    /\ Decode(buffer).message.kind = kind
    /\ buffer' = Decode(buffer).rest

LoggingIn == task.in = "login"
Executing == task.in = "command"

\* The console's answer to a password that it knows, or does not.
Authenticate ==
    /\ LoggingIn
    /\ \/ /\ Took("auth")
          /\ LET code == Decode(buffer).message.code IN
             \/ /\ code = 5
                /\ wire' = wire \o IF console.password
                                   THEN AuthRequest(0) \o Status \o Ready
                                   ELSE Error("password")
                /\ closed' = (closed \/ ~console.password)
                /\ UNCHANGED <<task, reply>>
             \/ /\ code = 0
                /\ UNCHANGED <<task, reply, wire, closed>>
             \/ /\ code \notin {0, 5}
                /\ End("refused")
                /\ UNCHANGED <<wire, closed>>
          /\ UNCHANGED turn
       \/ /\ Took("error")
          /\ End("refused")
          /\ UNCHANGED <<wire, closed, turn>>
       \/ /\ Took("other")
          /\ UNCHANGED <<task, reply, wire, closed, turn>>
       \/ /\ Took("ready")
          /\ task' = [task EXCEPT !.in = "command"]
          /\ turn' = 1
          /\ Send(IF task.work = "show" THEN PoolsAnswer ELSE AnswerTo(PoolNames[1]))
          /\ UNCHANGED reply
    /\ UNCHANGED <<console, result, applied>>

Malformed ==
    /\ Took("malformed")
    /\ End("broken")
    /\ UNCHANGED <<console, wire, closed, turn, result, applied>>

\* execute: rows are collected and a failure kept until the console is ready.
Collect ==
    /\ Executing
    /\ LET m == Decode(buffer).message IN
       \/ Took("columns")  /\ result' = [result EXCEPT !.columns = m.values]
       \/ Took("row")      /\ result' = [result EXCEPT !.rows = Append(@, m.values)]
       \/ Took("error")    /\ result' = [result EXCEPT !.failure = m.text]
       \/ Took("complete") /\ UNCHANGED result
       \/ Took("other")    /\ UNCHANGED result
    /\ UNCHANGED <<console, wire, closed, task, turn, applied, reply>>

IsMissingPool(text) == text = "No pool for database"

\* for_each_pool: the next pool, unless this one's command failed.
NextVerb(failure) ==
    LET done == applied \cup IF failure = "none" THEN {PoolNames[turn]} ELSE {} IN
    /\ applied' = done
    /\ result' = NoResult
    /\ IF failure = "none" \/ IsMissingPool(failure)
       THEN IF turn < Len(PoolNames)
            THEN /\ turn' = turn + 1
                 /\ Send(AnswerTo(PoolNames[turn + 1]))
                 /\ UNCHANGED <<task, reply>>
            ELSE /\ End("ok")
                 /\ UNCHANGED <<wire, closed, turn>>
       ELSE /\ End("refused")
            /\ UNCHANGED <<wire, closed, turn>>

\* Mutant: a failure ends the command, and what is still owed is left unread.
ExecuteReturnsEarly ==
    /\ Executing /\ task.work = "verbs"
    /\ \/ Took("ready") /\ NextVerb("none")
       \/ Took("error") /\ NextVerb(Decode(buffer).message.text)
    /\ UNCHANGED console

Execute ==
    /\ Executing
    /\ Took("ready")
    /\ \/ /\ task.work = "verbs"
          /\ NextVerb(result.failure)
       \/ /\ task.work = "show"
          /\ IF /\ result.failure = "none"
                /\ \A c \in {"database", "user", "paused"} : Column(c) # {}
             THEN End("pools") ELSE End("broken")
          /\ UNCHANGED <<wire, closed, turn, result, applied>>
    /\ UNCHANGED console

-----------------------------------------------------------------------------
ConsoleInit ==
    /\ console \in {[method |-> 5, password |-> TRUE,
                     pool |-> [p \in NamesOfPools |-> "ok"],
                     layout |-> <<"database">>, fault |-> "none"]}
    /\ wire = <<>> /\ closed = FALSE /\ task = NoTask /\ buffer = <<>>
    /\ turn = 0 /\ result = NoResult /\ applied = {} /\ reply = NoReply

ConsoleNext ==
    \/ OpenConsole \/ Receive \/ GivesUp
    \/ Authenticate \/ Malformed \/ Collect \/ Execute

ConsoleSpec == ConsoleInit /\ [][ConsoleNext]_consoleVars

-----------------------------------------------------------------------------
(* Properties.                                                             *)

Before(k) == {PoolNames[j] : j \in 1..(k - 1)}
OfKind(a, pools) == {p \in pools : console.pool[p] = a}

\* However the stream is cut, and whatever the console says of its own accord,
\* an answer is taken for the command that it answers: an acknowledged verb
\* names the pools the console applied it to and passed over only those it
\* does not have, a refusal comes from the pool it stopped at, and SHOW POOLS
\* says of each pool what is so, wherever the console puts the column.
AnswersItsCommand ==
    /\ reply.kind = "ok" =>
        /\ applied = OfKind("ok", NamesOfPools)
        /\ OfKind("error", NamesOfPools) = {}
    /\ reply.kind = "refused" /\ turn > 0 =>
        /\ console.pool[PoolNames[turn]] = "error"
        /\ applied = OfKind("ok", Before(turn))
    /\ reply.kind = "pools" =>
        reply.pools = [k \in DOMAIN PoolNames |->
            [database |-> PoolNames[k],
             paused |-> console.pool[PoolNames[k]] = "ok"]]
=============================================================================
