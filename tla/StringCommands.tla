---------------------------- MODULE StringCommands ----------------------------
(***************************************************************************)
(* What SET, GET and DEL do to a map from keys to values, and what they    *)
(* answer.  A value is named after the request that wrote it, a request    *)
(* being <<connection, number>>: every write is told from every other.     *)
(***************************************************************************)
EXTENDS Naturals, Sequences

CONSTANT Key

Absent == <<0, 0>>

\* name is how the client spells the command: in capitals or not.
\* "PING" stands for every command that is answered without a shard (PING,
\* a wrong number of arguments, a name nobody knows).
Cmd == [op : {"SET", "GET", "DEL", "PING"}, key : Key, name : {"upper", "lower"}]

\* The reply of execute() on the core that owns the key.
Answer(s, cmd) ==
    CASE cmd.op = "PING" -> [kind |-> "+PONG", val |-> Absent]
      [] cmd.op = "SET" -> [kind |-> "+OK", val |-> Absent]
      [] cmd.op = "GET" -> [kind |-> "$", val |-> s[cmd.key]]
      [] cmd.op = "DEL" -> [kind |-> IF s[cmd.key] = Absent THEN ":0" ELSE ":1",
                            val |-> Absent]

\* The map after execute(), req being the request that is executed.
Effect(s, cmd, req) ==
    CASE cmd.op = "SET" -> [s EXCEPT ![cmd.key] = req]
      [] cmd.op = "DEL" -> [s EXCEPT ![cmd.key] = Absent]
      [] OTHER -> s

\* "-ERR unknown command"
Unknown == [kind |-> "-ERR", val |-> Absent]
=============================================================================
