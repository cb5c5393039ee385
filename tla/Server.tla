-------------------------------- MODULE Server --------------------------------
(***************************************************************************)
(* QuineDB end to end: clients, the connections of each core, the shards,  *)
(* and the forwarding of a command to the core that owns its key and of    *)
(* its reply back to the connection.                                       *)
(*                                                                         *)
(* The threads, inboxes and wake-ups are those of Itc: every step here is  *)
(* a step of Itc or leaves its variables alone.  The map of a shard is     *)
(* KeyMap (HashMap implements it): a SET of a new key takes one of its     *)
(* Capacity slots for good and throws when none is left.  Which core owns  *)
(* a key is Owner (Router computes it).  A command is a whole command: the *)
(* parser is RespParser.  The bytes of a reply are whole: the operations   *)
(* of a connection are Connection.                                         *)
(***************************************************************************)
EXTENDS StringCommands, FiniteSets, Functions

CONSTANTS
    Core, None, MaxQueue,  \* see Itc
    Owner,      \* Topology::get_target_core
    Capacity,   \* slots of a shard's map (10000 in the code)
    MaxConns,   \* bound: connections accepted
    IdSpace,    \* connection ids are modulo this (2^32 in the code)
    MaxSends,   \* bound: commands of all clients
    MaxErrors,  \* bound: reads of a notification descriptor that fail
    Window,     \* commands a client sends without waiting for the reply
    Workload    \* the commands that clients send

ASSUME CoreAssumption == IsFiniteSet(Core) /\ None \notin Core /\ MaxQueue \in Nat
ASSUME OwnerAssumption == Owner \in [Key -> Core]
ASSUME BoundsAssumption ==
    {Capacity, MaxConns, MaxSends, MaxErrors, Window} \subseteq Nat /\ IdSpace \in Nat \ {0}
ASSUME WorkloadAssumption == Workload \subseteq Cmd

Conn == 1 .. MaxConns
ConnId == 0 .. IdSpace - 1
Request == Conn \X (1 .. MaxSends)
Reply == [kind : {"+PONG", "+OK", "$", ":0", ":1", "-ERR"}, val : Request \cup {Absent}]

\* A message carries the connection id and the command or the payload.  req is
\* not in the code: it tells whose command, or the reply to whose, this is.
Body == [conn_id : ConnId, req : Request, cmd : Cmd]
          \cup [conn_id : ConnId, req : Request, payload : Reply]

VARIABLES
    phase, registered_count, notify_fds, channel, event, notif, batch, waking,
    store,              \* store[c]: the data of c's shard
    used,               \* used[c]: slots of its map that have been taken
    next_conn_id,
    home,               \* home[i]: core whose listener accepted connection i
    open,               \* open[i]: the Connection object exists
    local_connections,  \* local_connections[c][id], 0 if there is none
    sock,               \* sock[i]: commands sent and not yet read
    write_queue,        \* write_queue_ of connection i
    waiting,            \* the commands client i awaits a reply to
    sent,               \* how many commands the clients have sent
    errors,             \* how many notification reads have failed
    got                 \* got[i]: last reply client i has received, and the
                        \* command that it takes it for
itc == <<phase, registered_count, notify_fds, channel, event, notif, batch, waking>>
shards == <<store, used>>
conns == <<next_conn_id, home, open, local_connections>>
clients == <<sock, write_queue, waiting, sent, errors, got>>
vars == <<itc, shards, conns, clients>>

ITC == INSTANCE Itc

\* Mutant: every connection gets the same id.
same_id(i) == 0

Id(i) == i % IdSpace

\* Threads, shards, connections and clients; a shard never takes more slots than it
\* has.
TypeOK ==
    /\ ITC!TypeOK
    /\ store \in [Core -> [Key -> Request \cup {Absent}]]
    /\ used \in [Core -> 0 .. Capacity]
    /\ next_conn_id \in 1 .. MaxConns + 1
    /\ home \in [Conn -> Core \cup {None}]
    /\ open \in [Conn -> BOOLEAN]
    /\ local_connections \in [Core -> [ConnId -> Conn \cup {0}]]
    /\ sock \in [Conn -> Seq([req : Request, cmd : Cmd])]
    /\ write_queue \in [Conn -> Seq([req : Request, reply : Reply])]
    /\ waiting \in [Conn -> Seq([req : Request, cmd : Cmd])]
    /\ sent \in 0 .. MaxSends /\ errors \in 0 .. MaxErrors
    /\ got \in [Conn -> [req : Request \cup {Absent}, reply : Reply,
                         asked : Request \cup {Absent}]]

Init ==
    /\ ITC!Init
    /\ store = [c \in Core |-> [k \in Key |-> Absent]]
    /\ used = [c \in Core |-> 0]
    /\ next_conn_id = 1
    /\ home = [i \in Conn |-> None]
    /\ open = [i \in Conn |-> FALSE]
    /\ local_connections = [c \in Core |-> [id \in ConnId |-> 0]]
    /\ sock = [i \in Conn |-> <<>>]
    /\ write_queue = [i \in Conn |-> <<>>]
    /\ waiting = [i \in Conn |-> <<>>]
    /\ sent = 0 /\ errors = 0
    /\ got = [i \in Conn |-> [req |-> Absent, reply |-> Unknown, asked |-> Absent]]

-----------------------------------------------------------------------------
(* Clients *)

\* The client of connection i writes a command to its socket.
send(i, cmd) ==
    /\ open[i]
    /\ sent < MaxSends /\ Len(waiting[i]) < Window
    /\ sent' = sent + 1
    /\ LET r == [req |-> <<i, sent + 1>>, cmd |-> cmd]
       IN  /\ sock' = [sock EXCEPT ![i] = Append(@, r)]
           /\ waiting' = [waiting EXCEPT ![i] = Append(@, r)]
    /\ UNCHANGED <<itc, shards, conns, write_queue, errors, got>>

-----------------------------------------------------------------------------
(* Connections *)

\* TcpServer::handle_accept, on_connect included.
handle_accept(c) ==
    /\ ITC!Idle(c)
    /\ next_conn_id <= MaxConns
    /\ next_conn_id' = next_conn_id + 1
    /\ home' = [home EXCEPT ![next_conn_id] = c]
    /\ open' = [open EXCEPT ![next_conn_id] = TRUE]
    /\ local_connections' = [local_connections EXCEPT
                                ![c] = [@ EXCEPT ![Id(next_conn_id)] = next_conn_id]]
    /\ UNCHANGED <<itc, shards, clients>>

\* Connection::submit_write
submit_write(i, req, reply) ==
    write_queue' = [write_queue EXCEPT ![i] = Append(@, [req |-> req, reply |-> reply])]

\* Connection::handle_write: the reply at the front has reached the client,
\* which takes it for the reply to its oldest unanswered command.
handle_write(i) ==
    /\ open[i] /\ ITC!Idle(home[i])
    /\ write_queue[i] # <<>>
    /\ write_queue' = [write_queue EXCEPT ![i] = Tail(@)]
    /\ got' = [got EXCEPT ![i] =
                [req |-> Head(write_queue[i]).req, reply |-> Head(write_queue[i]).reply,
                 asked |-> IF waiting[i] = <<>> THEN Absent ELSE Head(waiting[i]).req]]
    /\ waiting' = [waiting EXCEPT ![i] = IF @ = <<>> THEN @ ELSE Tail(@)]
    /\ UNCHANGED <<itc, shards, conns, sock, sent, errors>>

\* Mutant: every connection of the core is forgotten.
disconnect_all(i) ==
    /\ open[i] /\ ITC!Idle(home[i])
    /\ open' = [open EXCEPT ![i] = FALSE]
    /\ local_connections' = [local_connections EXCEPT ![home[i]] = [id \in ConnId |-> 0]]
    /\ sock' = [sock EXCEPT ![i] = <<>>]
    /\ write_queue' = [write_queue EXCEPT ![i] = <<>>]
    /\ waiting' = [waiting EXCEPT ![i] = <<>>]
    /\ UNCHANGED <<itc, shards, next_conn_id, home, sent, errors, got>>

\* handle_read with res <= 0, or handle_write with res < 0: on_disconnect_
\* and delete this.
disconnect(i) ==
    /\ open[i] /\ ITC!Idle(home[i])
    /\ open' = [open EXCEPT ![i] = FALSE]
    /\ local_connections' = [local_connections EXCEPT
                                ![home[i]] = [@ EXCEPT ![Id(i)] = 0]]
    /\ sock' = [sock EXCEPT ![i] = <<>>]
    /\ write_queue' = [write_queue EXCEPT ![i] = <<>>]
    /\ waiting' = [waiting EXCEPT ![i] = <<>>]
    /\ UNCHANGED <<itc, shards, next_conn_id, home, sent, errors, got>>

-----------------------------------------------------------------------------
(* Commands *)

\* Shard::set on a map that has no free slot for a new key: put() throws.
Throws(c, cmd) ==
    cmd.op = "SET" /\ store[c][cmd.key] = Absent /\ used[c] = Capacity

\* execute() on the core that owns the key.
execute(c, cmd, req) ==
    /\ store' = [store EXCEPT ![c] = Effect(@, cmd, req)]
    /\ used' = [used EXCEPT ![c] =
                 IF cmd.op = "SET" /\ store[c][cmd.key] = Absent THEN @ + 1 ELSE @]

\* handle_read has got bytes: handle_data executes the first command among
\* them and drops what the read returned after it (`consumed` is not used).
Reads(i) ==
    /\ open[i] /\ ITC!Idle(home[i])
    /\ sock[i] # <<>>
    /\ sock' = [sock EXCEPT ![i] = <<>>]

\* Mutant: every core takes every key for its own.
always_local(c, cmd) == TRUE

Local(c, cmd) == cmd.op = "PING" \/ Owner[cmd.key] = c

read_local(i) ==
    LET c == home[i]
        r == Head(sock[i])
    IN  /\ Reads(i)
        /\ Local(c, r.cmd) /\ ~ Throws(c, r.cmd)
        /\ execute(c, r.cmd, r.req)
        /\ submit_write(i, r.req, Answer(store[c], r.cmd))
        /\ UNCHANGED <<itc, conns, waiting, sent, errors, got>>

read_forward(i) ==
    LET c == home[i]
        r == Head(sock[i])
    IN  /\ Reads(i)
        /\ ~ Local(c, r.cmd)
        /\ ITC!forward(c, Owner[r.cmd.key], [conn_id |-> Id(i), req |-> r.req, cmd |-> r.cmd])
        /\ UNCHANGED <<shards, conns, write_queue, waiting, sent, errors, got>>

\* Mutant: the map is changed before put() finds out that it is full.
read_throw_late(i) ==
    LET r == Head(sock[i])
    IN  /\ Reads(i)
        /\ Local(home[i], r.cmd) /\ Throws(home[i], r.cmd)
        /\ execute(home[i], r.cmd, r.req)
        /\ ITC!die(home[i])
        /\ UNCHANGED <<conns, write_queue, waiting, sent, errors, got>>

\* The exception of put() leaves run(): the worker thread ends.  Nobody closes
\* the sockets of its connections.
read_throw(i) ==
    /\ Reads(i)
    /\ Local(home[i], Head(sock[i]).cmd) /\ Throws(home[i], Head(sock[i]).cmd)
    /\ ITC!die(home[i])
    /\ UNCHANGED <<shards, conns, write_queue, waiting, sent, errors, got>>

handle_read(i) == read_local(i) \/ read_forward(i) \/ read_throw(i)

-----------------------------------------------------------------------------
(* The notification handler of worker_main *)

\* The message that the handler has come to.
Handling(c, type) ==
    ITC!Consuming(c) /\ batch[c] # <<>> /\ Head(batch[c]).type = type

\* The registry knows commands by their names in capitals, and the handler
\* looks args[0] up as the client spelled it.
handle_request(c) ==
    LET b == Head(batch[c]).body
        known == b.cmd.name = "upper"
    IN  /\ Handling(c, "REQUEST")
        /\ ~ (known /\ Throws(c, b.cmd))
        /\ IF known THEN execute(c, b.cmd, b.req) ELSE UNCHANGED shards
        /\ ITC!handle_request(c,
                [conn_id |-> b.conn_id, req |-> b.req,
                 payload |-> IF known THEN Answer(store[c], b.cmd) ELSE Unknown])
        /\ UNCHANGED <<conns, clients>>

request_throw(c) ==
    LET b == Head(batch[c]).body
    IN  /\ Handling(c, "REQUEST")
        /\ b.cmd.name = "upper" /\ Throws(c, b.cmd)
        /\ ITC!die(c)
        /\ UNCHANGED <<shards, conns, clients>>

\* Mutant: the reply is not written.
response_dropped(c) ==
    /\ Handling(c, "RESPONSE")
    /\ ITC!handle_response(c)
    /\ UNCHANGED <<shards, conns, clients>>

\* A response to a connection that is gone is dropped.
handle_response(c) ==
    LET b == Head(batch[c]).body
        i == local_connections[c][b.conn_id]
    IN  /\ Handling(c, "RESPONSE")
        /\ IF i # 0 THEN submit_write(i, b.req, b.payload) ELSE UNCHANGED write_queue
        /\ ITC!handle_response(c)
        /\ UNCHANGED <<shards, conns, sock, waiting, sent, errors, got>>

\* What the thread does next, wherever it stands outside the event loop.
runs_on(c) ==
    \/ /\ \/ ITC!register_notify_fd(c)
          \/ ITC!wait_for_all_cores(c)
          \/ ITC!enter_run(c)
          \/ ITC!notify_core(c)
          \/ ITC!submit_notification_read(c)
       /\ UNCHANGED <<shards, conns, clients>>
    \/ handle_request(c)
    \/ request_throw(c)
    \/ handle_response(c)

\* The notification read completes and is dispatched.
read_event(c) == ITC!read_event(c) /\ UNCHANGED <<shards, conns, clients>>
read_error(c) ==
    /\ errors < MaxErrors /\ errors' = errors + 1
    /\ ITC!read_error(c)
    /\ UNCHANGED <<shards, conns, sock, write_queue, waiting, sent, got>>
consume_all(c) == ITC!consume_all(c) /\ UNCHANGED <<shards, conns, clients>>

Next ==
    \/ \E i \in Conn :
        \/ \E cmd \in Workload : send(i, cmd)
        \/ handle_read(i)
        \/ handle_write(i)
        \/ disconnect(i)
    \/ \E c \in Core :
        \/ handle_accept(c)
        \/ runs_on(c)
        \/ read_event(c)
        \/ read_error(c)
        \/ consume_all(c)

Spec == Init /\ [][Next]_vars

\* As in Itc: threads are scheduled and the completion queue is FIFO, so that a
\* completed read or write is dispatched however often the thread finds other
\* completions in between (strong fairness).  Clients may do nothing.  The
\* connections share one condition: fairness to each is more than is needed.
Fairness ==
    /\ SF_vars(\E i \in Conn : handle_read(i) \/ handle_write(i))
    /\ \A c \in Core : WF_vars(runs_on(c) \/ read_event(c)) /\ SF_vars(consume_all(c))

FairSpec == Spec /\ Fairness

-----------------------------------------------------------------------------
(* Properties *)

\* The messages in the inbox of c or being handled by c.
Inbox(c) == channel[c] \o batch[c]

\* "Since we routed it here, it MUST be local" (worker_main), and "strict
\* partitioning" (README): a REQUEST only ever sits in the inbox of the core
\* that owns its key, and a shard only holds keys that its core owns.
StrictPartitioning ==
    \A c \in Core :
        /\ \A m \in Range(Inbox(c)) :
            m.type = "REQUEST" => m.body.cmd.op # "PING" /\ Owner[m.body.cmd.key] = c
        /\ \A k \in Key : store[c][k] # Absent => Owner[k] = c

\* The client takes each reply for the reply to the command it was made for:
\* no reply reaches another connection, or out of turn.
OwnReply == \A i \in Conn : got[i].asked = got[i].req

\* Where the server holds a command or its reply: queue, whose, position.
Spots(queue, x, s, req) == {<<queue, x, n>> : n \in {m \in DOMAIN s : s[m].req = req}}
Bodies(s) == [n \in DOMAIN s |-> s[n].body]
Places(req) ==
    UNION ({Spots("channel", c, Bodies(channel[c]), req) : c \in Core}
            \cup {Spots("batch", c, Bodies(batch[c]), req) : c \in Core}
            \cup {Spots("sock", i, sock[i], req) : i \in Conn}
            \cup {Spots("write_queue", i, write_queue[i], req) : i \in Conn})

\* As long as no core has failed, every command that an open connection waits
\* for is in exactly one place (socket, inbox, batch or write queue), and a
\* command that has been answered is nowhere: none is lost, none is run twice.
NoCommandLost ==
    (\A c \in Core : phase[c] # "dead")
    => \A i \in Conn : open[i] =>
        \A n \in 1 .. sent :
            IF \E r \in Range(waiting[i]) : r.req = <<i, n>>
            THEN \E p \in Places(<<i, n>>) : Places(<<i, n>>) = {p} ELSE Places(<<i, n>>) = {}

\* The one map that the shards are, the commands and the replies under way of
\* each connection, and what its client has received.
Dict == [k \in Key |-> store[Owner[k]][k]]
Pending ==
    [i \in Conn |->
        Range(sock[i]) \cup
        UNION {{[req |-> m.body.req, cmd |-> m.body.cmd] :
                m \in {x \in Range(Inbox(c)) : x.type = "REQUEST" /\ x.body.req[1] = i}}
               : c \in Core}]
Replies ==
    [i \in Conn |->
        Range(write_queue[i]) \cup
        UNION {{[req |-> m.body.req, reply |-> m.body.payload] :
                m \in {x \in Range(Inbox(c)) : x.type = "RESPONSE" /\ x.body.req[1] = i}}
               : c \in Core}]
Received == [i \in Conn |-> [req |-> got[i].req, reply |-> got[i].reply]]

KV == INSTANCE KVService WITH
    Client <- Conn, Number <- 1 .. MaxSends,
    dict <- Dict, pend <- Pending, res <- Replies, got <- Received

\* Clients that wait for their replies see one linearizable map, even when
\* commands race on several cores, connections close and cores fail.
Linearizable == KV!Spec

\* Every command is answered, or its connection closes, or one of the two cores
\* it needs fails: in the end no other command waits, so a failed core takes
\* down only the commands that need it.
Answered ==
    LET Waiting(n) == \E i \in Conn : \E r \in Range(waiting[i]) : r.req[2] = n
        Failed(n) ==
            \E i \in Conn : \E r \in Range(waiting[i]) :
                /\ r.req[2] = n
                /\ \/ phase[home[i]] = "dead"
                   \/ r.cmd.op # "PING" /\ phase[Owner[r.cmd.key]] = "dead"
    IN  (\E n \in 1 .. MaxSends : Waiting(n) /\ ~ Failed(n))
        ~> (\A n \in 1 .. MaxSends : Waiting(n) => Failed(n))
=============================================================================
