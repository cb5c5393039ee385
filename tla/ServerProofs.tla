----------------------------- MODULE ServerProofs -----------------------------
(***************************************************************************)
(* Proofs about Server, for any number of cores, connections, keys and     *)
(* commands.  For clients that pipeline or not: its threads are those of   *)
(* Itc, and a shard is touched only by its owner.  For clients that wait   *)
(* for each reply, and connection ids that are not reused: each connection *)
(* has at most one command under way, in one place, and it is the one its  *)
(* client waits for.  No command is lost or run twice, replies reach the   *)
(* command they were made for, and the clients see one linearizable map.   *)
(***************************************************************************)
EXTENDS Server, TLAPS

RequestBody == [conn_id : ConnId, req : Request, cmd : Cmd]
ResponseBody == [conn_id : ConnId, req : Request, payload : Reply]

\* What a message m in the inbox of core c may be, h being the cores of the
\* connections.  A REQUEST is about a key of c and goes back to the core of its
\* connection; a RESPONSE is there already.
Proper(h, c, m) ==
    /\ m.body.conn_id = Id(m.body.req[1])
    /\ \/ /\ m.type = "REQUEST"
          /\ m.body \in RequestBody
          /\ m.body.cmd.op # "PING" /\ Owner[m.body.cmd.key] = c
          /\ m.origin_core_id = h[m.body.req[1]]
       \/ /\ m.type = "RESPONSE"
          /\ m.body \in ResponseBody
          /\ h[m.body.req[1]] = c

MessagesProper ==
    \A c \in Core :
        /\ \A n \in DOMAIN channel[c] : Proper(home, c, channel[c][n])
        /\ \A n \in DOMAIN batch[c] : Proper(home, c, batch[c][n])

\* A connection belongs to the core that accepted it, nothing of a connection
\* outlives it, and local_connections has only connections that exist.
ConnectionsProper ==
    /\ \A i \in Conn :
        /\ open[i] => home[i] \in Core
        /\ i >= next_conn_id => home[i] = None
        /\ ~ open[i] => sock[i] = <<>> /\ write_queue[i] = <<>> /\ waiting[i] = <<>>
        /\ \A n \in DOMAIN sock[i] : sock[i][n].req[1] = i
        /\ \A n \in DOMAIN waiting[i] : waiting[i][n].req[1] = i
    /\ \A c \in Core : \A id \in ConnId :
        local_connections[c][id] # 0
        => /\ open[local_connections[c][id]]
           /\ home[local_connections[c][id]] = c
           /\ Id(local_connections[c][id]) = id

\* A shard holds only keys of its core.
ShardsProper == \A c \in Core : \A k \in Key : store[c][k] # Absent => Owner[k] = c

\* The inductive invariant behind StrictPartitioning and the refinement of Itc.
IInv == TypeOK /\ MessagesProper /\ ConnectionsProper /\ ShardsProper

-----------------------------------------------------------------------------
(* Queues *)

\* The front of a queue.
LEMMA HeadOfQueue ==
    ASSUME NEW S, NEW s \in Seq(S), s # <<>>
    PROVE  1 \in DOMAIN s /\ Head(s) = s[1] /\ Head(s) \in S
  OBVIOUS

\* What is in a queue after its front has been taken.
LEMMA TailOfQueue ==
    ASSUME NEW S, NEW s \in Seq(S), s # <<>>
    PROVE  /\ Tail(s) \in Seq(S)
           /\ \A n \in DOMAIN Tail(s) : n + 1 \in DOMAIN s /\ Tail(s)[n] = s[n + 1]
           /\ \A n \in DOMAIN s : n # 1 => n - 1 \in DOMAIN Tail(s)
  OBVIOUS

\* What is in a queue after a push.
LEMMA AppendToQueue ==
    ASSUME NEW S, NEW s \in Seq(S), NEW m \in S
    PROVE  /\ Append(s, m) \in Seq(S)
           /\ \A n \in DOMAIN s : n \in DOMAIN Append(s, m) /\ Append(s, m)[n] = s[n]
           /\ Len(s) + 1 \in DOMAIN Append(s, m) /\ Append(s, m)[Len(s) + 1] = m
           /\ \A n \in DOMAIN Append(s, m) : n \in DOMAIN s \/ n = Len(s) + 1
           /\ Len(s) + 1 \notin DOMAIN s
  OBVIOUS

\* One queue of several changes, and all stay queues of S.
LEMMA QueuesType ==
    ASSUME NEW I, NEW S, NEW f \in [I -> Seq(S)], NEW i \in I
    PROVE  /\ [f EXCEPT ![i] = <<>>] \in [I -> Seq(S)]
           /\ \A x \in S : [f EXCEPT ![i] = Append(f[i], x)] \in [I -> Seq(S)]
           /\ f[i] # <<>> => /\ Head(f[i]) \in S
                            /\ [f EXCEPT ![i] = Tail(f[i])] \in [I -> Seq(S)]
  OBVIOUS

\* One queue of several gets one more entry ...
LEMMA QueuesPush ==
    ASSUME NEW I, NEW S, NEW f \in [I -> Seq(S)], NEW i \in I, NEW x \in S,
           NEW g, g = [f EXCEPT ![i] = Append(f[i], x)]
    PROVE  \A j \in I : \A n \in DOMAIN g[j] :
                (\E k \in DOMAIN f[j] : g[j][n] = f[j][k]) \/ (j = i /\ g[j][n] = x)
  OBVIOUS

\* ... loses its first entry ...
LEMMA QueuesPop ==
    ASSUME NEW I, NEW S, NEW f \in [I -> Seq(S)], NEW i \in I, f[i] # <<>>,
           NEW g, g = [f EXCEPT ![i] = Tail(f[i])]
    PROVE  \A j \in I : \A n \in DOMAIN g[j] : \E k \in DOMAIN f[j] : g[j][n] = f[j][k]
  OBVIOUS

\* ... or all of them.
LEMMA QueuesClear ==
    ASSUME NEW I, NEW S, NEW f \in [I -> Seq(S)], NEW i \in I,
           NEW g, g = [f EXCEPT ![i] = <<>>]
    PROVE  \A j \in I : \A n \in DOMAIN g[j] : \E k \in DOMAIN f[j] : g[j][n] = f[j][k]
  OBVIOUS

-----------------------------------------------------------------------------
(* Itc inside Server *)

\* The next message of a batch names the core that its answer goes to.
LEMMA OriginIsCore ==
    ASSUME ITC!TypeOK, NEW c \in Core, batch[c] # <<>>
    PROVE  Head(batch[c]).origin_core_id \in Core
<1>1. Head(batch[c]) \in ITC!Message
  BY DEF ITC!TypeOK
<1> QED
  BY <1>1 DEF ITC!Message

\* A step of Itc keeps the types of threads and messages.
LEMMA ItcTypeStep ==
    ASSUME ITC!TypeOK, [ITC!Next]_itc
    PROVE  ITC!TypeOK'
<1> USE CoreAssumption DEF ITC!TypeOK
<1>1. ASSUME NEW c \in Core, ITC!Work(c) PROVE ITC!TypeOK'
  <2>1. CASE ITC!register_notify_fd(c)
    BY <2>1 DEF ITC!register_notify_fd
  <2>2. CASE ITC!wait_for_all_cores(c)
    BY <2>2 DEF ITC!wait_for_all_cores
  <2>3. CASE ITC!enter_run(c)
    BY <2>3 DEF ITC!enter_run
  <2>4. CASE ITC!notify_core(c)
    BY <2>4 DEF ITC!notify_core
  <2>5. ASSUME NEW d \in Core \ {c}, NEW b \in Body, ITC!forward(c, d, b) PROVE ITC!TypeOK'
    <3>1. [type |-> "REQUEST", origin_core_id |-> c, body |-> b] \in ITC!Message
      BY <2>5 DEF ITC!Message
    <3> QED
      BY <2>5, <3>1 DEF ITC!forward, ITC!push
  <2>6. CASE ITC!read_event(c)
    BY <2>6 DEF ITC!read_event
  <2>7. CASE ITC!read_error(c)
    BY <2>7 DEF ITC!read_error
  <2>8. CASE ITC!consume_all(c)
    BY <2>8 DEF ITC!consume_all
  <2>9. ASSUME NEW b \in Body, ITC!handle_request(c, b) PROVE ITC!TypeOK'
    <3>1. [type |-> "RESPONSE", origin_core_id |-> c, body |-> b] \in ITC!Message
      BY <2>9 DEF ITC!Message
    <3>2. Head(batch[c]).origin_core_id \in Core
      BY <2>9, OriginIsCore DEF ITC!handle_request
    <3> QED
      BY <2>9, <3>1, <3>2 DEF ITC!handle_request, ITC!push
  <2>10. CASE ITC!handle_response(c)
    BY <2>10 DEF ITC!handle_response
  <2>11. CASE ITC!submit_notification_read(c)
    BY <2>11 DEF ITC!submit_notification_read
  <2> QED
    BY <1>1, <2>1, <2>2, <2>3, <2>4, <2>5, <2>6, <2>7, <2>8, <2>9, <2>10, <2>11, Zenon
       DEF ITC!Work
<1>2. ASSUME NEW c \in Core, ITC!die(c) PROVE ITC!TypeOK'
  BY <1>2 DEF ITC!die
<1>3. CASE UNCHANGED itc
  BY <1>3 DEF itc
<1> QED
  BY <1>1, <1>2, <1>3, Zenon DEF ITC!Next

-----------------------------------------------------------------------------
(* What a message is *)

\* Connection ids.
LEMMA IdType == \A i \in Conn : Id(i) \in ConnId
BY BoundsAssumption DEF Id, ConnId, Conn

\* The types of the inboxes and of the connections' queues.
LEMMA QueueTypes ==
    ASSUME TypeOK
    PROVE  /\ channel \in [Core -> Seq(ITC!Message)]
           /\ batch \in [Core -> Seq(ITC!Message)]
           /\ sock \in [Conn -> Seq([req : Request, cmd : Cmd])]
           /\ waiting \in [Conn -> Seq([req : Request, cmd : Cmd])]
           /\ write_queue \in [Conn -> Seq([req : Request, reply : Reply])]
BY Zenon DEF TypeOK, ITC!TypeOK

\* A message is about a connection and comes from a core.
LEMMA MessageFacts ==
    ASSUME NEW m \in ITC!Message
    PROVE  /\ m.body.req \in Request
           /\ m.body.req[1] \in Conn
           /\ m.body.conn_id \in ConnId
           /\ m.origin_core_id \in Core
BY DEF ITC!Message, Body, Request

\* Connections do not change their core.
LEMMA ProperStays ==
    ASSUME NEW h, NEW g, NEW c \in Core, NEW m \in ITC!Message, Proper(h, c, m),
           \A i \in Conn : h[i] \in Core => g[i] = h[i]
    PROVE  Proper(g, c, m)
BY MessageFacts DEF Proper

\* The message that the notification handler has come to.
LEMMA FrontOfBatch ==
    ASSUME TypeOK, MessagesProper, NEW c \in Core, batch[c] # <<>>
    PROVE  Head(batch[c]) \in ITC!Message /\ Proper(home, c, Head(batch[c]))
<1>1. batch[c] \in Seq(ITC!Message)
  BY QueueTypes
<1> QED
  BY <1>1, HeadOfQueue DEF MessagesProper

\* The command that handle_read executes or forwards.
LEMMA FrontOfSock ==
    ASSUME TypeOK, ConnectionsProper, NEW i \in Conn, Reads(i)
    PROVE  /\ Head(sock[i]) \in [req : Request, cmd : Cmd]
           /\ Head(sock[i]).req[1] = i
           /\ home[i] \in Core
<1>1. sock[i] \in Seq([req : Request, cmd : Cmd]) /\ sock[i] # <<>> /\ open[i]
  BY QueueTypes, Zenon DEF Reads
<1>2. 1 \in DOMAIN sock[i] /\ Head(sock[i]) = sock[i][1] /\ Head(sock[i]) \in [req : Request, cmd : Cmd]
  BY <1>1, HeadOfQueue, Zenon
<1> QED
  BY <1>1, <1>2 DEF ConnectionsProper

\* execute() answers with a reply.
LEMMA AnswerType ==
    ASSUME NEW s \in [Key -> Request \cup {Absent}], NEW cmd \in Cmd
    PROVE  Answer(s, cmd) \in Reply
BY Zenon DEF Answer, Reply, Cmd

\* Messages stay proper if connections keep their cores and the messages that
\* are new are proper.
LEMMA MessagesStay ==
    ASSUME TypeOK, MessagesProper,
           \A i \in Conn : home[i] \in Core => home'[i] = home[i],
           \A c \in Core : \A n \in DOMAIN channel'[c] :
                \/ \E k \in DOMAIN channel[c] : channel'[c][n] = channel[c][k]
                \/ Proper(home', c, channel'[c][n]),
           \A c \in Core : \A n \in DOMAIN batch'[c] :
                \/ \E k \in DOMAIN channel[c] : batch'[c][n] = channel[c][k]
                \/ \E k \in DOMAIN batch[c] : batch'[c][n] = batch[c][k]
    PROVE  MessagesProper'
<1>1. \A c \in Core :
        /\ \A k \in DOMAIN channel[c] : Proper(home', c, channel[c][k])
        /\ \A k \in DOMAIN batch[c] : Proper(home', c, batch[c][k])
  <2> SUFFICES ASSUME NEW c \in Core
               PROVE  /\ \A k \in DOMAIN channel[c] : Proper(home', c, channel[c][k])
                      /\ \A k \in DOMAIN batch[c] : Proper(home', c, batch[c][k])
    BY Zenon
  <2>1. /\ \A k \in DOMAIN channel[c] : channel[c][k] \in ITC!Message
        /\ \A k \in DOMAIN batch[c] : batch[c][k] \in ITC!Message
    BY QueueTypes
  <2> QED
    BY <2>1, ProperStays DEF MessagesProper
<1> QED
  BY <1>1 DEF MessagesProper

\* The messages are left alone by every step that changes neither inboxes nor
\* connections.
LEMMA MessagesUnchanged ==
    ASSUME MessagesProper, UNCHANGED <<channel, batch, home>>
    PROVE  MessagesProper'
BY Zenon DEF MessagesProper

-----------------------------------------------------------------------------
(* Every step of Server is a step of Itc *)

\* handle_read on another core's key: the message that is pushed.
LEMMA ForwardFacts ==
    ASSUME IInv, NEW i \in Conn, read_forward(i)
    PROVE  /\ home[i] \in Core
           /\ Head(sock[i]).req[1] = i /\ Head(sock[i]).cmd.op # "PING"
           /\ \E d \in Core \ {home[i]}, b \in RequestBody :
                /\ ITC!forward(home[i], d, b)
                /\ b.conn_id = Id(i) /\ b.req = Head(sock[i]).req
                /\ b.cmd = Head(sock[i]).cmd /\ d = Owner[b.cmd.key]
<1> DEFINE r == Head(sock[i])
           b == [conn_id |-> Id(i), req |-> r.req, cmd |-> r.cmd]
<1>1. Reads(i) /\ ~ Local(home[i], r.cmd) /\ ITC!forward(home[i], Owner[r.cmd.key], b)
  BY Zenon DEF read_forward
<1>2. r \in [req : Request, cmd : Cmd] /\ r.req[1] = i /\ home[i] \in Core
  BY <1>1, FrontOfSock, Zenon DEF IInv
<1>3. r.cmd.op # "PING" /\ Owner[r.cmd.key] \in Core \ {home[i]}
  BY <1>1, <1>2, OwnerAssumption, Zenon DEF Local, Cmd
<1>4. b \in RequestBody /\ b.conn_id = Id(i) /\ b.req = r.req /\ b.cmd = r.cmd
  BY <1>2, IdType, Zenon DEF RequestBody
<1> HIDE DEF b
<1> QED
  BY <1>1, <1>2, <1>3, <1>4, Zenon

\* The notification handler on a REQUEST: the answer that is pushed.
LEMMA RequestFacts ==
    ASSUME IInv, NEW c \in Core, handle_request(c)
    PROVE  LET m == Head(batch[c])
           IN  /\ batch[c] # <<>> /\ m \in ITC!Message /\ Proper(home, c, m)
               /\ m.type = "REQUEST" /\ m.body \in RequestBody
               /\ \E b \in ResponseBody :
                    /\ ITC!handle_request(c, b)
                    /\ b.conn_id = m.body.conn_id /\ b.req = m.body.req
                    /\ b.payload = IF m.body.cmd.name = "upper"
                                   THEN Answer(store[c], m.body.cmd) ELSE Unknown
<1> DEFINE m == Head(batch[c])
           p == IF m.body.cmd.name = "upper" THEN Answer(store[c], m.body.cmd) ELSE Unknown
           b == [conn_id |-> m.body.conn_id, req |-> m.body.req, payload |-> p]
<1>1. batch[c] # <<>> /\ m.type = "REQUEST" /\ ITC!handle_request(c, b)
  BY Zenon DEF handle_request, Handling
<1>2. m \in ITC!Message /\ Proper(home, c, m)
  BY <1>1, FrontOfBatch, Zenon DEF IInv
<1>3. m.body \in RequestBody
  BY <1>1, <1>2, Zenon DEF Proper
<1>4. m.body.cmd \in Cmd /\ m.body.conn_id \in ConnId /\ m.body.req \in Request
  BY <1>3 DEF RequestBody
<1>5. store[c] \in [Key -> Request \cup {Absent}]
  BY DEF IInv, TypeOK
<1>6. p \in Reply
  <2>1. Unknown \in Reply
    BY Zenon DEF Unknown, Reply
  <2> QED
    BY <1>4, <1>5, <2>1, AnswerType
<1>7. b \in ResponseBody /\ b.conn_id = m.body.conn_id /\ b.req = m.body.req /\ b.payload = p
  BY <1>4, <1>6, Zenon DEF ResponseBody
<1> HIDE DEF b
<1> QED
  BY <1>1, <1>2, <1>3, <1>7, Zenon

\* The bodies of both kinds.
LEMMA BodyKinds == Body = RequestBody \cup ResponseBody
BY DEF Body, RequestBody, ResponseBody

\* Server takes no step with threads, inboxes and wake-ups that Itc does not.
LEMMA ItcStep == IInv /\ [Next]_vars => [ITC!Next]_itc
<1> SUFFICES ASSUME IInv, [Next]_vars PROVE [ITC!Next]_itc
  OBVIOUS
<1>1. ASSUME NEW i \in Conn, handle_read(i) PROVE [ITC!Next]_itc
  <2>1. CASE read_local(i)
    BY <2>1 DEF read_local
  <2>2. CASE read_forward(i)
    <3>1. PICK d \in Core \ {home[i]}, b \in RequestBody : ITC!forward(home[i], d, b)
      BY <2>2, ForwardFacts
    <3>2. home[i] \in Core /\ b \in Body
      BY <2>2, ForwardFacts, BodyKinds
    <3> QED
      BY <3>1, <3>2, Zenon DEF ITC!Next, ITC!Work
  <2>3. CASE read_throw(i)
    <3>1. Reads(i) /\ ITC!die(home[i])
      BY <2>3 DEF read_throw
    <3>2. home[i] \in Core
      BY <3>1, FrontOfSock DEF IInv
    <3> QED
      BY <3>1, <3>2 DEF ITC!Next
  <2> QED
    BY <1>1, <2>1, <2>2, <2>3, Zenon DEF handle_read
<1>2. ASSUME NEW c \in Core, handle_request(c) PROVE [ITC!Next]_itc
  <2>1. PICK b \in ResponseBody : ITC!handle_request(c, b)
    BY <1>2, RequestFacts, Zenon
  <2> QED
    BY <2>1, BodyKinds DEF ITC!Next, ITC!Work
<1>3. ASSUME NEW c \in Core, runs_on(c), ~ handle_request(c) PROVE [ITC!Next]_itc
  BY <1>3 DEF runs_on, request_throw, handle_response, ITC!Next, ITC!Work
<1>4. ASSUME NEW c \in Core, read_event(c) \/ read_error(c) \/ consume_all(c)
      PROVE  [ITC!Next]_itc
  BY <1>4 DEF read_event, read_error, consume_all, ITC!Next, ITC!Work
<1>5. ASSUME NEW c \in Core, handle_accept(c) PROVE [ITC!Next]_itc
  BY <1>5, Zenon DEF handle_accept
<1>6. ASSUME NEW i \in Conn, handle_write(i) \/ disconnect(i) \/ \E cmd \in Workload : send(i, cmd)
      PROVE  [ITC!Next]_itc
  BY <1>6, Zenon DEF handle_write, disconnect, send
<1>7. CASE UNCHANGED vars
  BY <1>7 DEF vars
<1> QED
  BY <1>1, <1>2, <1>3, <1>4, <1>5, <1>6, <1>7, Zenon DEF Next

-----------------------------------------------------------------------------
(* The invariant is inductive *)

\* A command takes effect on a shard and leaves it a map of requests, with no
\* more slots taken than it has.
LEMMA ExecuteTypes ==
    ASSUME TypeOK, NEW c \in Core, NEW cmd \in Cmd, NEW req \in Request,
           ~ Throws(c, cmd), execute(c, cmd, req)
    PROVE  /\ store' \in [Core -> [Key -> Request \cup {Absent}]]
           /\ used' \in [Core -> 0 .. Capacity]
<1>1. store[c] \in [Key -> Request \cup {Absent}] /\ used[c] \in 0 .. Capacity
  BY DEF TypeOK
<1>2. Effect(store[c], cmd, req) \in [Key -> Request \cup {Absent}]
  BY <1>1 DEF Effect, Cmd
<1>3. store' = [store EXCEPT ![c] = Effect(store[c], cmd, req)]
  BY DEF execute
<1>4. store' \in [Core -> [Key -> Request \cup {Absent}]]
  BY <1>2, <1>3, Zenon DEF TypeOK
<1>5. used' \in [Core -> 0 .. Capacity]
  BY <1>1, BoundsAssumption DEF execute, Throws, TypeOK
<1> QED
  BY <1>4, <1>5

\* Types are preserved by every step.
LEMMA TypeStep == IInv /\ [Next]_vars => TypeOK'
<1> SUFFICES ASSUME IInv, [Next]_vars PROVE TypeOK'
  OBVIOUS
<1> USE BoundsAssumption
<1>0. TypeOK /\ ITC!TypeOK'
  <2>1. TypeOK /\ ITC!TypeOK
    BY Zenon DEF IInv, TypeOK
  <2> QED
    BY <2>1, ItcStep, ItcTypeStep, Zenon
<1>1. ASSUME NEW i \in Conn, NEW cmd \in Workload, send(i, cmd) PROVE TypeOK'
  <2>1. sent \in 0 .. MaxSends /\ sent < MaxSends /\ cmd \in Cmd
    BY <1>0, <1>1, WorkloadAssumption DEF TypeOK, send
  <2>2. <<i, sent + 1>> \in Request
    BY <2>1 DEF Request
  <2>3. [req |-> <<i, sent + 1>>, cmd |-> cmd] \in [req : Request, cmd : Cmd]
    BY <2>1, <2>2
  <2>4. /\ sock' \in [Conn -> Seq([req : Request, cmd : Cmd])]
        /\ waiting' \in [Conn -> Seq([req : Request, cmd : Cmd])]
    <3> DEFINE S == [req : Request, cmd : Cmd]
               x == [req |-> <<i, sent + 1>>, cmd |-> cmd]
    <3>1. x \in S /\ sock \in [Conn -> Seq(S)] /\ waiting \in [Conn -> Seq(S)]
      BY <1>0, <2>3, QueueTypes, Zenon
    <3>2. /\ sock' = [sock EXCEPT ![i] = Append(sock[i], x)]
          /\ waiting' = [waiting EXCEPT ![i] = Append(waiting[i], x)]
      BY <1>1 DEF send
    <3> HIDE DEF S, x
    <3>3. sock' \in [Conn -> Seq(S)] /\ waiting' \in [Conn -> Seq(S)]
      BY <3>1, <3>2, QueuesType
    <3> QED
      BY <3>3, Zenon DEF S
  <2>5. sent' \in 0 .. MaxSends
    BY <1>1, <2>1 DEF send
  <2> QED
    BY <1>0, <1>1, <2>4, <2>5, Zenon DEF TypeOK, send, shards, conns
<1>2. ASSUME NEW i \in Conn, Reads(i) PROVE sock' \in [Conn -> Seq([req : Request, cmd : Cmd])]
  <2> DEFINE S == [req : Request, cmd : Cmd]
  <2>1. sock \in [Conn -> Seq(S)] /\ sock' = [sock EXCEPT ![i] = <<>>]
    BY <1>0, <1>2, QueueTypes, Zenon DEF Reads
  <2> HIDE DEF S
  <2>2. sock' \in [Conn -> Seq(S)]
    BY <2>1, QueuesType
  <2> QED
    BY <2>2, Zenon DEF S
<1>14. ASSUME NEW i \in Conn, NEW req \in Request, NEW reply \in Reply,
             submit_write(i, req, reply)
      PROVE  write_queue' \in [Conn -> Seq([req : Request, reply : Reply])]
  <2> DEFINE S == [req : Request, reply : Reply]
             x == [req |-> req, reply |-> reply]
  <2>1. x \in S /\ write_queue \in [Conn -> Seq(S)]
    BY <1>0, QueueTypes, Zenon
  <2>2. write_queue' = [write_queue EXCEPT ![i] = Append(write_queue[i], x)]
    BY <1>14 DEF submit_write
  <2> HIDE DEF S, x
  <2>3. write_queue' \in [Conn -> Seq(S)]
    BY <2>1, <2>2, QueuesType, Zenon
  <2> QED
    BY <2>3, Zenon DEF S
<1>3. ASSUME NEW i \in Conn, read_local(i) PROVE TypeOK'
  <2> DEFINE c == home[i]
             r == Head(sock[i])
  <2>1. Reads(i) /\ ~ Throws(c, r.cmd) /\ execute(c, r.cmd, r.req)
    BY <1>3, Zenon DEF read_local
  <2>2. r \in [req : Request, cmd : Cmd] /\ c \in Core
    BY <2>1, FrontOfSock, Zenon DEF IInv
  <2>3. /\ store' \in [Core -> [Key -> Request \cup {Absent}]]
        /\ used' \in [Core -> 0 .. Capacity]
    BY <1>0, <2>1, <2>2, ExecuteTypes, Zenon
  <2>4. r.req \in Request /\ Answer(store[c], r.cmd) \in Reply
    BY <1>0, <2>2, AnswerType, Zenon DEF TypeOK
  <2>5. write_queue' \in [Conn -> Seq([req : Request, reply : Reply])]
    <3>1. submit_write(i, r.req, Answer(store[c], r.cmd))
      BY <1>3 DEF read_local
    <3> QED
      BY <1>14, <2>4, <3>1, ZenonT(30)
  <2> QED
    BY <1>0, <1>2, <1>3, <2>1, <2>3, <2>5, ZenonT(30) DEF TypeOK, read_local, conns
<1>4. ASSUME NEW i \in Conn, read_forward(i) \/ read_throw(i) PROVE TypeOK'
  BY <1>0, <1>2, <1>4, Zenon DEF TypeOK, read_forward, read_throw, shards, conns
<1>5. ASSUME NEW i \in Conn, handle_write(i) PROVE TypeOK'
  <2> DEFINE S == [req : Request, reply : Reply]
             W == [req : Request, cmd : Cmd]
  <2>1. /\ write_queue \in [Conn -> Seq(S)] /\ waiting \in [Conn -> Seq(W)]
        /\ write_queue[i] # <<>>
        /\ write_queue' = [write_queue EXCEPT ![i] = Tail(write_queue[i])]
        /\ \/ waiting[i] = <<>> /\ waiting' = [waiting EXCEPT ![i] = <<>>]
           \/ waiting[i] # <<>> /\ waiting' = [waiting EXCEPT ![i] = Tail(waiting[i])]
    BY <1>0, <1>5, QueueTypes, Zenon DEF handle_write
  <2> HIDE DEF S, W
  <2>2. write_queue' \in [Conn -> Seq(S)]
    BY <2>1, QueuesType
  <2>4. waiting' \in [Conn -> Seq(W)]
    <3>1. waiting \in [Conn -> Seq(W)]
      BY <2>1
    <3>2. /\ [waiting EXCEPT ![i] = <<>>] \in [Conn -> Seq(W)]
          /\ waiting[i] # <<>> => [waiting EXCEPT ![i] = Tail(waiting[i])] \in [Conn -> Seq(W)]
      BY <3>1, QueuesType
    <3> QED
      BY <2>1, <3>2, Zenon
  <2>3. Head(write_queue[i]) \in S /\ (waiting[i] # <<>> => Head(waiting[i]) \in W)
    BY <2>1, QueuesType, Zenon
  <2> USE DEF S, W
  <2>5. [req |-> Head(write_queue[i]).req, reply |-> Head(write_queue[i]).reply,
         asked |-> IF waiting[i] = <<>> THEN Absent ELSE Head(waiting[i]).req]
        \in [req : Request \cup {Absent}, reply : Reply, asked : Request \cup {Absent}]
    BY <2>3
  <2>6. got' \in [Conn -> [req : Request \cup {Absent}, reply : Reply,
                           asked : Request \cup {Absent}]]
    BY <1>0, <1>5, <2>5 DEF TypeOK, handle_write
  <2> QED
    BY <1>0, <1>5, <2>2, <2>4, <2>6, Zenon DEF TypeOK, handle_write, shards, conns
<1>6. ASSUME NEW i \in Conn, disconnect(i) PROVE TypeOK'
  <2>1. home[i] \in Core /\ Id(i) \in ConnId
    BY <1>6, IdType DEF disconnect, IInv, ConnectionsProper
  <2>2. local_connections' \in [Core -> [ConnId -> Conn \cup {0}]]
    BY <1>0, <1>6, <2>1 DEF TypeOK, disconnect
  <2>3. /\ sock' \in [Conn -> Seq([req : Request, cmd : Cmd])]
        /\ write_queue' \in [Conn -> Seq([req : Request, reply : Reply])]
        /\ waiting' \in [Conn -> Seq([req : Request, cmd : Cmd])]
    <3> DEFINE S == [req : Request, reply : Reply]
               W == [req : Request, cmd : Cmd]
    <3>1. /\ write_queue \in [Conn -> Seq(S)]
          /\ waiting \in [Conn -> Seq(W)] /\ sock \in [Conn -> Seq(W)]
          /\ write_queue' = [write_queue EXCEPT ![i] = <<>>]
          /\ waiting' = [waiting EXCEPT ![i] = <<>>] /\ sock' = [sock EXCEPT ![i] = <<>>]
      BY <1>0, <1>6, QueueTypes, Zenon DEF disconnect
    <3> HIDE DEF S, W
    <3>2. /\ write_queue' \in [Conn -> Seq(S)]
          /\ waiting' \in [Conn -> Seq(W)] /\ sock' \in [Conn -> Seq(W)]
      BY <3>1, QueuesType, Zenon
    <3> QED
      BY <3>2, Zenon DEF S, W
  <2> QED
    BY <1>0, <1>6, <2>2, <2>3, Zenon DEF TypeOK, disconnect, shards
<1>7. ASSUME NEW c \in Core, handle_accept(c) PROVE TypeOK'
  <2>1. next_conn_id \in Conn /\ next_conn_id + 1 \in 1 .. MaxConns + 1
    BY <1>0, <1>7, SMTT(30) DEF TypeOK, handle_accept, Conn
  <2>2. Id(next_conn_id) \in ConnId
    BY <2>1, IdType
  <2>3. local_connections' \in [Core -> [ConnId -> Conn \cup {0}]]
    BY <1>0, <1>7, <2>1, <2>2, Zenon DEF TypeOK, handle_accept
  <2> QED
    BY <1>0, <1>7, <2>1, <2>3, Zenon DEF TypeOK, handle_accept, shards, clients
<1>8. ASSUME NEW c \in Core, handle_request(c) PROVE TypeOK'
  <2> DEFINE b == Head(batch[c]).body
  <2>1. b \in RequestBody
    BY <1>8, RequestFacts
  <2>2. /\ store' \in [Core -> [Key -> Request \cup {Absent}]]
        /\ used' \in [Core -> 0 .. Capacity]
    <3>1. CASE b.cmd.name = "upper"
      <4>1. ~ Throws(c, b.cmd) /\ execute(c, b.cmd, b.req)
        BY <1>8, <3>1 DEF handle_request
      <4>2. b.cmd \in Cmd /\ b.req \in Request
        BY <2>1, Zenon DEF RequestBody
      <4> QED
        BY <1>0, <4>1, <4>2, ExecuteTypes
    <3>2. CASE b.cmd.name # "upper"
      BY <1>0, <1>8, <3>2, Zenon DEF handle_request, shards, TypeOK
    <3> QED
      BY <3>1, <3>2
  <2> QED
    BY <1>0, <1>8, <2>2, Zenon DEF TypeOK, handle_request, conns, clients
<1>9. ASSUME NEW c \in Core, handle_response(c) PROVE TypeOK'
  <2> DEFINE b == Head(batch[c]).body
             i == local_connections[c][b.conn_id]
  <2>1. batch[c] # <<>> /\ Head(batch[c]).type = "RESPONSE"
    BY <1>9, Zenon DEF handle_response, Handling
  <2>2. b \in ResponseBody
    BY <2>1, FrontOfBatch DEF IInv, Proper
  <2>3. b.req \in Request /\ b.payload \in Reply
    BY <2>2 DEF ResponseBody
  <2>4. i \in Conn \cup {0}
    BY <1>0, <2>2 DEF TypeOK, ResponseBody
  <2>5. write_queue' \in [Conn -> Seq([req : Request, reply : Reply])]
    <3>1. IF i # 0 THEN submit_write(i, b.req, b.payload) ELSE UNCHANGED write_queue
      BY <1>9, Zenon DEF handle_response
    <3> QED
      BY <1>0, <1>14, <2>3, <2>4, <3>1, QueueTypes, Zenon
  <2> QED
    BY <1>0, <1>9, <2>5, Zenon DEF TypeOK, handle_response, shards, conns
<1>10. ASSUME UNCHANGED <<shards, conns, sock, write_queue, waiting, sent, got>>,
              errors' \in 0 .. MaxErrors
       PROVE  TypeOK'
  BY <1>0, <1>10, Zenon DEF TypeOK, shards, conns
<1>11. errors \in 0 .. MaxErrors
  BY <1>0 DEF TypeOK
<1>12. ASSUME NEW c \in Core, read_error(c) PROVE TypeOK'
  BY <1>10, <1>11, <1>12 DEF read_error
<1>13. ASSUME UNCHANGED <<shards, conns, clients>> PROVE TypeOK'
  BY <1>10, <1>11, <1>13 DEF clients
<1> QED
  BY <1>1, <1>3, <1>4, <1>5, <1>6, <1>7, <1>8, <1>9, <1>12, <1>13
     DEF Next, handle_read, runs_on, request_throw, read_event, consume_all, vars

\* Every step leaves every message where it may be: pushes are to the right core,
\* and a connection that has messages under way does not change its core.
LEMMA MessagesStep == IInv /\ [Next]_vars => MessagesProper'
<1> SUFFICES ASSUME IInv, [Next]_vars PROVE MessagesProper'
  OBVIOUS
<1>0. /\ TypeOK /\ MessagesProper
      /\ channel \in [Core -> Seq(ITC!Message)] /\ batch \in [Core -> Seq(ITC!Message)]
  BY QueueTypes DEF IInv
<1> DEFINE KeptChannel == \A c \in Core : \A n \in DOMAIN channel'[c] :
                              \E k \in DOMAIN channel[c] : channel'[c][n] = channel[c][k]
           KeptBatch == \A c \in Core : \A n \in DOMAIN batch'[c] :
                            \E k \in DOMAIN batch[c] : batch'[c][n] = batch[c][k]
<1>1. ASSUME NEW i \in Conn, read_forward(i) PROVE MessagesProper'
  <2>1. PICK d \in Core \ {home[i]}, b \in RequestBody :
            /\ ITC!forward(home[i], d, b)
            /\ b.conn_id = Id(i) /\ b.req = Head(sock[i]).req
            /\ b.cmd = Head(sock[i]).cmd /\ d = Owner[b.cmd.key]
    BY <1>1, ForwardFacts, Zenon
  <2>2. home[i] \in Core /\ b.req[1] = i /\ b.cmd.op # "PING"
    BY <1>1, <2>1, ForwardFacts
  <2> DEFINE m == [type |-> "REQUEST", origin_core_id |-> home[i], body |-> b]
  <2>3. m \in ITC!Message
    BY <2>2, BodyKinds, Zenon DEF ITC!Message
  <2>4. Proper(home, d, m)
    BY <2>1, <2>2, Zenon DEF Proper
  <2>5. /\ channel' = [channel EXCEPT ![d] = Append(channel[d], m)]
        /\ UNCHANGED <<batch, home>>
    BY <1>1, <2>1, Zenon DEF ITC!forward, ITC!push, read_forward, conns
  <2> HIDE DEF m
  <2>6. \A c \in Core : \A n \in DOMAIN channel'[c] :
            (\E k \in DOMAIN channel[c] : channel'[c][n] = channel[c][k])
            \/ (c = d /\ channel'[c][n] = m)
    BY <1>0, <2>3, <2>5, QueuesPush
  <2> QED
    BY <1>0, <2>4, <2>5, <2>6, MessagesStay, Zenon
<1>2. ASSUME NEW c \in Core, handle_request(c) PROVE MessagesProper'
  <2> DEFINE h == Head(batch[c])
             d == h.origin_core_id
  <2>1. /\ batch[c] # <<>> /\ h \in ITC!Message /\ Proper(home, c, h) /\ h.type = "REQUEST"
        /\ \E b \in ResponseBody :
            ITC!handle_request(c, b) /\ b.conn_id = h.body.conn_id /\ b.req = h.body.req
    BY <1>2, RequestFacts
  <2>2. PICK b \in ResponseBody :
            ITC!handle_request(c, b) /\ b.conn_id = h.body.conn_id /\ b.req = h.body.req
    BY <2>1
  <2> DEFINE m == [type |-> "RESPONSE", origin_core_id |-> c, body |-> b]
  <2>3. m \in ITC!Message /\ d \in Core
    BY <2>1, BodyKinds, MessageFacts DEF ITC!Message
  <2>4. Proper(home, d, m)
    BY <2>1, <2>2, Zenon DEF Proper
  <2>5. /\ channel' = [channel EXCEPT ![d] = Append(channel[d], m)]
        /\ batch' = [batch EXCEPT ![c] = Tail(batch[c])]
        /\ UNCHANGED home
    BY <1>2, <2>2, Zenon DEF ITC!handle_request, ITC!push, handle_request, conns
  <2> HIDE DEF m, d
  <2>6. \A e \in Core : \A n \in DOMAIN channel'[e] :
            (\E k \in DOMAIN channel[e] : channel'[e][n] = channel[e][k])
            \/ (e = d /\ channel'[e][n] = m)
    BY <1>0, <2>3, <2>5, QueuesPush
  <2>7. KeptBatch
    <3>1. batch[c] # <<>> /\ batch' = [batch EXCEPT ![c] = Tail(batch[c])]
      BY <2>1, <2>5
    <3>2. batch \in [Core -> Seq(ITC!Message)]
      BY <1>0
    <3> HIDE DEF h
    <3> QED
      BY <3>1, <3>2, QueuesPop
  <2>8. \A e \in Core : \A n \in DOMAIN channel'[e] :
            \/ \E k \in DOMAIN channel[e] : channel'[e][n] = channel[e][k]
            \/ Proper(home', e, channel'[e][n])
    BY <2>4, <2>5, <2>6, Zenon
  <2> QED
    BY <1>0, <2>5, <2>7, <2>8, MessagesStay, ZenonT(30)
<1>3. ASSUME NEW c \in Core, handle_response(c) PROVE MessagesProper'
  <2>1. /\ batch[c] # <<>> /\ batch' = [batch EXCEPT ![c] = Tail(batch[c])]
        /\ UNCHANGED <<channel, home>>
    BY <1>3, Zenon DEF handle_response, ITC!handle_response, conns
  <2>2. KeptBatch
    BY <1>0, <2>1, QueuesPop
  <2> QED
    BY <1>0, <2>1, <2>2, MessagesStay, Zenon
<1>4. ASSUME NEW c \in Core, consume_all(c) PROVE MessagesProper'
  <2>1. /\ batch' = [batch EXCEPT ![c] = channel[c]]
        /\ channel' = [channel EXCEPT ![c] = <<>>]
        /\ UNCHANGED home
    BY <1>4 DEF consume_all, ITC!consume_all, conns
  <2>2. KeptChannel
    BY <1>0, <2>1, QueuesClear
  <2>3. \A d \in Core : \A n \in DOMAIN batch'[d] :
            (\E k \in DOMAIN channel[d] : batch'[d][n] = channel[d][k])
            \/ (\E k \in DOMAIN batch[d] : batch'[d][n] = batch[d][k])
    BY <1>0, <2>1
  <2> QED
    BY <1>0, <2>1, <2>2, <2>3, MessagesStay
<1>5. ASSUME NEW c \in Core, ITC!die(c), UNCHANGED home PROVE MessagesProper'
  <2>1. batch' = [batch EXCEPT ![c] = <<>>] /\ UNCHANGED channel
    BY <1>5 DEF ITC!die
  <2>2. KeptBatch
    BY <1>0, <2>1, QueuesClear
  <2> QED
    BY <1>0, <1>5, <2>1, <2>2, MessagesStay, Zenon
<1>6. ASSUME NEW c \in Core, handle_accept(c) PROVE MessagesProper'
  <2>1. home' = [home EXCEPT ![next_conn_id] = c] /\ UNCHANGED <<channel, batch>>
    BY <1>6 DEF handle_accept, itc
  <2>2. next_conn_id \in Conn /\ home \in [Conn -> Core \cup {None}]
    BY <1>0, <1>6, BoundsAssumption DEF handle_accept, TypeOK, Conn
  <2>3. home[next_conn_id] = None
    BY <2>2, BoundsAssumption DEF IInv, ConnectionsProper, Conn
  <2>4. \A i \in Conn : home[i] \in Core => home'[i] = home[i]
    BY <2>1, <2>2, <2>3, CoreAssumption
  <2> QED
    BY <1>0, <2>1, <2>4, MessagesStay, Zenon
<1>7. ASSUME NEW i \in Conn, read_throw(i) PROVE MessagesProper'
  <2>1. home[i] \in Core
    BY <1>7, FrontOfSock, Zenon DEF read_throw, IInv
  <2> QED
    BY <1>5, <1>7, <2>1, Zenon DEF read_throw, conns
<1>8. ASSUME NEW i \in Conn, read_local(i) \/ handle_write(i) \/ disconnect(i)
                             \/ \E cmd \in Workload : send(i, cmd)
      PROVE  MessagesProper'
  BY <1>0, <1>8, MessagesUnchanged, Zenon DEF read_local, handle_write, disconnect, send, itc, conns
<1>9. ASSUME NEW c \in Core, read_event(c) \/ read_error(c) PROVE MessagesProper'
  BY <1>0, <1>9, MessagesUnchanged
     DEF read_event, read_error, ITC!read_event, ITC!read_error, conns
<1>10. ASSUME NEW c \in Core, runs_on(c) PROVE MessagesProper'
  <2>1. CASE handle_request(c) \/ handle_response(c) \/ request_throw(c)
    BY <1>2, <1>3, <1>5, <2>1 DEF request_throw, conns
  <2>2. CASE ~(handle_request(c) \/ handle_response(c) \/ request_throw(c))
    BY <1>0, <1>10, <2>2, MessagesUnchanged
       DEF runs_on, conns, ITC!register_notify_fd, ITC!wait_for_all_cores, ITC!enter_run,
           ITC!notify_core, ITC!submit_notification_read
  <2> QED
    BY <2>1, <2>2
<1>11. CASE UNCHANGED vars
  BY <1>0, <1>11, MessagesUnchanged, Zenon DEF vars, itc, conns
<1> QED
  BY <1>1, <1>4, <1>6, <1>7, <1>8, <1>9, <1>10, <1>11 DEF Next, handle_read

\* A connection's queues only ever get commands of that connection.
LEMMA OwnCommands ==
    ASSUME NEW f \in [Conn -> Seq([req : Request, cmd : Cmd])], NEW i \in Conn,
           NEW x \in [req : Request, cmd : Cmd], x.req[1] = i,
           \A j \in Conn : \A n \in DOMAIN f[j] : f[j][n].req[1] = j,
           NEW g, g = [f EXCEPT ![i] = Append(f[i], x)]
    PROVE  \A j \in Conn : \A n \in DOMAIN g[j] : g[j][n].req[1] = j
<1> DEFINE S == [req : Request, cmd : Cmd]
<1> HIDE DEF S
<1>1. \A j \in Conn : \A n \in DOMAIN g[j] :
            (\E k \in DOMAIN f[j] : g[j][n] = f[j][k]) \/ (j = i /\ g[j][n] = x)
  BY QueuesPush DEF S
<1> QED
  BY <1>1

\* Connections stay registered, typed and owned as they are.
LEMMA ConnectionsUnchanged ==
    ASSUME ConnectionsProper, UNCHANGED <<conns, sock, waiting>>,
           \A i \in Conn : write_queue'[i] = write_queue[i] \/ open[i]
    PROVE  ConnectionsProper'
BY DEF ConnectionsProper, conns

\* Reading consumes what the socket holds.
LEMMA ConnectionsRead ==
    ASSUME TypeOK, ConnectionsProper, NEW i \in Conn, Reads(i), UNCHANGED <<conns, waiting>>,
           \A j \in Conn : write_queue'[j] = write_queue[j] \/ open[j]
    PROVE  ConnectionsProper'
<1>1. sock \in [Conn -> Seq([req : Request, cmd : Cmd])] /\ sock' = [sock EXCEPT ![i] = <<>>]
  BY QueueTypes, Zenon DEF Reads
<1>2. \A j \in Conn : sock'[j] = sock[j] \/ sock'[j] = <<>>
  BY <1>1
<1>3. \A j \in Conn : \A n \in DOMAIN sock'[j] : sock'[j][n].req[1] = j
  BY <1>2 DEF ConnectionsProper
<1> QED
  BY <1>2, <1>3, SMTT(30) DEF ConnectionsProper, conns

\* on_connect and on_disconnect_ keep local_connections in step with the
\* connections, and everything of a connection goes with it.
LEMMA ConnectionsStep == IInv /\ [Next]_vars => ConnectionsProper'
<1> SUFFICES ASSUME IInv, [Next]_vars PROVE ConnectionsProper'
  OBVIOUS
<1>0. TypeOK /\ ConnectionsProper
  BY Zenon DEF IInv
<1>1. ASSUME NEW i \in Conn, NEW cmd \in Workload, send(i, cmd) PROVE ConnectionsProper'
  <2> DEFINE x == [req |-> <<i, sent + 1>>, cmd |-> cmd]
  <2>1. x \in [req : Request, cmd : Cmd] /\ x.req[1] = i
    BY <1>0, <1>1, BoundsAssumption, WorkloadAssumption, SMTT(30) DEF TypeOK, send, Request
  <2>2. /\ sock' = [sock EXCEPT ![i] = Append(sock[i], x)]
        /\ waiting' = [waiting EXCEPT ![i] = Append(waiting[i], x)]
        /\ open[i] /\ UNCHANGED <<conns, write_queue>>
    BY <1>1 DEF send
  <2> HIDE DEF x
  <2>3. /\ \A j \in Conn : \A n \in DOMAIN sock[j] : sock[j][n].req[1] = j
        /\ \A j \in Conn : \A n \in DOMAIN waiting[j] : waiting[j][n].req[1] = j
    BY <1>0, Zenon DEF ConnectionsProper
  <2>4. \A j \in Conn : \A n \in DOMAIN sock'[j] : sock'[j][n].req[1] = j
    BY <1>0, <2>1, <2>2, <2>3, QueueTypes, OwnCommands, SMTT(30)
  <2>5. \A j \in Conn : \A n \in DOMAIN waiting'[j] : waiting'[j][n].req[1] = j
    BY <1>0, <2>1, <2>2, <2>3, QueueTypes, OwnCommands
  <2>6. \A j \in Conn : j # i => sock'[j] = sock[j] /\ waiting'[j] = waiting[j]
    BY <1>0, <2>2, QueueTypes, Zenon
  <2> QED
    BY <1>0, <2>2, <2>4, <2>5, <2>6 DEF ConnectionsProper, conns
<1>2. ASSUME NEW i \in Conn, read_local(i) PROVE ConnectionsProper'
  <2>1. \A j \in Conn : write_queue'[j] = write_queue[j] \/ open[j]
    BY <1>0, <1>2, QueueTypes, Zenon DEF read_local, Reads, submit_write
  <2> QED
    BY <1>0, <1>2, <2>1, ConnectionsRead, Zenon DEF read_local
<1>3. ASSUME NEW i \in Conn, read_forward(i) \/ read_throw(i) PROVE ConnectionsProper'
  BY <1>0, <1>3, ConnectionsRead, Zenon DEF read_forward, read_throw
<1>4. ASSUME NEW i \in Conn, handle_write(i) PROVE ConnectionsProper'
  <2> DEFINE W == [req : Request, cmd : Cmd]
  <2>1. /\ open[i] /\ UNCHANGED <<conns, sock>>
        /\ write_queue' = [write_queue EXCEPT ![i] = Tail(write_queue[i])]
        /\ waiting' = [waiting EXCEPT ![i] =
                        IF waiting[i] = <<>> THEN waiting[i] ELSE Tail(waiting[i])]
    BY <1>4 DEF handle_write
  <2>2. write_queue \in [Conn -> Seq([req : Request, reply : Reply])] /\ waiting \in [Conn -> Seq(W)]
    BY <1>0, QueueTypes, Zenon
  <2> HIDE DEF W
  <2>3. \A j \in Conn : j # i => waiting'[j] = waiting[j] /\ write_queue'[j] = write_queue[j]
    BY <2>1, <2>2
  <2>4. \A n \in DOMAIN waiting'[i] : \E k \in DOMAIN waiting[i] : waiting'[i][n] = waiting[i][k]
    BY <2>1, <2>2, TailOfQueue
  <2>5. \A j \in Conn : \A n \in DOMAIN waiting'[j] : waiting'[j][n].req[1] = j
    BY <1>0, <2>3, <2>4 DEF ConnectionsProper
  <2> QED
    BY <1>0, <2>1, <2>3, <2>5 DEF ConnectionsProper, conns
<1>5. ASSUME NEW i \in Conn, disconnect(i) PROVE ConnectionsProper'
  <2>1. /\ open[i] /\ open' = [open EXCEPT ![i] = FALSE]
        /\ local_connections' = [local_connections EXCEPT ![home[i]] =
                                    [local_connections[home[i]] EXCEPT ![Id(i)] = 0]]
        /\ sock' = [sock EXCEPT ![i] = <<>>]
        /\ write_queue' = [write_queue EXCEPT ![i] = <<>>]
        /\ waiting' = [waiting EXCEPT ![i] = <<>>]
        /\ UNCHANGED <<next_conn_id, home>>
    BY <1>5, Zenon DEF disconnect
  <2>2. /\ open \in [Conn -> BOOLEAN] /\ home[i] \in Core /\ Id(i) \in ConnId
        /\ local_connections \in [Core -> [ConnId -> Conn \cup {0}]]
    BY <1>0, <2>1, IdType, Zenon DEF TypeOK, ConnectionsProper
  <2>3. \A j \in Conn : open'[j] => open[j] /\ j # i
    BY <2>1, <2>2, Zenon
  <2>4. /\ sock'[i] = <<>> /\ write_queue'[i] = <<>> /\ waiting'[i] = <<>>
        /\ \A j \in Conn : j # i => /\ sock'[j] = sock[j] /\ write_queue'[j] = write_queue[j]
                                    /\ waiting'[j] = waiting[j] /\ open'[j] = open[j]
    BY <1>0, <2>1, <2>2, QueueTypes, Zenon
  <2>5. \A c \in Core : \A id \in ConnId :
            local_connections'[c][id] # 0
            => /\ local_connections'[c][id] = local_connections[c][id]
               /\ local_connections[c][id] \in Conn
               /\ c # home[i] \/ id # Id(i)
    BY <2>1, <2>2
  <2>6. \A c \in Core : \A id \in ConnId :
            local_connections'[c][id] # 0
            => /\ open'[local_connections'[c][id]]
               /\ home'[local_connections'[c][id]] = c
               /\ Id(local_connections'[c][id]) = id
    BY <1>0, <2>1, <2>2, <2>4, <2>5 DEF ConnectionsProper
  <2> QED
    BY <1>0, <2>1, <2>3, <2>4, <2>6 DEF ConnectionsProper
<1>6. ASSUME NEW c \in Core, handle_accept(c) PROVE ConnectionsProper'
  <2> DEFINE i == next_conn_id
  <2>1. /\ next_conn_id' = i + 1 /\ home' = [home EXCEPT ![i] = c]
        /\ open' = [open EXCEPT ![i] = TRUE]
        /\ local_connections' = [local_connections EXCEPT ![c] =
                                    [local_connections[c] EXCEPT ![Id(i)] = i]]
        /\ UNCHANGED <<sock, write_queue, waiting>>
    BY <1>6, Zenon DEF handle_accept, clients
  <2>2. /\ i \in Conn /\ Id(i) \in ConnId /\ Conn \subseteq Nat
        /\ open \in [Conn -> BOOLEAN] /\ home \in [Conn -> Core \cup {None}]
        /\ local_connections \in [Core -> [ConnId -> Conn \cup {0}]]
    BY <1>0, <1>6, IdType, BoundsAssumption DEF TypeOK, handle_accept, Conn
  <2>3. home[i] = None /\ ~ open[i]
    BY <1>0, <2>2, CoreAssumption DEF ConnectionsProper
  <2>4. \A j \in Conn : j # i => home'[j] = home[j] /\ open'[j] = open[j]
    BY <2>1, <2>2
  <2>5. home'[i] = c /\ open'[i]
    BY <2>1, <2>2, Zenon
  <2>6. \A d \in Core : \A id \in ConnId :
            \/ d = c /\ id = Id(i) /\ local_connections'[d][id] = i
            \/ local_connections'[d][id] = local_connections[d][id]
    BY <2>1, <2>2, Zenon
  <2>7. \A d \in Core : \A id \in ConnId :
            local_connections'[d][id] # 0
            => /\ open'[local_connections'[d][id]]
               /\ home'[local_connections'[d][id]] = d
               /\ Id(local_connections'[d][id]) = id
    <3> SUFFICES ASSUME NEW d \in Core, NEW id \in ConnId, local_connections'[d][id] # 0
                 PROVE  /\ open'[local_connections'[d][id]]
                        /\ home'[local_connections'[d][id]] = d
                        /\ Id(local_connections'[d][id]) = id
      OBVIOUS
    <3>1. CASE d = c /\ id = Id(i) /\ local_connections'[d][id] = i
      BY <2>5, <3>1, Zenon
    <3>2. CASE local_connections'[d][id] = local_connections[d][id]
      <4>1. /\ open[local_connections[d][id]] /\ home[local_connections[d][id]] = d
            /\ Id(local_connections[d][id]) = id /\ local_connections[d][id] \in Conn
        BY <1>0, <2>2, <3>2 DEF ConnectionsProper
      <4> QED
        BY <2>3, <2>4, <3>2, <4>1, Zenon
    <3> QED
      BY <2>6, <3>1, <3>2, Zenon
  <2>8. \A j \in Conn : j >= i + 1 => j # i /\ j >= i
    BY <2>2
  <2> QED
    BY <1>0, <2>1, <2>4, <2>5, <2>7, <2>8 DEF ConnectionsProper
<1>7. ASSUME NEW c \in Core, handle_response(c) PROVE ConnectionsProper'
  <2> DEFINE b == Head(batch[c]).body
             i == local_connections[c][b.conn_id]
  <2>1. batch[c] # <<>> /\ (i # 0 => submit_write(i, b.req, b.payload))
        /\ (i = 0 => UNCHANGED write_queue) /\ UNCHANGED <<conns, sock, waiting>>
    BY <1>7, ZenonT(30) DEF handle_response, Handling
  <2>2. b.conn_id \in ConnId
    BY <2>1, FrontOfBatch, MessageFacts, Zenon DEF IInv
  <2>3. i # 0 => open[i]
    BY <1>0, <2>2, Zenon DEF ConnectionsProper
  <2> HIDE DEF i, b
  <2>4. \A j \in Conn : write_queue'[j] = write_queue[j] \/ open[j]
    BY <1>0, <2>1, <2>3, QueueTypes, Zenon DEF submit_write
  <2> QED
    BY <1>0, <2>1, <2>4, ConnectionsUnchanged, Zenon
<1>8. ASSUME UNCHANGED <<conns, sock, waiting, write_queue>> PROVE ConnectionsProper'
  BY <1>0, <1>8, ConnectionsUnchanged, Zenon
<1>9. ASSUME NEW c \in Core, runs_on(c) \/ read_event(c) \/ read_error(c) \/ consume_all(c)
      PROVE  ConnectionsProper'
  BY <1>7, <1>8, <1>9, Zenon
     DEF runs_on, handle_request, request_throw, read_event, read_error, consume_all, clients
<1>10. CASE UNCHANGED vars
  BY <1>8, <1>10, Zenon DEF vars, clients
<1> QED
  BY <1>1, <1>2, <1>3, <1>4, <1>5, <1>6, <1>9, <1>10 DEF Next, handle_read

\* A shard changes only by a command on a key of its core.
LEMMA ShardsExecute ==
    ASSUME TypeOK, ShardsProper, NEW c \in Core, NEW cmd \in Cmd, NEW req,
           execute(c, cmd, req), cmd.op = "PING" \/ Owner[cmd.key] = c
    PROVE  ShardsProper'
<1>1. store \in [Core -> [Key -> Request \cup {Absent}]] /\ cmd.key \in Key
      /\ cmd.op \in {"SET", "GET", "DEL", "PING"}
  BY Zenon DEF TypeOK, Cmd
<1>2. store' = [store EXCEPT ![c] = Effect(store[c], cmd, req)]
  BY DEF execute
<1>3. \A k \in Key : Effect(store[c], cmd, req)[k] # store[c][k] => Owner[k] = c
  BY <1>1, Zenon DEF Effect
<1>4. \A d \in Core, k \in Key : store'[d][k] = store[d][k] \/ (d = c /\ Owner[k] = c)
  BY <1>1, <1>2, <1>3, Zenon
<1> QED
  BY <1>4 DEF ShardsProper

\* Commands on keys of other cores are forwarded, and a REQUEST is only executed
\* by the core that it is for.
LEMMA ShardsStep == IInv /\ [Next]_vars => ShardsProper'
<1> SUFFICES ASSUME IInv, [Next]_vars PROVE ShardsProper'
  OBVIOUS
<1>0. TypeOK /\ ShardsProper
  BY Zenon DEF IInv
<1>1. ASSUME NEW i \in Conn, read_local(i) PROVE ShardsProper'
  <2> DEFINE r == Head(sock[i])
  <2>1. Reads(i) /\ Local(home[i], r.cmd) /\ execute(home[i], r.cmd, r.req)
    BY <1>1, Zenon DEF read_local
  <2>2. r.cmd \in Cmd /\ home[i] \in Core
    BY <2>1, FrontOfSock, Zenon DEF IInv
  <2> QED
    BY <1>0, <2>1, <2>2, ShardsExecute, Zenon DEF Local
<1>2. ASSUME NEW c \in Core, handle_request(c) PROVE ShardsProper'
  <2> DEFINE b == Head(batch[c]).body
  <2>1. b.cmd \in Cmd /\ Owner[b.cmd.key] = c
    BY <1>2, RequestFacts, ZenonT(30) DEF Proper, RequestBody
  <2>2. execute(c, b.cmd, b.req) \/ UNCHANGED store
    BY <1>2, Zenon DEF handle_request, shards
  <2> QED
    BY <1>0, <2>1, <2>2, ShardsExecute, Zenon DEF ShardsProper
<1>3. ASSUME UNCHANGED store PROVE ShardsProper'
  BY <1>0, <1>3, Zenon DEF ShardsProper
<1>4. ASSUME NEW i \in Conn, ~ read_local(i),
             handle_read(i) \/ handle_write(i) \/ disconnect(i) \/ \E cmd \in Workload : send(i, cmd)
      PROVE  ShardsProper'
  BY <1>3, <1>4, ZenonT(30) DEF handle_read, read_forward, read_throw, handle_write, disconnect, send, shards
<1>5. ASSUME NEW c \in Core, ~ handle_request(c),
             handle_accept(c) \/ runs_on(c) \/ read_event(c) \/ read_error(c) \/ consume_all(c)
      PROVE  ShardsProper'
  BY <1>3, <1>5, Zenon DEF handle_accept, runs_on, request_throw, handle_response, read_event,
                    read_error, consume_all, shards
<1>6. CASE UNCHANGED vars
  BY <1>3, <1>6 DEF vars, shards
<1> QED
  BY <1>1, <1>2, <1>4, <1>5, <1>6, Zenon DEF Next

\* The invariant holds before any thread has started.
LEMMA InitIInv == Init => IInv
<1> SUFFICES ASSUME Init PROVE IInv
  OBVIOUS
<1>1. ITC!TypeOK
  BY CoreAssumption DEF Init, ITC!Init, ITC!TypeOK
<1>2. TypeOK
  <2>1. Unknown \in Reply
    BY Zenon DEF Unknown, Reply
  <2>2. /\ store \in [Core -> [Key -> Request \cup {Absent}]]
        /\ home \in [Conn -> Core \cup {None}] /\ open \in [Conn -> BOOLEAN]
        /\ local_connections \in [Core -> [ConnId -> Conn \cup {0}]]
    BY Zenon DEF Init
  <2>3. /\ used \in [Core -> 0 .. Capacity] /\ next_conn_id \in 1 .. (MaxConns + 1)
        /\ sent \in 0 .. MaxSends /\ errors \in 0 .. MaxErrors
    BY BoundsAssumption DEF Init
  <2>4. /\ sock \in [Conn -> Seq([req : Request, cmd : Cmd])]
        /\ write_queue \in [Conn -> Seq([req : Request, reply : Reply])]
        /\ waiting \in [Conn -> Seq([req : Request, cmd : Cmd])]
    BY DEF Init
  <2>5. got \in [Conn -> [req : Request \cup {Absent}, reply : Reply,
                         asked : Request \cup {Absent}]]
    BY <2>1, Zenon DEF Init
  <2> QED
    BY <1>1, <2>2, <2>3, <2>4, <2>5, Zenon DEF TypeOK
<1>3. MessagesProper
  BY DEF Init, ITC!Init, MessagesProper
<1>4. ConnectionsProper
  BY DEF Init, ConnectionsProper
<1>5. ShardsProper
  BY DEF Init, ShardsProper
<1> QED
  BY <1>2, <1>3, <1>4, <1>5 DEF IInv

\* The inductive invariant, preserved by every step.
LEMMA IInvStep == IInv /\ [Next]_vars => IInv'
BY TypeStep, MessagesStep, ConnectionsStep, ShardsStep DEF IInv

\* What every reachable state of the server satisfies.
THEOREM IInvInvariant == Spec => []IInv
BY InitIInv, IInvStep, PTL DEF Spec

\* Threads, inboxes, shards, connections and clients keep their types; a shard
\* never takes more slots than its map has.
THEOREM TypeCorrect == Spec => []TypeOK
<1>1. IInv => TypeOK
  BY Zenon DEF IInv
<1> QED
  BY <1>1, IInvInvariant, PTL

\* Messages in an inbox or in a batch.
LEMMA InboxMessages ==
    ASSUME TypeOK, NEW c \in Core, NEW m \in Range(Inbox(c))
    PROVE  (\E n \in DOMAIN channel[c] : m = channel[c][n])
           \/ (\E n \in DOMAIN batch[c] : m = batch[c][n])
<1> DEFINE S == ITC!Message
           s == channel[c]
           t == batch[c]
<1>1. s \in Seq(S) /\ t \in Seq(S)
  BY QueueTypes
<1>2. PICK n \in DOMAIN (s \o t) : m = (s \o t)[n]
  BY Zenon DEF Range, Inbox
<1> HIDE DEF S, s, t
<1>3. (\E k \in DOMAIN s : m = s[k]) \/ (\E k \in DOMAIN t : m = t[k])
  BY <1>1, <1>2
<1> QED
  BY <1>3 DEF s, t

\* Strict partitioning: a REQUEST is only ever in the inbox of the core that owns
\* its key, and a shard only holds keys of its core, for every assignment of
\* keys to cores and every interleaving of the cores.
THEOREM Partitioning == Spec => []StrictPartitioning
<1>1. IInv => StrictPartitioning
  <2> SUFFICES ASSUME IInv, NEW c \in Core,
                      NEW m \in Range(Inbox(c)), m.type = "REQUEST"
               PROVE  m.body.cmd.op # "PING" /\ Owner[m.body.cmd.key] = c
    BY Zenon DEF StrictPartitioning, IInv, ShardsProper
  <2>1. Proper(home, c, m)
    BY InboxMessages DEF IInv, MessagesProper
  <2> QED
    BY <2>1, Zenon DEF Proper
<1> QED
  BY <1>1, IInvInvariant, PTL

\* The threads, inboxes and wake-ups of the server are those of Itc, so that what
\* is proved of Itc (no lost wake-up, nobody is notified before the barrier)
\* holds inside the server, with its commands, connections and failures.
THEOREM ServerImplementsItc == Spec => ITC!Spec
<1>1. Init => ITC!Init
  BY DEF Init
<1>2. [ITC!Next]_itc => [ITC!Next]_(ITC!vars)
  BY DEF itc, ITC!vars
<1> QED
  BY <1>1, <1>2, IInvInvariant, ItcStep, PTL DEF Spec, ITC!Spec

-----------------------------------------------------------------------------
(* Clients that wait for each reply *)

\* Clients wait for each reply; the ids of connections do not wrap around.
ClientsWait == Window <= 1 /\ MaxConns < IdSpace

\* The connection that a message is about.
About(m) == m.body.req[1]

\* Message m is in one of the queues q of the cores.
In(q, m) == \E c \in Core : \E n \in DOMAIN q[c] : m = q[c][n]

\* The messages under way that are about connection i, ch being the inboxes and
\* ba the batches of the cores.
Flying(ch, ba, i) ==
    {m \in UNION {Range(ch[c]) \cup Range(ba[c]) : c \in Core} : About(m) = i}

\* No two messages in inboxes and batches are about the same connection.
Tidy(ch, ba) ==
    /\ \A c, d \in Core : \A n \in DOMAIN ch[c], k \in DOMAIN ch[d] :
        About(ch[c][n]) = About(ch[d][k]) => c = d /\ n = k
    /\ \A c, d \in Core : \A n \in DOMAIN ba[c], k \in DOMAIN ba[d] :
        About(ba[c][n]) = About(ba[d][k]) => c = d /\ n = k
    /\ \A c, d \in Core : \A n \in DOMAIN ch[c], k \in DOMAIN ba[d] :
        About(ch[c][n]) # About(ba[d][k])

\* No core has failed.
Alive == \A c \in Core : phase[c] # "dead"

\* A connection with messages f under way, commands s in its socket, replies q to
\* write, and a client that waits for w.  The server holds at most one thing of
\* it, which the client of an open connection waits for, and it does hold what
\* such a client waits for if no core has failed.
Orderly(f, s, q, w, o, alive) ==
    /\ Len(s) <= 1 /\ Len(q) <= 1 /\ Len(w) <= 1
    /\ s # <<>> => q = <<>> /\ f = {} /\ w # <<>> /\ w[1].req = s[1].req
    /\ q # <<>> => f = {} /\ w # <<>> /\ w[1].req = q[1].req
    /\ \A m \in f : o => w # <<>> /\ w[1].req = m.body.req
    /\ alive /\ o /\ w # <<>> => s # <<>> \/ q # <<>> \/ f # {}

AllOrderly ==
    \A i \in Conn :
        Orderly(Flying(channel, batch, i), sock[i], write_queue[i], waiting[i], open[i], Alive)

\* A response finds its connection as long as it is open.
AllRegistered == \A i \in Conn : open[i] => local_connections[home[i]][Id(i)] = i

\* Outside the notification handler no message is half handled.
BatchHandled ==
    \A c \in Core : /\ notif[c] # "handling" => batch[c] = <<>>
                    /\ phase[c] # "loop" => notif[c] = "none"

\* The inductive invariant behind OwnReply, NoCommandLost and Linearizable.
FlightInv == IInv /\ Tidy(channel, batch) /\ AllOrderly /\ AllRegistered /\ BatchHandled

-----------------------------------------------------------------------------
(* Messages come and go *)

\* Which messages are about a connection.
LEMMA FlyingFacts ==
    ASSUME NEW ch, NEW ba
    PROVE  \A i, m : m \in Flying(ch, ba, i) <=> About(m) = i /\ (In(ch, m) \/ In(ba, m))
BY DEF Flying, Range, In

\* The messages about j are the same in two arrangements ...
LEMMA FlyingSame ==
    ASSUME NEW ch, NEW ba, NEW g, NEW h, NEW j
    PROVE  (\A x : About(x) = j => (In(g, x) \/ In(h, x) <=> In(ch, x) \/ In(ba, x)))
           => Flying(g, h, j) = Flying(ch, ba, j)
<1> SUFFICES ASSUME \A x : About(x) = j => (In(g, x) \/ In(h, x) <=> In(ch, x) \/ In(ba, x))
             PROVE  Flying(g, h, j) = Flying(ch, ba, j)
  OBVIOUS
<1>1. \A x : x \in Flying(g, h, j) <=> x \in Flying(ch, ba, j)
  BY FlyingFacts
<1> QED
  BY <1>1

\* ... there is one ...
LEMMA FlyingOne ==
    ASSUME NEW g, NEW h, NEW m,
           \A x : About(x) = About(m) => (In(g, x) \/ In(h, x) <=> x = m)
    PROVE  Flying(g, h, About(m)) = {m}
<1>1. \A x : x \in Flying(g, h, About(m)) <=> x = m
  BY FlyingFacts
<1> QED
  BY <1>1

\* ... or there is none.
LEMMA FlyingNone ==
    ASSUME NEW g, NEW h, NEW j
    PROVE  Flying(g, h, j) = {} <=> \A x : About(x) = j => ~ In(g, x) /\ ~ In(h, x)
<1>1. \A x : x \in Flying(g, h, j) <=> About(x) = j /\ (In(g, x) \/ In(h, x))
  BY FlyingFacts
<1> QED
  BY <1>1

\* In g, queue d has got m as its last entry; the other queues are those of f.
Grown(f, g, d, m) ==
    /\ \A c \in Core : \A n \in DOMAIN f[c] : n \in DOMAIN g[c] /\ g[c][n] = f[c][n]
    /\ \E k \in DOMAIN g[d] :
        /\ g[d][k] = m
        /\ \A c \in Core : \A n \in DOMAIN g[c] : n \in DOMAIN f[c] \/ (c = d /\ n = k)

\* In g, queue c has lost its first entry h; the other queues are those of f.
Shrunk(f, g, c, h) ==
    /\ 1 \in DOMAIN f[c] /\ f[c][1] = h
    /\ \A d \in Core \ {c} : g[d] = f[d]
    /\ \A n \in DOMAIN g[c] : n + 1 \in DOMAIN f[c] \ {1} /\ g[c][n] = f[c][n + 1] /\ n \in Nat
    /\ \A n \in DOMAIN f[c] \ {1} : \E k \in DOMAIN g[c] : g[c][k] = f[c][n]

\* Queue c of ch has moved into the empty queue c of ba, which gives h and g.
Moved(ch, ba, h, g, c) ==
    /\ DOMAIN ba[c] = {} /\ g[c] = ch[c] /\ DOMAIN h[c] = {}
    /\ \A d \in Core \ {c} : g[d] = ba[d] /\ h[d] = ch[d]

\* push(), and the handler's step to the next message.
LEMMA QueueChanges ==
    ASSUME NEW M, NEW f \in [Core -> Seq(M)], NEW c \in Core
    PROVE  /\ \A m \in M : Grown(f, [f EXCEPT ![c] = Append(f[c], m)], c, m)
           /\ f[c] # <<>> => Shrunk(f, [f EXCEPT ![c] = Tail(f[c])], c, Head(f[c]))
<1>1. ASSUME NEW m \in M PROVE Grown(f, [f EXCEPT ![c] = Append(f[c], m)], c, m)
  <2> DEFINE g == [f EXCEPT ![c] = Append(f[c], m)]
             k == Len(f[c]) + 1
  <2>1. \A d \in Core : \A n \in DOMAIN f[d] : n \in DOMAIN g[d] /\ g[d][n] = f[d][n]
    OBVIOUS
  <2>2. k \in DOMAIN g[c] /\ g[c][k] = m
    OBVIOUS
  <2>3. \A d \in Core : \A n \in DOMAIN g[d] : n \in DOMAIN f[d] \/ (d = c /\ n = k)
    OBVIOUS
  <2> HIDE DEF g, k
  <2>4. Grown(f, g, c, m)
    BY <2>1, <2>2, <2>3, Zenon DEF Grown
  <2> QED
    BY <2>4 DEF g
<1>2. ASSUME f[c] # <<>> PROVE Shrunk(f, [f EXCEPT ![c] = Tail(f[c])], c, Head(f[c]))
  <2> DEFINE g == [f EXCEPT ![c] = Tail(f[c])]
  <2>1. 1 \in DOMAIN f[c] /\ f[c][1] = Head(f[c]) /\ \A d \in Core \ {c} : g[d] = f[d]
    BY <1>2
  <2>2. \A n \in DOMAIN g[c] : n + 1 \in DOMAIN f[c] \ {1} /\ g[c][n] = f[c][n + 1] /\ n \in Nat
    BY <1>2
  <2>3. ASSUME NEW n \in DOMAIN f[c] \ {1} PROVE \E k \in DOMAIN g[c] : g[c][k] = f[c][n]
    <3>1. n - 1 \in DOMAIN g[c] /\ g[c][n - 1] = f[c][n]
      BY <1>2
    <3> QED
      BY <3>1, Zenon
  <2> HIDE DEF g
  <2>4. Shrunk(f, g, c, Head(f[c]))
    BY <2>1, <2>2, <2>3, Zenon DEF Shrunk
  <2> QED
    BY <2>4 DEF g
<1> QED
  BY <1>1, <1>2

\* A message is pushed about a connection that had none under way.
LEMMA Pushed ==
    ASSUME NEW ch, NEW ba, NEW g, NEW d \in Core, NEW m,
           Tidy(ch, ba), Flying(ch, ba, About(m)) = {}, Grown(ch, g, d, m)
    PROVE  /\ Tidy(g, ba)
           /\ Flying(g, ba, About(m)) = {m}
           /\ \A j : j # About(m) => Flying(g, ba, j) = Flying(ch, ba, j)
<1>1. \A x : In(g, x) <=> In(ch, x) \/ x = m
  BY Zenon DEF In, Grown
<1>2. \A x : About(x) = About(m) => ~ In(ch, x) /\ ~ In(ba, x)
  BY FlyingNone
<1>3. Tidy(g, ba)
  <2>1. \A c \in Core : /\ \A n \in DOMAIN ch[c] : About(ch[c][n]) # About(m)
                        /\ \A n \in DOMAIN ba[c] : About(ba[c][n]) # About(m)
    BY <1>2, Zenon DEF In
  <2> QED
    BY <2>1 DEF Tidy, Grown
<1>4. Flying(g, ba, About(m)) = {m}
  BY <1>1, <1>2, FlyingOne, Zenon
<1>5. ASSUME NEW j, j # About(m) PROVE Flying(g, ba, j) = Flying(ch, ba, j)
  BY <1>1, <1>5, FlyingSame
<1> QED
  BY <1>3, <1>4, <1>5, Zenon

\* The notification handler comes to the next message of its batch.
LEMMA Popped ==
    ASSUME NEW ch, NEW ba, NEW g, NEW c \in Core, NEW h, Tidy(ch, ba), Shrunk(ba, g, c, h)
    PROVE  /\ Tidy(ch, g)
           /\ Flying(ch, ba, About(h)) = {h}
           /\ Flying(ch, g, About(h)) = {}
           /\ \A j : j # About(h) => Flying(ch, g, j) = Flying(ch, ba, j)
<1>1. /\ \A x : In(ch, x) => About(x) # About(h)
      /\ \A x : In(ba, x) /\ About(x) = About(h) => x = h
      /\ In(ba, h)
  BY DEF Tidy, In, Shrunk
<1>2. \A x : In(g, x) => In(ba, x) /\ About(x) # About(h)
  BY DEF Tidy, In, Shrunk
<1>3. \A x : In(ba, x) /\ About(x) # About(h) => In(g, x)
  BY DEF In, Shrunk
<1>4. Tidy(ch, g)
  BY DEF Tidy, Shrunk
<1>5. Flying(ch, ba, About(h)) = {h}
  BY <1>1, FlyingOne
<1>6. Flying(ch, g, About(h)) = {}
  BY <1>1, <1>2, FlyingNone
<1>7. ASSUME NEW j, j # About(h) PROVE Flying(ch, g, j) = Flying(ch, ba, j)
  BY <1>2, <1>3, <1>7, FlyingSame
<1> QED
  BY <1>4, <1>5, <1>6, <1>7, Zenon

\* A failing core drops its batch.
LEMMA Dropped ==
    ASSUME NEW ch, NEW ba, NEW g, NEW c \in Core, Tidy(ch, ba),
           DOMAIN g[c] = {}, \A d \in Core \ {c} : g[d] = ba[d]
    PROVE  /\ Tidy(ch, g)
           /\ \A j : Flying(ch, g, j) = Flying(ch, ba, j) \/ Flying(ch, g, j) = {}
<1>1. Tidy(ch, g)
  BY DEF Tidy
<1>2. ASSUME NEW j, Flying(ch, g, j) # {} PROVE Flying(ch, g, j) = Flying(ch, ba, j)
  <2>1. PICK x : About(x) = j /\ (In(ch, x) \/ In(g, x))
    BY <1>2, FlyingNone, Zenon
  <2>2. \A y : In(g, y) => In(ba, y)
    BY Zenon DEF In
  <2>3. \A y : In(ba, y) /\ About(y) = j => In(g, y)
    BY <2>1 DEF In, Tidy
  <2> QED
    BY <2>2, <2>3, FlyingSame
<1> QED
  BY <1>1, <1>2, Zenon

\* consume_all moves an inbox into an empty batch.
LEMMA Swapped ==
    ASSUME NEW ch, NEW ba, NEW h, NEW g, NEW c \in Core, Tidy(ch, ba), Moved(ch, ba, h, g, c)
    PROVE  Tidy(h, g) /\ \A j : Flying(h, g, j) = Flying(ch, ba, j)
<1>1. Tidy(h, g)
  BY DEF Tidy, Moved
<1>2. \A x : In(h, x) \/ In(g, x) <=> In(ch, x) \/ In(ba, x)
  BY DEF In, Moved
<1>3. ASSUME NEW j PROVE Flying(h, g, j) = Flying(ch, ba, j)
  BY <1>2, FlyingSame
<1> QED
  BY <1>1, <1>3, Zenon

-----------------------------------------------------------------------------
(* The invariant is inductive: threads and registered connections *)

\* A core that has failed stays failed.
LEMMA AliveBefore ==
    ASSUME ITC!TypeOK, [ITC!Next]_itc
    PROVE  Alive' => Alive
<1> SUFFICES ASSUME NEW c \in Core, phase[c] = "dead" PROVE phase'[c] = "dead"
  BY Zenon DEF Alive
<1>1. ASSUME NEW d \in Core, ITC!Work(d) PROVE phase'[c] = "dead"
  BY <1>1, Zenon DEF ITC!TypeOK, ITC!Work, ITC!register_notify_fd, ITC!wait_for_all_cores,
              ITC!enter_run, ITC!notify_core, ITC!forward, ITC!read_event, ITC!read_error,
              ITC!consume_all, ITC!handle_request, ITC!handle_response,
              ITC!submit_notification_read
<1>2. ASSUME NEW d \in Core, ITC!die(d) PROVE phase'[c] = "dead"
  BY <1>2 DEF ITC!TypeOK, ITC!die
<1> QED
  BY <1>1, <1>2, Zenon DEF ITC!Next, itc

\* The notification handler leaves no message behind.
LEMMA BatchStep ==
    ASSUME ITC!TypeOK, BatchHandled, [ITC!Next]_itc
    PROVE  BatchHandled'
<1> SUFFICES ASSUME NEW c \in Core
             PROVE  /\ notif'[c] # "handling" => batch'[c] = <<>>
                    /\ phase'[c] # "loop" => notif'[c] = "none"
  BY Zenon DEF BatchHandled
<1>0. /\ notif[c] # "handling" => batch[c] = <<>>
      /\ phase[c] # "loop" => notif[c] = "none"
  BY DEF BatchHandled
<1> USE DEF ITC!TypeOK
<1>1. ASSUME NEW d \in Core,
             ITC!register_notify_fd(d) \/ ITC!wait_for_all_cores(d) \/ ITC!enter_run(d)
      PROVE  /\ notif'[c] # "handling" => batch'[c] = <<>>
             /\ phase'[c] # "loop" => notif'[c] = "none"
  BY <1>0, <1>1 DEF ITC!register_notify_fd, ITC!wait_for_all_cores, ITC!enter_run
<1>2. ASSUME NEW d \in Core, ITC!notify_core(d) \/ \E e \in Core \ {d}, b \in Body : ITC!forward(d, e, b)
      PROVE  /\ notif'[c] # "handling" => batch'[c] = <<>>
             /\ phase'[c] # "loop" => notif'[c] = "none"
  BY <1>0, <1>2, Zenon DEF ITC!notify_core, ITC!forward
<1>3. ASSUME NEW d \in Core, ITC!read_event(d) \/ ITC!read_error(d)
      PROVE  /\ notif'[c] # "handling" => batch'[c] = <<>>
             /\ phase'[c] # "loop" => notif'[c] = "none"
  BY <1>0, <1>3 DEF ITC!read_event, ITC!read_error
<1>4. ASSUME NEW d \in Core,
             \/ ITC!consume_all(d) \/ ITC!handle_response(d) \/ ITC!submit_notification_read(d)
             \/ \E b \in Body : ITC!handle_request(d, b)
      PROVE  /\ notif'[c] # "handling" => batch'[c] = <<>>
             /\ phase'[c] # "loop" => notif'[c] = "none"
  BY <1>0, <1>4, Zenon DEF ITC!consume_all, ITC!handle_response, ITC!submit_notification_read,
                    ITC!handle_request, ITC!Idle, ITC!Consuming
<1>5. ASSUME NEW d \in Core, ITC!die(d)
      PROVE  /\ notif'[c] # "handling" => batch'[c] = <<>>
             /\ phase'[c] # "loop" => notif'[c] = "none"
  BY <1>0, <1>5 DEF ITC!die
<1>6. CASE UNCHANGED itc
  BY <1>0, <1>6 DEF itc
<1> QED
  BY <1>1, <1>2, <1>3, <1>4, <1>5, <1>6, Zenon DEF ITC!Next, ITC!Work

\* Ids that do not wrap around tell connections apart.
LEMMA IdsDiffer ==
    ASSUME ClientsWait, NEW i \in Conn, NEW j \in Conn, Id(i) = Id(j)
    PROVE  i = j
<1>1. i \in Nat /\ j \in Nat /\ i < IdSpace /\ j < IdSpace /\ IdSpace \in Nat \ {0}
  BY BoundsAssumption DEF ClientsWait, Conn
<1>2. \A x \in Nat : x < IdSpace => x % IdSpace = x
  BY <1>1
<1> QED
  BY <1>1, <1>2 DEF Id

\* Every open connection stays registered with its core.
LEMMA RegisteredStep ==
    ASSUME ClientsWait, IInv, AllRegistered, [Next]_vars
    PROVE  AllRegistered'
<1>0. /\ open \in [Conn -> BOOLEAN] /\ home \in [Conn -> Core \cup {None}]
      /\ local_connections \in [Core -> [ConnId -> Conn \cup {0}]]
      /\ \A j \in Conn : Id(j) \in ConnId
      /\ \A j \in Conn : open[j] => home[j] \in Core /\ local_connections[home[j]][Id(j)] = j
  BY IdType, Zenon DEF IInv, TypeOK, ConnectionsProper, AllRegistered
<1>1. ASSUME NEW i \in Conn, disconnect(i) PROVE AllRegistered'
  <2>1. /\ open[i] /\ open' = [open EXCEPT ![i] = FALSE] /\ UNCHANGED home
        /\ local_connections' = [local_connections EXCEPT ![home[i]] =
                                    [local_connections[home[i]] EXCEPT ![Id(i)] = 0]]
    BY <1>1, Zenon DEF disconnect
  <2>2. ASSUME NEW j \in Conn, open'[j] PROVE local_connections'[home[j]][Id(j)] = j
    <3>1. open[j] /\ j # i
      BY <1>0, <2>1, <2>2
    <3>2. Id(j) # Id(i)
      BY <3>1, IdsDiffer
    <3> QED
      BY <1>0, <2>1, <3>1, <3>2, Zenon
  <2> QED
    BY <2>1, <2>2, Zenon DEF AllRegistered
<1>2. ASSUME NEW c \in Core, handle_accept(c) PROVE AllRegistered'
  <2> DEFINE i == next_conn_id
  <2>1. /\ home' = [home EXCEPT ![i] = c] /\ open' = [open EXCEPT ![i] = TRUE]
        /\ local_connections' = [local_connections EXCEPT ![c] =
                                    [local_connections[c] EXCEPT ![Id(i)] = i]]
    BY <1>2, Zenon DEF handle_accept
  <2>2. i \in Conn
    BY <1>2, BoundsAssumption DEF handle_accept, IInv, TypeOK, Conn
  <2>3. ASSUME NEW j \in Conn, open'[j] PROVE local_connections'[home'[j]][Id(j)] = j
    <3>1. CASE j = i
      BY <1>0, <2>1, <2>2, <3>1, Zenon
    <3>2. CASE j # i
      <4>1. Id(j) # Id(i)
        BY <2>2, <3>2, IdsDiffer, Zenon
      <4> QED
        BY <1>0, <2>1, <2>2, <2>3, <3>2, <4>1, Zenon
    <3> QED
      BY <3>1, <3>2, Zenon
  <2> QED
    BY <2>3 DEF AllRegistered
<1>3. ASSUME UNCHANGED conns PROVE AllRegistered'
  BY <1>3, Zenon DEF AllRegistered, conns
<1>4. ASSUME NEW i \in Conn, handle_read(i) \/ handle_write(i) \/ \E cmd \in Workload : send(i, cmd)
      PROVE  AllRegistered'
  BY <1>3, <1>4, Zenon DEF handle_read, read_local, read_forward, read_throw, handle_write, send
<1>5. ASSUME NEW c \in Core, runs_on(c) \/ read_event(c) \/ read_error(c) \/ consume_all(c)
      PROVE  AllRegistered'
  BY <1>3, <1>5, Zenon DEF runs_on, handle_request, request_throw, handle_response, read_event,
                    read_error, consume_all
<1> QED
  BY <1>1, <1>2, <1>3, <1>4, <1>5, Zenon DEF Next, vars

-----------------------------------------------------------------------------
(* The invariant is inductive: commands and replies *)

\* Queues of at most one entry.
LEMMA ShortQueues ==
    ASSUME NEW S, NEW s \in Seq(S)
    PROVE  /\ Len(s) <= 1 /\ s # <<>> => Tail(s) = <<>>
           /\ Len(s) < 1 => s = <<>>
           /\ Len(<<>>) <= 1
           /\ s = <<>> => \A x \in S : /\ Len(Append(s, x)) <= 1 /\ Append(s, x) # <<>>
                                       /\ Append(s, x)[1] = x
  BY SMTT(30)

\* One connection changes, the others stay as they are.
LEMMA OthersOrderly ==
    ASSUME AllOrderly, Alive' => Alive, NEW i,
           \A j \in Conn : j # i => /\ Flying(channel', batch', j) = Flying(channel, batch, j)
                                    /\ sock'[j] = sock[j] /\ write_queue'[j] = write_queue[j]
                                    /\ waiting'[j] = waiting[j] /\ open'[j] = open[j],
           i \in Conn => Orderly(Flying(channel', batch', i), sock'[i], write_queue'[i],
                                 waiting'[i], open'[i], Alive')
    PROVE  AllOrderly'
<1> SUFFICES ASSUME NEW j \in Conn
             PROVE  Orderly(Flying(channel', batch', j), sock'[j], write_queue'[j],
                            waiting'[j], open'[j], Alive')
  BY Zenon DEF AllOrderly
<1>1. Orderly(Flying(channel, batch, j), sock[j], write_queue[j], waiting[j], open[j], Alive)
  BY Zenon DEF AllOrderly
<1>2. CASE j # i
  BY <1>1, <1>2, Zenon DEF Orderly
<1> QED
  BY <1>2, Zenon

\* A client that may send has nothing under way.
LEMMA NothingUnderWay ==
    ASSUME ClientsWait, FlightInv, NEW i \in Conn, NEW cmd \in Workload, send(i, cmd)
    PROVE  /\ waiting[i] = <<>> /\ sock[i] = <<>> /\ write_queue[i] = <<>>
           /\ Flying(channel, batch, i) = {}
<1>1. Orderly(Flying(channel, batch, i), sock[i], write_queue[i], waiting[i], open[i], Alive)
  BY Zenon DEF FlightInv, AllOrderly
<1>2. waiting[i] \in Seq([req : Request, cmd : Cmd])
  BY QueueTypes, Zenon DEF FlightInv, IInv
<1>3. waiting[i] = <<>> /\ open[i]
  <2>1. Len(waiting[i]) < Window /\ Window \in Nat /\ Len(waiting[i]) \in Nat /\ open[i]
    BY <1>2, BoundsAssumption DEF send
  <2>2. Len(waiting[i]) < 1
    BY <2>1 DEF ClientsWait
  <2> QED
    BY <1>2, <2>1, <2>2
<1>4. sock[i] = <<>> /\ write_queue[i] = <<>>
  BY <1>1, <1>3, Zenon DEF Orderly
<1>5. \A m \in Flying(channel, batch, i) : FALSE
  BY <1>1, <1>3, Zenon DEF Orderly
<1> QED
  BY <1>3, <1>4, <1>5, Zenon

\* A command is sent.
LEMMA SendFlight ==
    ASSUME ClientsWait, FlightInv, Alive' => Alive, NEW i \in Conn, NEW cmd \in Workload,
           send(i, cmd)
    PROVE  Tidy(channel, batch)' /\ AllOrderly'
<1> DEFINE S == [req : Request, cmd : Cmd]
           x == [req |-> <<i, sent + 1>>, cmd |-> cmd]
<1>1. /\ sock' = [sock EXCEPT ![i] = Append(sock[i], x)]
      /\ waiting' = [waiting EXCEPT ![i] = Append(waiting[i], x)]
      /\ UNCHANGED <<channel, batch, write_queue, open>>
  BY DEF send, itc, conns
<1>2. sock \in [Conn -> Seq(S)] /\ waiting \in [Conn -> Seq(S)] /\ x \in S
  <2>1. TypeOK
    BY DEF FlightInv, IInv
  <2>2. <<i, sent + 1>> \in Request
    BY <2>1, BoundsAssumption, SMTT(30) DEF TypeOK, send, Request
  <2> QED
    BY <2>1, <2>2, QueueTypes, WorkloadAssumption, Zenon
<1> HIDE DEF S, x
<1>3. /\ waiting[i] = <<>> /\ sock[i] = <<>> /\ write_queue[i] = <<>>
      /\ Flying(channel, batch, i) = {}
  BY NothingUnderWay, Zenon
<1>4. /\ Len(sock'[i]) <= 1 /\ sock'[i] # <<>> /\ sock'[i][1] = x
      /\ Len(waiting'[i]) <= 1 /\ waiting'[i] # <<>> /\ waiting'[i][1] = x
  BY <1>1, <1>2, <1>3, ShortQueues, Zenon
<1>5. Orderly(Flying(channel', batch', i), sock'[i], write_queue'[i], waiting'[i], open'[i], Alive')
  <2>1. Len(write_queue'[i]) <= 1 /\ write_queue'[i] = <<>> /\ Flying(channel', batch', i) = {}
    BY <1>1, <1>3
  <2> QED
    BY <1>4, <2>1, Zenon DEF Orderly
<1>6. \A j \in Conn : j # i => sock'[j] = sock[j] /\ waiting'[j] = waiting[j]
  BY <1>1, <1>2, Zenon
<1>7. AllOrderly'
  BY <1>1, <1>5, <1>6, OthersOrderly, Zenon DEF FlightInv
<1> QED
  BY <1>1, <1>7 DEF FlightInv

\* The command that a read returns is the only thing of its connection.
LEMMA ReadsOne ==
    ASSUME FlightInv, NEW i \in Conn, Reads(i)
    PROVE  /\ home[i] \in Core /\ open[i]
           /\ Head(sock[i]) \in [req : Request, cmd : Cmd] /\ Head(sock[i]).req[1] = i
           /\ sock[i] # <<>> /\ Head(sock[i]) = sock[i][1] /\ Len(sock[i]) <= 1
           /\ sock'[i] = <<>> /\ \A j \in Conn : j # i => sock'[j] = sock[j]
           /\ write_queue[i] = <<>> /\ Flying(channel, batch, i) = {}
           /\ waiting[i] # <<>> /\ Len(waiting[i]) <= 1 /\ waiting[i][1].req = Head(sock[i]).req
<1> DEFINE S == [req : Request, cmd : Cmd]
<1>1. Orderly(Flying(channel, batch, i), sock[i], write_queue[i], waiting[i], open[i], Alive)
  BY Zenon DEF FlightInv, AllOrderly
<1>2. sock \in [Conn -> Seq(S)] /\ sock[i] # <<>> /\ sock' = [sock EXCEPT ![i] = <<>>] /\ open[i]
  BY QueueTypes, Zenon DEF FlightInv, IInv, Reads
<1>3. Head(sock[i]) \in S /\ Head(sock[i]).req[1] = i /\ home[i] \in Core
  BY FrontOfSock DEF FlightInv, IInv
<1> HIDE DEF S
<1>4. Head(sock[i]) = sock[i][1]
  BY <1>2
<1>5. sock'[i] = <<>> /\ \A j \in Conn : j # i => sock'[j] = sock[j]
  BY <1>2
<1>6. /\ Len(sock[i]) <= 1 /\ write_queue[i] = <<>> /\ Flying(channel, batch, i) = {}
      /\ waiting[i] # <<>> /\ Len(waiting[i]) <= 1 /\ waiting[i][1].req = sock[i][1].req
  BY <1>1, <1>2, Zenon DEF Orderly
<1> QED
  BY <1>2, <1>3, <1>4, <1>5, <1>6, Zenon DEF S

\* submit_write() on a connection with nothing to write.
LEMMA SubmitOne ==
    ASSUME TypeOK, NEW i \in Conn, NEW req \in Request, NEW reply \in Reply,
           submit_write(i, req, reply)
    PROVE  /\ \A j \in Conn : j # i => write_queue'[j] = write_queue[j]
           /\ write_queue[i] = <<>>
              => /\ Len(write_queue'[i]) <= 1 /\ write_queue'[i] # <<>>
                 /\ write_queue'[i] = <<[req |-> req, reply |-> reply]>>
                 /\ write_queue'[i][1] = [req |-> req, reply |-> reply]
<1> DEFINE S == [req : Request, reply : Reply]
           x == [req |-> req, reply |-> reply]
<1>1. write_queue' = [write_queue EXCEPT ![i] = Append(write_queue[i], x)]
  BY DEF submit_write
<1>2. write_queue \in [Conn -> Seq(S)] /\ x \in S
  BY QueueTypes, Zenon
<1> HIDE DEF S, x
<1>3. \A j \in Conn : j # i => write_queue'[j] = write_queue[j]
  BY <1>1, <1>2
<1>4. write_queue[i] = <<>> => /\ Len(write_queue'[i]) <= 1 /\ write_queue'[i] # <<>>
                               /\ write_queue'[i] = <<x>> /\ write_queue'[i][1] = x
  BY <1>1, <1>2
<1> QED
  BY <1>3, <1>4, Zenon DEF x

\* A command is executed where it was read: its reply takes its place.
LEMMA LocalFlight ==
    ASSUME FlightInv, Alive' => Alive, NEW i \in Conn, read_local(i)
    PROVE  Tidy(channel, batch)' /\ AllOrderly'
<1> DEFINE r == Head(sock[i])
           a == Answer(store[home[i]], r.cmd)
<1>1. Reads(i) /\ submit_write(i, r.req, a) /\ UNCHANGED <<channel, batch, open, waiting>>
  BY Zenon DEF read_local, itc, conns
<1>2. /\ home[i] \in Core /\ r \in [req : Request, cmd : Cmd]
      /\ sock'[i] = <<>> /\ \A j \in Conn : j # i => sock'[j] = sock[j]
      /\ write_queue[i] = <<>> /\ Flying(channel, batch, i) = {}
      /\ waiting[i] # <<>> /\ Len(waiting[i]) <= 1 /\ waiting[i][1].req = r.req
  BY <1>1, ReadsOne, Zenon
<1>3. TypeOK /\ r.req \in Request /\ a \in Reply
  <2>1. TypeOK /\ store[home[i]] \in [Key -> Request \cup {Absent}] /\ r.cmd \in Cmd
    BY <1>2, Zenon DEF FlightInv, IInv, TypeOK
  <2> QED
    BY <1>2, <2>1, AnswerType, Zenon
<1> HIDE DEF r, a
<1>4. /\ \A j \in Conn : j # i => write_queue'[j] = write_queue[j]
      /\ Len(write_queue'[i]) <= 1 /\ write_queue'[i] # <<>>
      /\ write_queue'[i][1] = [req |-> r.req, reply |-> a]
  BY <1>1, <1>2, <1>3, SubmitOne, Zenon
<1>5. Orderly(Flying(channel', batch', i), sock'[i], write_queue'[i], waiting'[i], open'[i], Alive')
  <2>1. Flying(channel', batch', i) = {} /\ waiting'[i] = waiting[i]
    BY <1>1, <1>2, Zenon
  <2>2. Len(sock'[i]) <= 1
    BY <1>2
  <2>3. write_queue'[i][1].req = r.req
    BY <1>4
  <2> QED
    BY <1>2, <1>4, <2>1, <2>2, <2>3, Zenon DEF Orderly
<1>6. AllOrderly'
  BY <1>1, <1>2, <1>4, <1>5, OthersOrderly, ZenonT(30) DEF FlightInv
<1> QED
  BY <1>1, <1>6 DEF FlightInv

\* A command is forwarded: the message takes its place.
LEMMA ForwardMoves ==
    ASSUME FlightInv, NEW i \in Conn, read_forward(i)
    PROVE  /\ Reads(i) /\ Tidy(channel', batch')
           /\ \A j : j # i => Flying(channel', batch', j) = Flying(channel, batch, j)
           /\ \E m \in ITC!Message :
                /\ Flying(channel', batch', i) = {m} /\ m.type = "REQUEST"
                /\ m.body.req = Head(sock[i]).req /\ m.body.cmd = Head(sock[i]).cmd
<1>0. IInv
  BY Zenon DEF FlightInv
<1>1. PICK d \in Core \ {home[i]}, b \in RequestBody :
        /\ ITC!forward(home[i], d, b)
        /\ b.conn_id = Id(i) /\ b.req = Head(sock[i]).req
        /\ b.cmd = Head(sock[i]).cmd /\ d = Owner[b.cmd.key]
  BY <1>0, ForwardFacts, Zenon
<1> DEFINE m == [type |-> "REQUEST", origin_core_id |-> home[i], body |-> b]
<1>2. Reads(i)
  BY Zenon DEF read_forward
<1>3. home[i] \in Core /\ b.req[1] = i /\ Flying(channel, batch, i) = {}
  <2>1. home[i] \in Core /\ Head(sock[i]).req[1] = i /\ Flying(channel, batch, i) = {}
    BY <1>2, ReadsOne, Zenon
  <2> QED
    BY <1>1, <2>1, Zenon
<1>4. /\ m \in ITC!Message /\ About(m) = i /\ m.type = "REQUEST"
      /\ m.body.req = b.req /\ m.body.cmd = b.cmd
  BY <1>3, BodyKinds, Zenon DEF ITC!Message, About
<1>5. channel' = [channel EXCEPT ![d] = Append(channel[d], m)] /\ UNCHANGED batch
  BY <1>1, Zenon DEF ITC!forward, ITC!push
<1> HIDE DEF m
<1>6. Grown(channel, channel', d, m)
  <2>1. channel \in [Core -> Seq(ITC!Message)]
    BY QueueTypes DEF FlightInv, IInv
  <2> QED
    BY <1>4, <1>5, <2>1, QueueChanges, ZenonT(30)
<1>7. /\ Tidy(channel', batch) /\ Flying(channel', batch, i) = {m}
      /\ \A j : j # i => Flying(channel', batch, j) = Flying(channel, batch, j)
  <2>1. Tidy(channel, batch)
    BY Zenon DEF FlightInv
  <2> QED
    BY <1>3, <1>4, <1>6, <2>1, Pushed
<1> QED
  BY <1>1, <1>2, <1>4, <1>5, <1>7, Zenon

LEMMA ForwardFlight ==
    ASSUME FlightInv, Alive' => Alive, NEW i \in Conn, read_forward(i)
    PROVE  Tidy(channel, batch)' /\ AllOrderly'
<1>1. PICK m \in ITC!Message :
        Flying(channel', batch', i) = {m} /\ m.body.req = Head(sock[i]).req
  BY ForwardMoves, Zenon
<1>2. /\ sock'[i] = <<>> /\ \A j \in Conn : j # i => sock'[j] = sock[j]
      /\ write_queue[i] = <<>>
      /\ waiting[i] # <<>> /\ Len(waiting[i]) <= 1 /\ waiting[i][1].req = Head(sock[i]).req
  BY ForwardMoves, ReadsOne, Zenon
<1>3. UNCHANGED <<write_queue, waiting, open>>
  BY Zenon DEF read_forward, conns
<1>4. Orderly(Flying(channel', batch', i), sock'[i], write_queue'[i], waiting'[i], open'[i], Alive')
  <2>1. Len(sock'[i]) <= 1 /\ Len(write_queue'[i]) <= 1
    BY <1>2, <1>3, SMTT(30)
  <2> QED
    BY <1>1, <1>2, <1>3, <2>1, Zenon DEF Orderly
<1>5. AllOrderly'
  BY <1>2, <1>3, <1>4, ForwardMoves, OthersOrderly, Zenon DEF FlightInv
<1> QED
  BY <1>5, ForwardMoves, Zenon

\* A core that fails takes its batch with it.
LEMMA DieMoves ==
    ASSUME FlightInv, NEW c \in Core, ITC!die(c)
    PROVE  /\ Tidy(channel', batch') /\ ~ Alive'
           /\ \A j : \/ Flying(channel', batch', j) = Flying(channel, batch, j)
                     \/ Flying(channel', batch', j) = {}
<1>1. batch' = [batch EXCEPT ![c] = <<>>] /\ UNCHANGED channel
  BY DEF ITC!die
<1>2. batch \in [Core -> Seq(ITC!Message)] /\ phase \in [Core -> {"boot", "barrier", "setup", "loop", "dead"}]
  BY DEF FlightInv, IInv, TypeOK, ITC!TypeOK
<1>3. DOMAIN batch'[c] = {} /\ \A d \in Core \ {c} : batch'[d] = batch[d]
  BY <1>1, <1>2
<1>4. ~ Alive'
  BY <1>2 DEF ITC!die, Alive
<1>5. /\ Tidy(channel, batch')
      /\ \A j : \/ Flying(channel, batch', j) = Flying(channel, batch, j)
                \/ Flying(channel, batch', j) = {}
  <2>1. Tidy(channel, batch)
    BY DEF FlightInv
  <2> HIDE DEF Alive
  <2> QED
    BY <1>3, <2>1, Dropped
<1> QED
  BY <1>1, <1>4, <1>5, Zenon

LEMMA DieFlight ==
    ASSUME FlightInv, NEW c \in Core, ITC!die(c), UNCHANGED <<write_queue, waiting, open>>,
           \A j \in Conn : sock'[j] = sock[j] \/ sock'[j] = <<>>
    PROVE  Tidy(channel, batch)' /\ AllOrderly'
<1>1. ASSUME NEW j \in Conn
      PROVE  Orderly(Flying(channel', batch', j), sock'[j], write_queue'[j],
                     waiting'[j], open'[j], Alive')
  <2>1. Orderly(Flying(channel, batch, j), sock[j], write_queue[j], waiting[j], open[j], Alive)
    BY Zenon DEF FlightInv, AllOrderly
  <2>2. ~ Alive' /\ (\/ Flying(channel', batch', j) = Flying(channel, batch, j)
                     \/ Flying(channel', batch', j) = {})
    BY DieMoves, Zenon
  <2>3. Len(sock'[j]) <= 1
    BY <2>1, Zenon DEF Orderly
  <2> QED
    BY <2>1, <2>2, <2>3, Zenon DEF Orderly
<1> QED
  BY <1>1, DieMoves, Zenon DEF AllOrderly

\* The message that the notification handler has come to is taken off the batch.
LEMMA TakesMessage ==
    ASSUME FlightInv, NEW c \in Core, batch[c] # <<>>, NEW g,
           Shrunk(batch, g, c, Head(batch[c]))
    PROVE  /\ Head(batch[c]) \in ITC!Message /\ Proper(home, c, Head(batch[c]))
           /\ About(Head(batch[c])) \in Conn
           /\ Tidy(channel, g)
           /\ Flying(channel, batch, About(Head(batch[c]))) = {Head(batch[c])}
           /\ Flying(channel, g, About(Head(batch[c]))) = {}
           /\ \A j : j # About(Head(batch[c])) => Flying(channel, g, j) = Flying(channel, batch, j)
<1> DEFINE h == Head(batch[c])
<1>1. h \in ITC!Message /\ Proper(home, c, h)
  BY FrontOfBatch, Zenon DEF FlightInv, IInv
<1>2. About(h) \in Conn
  BY <1>1, MessageFacts DEF About
<1>3. Shrunk(batch, g, c, h)
  OBVIOUS
<1>4. Tidy(channel, batch)
  BY DEF FlightInv
<1> HIDE DEF h
<1>5. /\ Tidy(channel, g) /\ Flying(channel, batch, About(h)) = {h}
      /\ Flying(channel, g, About(h)) = {}
      /\ \A j : j # About(h) => Flying(channel, g, j) = Flying(channel, batch, j)
  BY <1>3, <1>4, Popped
<1> QED
  BY <1>1, <1>2, <1>5, Zenon DEF h

\* A REQUEST is executed: its RESPONSE takes its place.
LEMMA RequestMoves ==
    ASSUME FlightInv, NEW c \in Core, handle_request(c)
    PROVE  LET h == Head(batch[c])
           IN  /\ h \in ITC!Message /\ h.type = "REQUEST" /\ Proper(home, c, h)
               /\ h.body \in RequestBody /\ About(h) \in Conn
               /\ Flying(channel, batch, About(h)) = {h} /\ Tidy(channel', batch')
               /\ \A j : j # About(h) => Flying(channel', batch', j) = Flying(channel, batch, j)
               /\ \E m \in ITC!Message :
                    /\ Flying(channel', batch', About(h)) = {m} /\ m.type = "RESPONSE"
                    /\ m.body.req = h.body.req
                    /\ m.body.payload = IF h.body.cmd.name = "upper"
                                        THEN Answer(store[c], h.body.cmd) ELSE Unknown
<1> DEFINE h == Head(batch[c])
           p == IF h.body.cmd.name = "upper" THEN Answer(store[c], h.body.cmd) ELSE Unknown
<1>1. batch[c] # <<>> /\ h.type = "REQUEST" /\ h.body \in RequestBody
  BY RequestFacts, Zenon DEF FlightInv
<1>2. PICK b \in ResponseBody : ITC!handle_request(c, b) /\ b.req = h.body.req /\ b.payload = p
  BY RequestFacts, Zenon DEF FlightInv
<1> DEFINE m == [type |-> "RESPONSE", origin_core_id |-> c, body |-> b]
           d == h.origin_core_id
<1>3. /\ channel' = [channel EXCEPT ![d] = Append(channel[d], m)]
      /\ batch' = [batch EXCEPT ![c] = Tail(batch[c])]
  BY <1>2, Zenon DEF ITC!handle_request, ITC!push
<1>4. /\ h \in ITC!Message /\ Proper(home, c, h) /\ About(h) \in Conn
      /\ Tidy(channel, batch') /\ Flying(channel, batch, About(h)) = {h}
      /\ Flying(channel, batch', About(h)) = {}
      /\ \A j : j # About(h) => Flying(channel, batch', j) = Flying(channel, batch, j)
  <2>1. batch \in [Core -> Seq(ITC!Message)]
    BY QueueTypes DEF FlightInv, IInv
  <2>2. Shrunk(batch, batch', c, h)
    BY <1>1, <1>3, <2>1, QueueChanges, Zenon
  <2> QED
    BY <1>1, <2>2, TakesMessage, Zenon
<1>5. /\ m \in ITC!Message /\ About(m) = About(h) /\ m.type = "RESPONSE"
      /\ m.body.req = h.body.req /\ m.body.payload = p
  BY <1>2, BodyKinds, Zenon DEF ITC!Message, About
<1>6. d \in Core /\ channel \in [Core -> Seq(ITC!Message)]
  BY <1>4, MessageFacts, QueueTypes, Zenon DEF FlightInv, IInv
<1> HIDE DEF m, d, h, p
<1>7. Grown(channel, channel', d, m)
  BY <1>3, <1>5, <1>6, QueueChanges, Zenon
<1>8. /\ Tidy(channel', batch') /\ Flying(channel', batch', About(m)) = {m}
      /\ \A j : j # About(m) => Flying(channel', batch', j) = Flying(channel, batch', j)
  <2>1. Tidy(channel, batch') /\ Flying(channel, batch', About(m)) = {} /\ d \in Core
    BY <1>4, <1>5, <1>6, Zenon
  <2> QED
    BY <1>7, <2>1, Pushed
<1>9. /\ Flying(channel', batch', About(h)) = {m}
      /\ \A j : j # About(h) => Flying(channel', batch', j) = Flying(channel, batch, j)
  BY <1>4, <1>5, <1>8, Zenon
<1> QED
  BY <1>1, <1>4, <1>5, <1>8, <1>9, Zenon DEF h, p

LEMMA RequestFlight ==
    ASSUME FlightInv, Alive' => Alive, NEW c \in Core, handle_request(c)
    PROVE  Tidy(channel, batch)' /\ AllOrderly'
<1> DEFINE h == Head(batch[c])
           i == About(h)
<1>1. /\ i \in Conn /\ Flying(channel, batch, i) = {h} /\ Tidy(channel', batch')
      /\ \A j : j # i => Flying(channel', batch', j) = Flying(channel, batch, j)
  BY RequestMoves, Zenon
<1>2. PICK m \in ITC!Message : Flying(channel', batch', i) = {m} /\ m.body.req = h.body.req
  BY RequestMoves, Zenon
<1>3. UNCHANGED <<sock, write_queue, waiting, open>>
  BY Zenon DEF handle_request, conns, clients
<1> HIDE DEF h, i
<1>4. Orderly(Flying(channel', batch', i), sock'[i], write_queue'[i], waiting'[i], open'[i], Alive')
  <2>1. Orderly(Flying(channel, batch, i), sock[i], write_queue[i], waiting[i], open[i], Alive)
    BY <1>1, Zenon DEF FlightInv, AllOrderly
  <2> QED
    BY <1>1, <1>2, <1>3, <2>1, Zenon DEF Orderly
<1>5. AllOrderly'
  BY <1>1, <1>3, <1>4, OthersOrderly, Zenon DEF FlightInv
<1> QED
  BY <1>1, <1>5, Zenon

\* A RESPONSE is for a connection of the core that handles it, and found there if
\* it is open.
LEMMA ResponseMoves ==
    ASSUME ClientsWait, FlightInv, NEW c \in Core, handle_response(c)
    PROVE  LET h == Head(batch[c])
               i == About(h)
           IN  /\ h \in ITC!Message /\ h.type = "RESPONSE" /\ i \in Conn
               /\ h.body \in ResponseBody
               /\ Flying(channel, batch, i) = {h} /\ Tidy(channel', batch')
               /\ Flying(channel', batch', i) = {}
               /\ \A j : j # i => Flying(channel', batch', j) = Flying(channel, batch, j)
               /\ open[i] => submit_write(i, h.body.req, h.body.payload)
               /\ ~ open[i] => UNCHANGED write_queue
<1> DEFINE h == Head(batch[c])
           i == About(h)
           l == local_connections[c][h.body.conn_id]
<1>1. /\ batch[c] # <<>> /\ h.type = "RESPONSE" /\ ITC!handle_response(c)
      /\ l # 0 => submit_write(l, h.body.req, h.body.payload)
      /\ l = 0 => UNCHANGED write_queue
  BY Zenon DEF handle_response, Handling
<1>2. batch' = [batch EXCEPT ![c] = Tail(batch[c])] /\ UNCHANGED channel
  BY <1>1, Zenon DEF ITC!handle_response
<1>3. /\ h \in ITC!Message /\ Proper(home, c, h) /\ i \in Conn
      /\ Tidy(channel, batch') /\ Flying(channel, batch, i) = {h}
      /\ Flying(channel, batch', i) = {}
      /\ \A j : j # i => Flying(channel, batch', j) = Flying(channel, batch, j)
  <2>1. batch \in [Core -> Seq(ITC!Message)]
    BY QueueTypes DEF FlightInv, IInv
  <2>2. Shrunk(batch, batch', c, h)
    BY <1>1, <1>2, <2>1, QueueChanges, Zenon
  <2> QED
    BY <1>1, <2>2, TakesMessage, Zenon
<1>4. h.body \in ResponseBody /\ home[i] = c /\ h.body.conn_id = Id(i)
  BY <1>1, <1>3, Zenon DEF Proper, About
<1>5. Id(i) \in ConnId /\ local_connections \in [Core -> [ConnId -> Conn \cup {0}]]
  BY <1>3, IdType, Zenon DEF FlightInv, IInv, TypeOK
<1>6. open[i] => l = i /\ i # 0
  BY <1>3, <1>4, SMTT(30) DEF FlightInv, AllRegistered, Conn
<1>7. l # 0 => l = i /\ open[i]
  <2>1. l \in Conn \cup {0}
    BY <1>4, <1>5, Zenon
  <2>2. l # 0 => open[l] /\ Id(l) = Id(i)
    <3>1. \A id \in ConnId : local_connections[c][id] # 0
            => open[local_connections[c][id]] /\ Id(local_connections[c][id]) = id
      BY Zenon DEF FlightInv, IInv, ConnectionsProper
    <3> QED
      BY <1>4, <1>5, <3>1, Zenon
  <2> QED
    BY <1>3, <2>1, <2>2, IdsDiffer, Zenon
<1> QED
  BY <1>1, <1>2, <1>3, <1>4, <1>6, <1>7, ZenonT(30)

\* A RESPONSE becomes a reply to write, or is dropped with its connection.
LEMMA ResponseFlight ==
    ASSUME ClientsWait, FlightInv, Alive' => Alive, NEW c \in Core, handle_response(c)
    PROVE  Tidy(channel, batch)' /\ AllOrderly'
<1> DEFINE h == Head(batch[c])
           i == About(h)
<1>1. /\ h \in ITC!Message /\ h.body \in ResponseBody /\ i \in Conn
      /\ Flying(channel, batch, i) = {h} /\ Tidy(channel', batch')
      /\ Flying(channel', batch', i) = {}
      /\ \A j : j # i => Flying(channel', batch', j) = Flying(channel, batch, j)
      /\ open[i] => submit_write(i, h.body.req, h.body.payload)
      /\ ~ open[i] => UNCHANGED write_queue
  BY ResponseMoves, Zenon
<1>2. UNCHANGED <<sock, waiting, open>>
  BY Zenon DEF handle_response, conns
<1>3. Orderly(Flying(channel, batch, i), sock[i], write_queue[i], waiting[i], open[i], Alive)
  BY <1>1, Zenon DEF FlightInv, AllOrderly
<1>4. h.body.req \in Request /\ h.body.payload \in Reply
  BY <1>1, Zenon DEF ResponseBody
<1>5. TypeOK
  BY Zenon DEF FlightInv, IInv
<1>6. sock[i] = <<>> /\ write_queue[i] = <<>>
  BY <1>1, <1>3, Zenon DEF Orderly
<1> HIDE DEF h, i
<1>7. /\ \A j \in Conn : j # i => write_queue'[j] = write_queue[j]
      /\ open[i] => /\ Len(write_queue'[i]) <= 1 /\ write_queue'[i] # <<>>
                    /\ write_queue'[i][1].req = h.body.req
      /\ ~ open[i] => write_queue'[i] = <<>>
  <2>1. CASE open[i]
    <3>1. /\ \A j \in Conn : j # i => write_queue'[j] = write_queue[j]
          /\ Len(write_queue'[i]) <= 1 /\ write_queue'[i] # <<>>
          /\ write_queue'[i][1] = [req |-> h.body.req, reply |-> h.body.payload]
      BY <1>1, <1>4, <1>5, <1>6, <2>1, SubmitOne, Zenon
    <3> QED
      BY <2>1, <3>1
  <2>2. CASE ~ open[i]
    BY <1>1, <1>6, <2>2, Zenon
  <2> QED
    BY <2>1, <2>2, Zenon
<1>8. Orderly(Flying(channel', batch', i), sock'[i], write_queue'[i], waiting'[i], open'[i], Alive')
  <2>1. /\ Len(sock'[i]) <= 1 /\ Len(write_queue'[i]) <= 1 /\ sock'[i] = <<>>
        /\ waiting'[i] = waiting[i] /\ open'[i] = open[i]
    BY <1>2, <1>6, <1>7, SMTT(30)
  <2> QED
    BY <1>1, <1>3, <1>7, <2>1, Zenon DEF Orderly
<1>9. AllOrderly'
  BY <1>1, <1>2, <1>7, <1>8, OthersOrderly, Zenon DEF FlightInv
<1> QED
  BY <1>1, <1>9, Zenon

\* The reply that a write has sent is the one that the client waits for.
LEMMA WritesOne ==
    ASSUME FlightInv, NEW i \in Conn, handle_write(i)
    PROVE  /\ write_queue[i] # <<>> /\ Head(write_queue[i]) = write_queue[i][1]
           /\ waiting[i] # <<>> /\ Head(waiting[i]) = waiting[i][1]
           /\ Head(waiting[i]).req = Head(write_queue[i]).req
           /\ sock[i] = <<>> /\ Flying(channel, batch, i) = {}
           /\ Len(write_queue[i]) <= 1
           /\ write_queue'[i] = <<>> /\ waiting'[i] = <<>>
           /\ \A j \in Conn : j # i => write_queue'[j] = write_queue[j] /\ waiting'[j] = waiting[j]
<1> DEFINE S == [req : Request, reply : Reply]
           T == [req : Request, cmd : Cmd]
<1>1. Orderly(Flying(channel, batch, i), sock[i], write_queue[i], waiting[i], open[i], Alive)
  BY Zenon DEF FlightInv, AllOrderly
<1>2. write_queue \in [Conn -> Seq(S)] /\ waiting \in [Conn -> Seq(T)]
  BY QueueTypes, Zenon DEF FlightInv, IInv
<1>3. /\ write_queue[i] # <<>>
      /\ write_queue' = [write_queue EXCEPT ![i] = Tail(write_queue[i])]
      /\ waiting' = [waiting EXCEPT ![i] = IF waiting[i] = <<>> THEN waiting[i] ELSE Tail(waiting[i])]
  BY DEF handle_write
<1> HIDE DEF S, T
<1>4. /\ Len(write_queue[i]) <= 1 /\ Len(waiting[i]) <= 1 /\ waiting[i] # <<>>
      /\ waiting[i][1].req = write_queue[i][1].req /\ Flying(channel, batch, i) = {}
      /\ sock[i] = <<>>
  BY <1>1, <1>3 DEF Orderly
<1>5. Head(write_queue[i]) = write_queue[i][1] /\ Head(waiting[i]) = waiting[i][1]
  BY <1>2, <1>3, <1>4
<1>6. Tail(write_queue[i]) = <<>> /\ Tail(waiting[i]) = <<>>
  BY <1>2, <1>3, <1>4, ShortQueues, Zenon
<1>7. /\ write_queue'[i] = <<>> /\ waiting'[i] = <<>>
      /\ \A j \in Conn : j # i => write_queue'[j] = write_queue[j] /\ waiting'[j] = waiting[j]
  BY <1>2, <1>3, <1>4, <1>6, Zenon
<1> QED
  BY <1>3, <1>4, <1>5, <1>7, Zenon

\* A connection with nothing under way is orderly.
LEMMA NothingOrderly ==
    ASSUME NEW o, NEW a
    PROVE  Orderly({}, <<>>, <<>>, <<>>, o, a)
BY DEF Orderly

LEMMA WriteFlight ==
    ASSUME FlightInv, Alive' => Alive, NEW i \in Conn, handle_write(i)
    PROVE  Tidy(channel, batch)' /\ AllOrderly'
<1>1. UNCHANGED <<channel, batch, sock, open>>
  BY Zenon DEF handle_write, itc, conns
<1>2. /\ sock[i] = <<>> /\ Flying(channel, batch, i) = {}
      /\ write_queue'[i] = <<>> /\ waiting'[i] = <<>>
      /\ \A j \in Conn : j # i => write_queue'[j] = write_queue[j] /\ waiting'[j] = waiting[j]
  BY WritesOne, Zenon
<1>3. Orderly(Flying(channel', batch', i), sock'[i], write_queue'[i], waiting'[i], open'[i], Alive')
  BY <1>1, <1>2, NothingOrderly, Zenon
<1>4. AllOrderly'
  BY <1>1, <1>2, <1>3, OthersOrderly, Zenon DEF FlightInv
<1> QED
  BY <1>1, <1>4, Zenon DEF FlightInv

\* A connection closes; what is under way of it stays so.
LEMMA DisconnectFlight ==
    ASSUME FlightInv, Alive' => Alive, NEW i \in Conn, disconnect(i)
    PROVE  Tidy(channel, batch)' /\ AllOrderly'
<1>1. /\ sock' = [sock EXCEPT ![i] = <<>>] /\ write_queue' = [write_queue EXCEPT ![i] = <<>>]
      /\ waiting' = [waiting EXCEPT ![i] = <<>>] /\ open' = [open EXCEPT ![i] = FALSE]
      /\ UNCHANGED <<channel, batch>>
  BY DEF disconnect, itc
<1>2. /\ DOMAIN sock = Conn /\ DOMAIN write_queue = Conn /\ DOMAIN waiting = Conn
      /\ DOMAIN open = Conn
  BY Zenon DEF FlightInv, IInv, TypeOK
<1>3. /\ sock'[i] = <<>> /\ write_queue'[i] = <<>> /\ waiting'[i] = <<>> /\ open'[i] = FALSE
      /\ \A j \in Conn : j # i => /\ sock'[j] = sock[j] /\ write_queue'[j] = write_queue[j]
                                  /\ waiting'[j] = waiting[j] /\ open'[j] = open[j]
  BY <1>1, <1>2, Zenon
<1>4. Orderly(Flying(channel', batch', i), sock'[i], write_queue'[i], waiting'[i], open'[i], Alive')
  <2>1. Len(<<>>) <= 1
    OBVIOUS
  <2> QED
    BY <1>3, <2>1, Zenon DEF Orderly
<1>5. AllOrderly'
  BY <1>1, <1>3, <1>4, OthersOrderly, Zenon DEF FlightInv
<1> QED
  BY <1>1, <1>5, Zenon DEF FlightInv

\* A connection is accepted: it is new, and nothing is under way of it.
LEMMA AcceptFresh ==
    ASSUME FlightInv, NEW i \in Conn, home[i] = None
    PROVE  /\ ~ open[i] /\ sock[i] = <<>> /\ write_queue[i] = <<>> /\ waiting[i] = <<>>
           /\ Flying(channel, batch, i) = {}
<1>1. /\ ~ open[i] /\ sock[i] = <<>> /\ write_queue[i] = <<>> /\ waiting[i] = <<>>
  BY CoreAssumption, Zenon DEF FlightInv, IInv, ConnectionsProper
<1>2. ASSUME NEW c \in Core, NEW x \in ITC!Message, Proper(home, c, x), About(x) = i PROVE FALSE
  BY <1>2, CoreAssumption, MessageFacts, Zenon DEF Proper, About
<1>3. \A c \in Core : /\ \A n \in DOMAIN channel[c] : channel[c][n] \in ITC!Message
                      /\ \A n \in DOMAIN batch[c] : batch[c][n] \in ITC!Message
  BY QueueTypes DEF FlightInv, IInv
<1>4. \A x : About(x) = i => ~ In(channel, x) /\ ~ In(batch, x)
  BY <1>2, <1>3, Zenon DEF In, FlightInv, IInv, MessagesProper
<1> QED
  BY <1>1, <1>4, FlyingNone, Zenon

LEMMA AcceptFlight ==
    ASSUME FlightInv, Alive' => Alive, NEW c \in Core, handle_accept(c)
    PROVE  Tidy(channel, batch)' /\ AllOrderly'
<1> DEFINE i == next_conn_id
<1>1. /\ open' = [open EXCEPT ![i] = TRUE] /\ UNCHANGED <<channel, batch, sock, write_queue, waiting>>
      /\ i <= MaxConns
  BY Zenon DEF handle_accept, itc, clients
<1>2. DOMAIN open = Conn /\ i \in Conn
  BY <1>1, BoundsAssumption DEF FlightInv, IInv, TypeOK, Conn
<1>3. home[i] = None
  BY <1>2 DEF FlightInv, IInv, ConnectionsProper, Conn
<1> HIDE DEF i
<1>4. /\ sock[i] = <<>> /\ write_queue[i] = <<>> /\ waiting[i] = <<>>
      /\ Flying(channel, batch, i) = {}
  BY <1>2, <1>3, AcceptFresh, Zenon
<1>5. Orderly(Flying(channel', batch', i), sock'[i], write_queue'[i], waiting'[i], open'[i], Alive')
  BY <1>1, <1>4, NothingOrderly, Zenon
<1>6. \A j \in Conn : j # i => open'[j] = open[j]
  BY <1>1, <1>2
<1>7. AllOrderly'
  BY <1>1, <1>5, <1>6, OthersOrderly, Zenon DEF FlightInv
<1> QED
  BY <1>1, <1>7, Zenon DEF FlightInv

\* The inbox becomes the batch.
LEMMA ConsumeMoves ==
    ASSUME FlightInv, NEW c \in Core, ITC!consume_all(c)
    PROVE  /\ Tidy(channel', batch')
           /\ \A j : Flying(channel', batch', j) = Flying(channel, batch, j)
<1>1. /\ batch' = [batch EXCEPT ![c] = channel[c]] /\ channel' = [channel EXCEPT ![c] = <<>>]
      /\ notif[c] = "done"
  BY DEF ITC!consume_all
<1>2. DOMAIN batch = Core /\ DOMAIN channel = Core
  BY DEF FlightInv, IInv, TypeOK, ITC!TypeOK
<1>3. batch[c] = <<>>
  BY <1>1 DEF FlightInv, BatchHandled
<1>4. Moved(channel, batch, channel', batch', c)
  BY <1>1, <1>2, <1>3 DEF Moved
<1>5. Tidy(channel, batch)
  BY DEF FlightInv
<1> QED
  BY <1>4, <1>5, Swapped

\* Steps that leave connections and clients alone.
LEMMA QuietFlight ==
    ASSUME FlightInv, Alive' => Alive, Tidy(channel', batch'),
           \A j : Flying(channel', batch', j) = Flying(channel, batch, j),
           UNCHANGED <<sock, write_queue, waiting, open>>
    PROVE  Tidy(channel, batch)' /\ AllOrderly'
<1>1. AllOrderly
  BY Zenon DEF FlightInv
<1>2. ASSUME NEW j \in Conn
      PROVE  Orderly(Flying(channel', batch', j), sock'[j], write_queue'[j], waiting'[j],
                     open'[j], Alive')
  <2>1. Orderly(Flying(channel, batch, j), sock[j], write_queue[j], waiting[j], open[j], Alive)
    BY <1>1, Zenon DEF AllOrderly
  <2>2. Orderly(Flying(channel, batch, j), sock[j], write_queue[j], waiting[j], open[j], Alive')
    BY <2>1, Zenon DEF Orderly
  <2> QED
    BY <2>2, Zenon
<1> QED
  BY <1>2, Zenon DEF AllOrderly

\* What else a thread does leaves the messages where they are.
LEMMA OtherMoves ==
    ASSUME NEW c \in Core,
           \/ ITC!register_notify_fd(c) \/ ITC!wait_for_all_cores(c) \/ ITC!enter_run(c)
           \/ ITC!notify_core(c) \/ ITC!submit_notification_read(c)
           \/ ITC!read_event(c) \/ ITC!read_error(c)
    PROVE  UNCHANGED <<channel, batch>>
BY Zenon DEF ITC!register_notify_fd, ITC!wait_for_all_cores, ITC!enter_run, ITC!notify_core,
       ITC!submit_notification_read, ITC!read_event, ITC!read_error

\* Every step keeps each connection orderly.
LEMMA OrderlyStep ==
    ASSUME ClientsWait, FlightInv, [Next]_vars
    PROVE  Tidy(channel, batch)' /\ AllOrderly'
<1>1. Alive' => Alive
  BY AliveBefore, ItcStep, Zenon DEF FlightInv, IInv, TypeOK
<1>2. Tidy(channel, batch)
  BY DEF FlightInv
<1>3. ASSUME NEW i \in Conn, NEW cmd \in Workload, send(i, cmd)
      PROVE  Tidy(channel, batch)' /\ AllOrderly'
  BY <1>1, <1>3, SendFlight
<1>4. ASSUME NEW i \in Conn, handle_read(i) PROVE Tidy(channel, batch)' /\ AllOrderly'
  <2>1. CASE read_local(i)
    BY <1>1, <2>1, LocalFlight, Zenon
  <2>2. CASE read_forward(i)
    BY <1>1, <2>2, ForwardFlight, Zenon
  <2>3. CASE read_throw(i)
    <3>1. Reads(i) /\ ITC!die(home[i]) /\ UNCHANGED <<write_queue, waiting, open>>
      BY <2>3, Zenon DEF read_throw, conns
    <3>2. home[i] \in Core /\ \A j \in Conn : sock'[j] = sock[j] \/ sock'[j] = <<>>
      BY <3>1, ReadsOne, Zenon
    <3> QED
      BY <3>1, <3>2, DieFlight, Zenon
  <2> QED
    BY <1>4, <2>1, <2>2, <2>3 DEF handle_read
<1>5. ASSUME NEW i \in Conn, handle_write(i) PROVE Tidy(channel, batch)' /\ AllOrderly'
  BY <1>1, <1>5, WriteFlight
<1>6. ASSUME NEW i \in Conn, disconnect(i) PROVE Tidy(channel, batch)' /\ AllOrderly'
  BY <1>1, <1>6, DisconnectFlight
<1>7. ASSUME NEW c \in Core, handle_accept(c) PROVE Tidy(channel, batch)' /\ AllOrderly'
  BY <1>1, <1>7, AcceptFlight, Zenon
<1>8. ASSUME UNCHANGED <<channel, batch, sock, write_queue, waiting, open>>
      PROVE  Tidy(channel, batch)' /\ AllOrderly'
  BY <1>1, <1>2, <1>8, QuietFlight, Zenon
<1>9. ASSUME NEW c \in Core, runs_on(c) PROVE Tidy(channel, batch)' /\ AllOrderly'
  <2>1. CASE handle_request(c)
    BY <1>1, <2>1, RequestFlight, Zenon
  <2>2. CASE handle_response(c)
    BY <1>1, <2>2, ResponseFlight, Zenon
  <2>3. CASE request_throw(c)
    BY <2>3, DieFlight, Zenon DEF request_throw, clients, conns
  <2>4. CASE /\ \/ ITC!register_notify_fd(c) \/ ITC!wait_for_all_cores(c) \/ ITC!enter_run(c)
                \/ ITC!notify_core(c) \/ ITC!submit_notification_read(c)
             /\ UNCHANGED <<shards, conns, clients>>
    BY <1>8, <2>4, OtherMoves, Zenon DEF conns, clients
  <2> QED
    BY <1>9, <2>1, <2>2, <2>3, <2>4, Zenon DEF runs_on
<1>10. ASSUME NEW c \in Core, read_event(c) \/ read_error(c)
       PROVE  Tidy(channel, batch)' /\ AllOrderly'
  <2>1. UNCHANGED <<channel, batch>>
    BY <1>10, OtherMoves, Zenon DEF read_event, read_error
  <2>2. UNCHANGED <<sock, write_queue, waiting, open>>
    BY <1>10, Zenon DEF read_event, read_error, conns, clients
  <2> QED
    BY <1>8, <2>1, <2>2, Zenon
<1>11. ASSUME NEW c \in Core, consume_all(c) PROVE Tidy(channel, batch)' /\ AllOrderly'
  <2>1. UNCHANGED <<sock, write_queue, waiting, open>> /\ ITC!consume_all(c)
    BY <1>11, Zenon DEF consume_all, conns, clients
  <2> QED
    BY <1>1, <2>1, ConsumeMoves, QuietFlight, Zenon
<1>12. CASE UNCHANGED vars
  BY <1>8, <1>12, Zenon DEF vars, itc, conns, clients
<1> QED
  BY <1>3, <1>4, <1>5, <1>6, <1>7, <1>9, <1>10, <1>11, <1>12, SMTT(30) DEF Next

LEMMA FlightStep ==
    ASSUME ClientsWait
    PROVE  FlightInv /\ [Next]_vars => FlightInv'
<1> SUFFICES ASSUME FlightInv, [Next]_vars PROVE FlightInv'
  BY Zenon
<1>1. IInv'
  BY IInvStep, Zenon DEF FlightInv
<1>2. AllRegistered'
  BY RegisteredStep, Zenon DEF FlightInv
<1>3. BatchHandled'
  BY BatchStep, ItcStep, Zenon DEF FlightInv, IInv, TypeOK
<1> QED
  BY <1>1, <1>2, <1>3, OrderlyStep, Zenon DEF FlightInv

LEMMA InitFlight == Init => FlightInv
<1> SUFFICES ASSUME Init PROVE FlightInv
  OBVIOUS
<1>1. \A c \in Core : /\ channel[c] = <<>> /\ batch[c] = <<>>
                      /\ DOMAIN channel[c] = {} /\ DOMAIN batch[c] = {} /\ notif[c] = "none"
  BY DEF Init, ITC!Init
<1>2. Tidy(channel, batch) /\ BatchHandled
  BY <1>1, Zenon DEF Tidy, BatchHandled
<1>3. AllRegistered
  BY Zenon DEF Init, AllRegistered
<1>4. ASSUME NEW i \in Conn
      PROVE  /\ sock[i] = <<>> /\ write_queue[i] = <<>> /\ waiting[i] = <<>>
             /\ Flying(channel, batch, i) = {}
  <2>1. Flying(channel, batch, i) = {}
    BY <1>1, FlyingNone, Zenon DEF In
  <2> QED
    BY <2>1, Zenon DEF Init
<1>5. AllOrderly
  BY <1>4, NothingOrderly, Zenon DEF AllOrderly
<1> QED
  BY <1>2, <1>3, <1>5, InitIInv, Zenon DEF FlightInv

-----------------------------------------------------------------------------
(* What clients that wait may rely on *)

\* Every command of a waiting client is in one place, or its reply is.
THEOREM FlightInvariant ==
    ASSUME ClientsWait
    PROVE  Spec => []FlightInv
BY InitFlight, FlightStep, PTL DEF Spec

\* No reply reaches another connection or out of turn: not when commands are
\* forwarded, connections close with commands under way, new connections are
\* accepted or cores fail.
THEOREM RepliesInTurn ==
    ASSUME ClientsWait
    PROVE  Spec => []OwnReply
<1>1. ASSUME Init PROVE OwnReply
  <2>1. got = [i \in Conn |-> [req |-> Absent, reply |-> Unknown, asked |-> Absent]]
    BY <1>1, Zenon DEF Init
  <2> QED
    BY <2>1 DEF OwnReply
<1>2. FlightInv /\ OwnReply /\ [Next]_vars => OwnReply'
  <2> SUFFICES ASSUME FlightInv, OwnReply, [Next]_vars PROVE OwnReply'
    OBVIOUS
  <2>1. ASSUME NEW i \in Conn, handle_write(i) PROVE OwnReply'
    <3>1. waiting[i] # <<>> /\ Head(waiting[i]).req = Head(write_queue[i]).req
      BY <2>1, WritesOne, Zenon
    <3>2. DOMAIN got = Conn
      BY DEF FlightInv, IInv, TypeOK
    <3> QED
      BY <2>1, <3>1, <3>2 DEF handle_write, OwnReply
  <2>2. CASE UNCHANGED got
    BY <2>2, SMTT(30) DEF OwnReply
  <2>3. (\E i \in Conn : handle_write(i)) \/ UNCHANGED got
    BY Zenon DEF Next, vars, clients, send, handle_read, read_local, read_forward, read_throw, disconnect,
           handle_accept, runs_on, handle_request, request_throw, handle_response, read_event,
           read_error, consume_all
  <2> QED
    BY <2>1, <2>2, <2>3
<1> QED
  BY <1>1, <1>2, FlightInvariant, PTL DEF Spec

\* Where a command may be: the definition of Places, unfolded.
LEMMA PlacesFacts ==
    ASSUME NEW req, NEW p
    PROVE  p \in Places(req) <=>
            \/ \E c \in Core : \E n \in DOMAIN channel[c] :
                p = <<"channel", c, n>> /\ channel[c][n].body.req = req
            \/ \E c \in Core : \E n \in DOMAIN batch[c] :
                p = <<"batch", c, n>> /\ batch[c][n].body.req = req
            \/ \E j \in Conn : \E n \in DOMAIN sock[j] :
                p = <<"sock", j, n>> /\ sock[j][n].req = req
            \/ \E j \in Conn : \E n \in DOMAIN write_queue[j] :
                p = <<"write_queue", j, n>> /\ write_queue[j][n].req = req
<1>1. ASSUME NEW q, NEW x, NEW s
      PROVE  p \in Spots(q, x, s, req) <=> \E n \in DOMAIN s : p = <<q, x, n>> /\ s[n].req = req
  BY Zenon DEF Spots
<1>2. ASSUME NEW q, NEW x, NEW s
      PROVE  p \in Spots(q, x, Bodies(s), req)
             <=> \E n \in DOMAIN s : p = <<q, x, n>> /\ s[n].body.req = req
  <2>1. DOMAIN Bodies(s) = DOMAIN s /\ \A n \in DOMAIN s : Bodies(s)[n] = s[n].body
    BY Zenon DEF Bodies
  <2> QED
    BY <1>1, <2>1
<1>3. p \in Places(req) <=>
        \/ \E c \in Core : p \in Spots("channel", c, Bodies(channel[c]), req)
        \/ \E c \in Core : p \in Spots("batch", c, Bodies(batch[c]), req)
        \/ \E j \in Conn : p \in Spots("sock", j, sock[j], req)
        \/ \E j \in Conn : p \in Spots("write_queue", j, write_queue[j], req)
  BY DEF Places
<1> QED
  BY <1>1, <1>2, <1>3

\* A queue of one entry has it in place 1.
LEMMA OnePlace ==
    ASSUME NEW S, NEW s \in Seq(S), Len(s) <= 1
    PROVE  (\A n \in DOMAIN s : n = 1) /\ (s # <<>> <=> 1 \in DOMAIN s)
<1>1. Len(s) \in Nat /\ DOMAIN s = 1 .. Len(s) /\ (s = <<>> <=> Len(s) = 0)
  OBVIOUS
<1> QED
  BY <1>1

\* A command of connection i is with i, or in a message about i.
LEMMA PlacesOf ==
    ASSUME FlightInv, NEW i \in Conn, NEW n, NEW p
    PROVE  p \in Places(<<i, n>>) <=>
            \/ \E c \in Core : \E k \in DOMAIN channel[c] :
                p = <<"channel", c, k>> /\ channel[c][k].body.req = <<i, n>>
            \/ \E c \in Core : \E k \in DOMAIN batch[c] :
                p = <<"batch", c, k>> /\ batch[c][k].body.req = <<i, n>>
            \/ p = <<"sock", i, 1>> /\ sock[i] # <<>> /\ sock[i][1].req = <<i, n>>
            \/ p = <<"write_queue", i, 1>> /\ write_queue[i] # <<>> /\ write_queue[i][1].req = <<i, n>>
<1> DEFINE r == <<i, n>>
<1>1. \A j \in Conn :
        Orderly(Flying(channel, batch, j), sock[j], write_queue[j], waiting[j], open[j], Alive)
  BY Zenon DEF FlightInv, AllOrderly
<1>2. \A j \in Conn : /\ Len(sock[j]) <= 1 /\ Len(write_queue[j]) <= 1 /\ Len(waiting[j]) <= 1
                      /\ write_queue[j] # <<>> => /\ waiting[j] # <<>>
                                                  /\ waiting[j][1].req = write_queue[j][1].req
  BY <1>1, Zenon DEF Orderly
<1>3. \A j \in Conn : /\ sock[j] \in Seq([req : Request, cmd : Cmd])
                      /\ waiting[j] \in Seq([req : Request, cmd : Cmd])
                      /\ write_queue[j] \in Seq([req : Request, reply : Reply])
  BY QueueTypes, Zenon DEF FlightInv, IInv
<1>4. \A j \in Conn : /\ \A k \in DOMAIN sock[j] : k = 1
                      /\ \A k \in DOMAIN write_queue[j] : k = 1
                      /\ sock[j] # <<>> <=> 1 \in DOMAIN sock[j]
                      /\ write_queue[j] # <<>> <=> 1 \in DOMAIN write_queue[j]
                      /\ waiting[j] # <<>> <=> 1 \in DOMAIN waiting[j]
  BY <1>2, <1>3, OnePlace, Zenon
<1>5. \A j \in Conn : /\ \A k \in DOMAIN sock[j] : sock[j][k].req[1] = j
                      /\ \A k \in DOMAIN waiting[j] : waiting[j][k].req[1] = j
  BY Zenon DEF FlightInv, IInv, ConnectionsProper
<1>6. r[1] = i
  OBVIOUS
<1> HIDE DEF r
<1>7. \A j \in Conn : 1 \in DOMAIN write_queue[j] => write_queue[j][1].req[1] = j
  BY <1>2, <1>4, <1>5, Zenon
<1>8. (\E j \in Conn : \E k \in DOMAIN sock[j] : p = <<"sock", j, k>> /\ sock[j][k].req = r)
      <=> p = <<"sock", i, 1>> /\ sock[i] # <<>> /\ sock[i][1].req = r
  BY <1>4, <1>5, <1>6
<1>9. (\E j \in Conn : \E k \in DOMAIN write_queue[j] :
        p = <<"write_queue", j, k>> /\ write_queue[j][k].req = r)
      <=> p = <<"write_queue", i, 1>> /\ write_queue[i] # <<>> /\ write_queue[i][1].req = r
  BY <1>4, <1>6, <1>7, Zenon
<1>10. p \in Places(r) <=>
            \/ \E c \in Core : \E k \in DOMAIN channel[c] :
                p = <<"channel", c, k>> /\ channel[c][k].body.req = r
            \/ \E c \in Core : \E k \in DOMAIN batch[c] :
                p = <<"batch", c, k>> /\ batch[c][k].body.req = r
            \/ p = <<"sock", i, 1>> /\ sock[i] # <<>> /\ sock[i][1].req = r
            \/ p = <<"write_queue", i, 1>> /\ write_queue[i] # <<>> /\ write_queue[i][1].req = r
  BY <1>8, <1>9, PlacesFacts, Zenon
<1> QED
  BY <1>10, Zenon DEF r

\* A command of an open connection is in one place at most, and only if its client
\* waits for it.
LEMMA AtMostOnePlace ==
    ASSUME FlightInv, NEW i \in Conn, open[i], NEW n, NEW p \in Places(<<i, n>>)
    PROVE  /\ waiting[i] # <<>> /\ waiting[i][1].req = <<i, n>>
           /\ \A q \in Places(<<i, n>>) : q = p
<1> DEFINE r == <<i, n>>
           F == Flying(channel, batch, i)
           inChannel(x, m) == \E c \in Core : \E k \in DOMAIN channel[c] :
                                x = <<"channel", c, k>> /\ m = channel[c][k]
           inBatch(x, m) == \E c \in Core : \E k \in DOMAIN batch[c] :
                                x = <<"batch", c, k>> /\ m = batch[c][k]
           inSock(x) == x = <<"sock", i, 1>> /\ sock[i] # <<>> /\ sock[i][1].req = r
           inWrite(x) == x = <<"write_queue", i, 1>> /\ write_queue[i] # <<>>
                         /\ write_queue[i][1].req = r
<1>1. Orderly(F, sock[i], write_queue[i], waiting[i], open[i], Alive)
  BY Zenon DEF FlightInv, AllOrderly
<1>2. r[1] = i
  OBVIOUS
<1>3. ASSUME NEW x \in Places(r)
      PROVE  \/ \E m : m.body.req = r /\ (inChannel(x, m) \/ inBatch(x, m))
             \/ inSock(x) \/ inWrite(x)
  <2>1. \/ \E c \in Core : \E k \in DOMAIN channel[c] :
            x = <<"channel", c, k>> /\ channel[c][k].body.req = <<i, n>>
        \/ \E c \in Core : \E k \in DOMAIN batch[c] :
            x = <<"batch", c, k>> /\ batch[c][k].body.req = <<i, n>>
        \/ x = <<"sock", i, 1>> /\ sock[i] # <<>> /\ sock[i][1].req = <<i, n>>
        \/ x = <<"write_queue", i, 1>> /\ write_queue[i] # <<>> /\ write_queue[i][1].req = <<i, n>>
    BY <1>3, PlacesOf, Zenon
  <2> QED
    BY <2>1, Zenon
<1>4. ASSUME NEW x, NEW m, m.body.req = r, inChannel(x, m) \/ inBatch(x, m)
      PROVE  m \in F /\ About(m) = i
  BY <1>2, <1>4, FlyingFacts DEF In, About
<1>5. ASSUME NEW x, NEW y, NEW m, NEW l, About(m) = About(l),
             inChannel(x, m) \/ inBatch(x, m), inChannel(y, l) \/ inBatch(y, l)
      PROVE  x = y
  <2>1. Tidy(channel, batch)
    BY Zenon DEF FlightInv
  <2>2. CASE inChannel(x, m) /\ inChannel(y, l)
    BY <1>5, <2>1, <2>2 DEF Tidy
  <2>3. CASE inBatch(x, m) /\ inBatch(y, l)
    BY <1>5, <2>1, <2>3 DEF Tidy
  <2>4. ~(inChannel(x, m) /\ inBatch(y, l)) /\ ~(inBatch(x, m) /\ inChannel(y, l))
    BY <1>5, <2>1 DEF Tidy
  <2> HIDE DEF inChannel, inBatch
  <2> QED
    BY <1>5, <2>2, <2>3, <2>4, Zenon
<1> HIDE DEF r, F, inChannel, inBatch
<1>6. waiting[i] # <<>> /\ waiting[i][1].req = r
  BY <1>1, <1>3, <1>4, Zenon DEF Orderly, r
<1>7. ASSUME NEW q \in Places(r) PROVE q = p
  <2>1. CASE \E m : m.body.req = r /\ (inChannel(p, m) \/ inBatch(p, m))
    <3>1. PICK m : m.body.req = r /\ (inChannel(p, m) \/ inBatch(p, m))
      BY <2>1, Zenon
    <3>2. F # {} /\ sock[i] = <<>> /\ write_queue[i] = <<>>
      BY <1>1, <1>4, <3>1, Zenon DEF Orderly
    <3>3. PICK l : l.body.req = r /\ (inChannel(q, l) \/ inBatch(q, l))
      BY <1>3, <3>2, Zenon
    <3>4. About(m) = About(l)
      BY <1>4, <3>1, <3>3
    <3> QED
      BY <1>5, <3>1, <3>3, <3>4, Zenon
  <2>2. CASE inSock(p)
    <3>1. F = {} /\ write_queue[i] = <<>>
      BY <1>1, <2>2, Zenon DEF Orderly
    <3> QED
      BY <1>3, <1>4, <2>2, <3>1, Zenon
  <2>3. CASE inWrite(p)
    <3>1. F = {} /\ sock[i] = <<>>
      BY <1>1, <2>3, Zenon DEF Orderly
    <3> QED
      BY <1>3, <1>4, <2>3, <3>1, Zenon
  <2>4. p \in Places(r)
    BY Zenon DEF r
  <2> QED
    BY <1>3, <2>1, <2>2, <2>3, <2>4, Zenon
<1> QED
  BY <1>6, <1>7, Zenon DEF r

\* The server holds what the client of an open connection waits for.
LEMMA SomePlace ==
    ASSUME FlightInv, Alive, NEW i \in Conn, open[i], NEW n, waiting[i] # <<>>,
           waiting[i][1].req = <<i, n>>
    PROVE  Places(<<i, n>>) # {}
<1> DEFINE r == <<i, n>>
<1>1. Orderly(Flying(channel, batch, i), sock[i], write_queue[i], waiting[i], open[i], Alive)
  BY Zenon DEF FlightInv, AllOrderly
<1>2. CASE sock[i] # <<>>
  <2>1. sock[i][1].req = r
    BY <1>1, <1>2, Zenon DEF Orderly
  <2> QED
    BY <1>2, <2>1, PlacesOf, ZenonT(30)
<1>3. CASE write_queue[i] # <<>>
  <2>1. write_queue[i][1].req = r
    BY <1>1, <1>3, Zenon DEF Orderly
  <2> QED
    BY <1>3, <2>1, PlacesOf, Zenon
<1>4. CASE Flying(channel, batch, i) # {}
  <2>1. PICK m \in Flying(channel, batch, i) : m.body.req = r
    BY <1>1, <1>4, Zenon DEF Orderly
  <2>2. In(channel, m) \/ In(batch, m)
    BY <2>1, FlyingFacts, Zenon
  <2>3. ASSUME NEW c \in Core, NEW k \in DOMAIN channel[c], m = channel[c][k]
        PROVE  <<"channel", c, k>> \in Places(r)
    BY <2>1, <2>3, PlacesOf, Zenon
  <2>4. ASSUME NEW c \in Core, NEW k \in DOMAIN batch[c], m = batch[c][k]
        PROVE  <<"batch", c, k>> \in Places(r)
    BY <2>1, <2>4, PlacesOf, Zenon
  <2> QED
    BY <2>2, <2>3, <2>4, ZenonT(30) DEF In
<1> QED
  BY <1>1, <1>2, <1>3, <1>4, Zenon DEF Orderly

\* Nothing is lost on the way and nothing is run twice: while all cores run, each
\* command that an open connection waits for is in exactly one of the sockets,
\* inboxes, batches and write queues, and an answered one is in none.
THEOREM NothingLost ==
    ASSUME ClientsWait
    PROVE  Spec => []NoCommandLost
<1>1. FlightInv => NoCommandLost
  <2> SUFFICES ASSUME FlightInv, Alive, NEW i \in Conn, open[i], NEW n \in 1 .. sent
               PROVE  IF \E r \in Range(waiting[i]) : r.req = <<i, n>>
                      THEN \E p \in Places(<<i, n>>) : Places(<<i, n>>) = {p}
                      ELSE Places(<<i, n>>) = {}
    BY Zenon DEF NoCommandLost, Alive
  <2>1. waiting[i] \in Seq([req : Request, cmd : Cmd]) /\ Len(waiting[i]) <= 1
    BY QueueTypes, Zenon DEF FlightInv, IInv, AllOrderly, Orderly
  <2>2. (\E r \in Range(waiting[i]) : r.req = <<i, n>>)
        <=> waiting[i] # <<>> /\ waiting[i][1].req = <<i, n>>
    BY <2>1, OnePlace, Zenon DEF Range
  <2>3. CASE waiting[i] # <<>> /\ waiting[i][1].req = <<i, n>>
    <3>1. PICK p : p \in Places(<<i, n>>)
      BY <2>3, SomePlace, Zenon
    <3>2. Places(<<i, n>>) = {p}
      BY <3>1, AtMostOnePlace, Zenon
    <3> QED
      BY <2>2, <2>3, <3>1, <3>2, Zenon
  <2>4. CASE ~ (waiting[i] # <<>> /\ waiting[i][1].req = <<i, n>>)
    <3>1. Places(<<i, n>>) = {}
      BY <2>4, AtMostOnePlace, Zenon
    <3> QED
      BY <2>2, <2>4, <3>1, Zenon
  <2> QED
    BY <2>3, <2>4, Zenon
<1> QED
  BY <1>1, FlightInvariant, PTL

-----------------------------------------------------------------------------
(* One linearizable map *)

\* The commands of a connection that have not taken effect, and its replies, f
\* being the messages about it, s its socket and q its write queue.
PendOf(f, s) ==
    Range(s) \cup {[req |-> m.body.req, cmd |-> m.body.cmd] : m \in {x \in f : x.type = "REQUEST"}}
ResOf(f, q) ==
    Range(q) \cup {[req |-> m.body.req, reply |-> m.body.payload]
                   : m \in {x \in f : x.type = "RESPONSE"}}

\* Inbox and batch of a core, as sets.
LEMMA InboxRange ==
    ASSUME TypeOK, NEW c \in Core
    PROVE  Range(Inbox(c)) = Range(channel[c]) \cup Range(batch[c])
<1> DEFINE S == ITC!Message
           s == channel[c]
           t == batch[c]
<1>1. s \in Seq(S) /\ t \in Seq(S)
  BY QueueTypes
<1> HIDE DEF S, s, t
<1>2. ASSUME NEW n \in DOMAIN s PROVE n \in DOMAIN (s \o t) /\ (s \o t)[n] = s[n]
  BY <1>1
<1>3. ASSUME NEW n \in DOMAIN t
      PROVE  Len(s) + n \in DOMAIN (s \o t) /\ (s \o t)[Len(s) + n] = t[n]
  BY <1>1
<1>4. \A m : m \in Range(s) \cup Range(t) => m \in Range(s \o t)
  BY <1>2, <1>3, Zenon DEF Range
<1>5. \A m \in Range(Inbox(c)) : m \in Range(s) \cup Range(t)
  BY InboxMessages, Zenon DEF Range, s, t
<1> QED
  BY <1>4, <1>5, Zenon DEF Inbox, s, t

\* The refinement mapping depends only on the messages about each connection, its
\* socket and its write queue.
LEMMA Mapping ==
    TypeOK => \A i \in Conn : /\ Pending[i] = PendOf(Flying(channel, batch, i), sock[i])
                              /\ Replies[i] = ResOf(Flying(channel, batch, i), write_queue[i])
<1> SUFFICES ASSUME TypeOK, NEW i \in Conn
             PROVE  /\ Pending[i] = PendOf(Flying(channel, batch, i), sock[i])
                    /\ Replies[i] = ResOf(Flying(channel, batch, i), write_queue[i])
  BY Zenon
<1> DEFINE F == Flying(channel, batch, i)
           P(x) == x.type = "REQUEST" /\ x.body.req[1] = i
           R(x) == x.type = "RESPONSE" /\ x.body.req[1] = i
<1>1. \A m : m \in F <=> m.body.req[1] = i /\ \E c \in Core : m \in Range(Inbox(c))
  BY InboxRange, Zenon DEF Flying, About
<1>2. Pending[i] = Range(sock[i]) \cup
        UNION {{[req |-> m.body.req, cmd |-> m.body.cmd] : m \in {x \in Range(Inbox(c)) : P(x)}}
               : c \in Core}
  BY Zenon DEF Pending
<1>3. Replies[i] = Range(write_queue[i]) \cup
        UNION {{[req |-> m.body.req, reply |-> m.body.payload] : m \in {x \in Range(Inbox(c)) : R(x)}}
               : c \in Core}
  BY Zenon DEF Replies
<1> HIDE DEF F
<1>4. UNION {{[req |-> m.body.req, cmd |-> m.body.cmd] : m \in {x \in Range(Inbox(c)) : P(x)}}
             : c \in Core}
      = {[req |-> m.body.req, cmd |-> m.body.cmd] : m \in {x \in F : x.type = "REQUEST"}}
  BY <1>1
<1>5. UNION {{[req |-> m.body.req, reply |-> m.body.payload] : m \in {x \in Range(Inbox(c)) : R(x)}}
             : c \in Core}
      = {[req |-> m.body.req, reply |-> m.body.payload] : m \in {x \in F : x.type = "RESPONSE"}}
  BY <1>1
<1> QED
  BY <1>2, <1>3, <1>4, <1>5, Zenon DEF PendOf, ResOf, F

LEMMA MappingNext ==
    TypeOK' => \A i \in Conn : /\ Pending'[i] = PendOf(Flying(channel', batch', i), sock'[i])
                               /\ Replies'[i] = ResOf(Flying(channel', batch', i), write_queue'[i])
<1>1. TypeOK' => (\A i \in Conn : /\ Pending[i] = PendOf(Flying(channel, batch, i), sock[i])
                                  /\ Replies[i] = ResOf(Flying(channel, batch, i), write_queue[i]))'
  BY Mapping, PTL
<1> QED
  BY <1>1, Zenon

\* What a connection with one thing under way, or none, stands for.
LEMMA PendCases ==
    ASSUME NEW S
    PROVE  /\ \A s \in Seq(S) : s # <<>> /\ Len(s) <= 1 => PendOf({}, s) = {s[1]} /\ ResOf({}, s) = {s[1]}
           /\ PendOf({}, <<>>) = {} /\ ResOf({}, <<>>) = {}
           /\ \A m : m.type = "REQUEST"
                => /\ PendOf({m}, <<>>) = {[req |-> m.body.req, cmd |-> m.body.cmd]}
                   /\ ResOf({m}, <<>>) = {}
           /\ \A m : m.type = "RESPONSE"
                => /\ PendOf({m}, <<>>) = {}
                   /\ ResOf({m}, <<>>) = {[req |-> m.body.req, reply |-> m.body.payload]}
<1>1. Range(<<>>) = {}
  BY DEF Range
<1>2. ASSUME NEW s \in Seq(S), s # <<>>, Len(s) <= 1 PROVE Range(s) = {s[1]}
  <2>1. (\A n \in DOMAIN s : n = 1) /\ 1 \in DOMAIN s
    BY <1>2, OnePlace
  <2> QED
    BY <2>1 DEF Range
<1>3. \A s : PendOf({}, s) = Range(s) /\ ResOf({}, s) = Range(s)
  BY Zenon DEF PendOf, ResOf
<1>4. ASSUME NEW m, m.type = "REQUEST"
      PROVE  /\ PendOf({m}, <<>>) = {[req |-> m.body.req, cmd |-> m.body.cmd]}
             /\ ResOf({m}, <<>>) = {}
  <2>1. {x \in {m} : x.type = "REQUEST"} = {m} /\ {x \in {m} : x.type = "RESPONSE"} = {}
    BY <1>4, Zenon
  <2> QED
    BY <1>1, <2>1, Zenon DEF PendOf, ResOf
<1>5. ASSUME NEW m, m.type = "RESPONSE"
      PROVE  /\ PendOf({m}, <<>>) = {}
             /\ ResOf({m}, <<>>) = {[req |-> m.body.req, reply |-> m.body.payload]}
  <2>1. {x \in {m} : x.type = "RESPONSE"} = {m} /\ {x \in {m} : x.type = "REQUEST"} = {}
    BY <1>5
  <2> QED
    BY <1>1, <2>1, Zenon DEF PendOf, ResOf
<1> QED
  BY <1>1, <1>2, <1>3, <1>4, <1>5, Zenon

\* KVService means the same by a command as the server does.
LEMMA SameCommands ==
    /\ \A s, cmd, req : KV!Effect(s, cmd, req) = Effect(s, cmd, req)
    /\ \A s, cmd : KV!Answer(s, cmd) = Answer(s, cmd)
    /\ KV!Unknown = Unknown /\ KV!Absent = Absent
BY Zenon DEF KV!Effect, Effect, KV!Answer, Answer, KV!Unknown, Unknown, KV!Absent, Absent

\* Executed on the core that owns its key, a command does to the one map what it
\* does to the shard, and answers the same.
LEMMA ExecuteDict ==
    ASSUME TypeOK, NEW c \in Core, NEW cmd \in Cmd, NEW req, execute(c, cmd, req),
           cmd.op = "PING" \/ Owner[cmd.key] = c
    PROVE  Dict' = Effect(Dict, cmd, req) /\ Answer(store[c], cmd) = Answer(Dict, cmd)
<1>1. /\ store \in [Core -> [Key -> Request \cup {Absent}]] /\ Owner \in [Key -> Core]
      /\ store' = [store EXCEPT ![c] = Effect(store[c], cmd, req)] /\ cmd.key \in Key
  BY OwnerAssumption, Zenon DEF TypeOK, execute, Cmd
<1>2. \A k \in Key : Dict[k] = store[Owner[k]][k]
  BY Zenon DEF Dict
<1>3. Answer(store[c], cmd) = Answer(Dict, cmd)
  <2>1. CASE cmd.op = "PING"
    BY <2>1 DEF Answer
  <2>2. CASE Owner[cmd.key] = c
    <3>1. store[c][cmd.key] = Dict[cmd.key]
      BY <1>1, <1>2, <2>2, Zenon
    <3> HIDE DEF Dict
    <3> QED
      BY <3>1, Zenon DEF Answer
  <2> QED
    BY <2>1, <2>2, Zenon
<1>4. CASE cmd.op = "SET" \/ cmd.op = "DEL"
  <2> DEFINE v == IF cmd.op = "SET" THEN req ELSE Absent
  <2>1. /\ Effect(store[c], cmd, req) = [store[c] EXCEPT ![cmd.key] = v]
        /\ Effect(Dict, cmd, req) = [Dict EXCEPT ![cmd.key] = v]
    BY <1>4, Zenon DEF Effect
  <2>2. Owner[cmd.key] = c
    BY <1>4, Zenon
  <2> HIDE DEF v
  <2>3. \A k \in Key : store'[Owner[k]][k] = IF k = cmd.key THEN v ELSE store[Owner[k]][k]
    BY <1>1, <2>1, <2>2
  <2>4. Dict' = [k \in Key |-> IF k = cmd.key THEN v ELSE store[Owner[k]][k]]
    BY <2>3, Zenon DEF Dict
  <2> QED
    BY <1>3, <2>1, <2>4, Zenon DEF Dict
<1>5. CASE cmd.op # "SET" /\ cmd.op # "DEL"
  <2>1. Effect(store[c], cmd, req) = store[c] /\ Effect(Dict, cmd, req) = Dict
    BY <1>5, Zenon DEF Effect
  <2>2. store' = store
    BY <1>1, <2>1, Zenon
  <2> QED
    BY <1>3, <2>1, <2>2, Zenon DEF Dict
<1> QED
  BY <1>4, <1>5, Zenon

\* The mapping changes for one connection.
LEMMA OneChanges ==
    ASSUME TypeOK, TypeOK', NEW i \in Conn,
           \A j \in Conn : j # i => /\ Flying(channel', batch', j) = Flying(channel, batch, j)
                                    /\ sock'[j] = sock[j] /\ write_queue'[j] = write_queue[j]
    PROVE  /\ Pending' = [Pending EXCEPT ![i] = PendOf(Flying(channel', batch', i), sock'[i])]
           /\ Replies' = [Replies EXCEPT ![i] = ResOf(Flying(channel', batch', i), write_queue'[i])]
<1>1. /\ Pending = [j \in Conn |-> Pending[j]] /\ Replies = [j \in Conn |-> Replies[j]]
      /\ Pending' = [j \in Conn |-> Pending'[j]] /\ Replies' = [j \in Conn |-> Replies'[j]]
  BY Zenon DEF Pending, Replies
<1>2. \A j \in Conn : j # i => Pending'[j] = Pending[j] /\ Replies'[j] = Replies[j]
  BY Mapping, MappingNext, Zenon
<1>3. /\ Pending'[i] = PendOf(Flying(channel', batch', i), sock'[i])
      /\ Replies'[i] = ResOf(Flying(channel', batch', i), write_queue'[i])
  BY MappingNext, Zenon
<1> HIDE DEF Pending, Replies
<1> QED
  BY <1>1, <1>2, <1>3, Zenon

\* Some connections lose what was under way.
LEMMA LoseStep ==
    ASSUME UNCHANGED <<store, got>>,
           \A j \in Conn : \/ Pending'[j] = Pending[j] /\ Replies'[j] = Replies[j]
                           \/ Pending'[j] = {} /\ Replies'[j] = {}
    PROVE  KV!Next
<1> DEFINE S == {j \in Conn : ~ (Pending'[j] = Pending[j] /\ Replies'[j] = Replies[j])}
           p == [i \in Conn |-> IF i \in S THEN {} ELSE Pending[i]]
           r == [i \in Conn |-> IF i \in S THEN {} ELSE Replies[i]]
<1>1. Pending' = [j \in Conn |-> Pending'[j]] /\ Replies' = [j \in Conn |-> Replies'[j]]
  BY Zenon DEF Pending, Replies
<1>2. Dict' = Dict /\ Received' = Received
  BY Zenon DEF Dict, Received
<1> HIDE DEF Pending, Replies
<1>3. \A j \in Conn : /\ Pending'[j] = IF j \in S THEN {} ELSE Pending[j]
                      /\ Replies'[j] = IF j \in S THEN {} ELSE Replies[j]
  BY Zenon
<1>4. Pending' = p /\ Replies' = r
  BY <1>1, <1>3, Zenon
<1>5. S \in SUBSET Conn
  BY Zenon
<1> HIDE DEF S
<1>6. KV!Lose
  BY <1>2, <1>4, <1>5, Zenon DEF KV!Lose
<1> QED
  BY <1>6, Zenon DEF KV!Next

\* A client sends a command: Invoke.
LEMMA SendInvokes ==
    ASSUME ClientsWait, FlightInv, TypeOK', NEW i \in Conn, NEW cmd \in Workload, send(i, cmd)
    PROVE  KV!Next
<1> DEFINE S == [req : Request, cmd : Cmd]
           x == [req |-> <<i, sent + 1>>, cmd |-> cmd]
<1>1. /\ sock' = [sock EXCEPT ![i] = Append(sock[i], x)]
      /\ UNCHANGED <<channel, batch, write_queue, store, got>>
  BY Zenon DEF send, itc, shards
<1>2. sock \in [Conn -> Seq(S)] /\ sock'[i] \in Seq(S) /\ sent + 1 \in 1 .. MaxSends /\ x \in S /\ TypeOK
  <2>1. TypeOK /\ sock' \in [Conn -> Seq(S)]
    BY Zenon DEF FlightInv, IInv, TypeOK
  <2>2. sent + 1 \in 1 .. MaxSends
    BY <2>1, BoundsAssumption DEF TypeOK, send
  <2>3. <<i, sent + 1>> \in Request
    BY <2>2 DEF Request
  <2> QED
    BY <2>1, <2>2, <2>3, QueueTypes, WorkloadAssumption, Zenon
<1> HIDE DEF S, x
<1>3. sock[i] = <<>> /\ write_queue[i] = <<>> /\ Flying(channel, batch, i) = {}
  BY NothingUnderWay, Zenon
<1>4. Len(sock'[i]) <= 1 /\ sock'[i] # <<>> /\ sock'[i][1] = x
  BY <1>1, <1>2, <1>3, ShortQueues, Zenon
<1>5. /\ Pending' = [Pending EXCEPT ![i] = PendOf({}, sock'[i])]
      /\ Replies' = [Replies EXCEPT ![i] = ResOf({}, <<>>)]
  <2>1. \A j \in Conn : j # i => sock'[j] = sock[j]
    BY <1>1, <1>2, Zenon
  <2>2. Flying(channel', batch', i) = {} /\ write_queue'[i] = <<>>
    BY <1>1, <1>3, Zenon
  <2>3. /\ Pending' = [Pending EXCEPT ![i] = PendOf(Flying(channel', batch', i), sock'[i])]
        /\ Replies' = [Replies EXCEPT ![i] = ResOf(Flying(channel', batch', i), write_queue'[i])]
    BY <1>1, <1>2, <2>1, OneChanges, Zenon
  <2> QED
    BY <2>2, <2>3, Zenon
<1>6. Pending[i] = {} /\ Replies[i] = {}
  BY <1>2, <1>3, Mapping, PendCases, Zenon
<1>7. PendOf({}, sock'[i]) = {x} /\ ResOf({}, <<>>) = {}
  BY <1>2, <1>4, PendCases, Zenon
<1>8. Dict' = Dict /\ Received' = Received
  BY <1>1, Zenon DEF Dict, Received
<1>9. Replies' = Replies
  <2>1. Replies = [j \in Conn |-> Replies[j]]
    BY Zenon DEF Replies
  <2> HIDE DEF Replies
  <2> QED
    BY <1>5, <1>6, <1>7, <2>1, Zenon
<1>10. Pending' = [Pending EXCEPT ![i] = {[req |-> <<i, sent + 1>>, cmd |-> cmd]}]
  BY <1>5, <1>7, Zenon DEF x
<1> HIDE DEF Pending, Replies
<1>11. Pending' \in {[Pending EXCEPT ![i] = {[req |-> <<i, n>>, cmd |-> d]}]
                     : n \in 1 .. MaxSends, d \in Workload}
  <2>1. sent + 1 \in 1 .. MaxSends
    BY <1>2, Zenon
  <2> DEFINE E(n, d) == [Pending EXCEPT ![i] = {[req |-> <<i, n>>, cmd |-> d]}]
  <2>2. Pending' = E(sent + 1, cmd)
    BY <1>10
  <2> HIDE DEF E
  <2>3. Pending' \in {E(n, d) : n \in 1 .. MaxSends, d \in Workload}
    BY <2>1, <2>2
  <2> QED
    BY <2>3 DEF E
<1> HIDE DEF Dict, Received
<1>12. KV!Invoke(i)
  <2>1. UNCHANGED <<Dict, Replies, Received>>
    BY <1>8, <1>9
  <2>2. /\ Pending[i] = {} /\ Replies[i] = {}
        /\ Pending' \in {[Pending EXCEPT ![i] = {[req |-> <<i, n>>, cmd |-> d]}]
                         : n \in 1 .. MaxSends, d \in Workload}
        /\ UNCHANGED <<Dict, Replies, Received>>
    BY <1>6, <1>11, <2>1
  <2> QED
    BY <2>2 DEF KV!Invoke
<1> QED
  BY <1>12, Zenon DEF KV!Next

\* A command is executed where it was read: Apply.
LEMMA LocalApplies ==
    ASSUME FlightInv, TypeOK', NEW i \in Conn, read_local(i)
    PROVE  KV!Next
<1> DEFINE r == Head(sock[i])
           a == Answer(store[home[i]], r.cmd)
<1>1. /\ Reads(i) /\ submit_write(i, r.req, a) /\ execute(home[i], r.cmd, r.req)
      /\ Local(home[i], r.cmd) /\ UNCHANGED <<channel, batch, got>>
  BY Zenon DEF read_local, itc
<1>2. /\ home[i] \in Core /\ r \in [req : Request, cmd : Cmd]
      /\ sock[i] # <<>> /\ r = sock[i][1] /\ Len(sock[i]) <= 1
      /\ sock'[i] = <<>> /\ \A j \in Conn : j # i => sock'[j] = sock[j]
      /\ write_queue[i] = <<>> /\ Flying(channel, batch, i) = {}
  BY <1>1, ReadsOne, Zenon
<1>3. TypeOK /\ r.req \in Request /\ r.cmd \in Cmd /\ a \in Reply
  <2>1. TypeOK /\ store[home[i]] \in [Key -> Request \cup {Absent}] /\ r.cmd \in Cmd
    BY <1>2, ZenonT(30) DEF FlightInv, IInv, TypeOK
  <2>2. r.req \in Request
    BY <1>2, Zenon
  <2>3. a \in Reply
    BY <2>1, AnswerType, Zenon
  <2> QED
    BY <2>1, <2>2, <2>3, Zenon
<1>4. Dict' = Effect(Dict, r.cmd, r.req) /\ a = Answer(Dict, r.cmd)
  BY <1>1, <1>2, <1>3, ExecuteDict, Zenon DEF Local
<1> HIDE DEF r, a
<1>5. /\ \A j \in Conn : j # i => write_queue'[j] = write_queue[j]
      /\ Len(write_queue'[i]) <= 1 /\ write_queue'[i] # <<>>
      /\ write_queue'[i][1] = [req |-> r.req, reply |-> a]
  BY <1>1, <1>2, <1>3, SubmitOne, Zenon
<1>6. /\ Pending' = [Pending EXCEPT ![i] = PendOf({}, <<>>)]
      /\ Replies' = [Replies EXCEPT ![i] = ResOf({}, write_queue'[i])]
  <2>1. Flying(channel', batch', i) = {}
    BY <1>1, <1>2, Zenon
  <2>2. /\ Pending' = [Pending EXCEPT ![i] = PendOf(Flying(channel', batch', i), sock'[i])]
        /\ Replies' = [Replies EXCEPT ![i] = ResOf(Flying(channel', batch', i), write_queue'[i])]
    BY <1>1, <1>2, <1>3, <1>5, OneChanges, Zenon
  <2> QED
    BY <1>2, <2>1, <2>2, Zenon
<1>7. ResOf({}, write_queue'[i]) = {[req |-> r.req, reply |-> a]} /\ PendOf({}, <<>>) = {}
  <2>1. write_queue'[i] \in Seq([req : Request, reply : Reply])
    BY Zenon DEF TypeOK
  <2> QED
    BY <1>5, <2>1, PendCases, Zenon
<1>8. r \in Pending[i]
  <2>1. /\ sock[i] \in Seq([req : Request, cmd : Cmd]) /\ Len(sock[i]) <= 1
        /\ sock[i] # <<>> /\ r = sock[i][1]
    BY <1>2, <1>3, QueueTypes, Zenon
  <2>2. PendOf({}, sock[i]) = {r}
    BY <2>1, PendCases, Zenon
  <2>3. Pending[i] = PendOf(Flying(channel, batch, i), sock[i])
    BY <1>3, Mapping, Zenon
  <2> QED
    BY <1>2, <2>2, <2>3, Zenon
<1>9. Received' = Received
  BY <1>1, Zenon DEF Received
<1> HIDE DEF Pending, Replies, Dict, Received
<1>10. KV!Apply(i)
  BY <1>4, <1>6, <1>7, <1>8, <1>9, SameCommands, Zenon DEF KV!Apply
<1> QED
  BY <1>10, Zenon DEF KV!Next

\* Two states with the same map, commands, replies and clients.
LEMMA KVStutter ==
    ASSUME UNCHANGED <<store, got>>,
           \A j \in Conn : Pending'[j] = Pending[j] /\ Replies'[j] = Replies[j]
    PROVE  KV!Next
BY LoseStep, Zenon

\* A command is forwarded: it has not taken effect.
LEMMA ForwardStutters ==
    ASSUME FlightInv, TypeOK', NEW i \in Conn, read_forward(i)
    PROVE  KV!Next
<1> DEFINE r == Head(sock[i])
<1>1. PICK m \in ITC!Message :
        /\ Flying(channel', batch', i) = {m} /\ m.type = "REQUEST"
        /\ m.body.req = r.req /\ m.body.cmd = r.cmd
  BY ForwardMoves, Zenon
<1>2. Reads(i) /\ \A j : j # i => Flying(channel', batch', j) = Flying(channel, batch, j)
  BY ForwardMoves, Zenon
<1>3. /\ r \in [req : Request, cmd : Cmd]
      /\ sock[i] # <<>> /\ r = sock[i][1] /\ Len(sock[i]) <= 1
      /\ sock'[i] = <<>> /\ \A j \in Conn : j # i => sock'[j] = sock[j]
      /\ write_queue[i] = <<>> /\ Flying(channel, batch, i) = {}
  BY <1>2, ReadsOne, Zenon
<1>4. UNCHANGED <<write_queue, store, got>>
  BY Zenon DEF read_forward, shards
<1>5. TypeOK /\ sock[i] \in Seq([req : Request, cmd : Cmd])
  BY QueueTypes, ZenonT(30) DEF FlightInv, IInv
<1>6. r = [req |-> m.body.req, cmd |-> m.body.cmd]
  BY <1>1, <1>3, Zenon
<1> HIDE DEF r
<1>7. Pending[i] = {r} /\ Replies[i] = {}
  <2>1. sock[i] # <<>> /\ r = sock[i][1] /\ Len(sock[i]) <= 1
    BY <1>3, Zenon
  <2>2. PendOf({}, sock[i]) = {r} /\ ResOf({}, <<>>) = {}
    BY <1>5, <2>1, PendCases, Zenon
  <2>3. /\ Pending[i] = PendOf(Flying(channel, batch, i), sock[i])
        /\ Replies[i] = ResOf(Flying(channel, batch, i), write_queue[i])
    BY <1>5, Mapping, Zenon
  <2> QED
    BY <1>3, <2>2, <2>3, Zenon
<1>8. Pending'[i] = {r} /\ Replies'[i] = {}
  <2>1. PendOf({m}, <<>>) = {r} /\ ResOf({m}, <<>>) = {}
    BY <1>1, <1>6, PendCases, ZenonT(30)
  <2>2. /\ Pending'[i] = PendOf(Flying(channel', batch', i), sock'[i])
        /\ Replies'[i] = ResOf(Flying(channel', batch', i), write_queue'[i])
    BY MappingNext, Zenon
  <2> QED
    BY <1>1, <1>3, <1>4, <2>1, <2>2, Zenon
<1>9. ASSUME NEW j \in Conn, j # i PROVE Pending'[j] = Pending[j] /\ Replies'[j] = Replies[j]
  BY <1>2, <1>3, <1>4, <1>5, <1>9, Mapping, MappingNext, Zenon
<1> QED
  BY <1>4, <1>7, <1>8, <1>9, KVStutter, Zenon

\* A core fails: what it held is lost.
LEMMA DieLoses ==
    ASSUME FlightInv, TypeOK', NEW c \in Core, ITC!die(c), UNCHANGED <<write_queue, store, got>>,
           \A j \in Conn : sock'[j] = sock[j] \/ (sock'[j] = <<>> /\ sock[j] # <<>>)
    PROVE  KV!Next
<1>1. TypeOK
  BY Zenon DEF FlightInv, IInv
<1>2. ASSUME NEW j \in Conn
      PROVE  \/ Pending'[j] = Pending[j] /\ Replies'[j] = Replies[j]
             \/ Pending'[j] = {} /\ Replies'[j] = {}
  <2>1. Orderly(Flying(channel, batch, j), sock[j], write_queue[j], waiting[j], open[j], Alive)
    BY Zenon DEF FlightInv, AllOrderly
  <2>2. \/ Flying(channel', batch', j) = Flying(channel, batch, j)
        \/ Flying(channel', batch', j) = {}
    BY DieMoves, Zenon
  <2>3. /\ Pending[j] = PendOf(Flying(channel, batch, j), sock[j])
        /\ Replies[j] = ResOf(Flying(channel, batch, j), write_queue[j])
        /\ Pending'[j] = PendOf(Flying(channel', batch', j), sock'[j])
        /\ Replies'[j] = ResOf(Flying(channel', batch', j), write_queue[j])
    BY <1>1, Mapping, MappingNext, Zenon
  <2>4. \/ Flying(channel', batch', j) = Flying(channel, batch, j) /\ sock'[j] = sock[j]
        \/ Flying(channel', batch', j) = {} /\ sock'[j] = <<>> /\ write_queue[j] = <<>>
    BY <2>1, <2>2, Zenon DEF Orderly
  <2> QED
    BY <2>3, <2>4, PendCases, ZenonT(30)
<1> QED
  BY <1>2, LoseStep, Zenon

\* A REQUEST is executed: Apply, or Reject for a name that the registry lacks.
LEMMA RequestApplies ==
    ASSUME FlightInv, TypeOK', NEW c \in Core, handle_request(c)
    PROVE  KV!Next
<1> DEFINE h == Head(batch[c])
           i == About(h)
           b == h.body
           known == b.cmd.name = "upper"
           a == IF known THEN Answer(store[c], b.cmd) ELSE Unknown
<1>1. /\ h \in ITC!Message /\ h.type = "REQUEST" /\ Proper(home, c, h)
      /\ b \in RequestBody /\ i \in Conn /\ Flying(channel, batch, i) = {h}
      /\ \A j : j # i => Flying(channel', batch', j) = Flying(channel, batch, j)
  BY RequestMoves, Zenon
<1>2. PICK m \in ITC!Message :
        /\ Flying(channel', batch', i) = {m} /\ m.type = "RESPONSE"
        /\ m.body.req = b.req /\ m.body.payload = a
  BY RequestMoves, Zenon
<1>3. UNCHANGED <<sock, write_queue, got>>
  BY Zenon DEF handle_request, clients
<1>4. /\ known => execute(c, b.cmd, b.req)
      /\ ~ known => UNCHANGED store
  BY Zenon DEF handle_request, shards
<1>5. TypeOK /\ b.cmd \in Cmd /\ Owner[b.cmd.key] = c
  BY <1>1, ZenonT(30) DEF FlightInv, IInv, Proper, RequestBody
<1>6. sock[i] = <<>> /\ write_queue[i] = <<>>
  <2>1. Orderly(Flying(channel, batch, i), sock[i], write_queue[i], waiting[i], open[i], Alive)
    BY <1>1, Zenon DEF FlightInv, AllOrderly
  <2> QED
    BY <1>1, <2>1, Zenon DEF Orderly
<1>7. known => Dict' = Effect(Dict, b.cmd, b.req) /\ Answer(store[c], b.cmd) = Answer(Dict, b.cmd)
  BY <1>4, <1>5, ExecuteDict, Zenon
<1>8. ~ known => Dict' = Dict
  BY <1>4, Zenon DEF Dict
<1>9. Received' = Received
  BY <1>3, Zenon DEF Received
<1> DEFINE p == [req |-> b.req, cmd |-> b.cmd]
<1> HIDE DEF h, i, known, a
<1>10. Pending[i] = {p}
  <2>1. PendOf({h}, <<>>) = {p}
    BY <1>1, PendCases, ZenonT(30)
  <2>2. Pending[i] = PendOf(Flying(channel, batch, i), sock[i])
    BY <1>1, <1>5, Mapping, Zenon
  <2> QED
    BY <1>1, <1>6, <2>1, <2>2, Zenon
<1>11. /\ Pending' = [Pending EXCEPT ![i] = {}]
       /\ Replies' = [Replies EXCEPT ![i] = {[req |-> p.req, reply |-> a]}]
  <2>1. /\ Pending' = [Pending EXCEPT ![i] = PendOf(Flying(channel', batch', i), sock'[i])]
        /\ Replies' = [Replies EXCEPT ![i] = ResOf(Flying(channel', batch', i), write_queue'[i])]
    BY <1>1, <1>3, <1>5, OneChanges, Zenon
  <2>2. PendOf({m}, <<>>) = {} /\ ResOf({m}, <<>>) = {[req |-> b.req, reply |-> a]}
    BY <1>2, PendCases, Zenon
  <2> QED
    BY <1>2, <1>3, <1>6, <2>1, <2>2, ZenonT(30)
<1>12. p.cmd = b.cmd /\ p.req = b.req /\ p \in Pending[i]
  BY <1>10, Zenon
<1> HIDE DEF Pending, Replies, Dict, Received, p
<1>13. CASE known
  <2>1. a = Answer(Dict, p.cmd) /\ Dict' = Effect(Dict, p.cmd, p.req)
    BY <1>7, <1>12, <1>13, Zenon DEF a
  <2>2. KV!Apply(i)
    BY <1>9, <1>11, <1>12, <2>1, SameCommands, Zenon DEF KV!Apply
  <2> QED
    BY <1>1, <2>2, Zenon DEF KV!Next
<1>14. CASE ~ known
  <2>1. a = Unknown
    BY <1>14 DEF a
  <2>2. KV!Reject(i)
    BY <1>8, <1>9, <1>11, <1>12, <1>14, <2>1, SameCommands, Zenon DEF KV!Reject
  <2> QED
    BY <1>1, <2>2, Zenon DEF KV!Next
<1> QED
  BY <1>13, <1>14, Zenon

\* A RESPONSE is handed to its connection, or lost with it.
LEMMA ResponseKeeps ==
    ASSUME ClientsWait, FlightInv, TypeOK', NEW c \in Core, handle_response(c)
    PROVE  KV!Next
<1> DEFINE h == Head(batch[c])
           i == About(h)
           x == [req |-> h.body.req, reply |-> h.body.payload]
<1>1. /\ h \in ITC!Message /\ h.type = "RESPONSE" /\ h.body \in ResponseBody /\ i \in Conn
      /\ Flying(channel, batch, i) = {h} /\ Flying(channel', batch', i) = {}
      /\ \A j : j # i => Flying(channel', batch', j) = Flying(channel, batch, j)
      /\ open[i] => submit_write(i, h.body.req, h.body.payload)
      /\ ~ open[i] => UNCHANGED write_queue
  BY ResponseMoves, Zenon
<1>2. UNCHANGED <<sock, store, got>>
  BY Zenon DEF handle_response, shards
<1>3. TypeOK /\ h.body.req \in Request /\ h.body.payload \in Reply
  BY <1>1, Zenon DEF FlightInv, IInv, ResponseBody
<1>4. sock[i] = <<>> /\ write_queue[i] = <<>>
  <2>1. Orderly(Flying(channel, batch, i), sock[i], write_queue[i], waiting[i], open[i], Alive)
    BY <1>1, Zenon DEF FlightInv, AllOrderly
  <2> QED
    BY <1>1, <2>1, ZenonT(30) DEF Orderly
<1> HIDE DEF h, i
<1>5. \A j \in Conn : j # i => write_queue'[j] = write_queue[j]
  BY <1>1, <1>3, SubmitOne, ZenonT(30)
<1>6. ASSUME NEW j \in Conn, j # i PROVE Pending'[j] = Pending[j] /\ Replies'[j] = Replies[j]
  BY <1>1, <1>2, <1>3, <1>5, <1>6, Mapping, MappingNext, Zenon
<1>7. /\ Pending'[i] = PendOf({}, <<>>) /\ Replies'[i] = ResOf({}, write_queue'[i])
      /\ Pending[i] = PendOf({h}, <<>>) /\ Replies[i] = ResOf({h}, <<>>)
  <2>1. /\ Pending'[i] = PendOf(Flying(channel', batch', i), sock'[i])
        /\ Replies'[i] = ResOf(Flying(channel', batch', i), write_queue'[i])
        /\ Pending[i] = PendOf(Flying(channel, batch, i), sock[i])
        /\ Replies[i] = ResOf(Flying(channel, batch, i), write_queue[i])
    BY <1>1, <1>3, Mapping, MappingNext, Zenon
  <2> QED
    BY <1>1, <1>2, <1>4, <2>1, Zenon
<1>8. /\ PendOf({}, <<>>) = {} /\ ResOf({}, <<>>) = {}
      /\ PendOf({h}, <<>>) = {} /\ ResOf({h}, <<>>) = {x}
  BY <1>1, PendCases, Zenon
<1>9. CASE open[i]
  <2>1. /\ Len(write_queue'[i]) <= 1 /\ write_queue'[i] # <<>> /\ write_queue'[i][1] = x
    BY <1>1, <1>3, <1>4, <1>9, SubmitOne, Zenon
  <2>2. write_queue'[i] \in Seq([req : Request, reply : Reply])
    BY <1>1, ZenonT(30) DEF TypeOK
  <2> HIDE DEF x
  <2>3. ResOf({}, write_queue'[i]) = {x}
    BY <2>1, <2>2, PendCases, Zenon
  <2> QED
    BY <1>2, <1>6, <1>7, <1>8, <2>3, KVStutter, Zenon
<1>10. CASE ~ open[i]
  <2>1. write_queue'[i] = <<>>
    BY <1>1, <1>4, <1>10, Zenon
  <2> QED
    BY <1>2, <1>6, <1>7, <1>8, <2>1, LoseStep, Zenon
<1> QED
  BY <1>9, <1>10, Zenon

\* A reply reaches its client: Return.
LEMMA WriteReturns ==
    ASSUME FlightInv, TypeOK', NEW i \in Conn, handle_write(i)
    PROVE  KV!Next
<1> DEFINE r == Head(write_queue[i])
           S == [req : Request, reply : Reply]
<1>1. /\ write_queue[i] # <<>> /\ r = write_queue[i][1] /\ Len(write_queue[i]) <= 1
      /\ sock[i] = <<>> /\ Flying(channel, batch, i) = {} /\ write_queue'[i] = <<>>
      /\ \A j \in Conn : j # i => write_queue'[j] = write_queue[j]
  BY WritesOne, Zenon
<1>2. UNCHANGED <<channel, batch, sock, store>>
  BY Zenon DEF handle_write, itc, shards
<1>3. TypeOK /\ write_queue[i] \in Seq(S) /\ r \in S
  <2>1. TypeOK
    BY Zenon DEF FlightInv, IInv
  <2>2. write_queue[i] \in Seq(S)
    BY <2>1, QueueTypes, Zenon
  <2> HIDE DEF S
  <2> QED
    BY <1>1, <2>1, <2>2, HeadOfQueue, Zenon
<1>4. Received' = [Received EXCEPT ![i] = r]
  <2>1. /\ DOMAIN got = Conn
        /\ got' = [got EXCEPT ![i] = [req |-> r.req, reply |-> r.reply, asked |-> got'[i].asked]]
    BY <1>3, Zenon DEF handle_write, TypeOK
  <2>2. r = [req |-> r.req, reply |-> r.reply]
    BY <1>3, Zenon
  <2> HIDE DEF r
  <2>3. \A j \in Conn : [req |-> got'[j].req, reply |-> got'[j].reply]
                        = IF j = i THEN r ELSE [req |-> got[j].req, reply |-> got[j].reply]
    BY <2>1, <2>2, SMTT(30)
  <2> QED
    BY <2>3, Zenon DEF Received
<1> HIDE DEF r, S
<1>5. /\ Pending' = [Pending EXCEPT ![i] = PendOf({}, <<>>)]
      /\ Replies' = [Replies EXCEPT ![i] = ResOf({}, <<>>)]
  <2>1. /\ Pending' = [Pending EXCEPT ![i] = PendOf(Flying(channel', batch', i), sock'[i])]
        /\ Replies' = [Replies EXCEPT ![i] = ResOf(Flying(channel', batch', i), write_queue'[i])]
    BY <1>1, <1>2, <1>3, OneChanges, Zenon
  <2> QED
    BY <1>1, <1>2, <2>1, Zenon
<1>6. Pending[i] = {} /\ Replies[i] = {r} /\ PendOf({}, <<>>) = {} /\ ResOf({}, <<>>) = {}
  <2>1. /\ Pending[i] = PendOf(Flying(channel, batch, i), sock[i])
        /\ Replies[i] = ResOf(Flying(channel, batch, i), write_queue[i])
    BY <1>3, Mapping, Zenon
  <2>2. ResOf({}, write_queue[i]) = {r} /\ PendOf({}, <<>>) = {} /\ ResOf({}, <<>>) = {}
    BY <1>1, <1>3, PendCases, Zenon
  <2> QED
    BY <1>1, <2>1, <2>2, Zenon
<1>7. Pending' = Pending
  <2>1. Pending = [j \in Conn |-> Pending[j]]
    BY Zenon DEF Pending
  <2> HIDE DEF Pending
  <2> QED
    BY <1>5, <1>6, <2>1, Zenon
<1>8. Dict' = Dict
  BY <1>2 DEF Dict
<1> HIDE DEF Pending, Replies, Dict, Received
<1>9. KV!Return(i)
  BY <1>4, <1>5, <1>6, <1>7, <1>8, Zenon DEF KV!Return
<1> QED
  BY <1>9, Zenon DEF KV!Next

\* A connection closes: a command not yet read or a reply not yet written is lost.
LEMMA DisconnectLoses ==
    ASSUME FlightInv, TypeOK', NEW i \in Conn, disconnect(i)
    PROVE  KV!Next
<1>1. /\ sock' = [sock EXCEPT ![i] = <<>>] /\ write_queue' = [write_queue EXCEPT ![i] = <<>>]
      /\ UNCHANGED <<channel, batch, store, got>>
  BY Zenon DEF disconnect, itc, shards
<1>2. TypeOK /\ DOMAIN sock = Conn /\ DOMAIN write_queue = Conn
  BY ZenonT(30) DEF FlightInv, IInv, TypeOK
<1>3. /\ sock'[i] = <<>> /\ write_queue'[i] = <<>>
      /\ \A j \in Conn : j # i => sock'[j] = sock[j] /\ write_queue'[j] = write_queue[j]
  BY <1>1, <1>2
<1>4. \A j \in Conn : /\ Pending[j] = PendOf(Flying(channel, batch, j), sock[j])
                      /\ Replies[j] = ResOf(Flying(channel, batch, j), write_queue[j])
                      /\ Pending'[j] = PendOf(Flying(channel, batch, j), sock'[j])
                      /\ Replies'[j] = ResOf(Flying(channel, batch, j), write_queue'[j])
  BY <1>1, <1>2, Mapping, MappingNext, Zenon
<1>5. \/ Flying(channel, batch, i) = {}
      \/ sock[i] = <<>> /\ write_queue[i] = <<>>
  <2>1. Orderly(Flying(channel, batch, i), sock[i], write_queue[i], waiting[i], open[i], Alive)
    BY Zenon DEF FlightInv, AllOrderly
  <2> QED
    BY <2>1, Zenon DEF Orderly
<1>6. \/ Pending'[i] = Pending[i] /\ Replies'[i] = Replies[i]
      \/ Pending'[i] = {} /\ Replies'[i] = {}
  <2>1. PendOf({}, <<>>) = {} /\ ResOf({}, <<>>) = {}
    BY PendCases, Zenon
  <2> QED
    BY <1>3, <1>4, <1>5, <2>1, Zenon
<1>7. \A j \in Conn : j # i => Pending'[j] = Pending[j] /\ Replies'[j] = Replies[j]
  BY <1>3, <1>4, Zenon
<1> QED
  BY <1>1, <1>6, <1>7, LoseStep, Zenon

\* Steps that leave the messages about each connection, sockets, write queues,
\* shards and clients alone.
LEMMA QuietStutters ==
    ASSUME TypeOK, TypeOK', UNCHANGED <<sock, write_queue, store, got>>,
           \A j : Flying(channel', batch', j) = Flying(channel, batch, j)
    PROVE  KV!Next
<1>1. ASSUME NEW j \in Conn PROVE Pending'[j] = Pending[j] /\ Replies'[j] = Replies[j]
  <2>1. /\ Pending[j] = PendOf(Flying(channel, batch, j), sock[j])
        /\ Replies[j] = ResOf(Flying(channel, batch, j), write_queue[j])
        /\ Pending'[j] = PendOf(Flying(channel', batch', j), sock'[j])
        /\ Replies'[j] = ResOf(Flying(channel', batch', j), write_queue'[j])
    BY Mapping, MappingNext, Zenon
  <2>2. /\ sock'[j] = sock[j] /\ write_queue'[j] = write_queue[j]
        /\ Flying(channel', batch', j) = Flying(channel, batch, j)
    BY Zenon
  <2> QED
    BY <2>1, <2>2, Zenon
<1> QED
  BY <1>1, KVStutter, Zenon

\* Every step of the server is one of the abstract map, or changes nothing of it.
LEMMA KVStep ==
    ASSUME ClientsWait, FlightInv, TypeOK', Next
    PROVE  KV!Next
<1>1. TypeOK
  BY Zenon DEF FlightInv, IInv
<1>2. ASSUME NEW i \in Conn, NEW cmd \in Workload, send(i, cmd) PROVE KV!Next
  BY <1>2, SendInvokes
<1>3. ASSUME NEW i \in Conn, handle_read(i) PROVE KV!Next
  <2>1. CASE read_local(i)
    BY <2>1, LocalApplies, Zenon
  <2>2. CASE read_forward(i)
    BY <2>2, ForwardStutters, Zenon
  <2>3. CASE read_throw(i)
    <3>1. Reads(i) /\ ITC!die(home[i]) /\ UNCHANGED <<write_queue, store, got>>
      BY <2>3, Zenon DEF read_throw, shards
    <3>2. /\ home[i] \in Core
          /\ \A j \in Conn : sock'[j] = sock[j] \/ (sock'[j] = <<>> /\ sock[j] # <<>>)
      BY <3>1, ReadsOne, Zenon
    <3> QED
      BY <3>1, <3>2, DieLoses, Zenon
  <2> QED
    BY <1>3, <2>1, <2>2, <2>3 DEF handle_read
<1>4. ASSUME NEW i \in Conn, handle_write(i) PROVE KV!Next
  BY <1>4, WriteReturns
<1>5. ASSUME NEW i \in Conn, disconnect(i) PROVE KV!Next
  BY <1>5, DisconnectLoses
<1>6. ASSUME UNCHANGED <<channel, batch, sock, write_queue, store, got>> PROVE KV!Next
  BY <1>1, <1>6, QuietStutters, Zenon
<1>7. ASSUME NEW c \in Core, handle_accept(c) PROVE KV!Next
  BY <1>6, <1>7, Zenon DEF handle_accept, itc, shards, clients
<1>8. ASSUME NEW c \in Core, runs_on(c) PROVE KV!Next
  <2>1. CASE handle_request(c)
    BY <2>1, RequestApplies, Zenon
  <2>2. CASE handle_response(c)
    BY <2>2, ResponseKeeps, Zenon
  <2>3. CASE request_throw(c)
    BY <2>3, DieLoses, Zenon DEF request_throw, shards, clients
  <2>4. CASE /\ \/ ITC!register_notify_fd(c) \/ ITC!wait_for_all_cores(c) \/ ITC!enter_run(c)
                \/ ITC!notify_core(c) \/ ITC!submit_notification_read(c)
             /\ UNCHANGED <<shards, conns, clients>>
    BY <1>6, <2>4, OtherMoves, Zenon DEF shards, clients
  <2> QED
    BY <1>8, <2>1, <2>2, <2>3, <2>4, Zenon DEF runs_on
<1>9. ASSUME NEW c \in Core, read_event(c) \/ read_error(c) PROVE KV!Next
  <2>1. UNCHANGED <<channel, batch>>
    BY <1>9, OtherMoves, Zenon DEF read_event, read_error
  <2>2. UNCHANGED <<sock, write_queue, store, got>>
    BY <1>9, Zenon DEF read_event, read_error, shards, clients
  <2> QED
    BY <1>6, <2>1, <2>2, Zenon
<1>10. ASSUME NEW c \in Core, consume_all(c) PROVE KV!Next
  <2>1. UNCHANGED <<sock, write_queue, store, got>> /\ ITC!consume_all(c)
    BY <1>10, Zenon DEF consume_all, shards, clients
  <2> QED
    BY <1>1, <2>1, ConsumeMoves, QuietStutters, Zenon
<1> QED
  BY <1>2, <1>3, <1>4, <1>5, <1>7, <1>8, <1>9, <1>10, SMTT(30) DEF Next

\* Clients that wait for each reply see one linearizable map: every command takes
\* effect at most once, at an instant between its sending and its reply, however
\* commands race on the cores, connections close and cores fail.
THEOREM ServerLinearizable ==
    ASSUME ClientsWait
    PROVE  Spec => Linearizable
<1>1. Init => KV!Init
  <2> SUFFICES ASSUME Init PROVE KV!Init
    BY Zenon
  <2>1. TypeOK
    BY InitIInv DEF IInv
  <2>2. ASSUME NEW i \in Conn PROVE Pending[i] = {} /\ Replies[i] = {}
    <3>1. sock[i] = <<>> /\ write_queue[i] = <<>>
      BY Zenon DEF Init
    <3>2. Flying(channel, batch, i) = {}
      <4>1. \A c \in Core : DOMAIN channel[c] = {} /\ DOMAIN batch[c] = {}
        BY DEF Init, ITC!Init
      <4> QED
        BY <4>1, FlyingNone, Zenon DEF In
    <3>3. PendOf({}, <<>>) = {} /\ ResOf({}, <<>>) = {}
      BY PendCases
    <3> QED
      BY <2>1, <3>1, <3>2, <3>3, Mapping, Zenon
  <2>3. Pending = [i \in Conn |-> {}] /\ Replies = [i \in Conn |-> {}]
    <3>1. Pending = [i \in Conn |-> Pending[i]] /\ Replies = [i \in Conn |-> Replies[i]]
      BY Zenon DEF Pending, Replies
    <3> HIDE DEF Pending, Replies
    <3> QED
      BY <2>2, <3>1, Zenon
  <2>4. Dict = [k \in Key |-> Absent]
    BY OwnerAssumption, Zenon DEF Init, Dict
  <2>5. Received = [i \in Conn |-> [req |-> Absent, reply |-> Unknown]]
    BY Zenon DEF Init, Received
  <2> QED
    BY <2>3, <2>4, <2>5, SameCommands, Zenon DEF KV!Init
<1>2. FlightInv /\ FlightInv' /\ [Next]_vars => [KV!Next]_(KV!vars)
  <2>1. ASSUME FlightInv, FlightInv', Next PROVE KV!Next
    <3>1. TypeOK'
      BY <2>1, Zenon DEF FlightInv, IInv
    <3> QED
      BY <2>1, <3>1, KVStep
  <2>2. ASSUME UNCHANGED vars PROVE UNCHANGED KV!vars
    BY <2>2, Zenon DEF vars, itc, shards, clients, KV!vars, Dict, Pending, Replies, Received, Inbox
  <2> QED
    BY <2>1, <2>2
<1> QED
  BY <1>1, <1>2, FlightInvariant, PTL DEF Spec, Linearizable, KV!Spec
=============================================================================
