------------------------------ MODULE EventLoop ------------------------------
(***************************************************************************)
(* The event loop of one core with its operations and descriptors:         *)
(* IoContext (submission queue, batches of completions), TcpServer (the    *)
(* accept operation) and the Connections, on the two rings the code is     *)
(* built with: io_uring on Linux, and the stub over select() elsewhere.    *)
(* What bytes a reply has, and how many of them are written, is in module  *)
(* Connection; what a notification carries, in Itc and Server.             *)
(*                                                                         *)
(* A submission names a descriptor by its number.  io_uring looks the      *)
(* number up when the entry is submitted and keeps the file; the stub      *)
(* looks it up at every select().  Numbers are given out lowest first, to  *)
(* every thread of the process: the other cores, and the stream of SAVE,   *)
(* open and close files ("other") in the same table.                       *)
(***************************************************************************)
EXTENDS Integers, Sequences, FiniteSets, FiniteSetsExt, Functions

CONSTANTS
    Client,      \* clients that connect to this core, each once
    MaxFds,      \* the size of the descriptor table
    SqSize,      \* entries of the submission queue (4096 in the code)
    MaxQueue,    \* bound: replies in one write_queue_
    MaxOther     \* bound: files of other threads that are open at a time

ASSUME SizeAssumption ==
    /\ MaxFds \in Nat \ 0 .. 2 /\ SqSize \in Nat \ 0 .. 1
    /\ MaxQueue \in Nat \ {0} /\ MaxOther \in Nat
ASSUME ClientAssumption ==
    IsFiniteSet(Client) /\ Client \cap {"event", "listen", "ring", "other", "closed"} = {}

VARIABLES
    build,       \* which ring: "linux" or "stub"
    files,       \* descriptor number -> open file
    loop,        \* where the thread is
    sq,          \* submission queue entries that are prepared
    pending,     \* operations that the ring is working on
    cq,          \* completions not yet dispatched
    conn,        \* the Connection of each client
    cause,       \* the exception that left run(), "none" while it runs
    harm         \* history: what was done to a file of somebody else

ring == <<sq, pending, cq>>
vars == <<build, files, loop, ring, conn, cause, harm>>

Fds == 0 .. MaxFds - 1
Free == {n \in Fds : files[n] = "closed"}

\* The ring and the eventfd, or the two ends of the pipe; then the listener.
EventFd == IF build = "linux" THEN 1 ELSE 0
NotifyFd == 1
ListenFd == 2

\* AcceptOp, NotificationOp, and the ReadOp and WriteOp of each Connection.
AcceptOp == [op |-> "accept", who |-> "listen", fd |-> ListenFd]
NotificationOp == [op |-> "notif", who |-> "event", fd |-> EventFd]
ReadOp(c, fd) == [op |-> "read", who |-> c, fd |-> fd]
WriteOp(c, fd) == [op |-> "write", who |-> c, fd |-> fd]

\* worker_main up to run(): server.start() and the first notification read
\* have prepared their entries.
Init ==
    /\ build \in {"linux", "stub"}
    /\ files = [n \in Fds |-> CASE n = 0 -> IF build = "linux" THEN "ring" ELSE "event"
                                [] n = 1 -> "event"
                                [] n = 2 -> "listen"
                                [] OTHER -> "closed"]
    /\ loop = "handlers"
    /\ sq = <<AcceptOp, NotificationOp>> /\ pending = {} /\ cq = <<>>
    /\ conn = [c \in Client |-> [state |-> "none", fd |-> 0, is_writing |-> FALSE, queue |-> 0]]
    /\ cause = "none"
    /\ harm = {}

-----------------------------------------------------------------------------
(* The submission queue.  Handlers pass along the ring as r; r.ok turns    *)
(* FALSE when get_sqe throws, and nothing later in the handler happens.    *)

\* The ring takes one entry, and looks up its file.  io_uring completes an entry
\* with a closed descriptor at once, with -EBADF.
submit(r, e) ==
    IF build = "linux" /\ files[e.fd] = "closed"
    THEN [r EXCEPT !.cq = Append(@, [op |-> e.op, who |-> e.who, res |-> "error"])]
    ELSE [r EXCEPT !.pending = @ \cup {[op |-> e.op, who |-> e.who, fd |-> e.fd, file |-> files[e.fd]]}]

\* All that are prepared, in their order.
Submitted(r) ==
    LET taken[i \in 0 .. Len(r.sq)] ==
            IF i = 0 THEN [r EXCEPT !.sq = <<>>] ELSE submit(taken[i - 1], r.sq[i])
    IN  taken[Len(r.sq)]

\* Mutant: the queue has no end.
get_sqe_over(r, e) == IF r.ok THEN {[r EXCEPT !.sq = Append(@, e)]} ELSE {r}

\* A full queue is submitted first.  io_uring may refuse that, the stub does not.
get_sqe(r, e) ==
    IF ~r.ok THEN {r}
    ELSE IF Len(r.sq) < SqSize THEN {[r EXCEPT !.sq = Append(@, e)]}
    ELSE {[Submitted(r) EXCEPT !.sq = <<e>>]}
         \cup (IF build = "linux" THEN {[r EXCEPT !.ok = FALSE]} ELSE {})

\* Nobody dispatches what is in the ring any more.
Abandoned == sq' = <<>> /\ pending' = {} /\ cq' = <<>>

\* The handler is done, or has thrown.
Leave(r) ==
    \/ r.ok /\ sq' = r.sq /\ pending' = r.pending /\ cq' = r.cq /\ UNCHANGED <<loop, cause>>
    \/ ~r.ok /\ Abandoned /\ loop' = "unwind" /\ cause' = "refused"

\* The next round of run(): everything prepared is submitted.
submit_and_wait ==
    /\ loop = "handlers" /\ cq = <<>>
    /\ LET r == Submitted([sq |-> sq, pending |-> pending, cq |-> cq, ok |-> TRUE])
       IN  sq' = r.sq /\ pending' = r.pending /\ cq' = r.cq
    /\ loop' = "ring"
    /\ UNCHANGED <<build, files, conn, cause, harm>>

\* It returns with the first completion; for_each_cqe takes those that arrive
\* meanwhile, too.
for_each_cqe ==
    /\ loop = "ring" /\ cq # <<>>
    /\ loop' = "handlers"
    /\ UNCHANGED <<build, files, ring, conn, cause, harm>>

-----------------------------------------------------------------------------
(* Completions.  The stub completes operations only inside                 *)
(* submit_and_wait, and none while select() fails because one of the       *)
(* descriptors is closed: the loop then spins.                             *)

Completes(p) ==
    /\ p \in pending
    /\ \/ build = "linux" /\ loop \in {"handlers", "ring"}
       \/ build = "stub" /\ loop = "ring" /\ \A q \in pending : files[q.fd] # "closed"
    /\ pending' = pending \ {p}

Target(p) == IF build = "linux" THEN p.file ELSE files[p.fd]

Post(p, res) == cq' = Append(cq, [op |-> p.op, who |-> p.who, res |-> res])

\* A client is accepted, if there is a number for its socket.
complete_accept(p, c) ==
    /\ Completes(p) /\ p.op = "accept" /\ conn[c].state = "none" /\ Free # {}
    /\ files' = [files EXCEPT ![Min(Free)] = c]
    /\ conn' = [conn EXCEPT ![c] = [conn[c] EXCEPT !.state = "accepted", !.fd = Min(Free)]]
    /\ cq' = Append(cq, [op |-> "accept", who |-> c, res |-> "ok"])
    /\ UNCHANGED <<build, loop, sq, cause, harm>>

\* No number is left, or the client has gone.
complete_accept_error(p) ==
    /\ Completes(p) /\ p.op = "accept" /\ \E c \in Client : conn[c].state = "none"
    /\ Post(p, "error")
    /\ UNCHANGED <<build, files, loop, sq, conn, cause, harm>>

\* A read, a write or a notification, whose result does not matter.
complete(p, res) ==
    /\ Completes(p) /\ p.op # "accept" /\ (p.op = "notif" => res = "ok")
    /\ Post(p, res)
    /\ harm' = harm \cup (IF res = "ok" /\ Target(p) # p.who THEN {p.op} ELSE {})
    /\ UNCHANGED <<build, files, loop, sq, conn, cause>>

-----------------------------------------------------------------------------
(* The handlers, one per completion *)

\* op->complete(res) of an operation that exists.
Dispatch(op, who, res) ==
    /\ loop = "handlers" /\ cq # <<>>
    /\ Head(cq) = [op |-> op, who |-> who, res |-> res]
    /\ who \in Client => conn[who].state # "freed"

Ring == [sq |-> sq, pending |-> pending, cq |-> Tail(cq), ok |-> TRUE]

\* Connection::submit_write.
submit_write(r, c) == IF conn[c].is_writing THEN {r} ELSE get_sqe(r, WriteOp(c, conn[c].fd))
Queued(c) == [conn[c] EXCEPT !.is_writing = TRUE, !.queue = @ + 1]
Written(c) == [conn[c] EXCEPT !.is_writing = conn[c].queue > 1, !.queue = @ - 1]
MayReply(c) == conn[c].state = "live" /\ conn[c].queue < MaxQueue

\* Some of the connections, in some order.
Orders(S) == UNION {Injection(1 .. k, S) : k \in 0 .. Cardinality(S)}

\* The ring after the responses to the connections in order.
responses(order) ==
    LET written[i \in 0 .. Len(order)] ==
            IF i = 0 THEN {Ring} ELSE UNION {submit_write(w, order[i]) : w \in written[i - 1]}
    IN  written[Len(order)]

\* NotificationOp::complete: responses for some connections, or for none, in
\* the order of the channel.
complete_notification ==
    /\ Dispatch("notif", "event", "ok")
    /\ \E order \in Orders({c \in Client : MayReply(c)}) :
        /\ conn' = [c \in Client |-> IF c \in Range(order) THEN Queued(c) ELSE conn[c]]
        /\ \E w \in responses(order) : \E r \in get_sqe(w, NotificationOp) : Leave(r)
    /\ UNCHANGED <<build, files, harm>>

\* If conn->start throws, the unique_ptr deletes the Connection.
handle_accept(c) ==
    /\ Dispatch("accept", c, "ok")
    /\ \E s \in get_sqe(Ring, ReadOp(c, conn[c].fd)) : \E r \in get_sqe(s, AcceptOp) :
        /\ Leave(r)
        /\ conn' = [conn EXCEPT ![c].state = IF s.ok THEN "live" ELSE "freed"]
        /\ files' = IF s.ok THEN files ELSE [files EXCEPT ![conn[c].fd] = "closed"]
    /\ UNCHANGED <<build, harm>>

\* Mutant: the accept operation is not submitted again.
handle_accept_stops ==
    /\ Dispatch("accept", "listen", "error")
    /\ Leave(Ring)
    /\ UNCHANGED <<build, files, conn, harm>>

handle_accept_error ==
    /\ Dispatch("accept", "listen", "error")
    /\ \E r \in get_sqe(Ring, AcceptOp) : Leave(r)
    /\ UNCHANGED <<build, files, conn, harm>>

\* With a reply to write, or without.
handle_read(c) ==
    /\ Dispatch("read", c, "ok")
    /\ \/ /\ UNCHANGED conn
          /\ \E r \in get_sqe(Ring, ReadOp(c, conn[c].fd)) : Leave(r)
       \/ /\ MayReply(c)
          /\ conn' = [conn EXCEPT ![c] = Queued(c)]
          /\ \E w \in submit_write(Ring, c) : \E r \in get_sqe(w, ReadOp(c, conn[c].fd)) : Leave(r)
    /\ UNCHANGED <<build, files, harm>>

\* Mutant: the next reply is written before the last one is done.
handle_write_early(c) ==
    /\ Dispatch("write", c, "ok")
    /\ conn' = [conn EXCEPT ![c] = [Written(c) EXCEPT !.is_writing = FALSE]]
    /\ IF conn[c].queue = 1 THEN Leave(Ring)
       ELSE \E r \in get_sqe(Ring, WriteOp(c, conn[c].fd)) : Leave(r)
    /\ UNCHANGED <<build, files, harm>>

handle_write(c) ==
    /\ Dispatch("write", c, "ok")
    /\ conn' = [conn EXCEPT ![c] = Written(c)]
    /\ IF conn[c].queue = 1 THEN Leave(Ring)
       ELSE \E r \in get_sqe(Ring, WriteOp(c, conn[c].fd)) : Leave(r)
    /\ UNCHANGED <<build, files, harm>>

\* close(fd_) of whatever file has the number.
close(n, who) ==
    /\ files' = [files EXCEPT ![n] = "closed"]
    /\ harm' = harm \cup (IF files[n] \in {who, "closed"} THEN {} ELSE {"close"})

\* Mutant: the socket is closed and the object kept, to be closed again.
delete_this_twice(c) ==
    /\ loop = "handlers" /\ cq # <<>> /\ Head(cq) \in {[op |-> o, who |-> c, res |-> "error"] : o \in {"read", "write"}}
    /\ conn[c].state = "live"
    /\ close(conn[c].fd, c)
    /\ conn' = [conn EXCEPT ![c].state = IF files[conn[c].fd] = c THEN "live" ELSE "freed"]
    /\ cq' = IF files[conn[c].fd] = c THEN cq ELSE Tail(cq)
    /\ UNCHANGED <<build, loop, sq, pending, cause>>

\* A read of 0 bytes or an error, or a failed write: delete this, which
\* closes the socket and leaves the other operation of the Connection behind.
delete_this(c) ==
    /\ \E op \in {"read", "write"} : Dispatch(op, c, "error")
    /\ close(conn[c].fd, c)
    /\ conn' = [conn EXCEPT ![c].state = "freed"]
    /\ cq' = Tail(cq)
    /\ UNCHANGED <<build, loop, sq, pending, cause>>

\* op->complete of a deleted Connection: undefined from here on.
dispatch_freed ==
    /\ loop = "handlers" /\ cq # <<>>
    /\ \E c \in Client : Head(cq).who = c /\ conn[c].state = "freed"
    /\ loop' = "undefined" /\ Abandoned
    /\ UNCHANGED <<build, files, conn, cause, harm>>

-----------------------------------------------------------------------------
(* The end of the thread *)

\* A command throws (a full map), out of handle_data or the notification
\* handler and through run().
command_throws ==
    /\ Dispatch("notif", "event", "ok") \/ \E c \in Client : Dispatch("read", c, "ok")
    /\ loop' = "unwind" /\ cause' = "command" /\ Abandoned
    /\ UNCHANGED <<build, files, conn, harm>>

\* worker_main destroys its objects: the TcpServer, then the IoContext, whose
\* two descriptors are one and the same on Linux.  The Connections and their
\* sockets stay.
destroy_server ==
    /\ loop = "unwind" /\ loop' = "close_event"
    /\ close(ListenFd, "listen")
    /\ UNCHANGED <<build, ring, conn, cause>>

close_event_fd ==
    /\ loop = "close_event" /\ loop' = "close_notify"
    /\ close(EventFd, "event")
    /\ UNCHANGED <<build, ring, conn, cause>>

\* ... and io_uring_queue_exit.
close_notify_fd ==
    /\ loop = "close_notify" /\ loop' = "ended"
    /\ harm' = harm \cup (IF files[NotifyFd] \in {"event", "closed"} THEN {} ELSE {"close"})
    /\ files' = [n \in Fds |-> IF n = NotifyFd \/ files[n] = "ring" THEN "closed" ELSE files[n]]
    /\ UNCHANGED <<build, ring, conn, cause>>

-----------------------------------------------------------------------------
(* The other threads *)

other_open ==
    /\ Free # {} /\ Cardinality({n \in Fds : files[n] = "other"}) < MaxOther
    /\ loop # "undefined"
    /\ files' = [files EXCEPT ![Min(Free)] = "other"]
    /\ UNCHANGED <<build, loop, ring, conn, cause, harm>>

other_close(n) ==
    /\ files[n] = "other" /\ loop # "undefined"
    /\ files' = [files EXCEPT ![n] = "closed"]
    /\ UNCHANGED <<build, loop, ring, conn, cause, harm>>

\* Topology::notify_core for this core writes to the number it registered.
notify_core ==
    /\ files[NotifyFd] \notin {"event", "closed"} /\ loop # "undefined"
    /\ harm' = harm \cup {"wake"}
    /\ UNCHANGED <<build, files, loop, ring, conn, cause>>

Handle ==
    \/ \E c \in Client : handle_accept(c) \/ handle_read(c) \/ handle_write(c) \/ delete_this(c)
    \/ complete_notification \/ handle_accept_error

Next ==
    \/ submit_and_wait \/ for_each_cqe
    \/ \E p \in pending :
        \/ complete_accept_error(p)
        \/ \E c \in Client : complete_accept(p, c)
        \/ \E res \in {"ok", "error"} : complete(p, res)
    \/ Handle \/ dispatch_freed
    \/ command_throws \/ destroy_server \/ close_event_fd \/ close_notify_fd
    \/ other_open \/ notify_core
    \/ \E n \in Fds : other_close(n)

Spec == Init /\ [][Next]_vars

\* The thread runs; a client that waits is accepted unless accepting fails
\* again and again for ever.
FairSpec ==
    /\ Spec
    /\ WF_vars(submit_and_wait \/ for_each_cqe \/ Handle)
    /\ SF_vars(\E p \in pending, c \in Client : complete_accept(p, c))

-----------------------------------------------------------------------------
(* Properties *)

Running == loop \in {"handlers", "ring"}

Ops == [op : {"accept"}, who : {"listen"} \cup Client] \cup [op : {"notif"}, who : {"event"}]
       \cup [op : {"read", "write"}, who : Client]

\* The descriptor table, the three places of an operation and the fields of
\* the Connections have their types; a queue of submissions is never overfull.
TypeOK ==
    /\ files \in [Fds -> Client \cup {"event", "listen", "ring", "other", "closed"}]
    /\ Len(sq) <= SqSize
    /\ \A e \in Range(sq) \cup pending : [op |-> e.op, who |-> e.who] \in Ops /\ e.fd \in Fds
    /\ \A e \in Range(cq) : [op |-> e.op, who |-> e.who] \in Ops
    /\ \A c \in Client : conn[c].fd \in Fds /\ conn[c].queue \in 0 .. MaxQueue

\* How many times one of the operations is in the hands of the ring.
Times(ops, whom) ==
    LET Is(e) == e.op \in ops /\ e.who \in whom
    IN  Cardinality({i \in DOMAIN sq : Is(sq[i])}) + Cardinality({p \in pending : Is(p)})
        + Cardinality({i \in DOMAIN cq : Is(cq[i])})

\* As long as the loop runs, the accept operation, the notification read and
\* the read of every connection are each in exactly one place: prepared,
\* pending or completed.  The write is in one exactly while is_writing_ is
\* set.  So no Operation is submitted twice, whichever completions share a
\* batch and wherever get_sqe had to submit in the middle of a handler, and no
\* source of events falls silent.  delete this leaves at most one operation
\* behind, which the loop then completes on freed memory.  A full submission
\* queue ends the loop only if io_uring refuses the entries.
EachOperationOnce ==
    /\ cause = "refused" => build = "linux"
    /\ Running =>
        /\ Times({"accept"}, Client \cup {"listen"}) = 1
        /\ Times({"notif"}, {"event"}) = 1
        /\ \A c \in Client :
            conn[c].state = "live" =>
                /\ Times({"read"}, {c}) = 1
                /\ Times({"write"}, {c}) = IF conn[c].is_writing THEN 1 ELSE 0
                /\ conn[c].is_writing <=> conn[c].queue > 0
        /\ \A c \in Client :
            conn[c].state = "freed" => Times({"read", "write"}, {c}) <= 1

\* An operation of a deleted Connection is somewhere in the ring, or has been
\* completed.
Outlived ==
    \/ loop = "undefined"
    \/ \E c \in Client : conn[c].state = "freed" /\ Times({"read", "write"}, {c}) > 0

\* A core reads from and writes to other files than the sockets of its
\* Connections only through an operation that outlived its Connection, whose
\* number was given away; it closes a file of others, and is the cause that
\* others write wake-ups into a wrong one, only once it has ended, and closes
\* one only on Linux, where ~IoContext closes one descriptor twice.
OwnFilesOnly ==
    /\ Running /\ {"read", "write", "notif"} \cap harm # {} => Outlived
    /\ "close" \in harm => build = "linux" /\ loop = "ended"
    /\ "wake" \in harm => ~Running

\* All clients that connect are accepted, whatever accept errors come between,
\* unless the table is full, the thread ends, or an operation outlives its
\* Connection (which makes select() fail in the stub from then on).
Accepted ==
    (\E c \in Client : conn[c].state = "none")
    ~> ((\A c \in Client : conn[c].state # "none") \/ Free = {} \/ ~Running \/ Outlived)
=============================================================================
