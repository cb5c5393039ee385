------------------------------ MODULE Connection ------------------------------
(***************************************************************************)
(* network::Connection, one client connection of an event loop: its two    *)
(* operations (read_op_, write_op_) in the kernel and in the completion    *)
(* queue, the queue of replies to write, and the end of the object.  A     *)
(* reply is Parts pieces of bytes long; the kernel may accept fewer than   *)
(* it is given.  Replies are numbered in the order of submit_write.        *)
(***************************************************************************)
EXTENDS Naturals, Sequences

CONSTANTS
    Parts,        \* length of a reply
    MaxReplies    \* bound: replies submitted

ASSUME PartsAssumption == Parts \in Nat \ {0}
ASSUME MaxRepliesAssumption == MaxReplies \in Nat

VARIABLES
    conn,         \* "live", or "freed" after delete this
    registered,   \* local_connections has the connection
    write_queue,  \* write_queue_, by reply number
    is_writing,   \* is_writing_
    reading,      \* read_op_ is in the kernel
    writing,      \* the reply that write_op_ is writing in the kernel, or 0
    cq,           \* completions of this connection, not yet dispatched
    dangling,     \* a completion was dispatched to a freed Operation
    submitted,    \* number of the last reply
    wire,         \* pieces that the client has received
    short         \* history: the kernel has taken only part of a reply

vars == <<conn, registered, write_queue, is_writing, reading, writing, cq,
          dangling, submitted, wire, short>>

Completion ==
    [op : {"read"}, res : {"data", "closed"}] \cup [op : {"write"}, res : {"written", "error"}]

\* What the client receives: part p of reply r, <<r, p>>, or Junk, bytes of a
\* buffer that was freed, which may be anything.
Junk == <<0, 0>>
Piece == ((1 .. MaxReplies) \X (1 .. Parts)) \cup {Junk}

\* The fields of the Connection, and the operations and completions in flight.
\* read_op_ and write_op_ are one object each: if either had two completions in
\* the queue, one handler would run twice for one read or one reply.
TypeOK ==
    /\ conn \in {"live", "freed"}
    /\ registered \in BOOLEAN
    /\ write_queue \in Seq(1 .. MaxReplies)
    /\ is_writing \in BOOLEAN
    /\ reading \in BOOLEAN
    /\ writing \in 0 .. MaxReplies
    /\ cq \in Seq(Completion)
    /\ \A j, k \in DOMAIN cq : cq[j].op = cq[k].op => j = k
    /\ dangling \in BOOLEAN
    /\ submitted \in 0 .. MaxReplies
    /\ wire \in Seq(Piece)
    /\ short \in BOOLEAN

\* handle_accept: registered by on_connect_, started with a read.
Init ==
    /\ conn = "live" /\ registered = TRUE
    /\ write_queue = <<>> /\ is_writing = FALSE
    /\ reading = TRUE /\ writing = 0
    /\ cq = <<>>
    /\ dangling = FALSE
    /\ submitted = 0
    /\ wire = <<>>
    /\ short = FALSE

-----------------------------------------------------------------------------
(* The kernel.  An operation that was submitted completes even if the      *)
(* Connection that submitted it is freed.                                  *)

\* A read returns data, or 0 (end of stream) or an error: both close.
kernel_read(res) ==
    /\ reading
    /\ reading' = FALSE
    /\ cq' = Append(cq, [op |-> "read", res |-> res])
    /\ UNCHANGED <<conn, registered, write_queue, is_writing, writing, dangling,
                   submitted, wire, short>>

\* A write takes the first n pieces of the reply it was given.  Its buffer is
\* part of write_queue_, which goes with the Connection ...
kernel_write(n) ==
    /\ writing # 0
    /\ wire' = wire \o [p \in 1 .. n |-> IF conn = "live" THEN <<writing, p>> ELSE Junk]
    /\ short' = (short \/ n < Parts)
    /\ writing' = 0
    /\ cq' = Append(cq, [op |-> "write", res |-> "written"])
    /\ UNCHANGED <<conn, registered, write_queue, is_writing, reading, dangling,
                   submitted>>

\* ... or fails.
kernel_write_error ==
    /\ writing # 0
    /\ writing' = 0
    /\ cq' = Append(cq, [op |-> "write", res |-> "error"])
    /\ UNCHANGED <<conn, registered, write_queue, is_writing, reading, dangling,
                   submitted, wire, short>>

-----------------------------------------------------------------------------
(* The event loop *)

\* Mutants: the reply is put at the front; is_writing_ is not asked.
submit_write_front ==
    /\ submitted < MaxReplies
    /\ submitted' = submitted + 1
    /\ write_queue' = <<submitted + 1>> \o write_queue
    /\ is_writing' = TRUE
    /\ writing' = IF is_writing THEN writing ELSE Head(write_queue')
submit_write_always ==
    /\ submitted < MaxReplies
    /\ submitted' = submitted + 1
    /\ write_queue' = Append(write_queue, submitted + 1)
    /\ is_writing' = TRUE
    /\ writing' = Head(write_queue')

\* Connection::submit_write of the next reply.
submit_write ==
    /\ submitted < MaxReplies
    /\ submitted' = submitted + 1
    /\ write_queue' = Append(write_queue, submitted + 1)
    /\ is_writing' = TRUE
    /\ writing' = IF is_writing THEN writing ELSE Head(write_queue')

\* on_disconnect_(id_); delete this.  The socket is closed.
delete_this ==
    /\ registered' = FALSE
    /\ conn' = "freed"
    /\ write_queue' = <<>>
    /\ UNCHANGED <<is_writing, reading, writing, dangling, submitted, wire, short>>

\* The event loop takes the next completion for its Operation, while the
\* connection exists.
Dispatch(op, res) ==
    /\ cq # <<>> /\ conn = "live" /\ ~ dangling
    /\ Head(cq) = [op |-> op, res |-> res]
    /\ cq' = Tail(cq)

\* handle_read: handle_data has a reply, or none (the command is incomplete, or
\* has gone to another core); then submit_read.
handle_read ==
    /\ Dispatch("read", "data")
    /\ reading' = TRUE
    /\ \/ submit_write
       \/ UNCHANGED <<write_queue, is_writing, writing, submitted>>
    /\ UNCHANGED <<conn, registered, dangling, wire, short>>

handle_read_closed == Dispatch("read", "closed") /\ delete_this

\* Mutant: is_writing_ is not reset.
handle_write_sticky ==
    /\ Dispatch("write", "written")
    /\ write_queue' = IF write_queue # <<>> THEN Tail(write_queue) ELSE write_queue
    /\ writing' = IF write_queue' # <<>> THEN Head(write_queue') ELSE writing
    /\ UNCHANGED <<conn, registered, is_writing, reading, dangling, submitted, wire, short>>

\* handle_write: how many bytes were written does not matter.
handle_write ==
    /\ Dispatch("write", "written")
    /\ write_queue' = IF write_queue # <<>> THEN Tail(write_queue) ELSE write_queue
    /\ IF write_queue' # <<>>
       THEN writing' = Head(write_queue') /\ UNCHANGED is_writing
       ELSE is_writing' = FALSE /\ UNCHANGED writing
    /\ UNCHANGED <<conn, registered, reading, dangling, submitted, wire, short>>

handle_write_error == Dispatch("write", "error") /\ delete_this

\* A RESPONSE from another core for this connection.
handle_response ==
    /\ registered /\ ~ dangling
    /\ submit_write
    /\ UNCHANGED <<conn, registered, reading, cq, dangling, wire, short>>

\* op->complete on an Operation that went with its Connection: undefined from
\* here on, so the model stops.
dispatch_freed ==
    /\ cq # <<>> /\ conn = "freed" /\ ~ dangling
    /\ dangling' = TRUE
    /\ UNCHANGED <<conn, registered, write_queue, is_writing, reading, writing,
                   cq, submitted, wire, short>>

Next ==
    \/ \E res \in {"data", "closed"} : kernel_read(res)
    \/ \E n \in 1 .. Parts : kernel_write(n)
    \/ kernel_write_error
    \/ handle_read
    \/ handle_read_closed
    \/ handle_write
    \/ handle_write_error
    \/ handle_response
    \/ dispatch_freed

Spec == Init /\ [][Next]_vars

\* The kernel finishes writes and the loop dispatches completions; nobody has
\* to send anything.
FairSpec ==
    /\ Spec
    /\ WF_vars(\E n \in 1 .. Parts : kernel_write(n))
    /\ WF_vars(handle_read \/ handle_read_closed \/ handle_write \/ handle_write_error)

-----------------------------------------------------------------------------
(* Properties *)

\* The client receives the replies in the order of submit_write, each from its
\* first piece on, nothing twice.  As long as the kernel takes whole replies it
\* receives all of them; after that handle_write, which ignores how much was
\* written, costs it the tail of a reply and no more.  The kernel reads from
\* the front of write_queue_, which stays there until it is done; only delete
\* this can take a buffer from under it, and what it sends then is the last.
WholeRepliesInOrder ==
    /\ conn = "live" /\ writing # 0 => write_queue # <<>> /\ writing = Head(write_queue)
    /\ \A j \in DOMAIN wire :
        LET before == IF j = 1 THEN <<0, Parts>> ELSE wire[j - 1]
        IN  \/ wire[j] = Junk /\ conn = "freed"
            \/ wire[j] = <<before[1], before[2] + 1>> /\ before # Junk
            \/ wire[j] = <<before[1] + 1, 1>> /\ before # Junk /\ (short \/ before[2] = Parts)

\* Every reply that is queued is handed to the kernel, unless the connection ends.
RepliesWritten ==
    \A r \in 1 .. MaxReplies :
        (submitted >= r) ~> (conn = "freed" \/ \E j \in DOMAIN wire : wire[j][1] = r)
=============================================================================
