--------------------------------- MODULE Itc ---------------------------------
(***************************************************************************)
(* Inter-thread communication of QuineDB: one worker thread per core, one  *)
(* inbox (ItcChannel) per core, one eventfd per core to wake it up, and    *)
(* the io_uring read that each event loop keeps outstanding on its own     *)
(* eventfd.  The module covers the life of a worker (worker_main): start,  *)
(* registration, barrier, event loop, and death by an uncaught exception.  *)
(*                                                                         *)
(* Steps are the ones another thread can see.  push() is one critical      *)
(* section, notify_core() is one system call, consume_all() swaps the      *)
(* queue in one critical section and then handles the batch outside it.    *)
(* What a message carries beyond its type and its origin is a Body; the    *)
(* module Server says what it is.                                          *)
(***************************************************************************)
EXTENDS Naturals, Sequences, FiniteSets

CONSTANTS
    Core,      \* the worker threads, one per hardware thread
    Body,      \* connection id, key, args and payload of a message
    None,      \* no core: the thread owes nobody a wake-up
    MaxQueue   \* bound on the load: inbox length up to which requests arrive

ASSUME CoreAssumption == IsFiniteSet(Core) /\ None \notin Core
ASSUME MaxQueueAssumption == MaxQueue \in Nat

VARIABLES
    phase,             \* how far worker_main of each core has come
    registered_count,  \* Topology::registered_count_
    notify_fds,        \* what Topology::notify_fds_[c] denotes
    channel,           \* Topology::channels_[c]->queue_
    event,             \* the counter of c's eventfd is not zero
    notif,             \* the read that c keeps outstanding on its eventfd
    batch,             \* messages swapped out by consume_all, not yet handled
    waking             \* core that c has pushed to and not yet notified

vars == <<phase, registered_count, notify_fds, channel, event, notif, batch,
          waking>>

Message == [type : {"REQUEST", "RESPONSE"}, origin_core_id : Core, body : Body]

\* phase: "boot" before register_notify_fd, "barrier" spinning in
\* wait_for_all_cores, "setup" before IoContext::run, "loop" inside it,
\* "dead" after the catch block of worker_main.
\* notif: "none" before run(), "posted" waiting in the ring, "done" completed
\* and not yet dispatched, "handling" while the notification handler runs.
TypeOK ==
    /\ phase \in [Core -> {"boot", "barrier", "setup", "loop", "dead"}]
    /\ registered_count \in Nat
    /\ notify_fds \in [Core -> {"unset", "eventfd", "closed"}]
    /\ channel \in [Core -> Seq(Message)]
    /\ event \in [Core -> BOOLEAN]
    /\ notif \in [Core -> {"none", "posted", "done", "handling"}]
    /\ batch \in [Core -> Seq(Message)]
    /\ waking \in [Core -> Core \cup {None}]

Init ==
    /\ phase = [c \in Core |-> "boot"]
    /\ registered_count = 0
    /\ notify_fds = [c \in Core |-> "unset"]
    /\ channel = [c \in Core |-> <<>>]
    /\ event = [c \in Core |-> FALSE]
    /\ notif = [c \in Core |-> "none"]
    /\ batch = [c \in Core |-> <<>>]
    /\ waking = [c \in Core |-> None]

-----------------------------------------------------------------------------
(* Start-up *)

\* Mutant: the counter goes down.
register_fetch_sub(c) ==
    /\ phase[c] = "boot"
    /\ phase' = [phase EXCEPT ![c] = "barrier"]
    /\ notify_fds' = [notify_fds EXCEPT ![c] = "eventfd"]
    /\ registered_count' = registered_count - 1
    /\ UNCHANGED <<channel, event, notif, batch, waking>>

register_notify_fd(c) ==
    /\ phase[c] = "boot"
    /\ phase' = [phase EXCEPT ![c] = "barrier"]
    /\ notify_fds' = [notify_fds EXCEPT ![c] = "eventfd"]
    /\ registered_count' = registered_count + 1
    /\ UNCHANGED <<channel, event, notif, batch, waking>>

\* Mutants: there is no barrier; the first core through resets the counter.
no_barrier(c) ==
    /\ phase[c] = "barrier"
    /\ phase' = [phase EXCEPT ![c] = "setup"]
    /\ UNCHANGED <<registered_count, notify_fds, channel, event, notif, batch,
                   waking>>
barrier_reset(c) ==
    /\ phase[c] = "barrier"
    /\ registered_count >= Cardinality(Core)
    /\ phase' = [phase EXCEPT ![c] = "setup"]
    /\ registered_count' = 0
    /\ UNCHANGED <<notify_fds, channel, event, notif, batch, waking>>

wait_for_all_cores(c) ==
    /\ phase[c] = "barrier"
    /\ registered_count >= Cardinality(Core)
    /\ phase' = [phase EXCEPT ![c] = "setup"]
    /\ UNCHANGED <<registered_count, notify_fds, channel, event, notif, batch,
                   waking>>

\* The TCP server is listening and run() submits the first notification read.
enter_run(c) ==
    /\ phase[c] = "setup"
    /\ phase' = [phase EXCEPT ![c] = "loop"]
    /\ notif' = [notif EXCEPT ![c] = "posted"]
    /\ UNCHANGED <<registered_count, notify_fds, channel, event, batch, waking>>

-----------------------------------------------------------------------------
(* The event loop *)

\* The thread is between two completions of the loop in IoContext::run.
Idle(c) == phase[c] = "loop" /\ notif[c] # "handling" /\ waking[c] = None

\* The thread is inside consume_all, between two messages of the batch.
Consuming(c) == phase[c] = "loop" /\ notif[c] = "handling" /\ waking[c] = None

\* Mutant: nobody is notified.
push_only(c, d, m) ==
    /\ channel' = [channel EXCEPT ![d] = Append(@, m)]
    /\ UNCHANGED waking

\* ItcChannel::push by thread c into the inbox of d.  Every caller goes on to
\* call notify_core(d): c owes d a wake-up until then.
push(c, d, m) ==
    /\ channel' = [channel EXCEPT ![d] = Append(@, m)]
    /\ waking' = [waking EXCEPT ![c] = d]

\* Topology::notify_core: the write reaches d's eventfd only while the
\* descriptor is registered and still open; an error is ignored.
notify_core(c) ==
    /\ waking[c] # None
    /\ event' = IF notify_fds[waking[c]] = "eventfd"
                THEN [event EXCEPT ![waking[c]] = TRUE] ELSE event
    /\ waking' = [waking EXCEPT ![c] = None]
    /\ UNCHANGED <<phase, registered_count, notify_fds, channel, notif, batch>>

\* A command read from a connection of c has its key on core d.
forward(c, d, b) ==
    /\ Idle(c)
    /\ Len(channel[c]) < MaxQueue /\ Len(channel[d]) < MaxQueue
    /\ push(c, d, [type |-> "REQUEST", origin_core_id |-> c, body |-> b])
    /\ UNCHANGED <<phase, registered_count, notify_fds, event, notif, batch>>

\* The kernel completes the read: it takes the counter down to zero ...
read_event(c) ==
    /\ notif[c] = "posted" /\ event[c]
    /\ event' = [event EXCEPT ![c] = FALSE]
    /\ notif' = [notif EXCEPT ![c] = "done"]
    /\ UNCHANGED <<phase, registered_count, notify_fds, channel, batch, waking>>

\* ... or fails it (-EAGAIN, the eventfd is O_NONBLOCK; -EINTR).
\* NotificationOp::complete does not tell the two apart.
read_error(c) ==
    /\ notif[c] = "posted"
    /\ notif' = [notif EXCEPT ![c] = "done"]
    /\ UNCHANGED <<phase, registered_count, notify_fds, channel, event, batch,
                   waking>>

\* NotificationOp::complete calls the handler, whose first step is the swap.
consume_all(c) ==
    /\ Idle(c) /\ notif[c] = "done"
    /\ batch' = [batch EXCEPT ![c] = channel[c]]
    /\ channel' = [channel EXCEPT ![c] = <<>>]
    /\ notif' = [notif EXCEPT ![c] = "handling"]
    /\ UNCHANGED <<phase, registered_count, notify_fds, event, waking>>

\* The handler executes a REQUEST and pushes the answer to the origin core.
handle_request(c, b) ==
    /\ Consuming(c) /\ batch[c] # <<>>
    /\ Head(batch[c]).type = "REQUEST"
    /\ push(c, Head(batch[c]).origin_core_id,
            [type |-> "RESPONSE", origin_core_id |-> c, body |-> b])
    /\ batch' = [batch EXCEPT ![c] = Tail(@)]
    /\ UNCHANGED <<phase, registered_count, notify_fds, event, notif>>

\* The handler gives a RESPONSE to the connection that waits for it.
handle_response(c) ==
    /\ Consuming(c) /\ batch[c] # <<>>
    /\ Head(batch[c]).type = "RESPONSE"
    /\ batch' = [batch EXCEPT ![c] = Tail(@)]
    /\ UNCHANGED <<phase, registered_count, notify_fds, channel, event, notif,
                   waking>>

\* Mutant: the read is not resubmitted.
not_resubmitted(c) ==
    /\ Consuming(c) /\ batch[c] = <<>>
    /\ notif' = [notif EXCEPT ![c] = "none"]
    /\ UNCHANGED <<phase, registered_count, notify_fds, channel, event, batch,
                   waking>>

\* After the batch, NotificationOp::complete resubmits the read.
submit_notification_read(c) ==
    /\ Consuming(c) /\ batch[c] = <<>>
    /\ notif' = [notif EXCEPT ![c] = "posted"]
    /\ UNCHANGED <<phase, registered_count, notify_fds, channel, event, batch,
                   waking>>

-----------------------------------------------------------------------------
(* Failure *)

\* An exception reaches the catch block of worker_main: while the IoContext or
\* the TcpServer is built, or out of a handler (none is thrown between a push
\* and its notify_core).  Unwinding destroys the batch and closes the eventfd;
\* the Topology keeps the inbox and the stale descriptor.
die(c) ==
    /\ phase[c] \in {"boot", "setup", "loop"}
    /\ waking[c] = None
    /\ phase' = [phase EXCEPT ![c] = "dead"]
    /\ notify_fds' = [notify_fds EXCEPT ![c] = IF @ = "eventfd" THEN "closed" ELSE @]
    /\ event' = [event EXCEPT ![c] = FALSE]
    /\ notif' = [notif EXCEPT ![c] = "none"]
    /\ batch' = [batch EXCEPT ![c] = <<>>]
    /\ UNCHANGED <<registered_count, channel, waking>>

-----------------------------------------------------------------------------

\* Everything but a failure.
Work(c) ==
    \/ register_notify_fd(c)
    \/ wait_for_all_cores(c)
    \/ enter_run(c)
    \/ notify_core(c)
    \/ \E d \in Core \ {c}, b \in Body : forward(c, d, b)
    \/ read_event(c)
    \/ read_error(c)
    \/ consume_all(c)
    \/ \E b \in Body : handle_request(c, b)
    \/ handle_response(c)
    \/ submit_notification_read(c)

Next == \E c \in Core : Work(c) \/ die(c)

\* Threads are scheduled, posted reads of a readable eventfd complete, and the
\* completion queue is FIFO: a completed notification read is dispatched even
\* if the thread keeps finding other completions to handle (strong fairness).
\* Nothing makes clients send requests.
Fairness ==
    \A c \in Core :
        /\ WF_vars(register_notify_fd(c))
        /\ WF_vars(wait_for_all_cores(c))
        /\ WF_vars(enter_run(c))
        /\ WF_vars(notify_core(c))
        /\ WF_vars(read_event(c))
        /\ SF_vars(consume_all(c))
        /\ WF_vars(\E b \in Body : handle_request(c, b))
        /\ WF_vars(handle_response(c))
        /\ WF_vars(submit_notification_read(c))

Spec == Init /\ [][Next]_vars

FairSpec == Init /\ [][Next]_vars /\ Fairness
-----------------------------------------------------------------------------
(* Properties *)

\* A message is never left in the inbox of a core that sleeps: whoever is past
\* the barrier and has a non-empty inbox has a readable eventfd, or a completed
\* notification read to dispatch, or some thread stands between its push() and
\* its notify_core() for this core.
NoLostWakeup ==
    \A c \in Core :
        /\ phase[c] # "dead"
        /\ channel[c] # <<>>
        => \/ event[c]
           \/ notif[c] = "done"
           \/ \E p \in Core : waking[p] = c

\* The race that the comment above wait_for_all_cores in worker_main names: no
\* core is sent a message before it has registered its notification descriptor.
RegisteredBeforeMessage ==
    \A c \in Core :
        channel[c] # <<>> \/ (\E p \in Core : waking[p] = c) => notify_fds[c] # "unset"

\* Every message is picked up by consume_all, or its core dies: a wake-up that
\* coalesces with another, or that arrives while the handler runs, is enough.
InboxDrained ==
    \A c \in Core :
        (channel[c] # <<>>) ~> (channel[c] = <<>> \/ phase[c] = "dead")

\* The barrier opens for all or for nobody: once one core is past
\* wait_for_all_cores, every core ends up in its event loop or dead.  Unless a
\* core fails, it does open.
BarrierReleasesAll ==
    /\ (\E c \in Core : phase[c] \in {"setup", "loop"})
        ~> (\A c \in Core : phase[c] \in {"loop", "dead"})
    /\ <>((\A c \in Core : phase[c] = "loop") \/ (\E c \in Core : phase[c] = "dead"))
=============================================================================
