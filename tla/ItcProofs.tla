------------------------------ MODULE ItcProofs ------------------------------
(***************************************************************************)
(* Proofs about Itc, for any finite set of cores, any message bodies and   *)
(* any load: the type invariant, the barrier and the absence of lost       *)
(* wake-ups, failures of cores included.                                   *)
(***************************************************************************)
EXTENDS Itc, FiniteSetTheorems, TLAPS

\* The cores whose descriptor is in Topology::notify_fds_.
Registered == {c \in Core : notify_fds[c] # "unset"}

\* registered_count_ counts the cores that have stored their descriptor.
CountInv == registered_count = Cardinality(Registered)

\* A living core has registered exactly when it has left the "boot" phase, and
\* its descriptor stays open as long as it lives; only a core in its loop owes
\* a wake-up or has a notification read.
PhaseInv ==
    \A c \in Core :
        /\ phase[c] = "boot" => notify_fds[c] = "unset"
        /\ phase[c] \in {"barrier", "setup", "loop"} => notify_fds[c] = "eventfd"
        /\ phase[c] # "loop" => waking[c] = None /\ notif[c] = "none"

\* Traffic, or a core that may start some, means that the barrier has opened.
BarrierInv ==
    (\E c \in Core : \/ phase[c] \in {"setup", "loop"}
                     \/ waking[c] # None
                     \/ channel[c] # <<>>)
    => \A d \in Core : notify_fds[d] # "unset"

\* The inductive invariant.
IInv == TypeOK /\ CountInv /\ PhaseInv /\ BarrierInv /\ NoLostWakeup

-----------------------------------------------------------------------------

\* The next message of a batch names the core that its answer goes to.
LEMMA OriginIsCore ==
    ASSUME TypeOK, NEW c \in Core, batch[c] # <<>>
    PROVE  Head(batch[c]).origin_core_id \in Core
<1>1. Head(batch[c]) \in Message
  BY DEF TypeOK
<1> QED
  BY <1>1 DEF Message

\* Types are preserved by every step.
LEMMA TypeStep == TypeOK /\ [Next]_vars => TypeOK'
<1> SUFFICES ASSUME TypeOK, [Next]_vars PROVE TypeOK'
  OBVIOUS
<1> USE CoreAssumption DEF TypeOK
<1>1. ASSUME NEW c \in Core, Work(c) PROVE TypeOK'
  <2>1. CASE register_notify_fd(c)
    BY <2>1 DEF register_notify_fd
  <2>2. CASE wait_for_all_cores(c)
    BY <2>2 DEF wait_for_all_cores
  <2>3. CASE enter_run(c)
    BY <2>3 DEF enter_run
  <2>4. CASE notify_core(c)
    BY <2>4 DEF notify_core
  <2>5. ASSUME NEW d \in Core \ {c}, NEW b \in Body, forward(c, d, b) PROVE TypeOK'
    <3>1. [type |-> "REQUEST", origin_core_id |-> c, body |-> b] \in Message
      BY <2>5 DEF Message
    <3> QED
      BY <2>5, <3>1 DEF forward, push
  <2>6. CASE read_event(c)
    BY <2>6 DEF read_event
  <2>7. CASE read_error(c)
    BY <2>7 DEF read_error
  <2>8. CASE consume_all(c)
    BY <2>8 DEF consume_all
  <2>9. ASSUME NEW b \in Body, handle_request(c, b) PROVE TypeOK'
    <3>1. [type |-> "RESPONSE", origin_core_id |-> c, body |-> b] \in Message
      BY <2>9 DEF Message
    <3>2. Head(batch[c]).origin_core_id \in Core
      BY <2>9, OriginIsCore DEF handle_request
    <3> QED
      BY <2>9, <3>1, <3>2 DEF handle_request, push
  <2>10. CASE handle_response(c)
    BY <2>10 DEF handle_response
  <2>11. CASE submit_notification_read(c)
    BY <2>11 DEF submit_notification_read
  <2> QED
    BY <1>1, <2>1, <2>2, <2>3, <2>4, <2>5, <2>6, <2>7, <2>8, <2>9, <2>10, <2>11
       DEF Work
<1>2. ASSUME NEW c \in Core, die(c) PROVE TypeOK'
  BY <1>2 DEF die
<1>3. CASE UNCHANGED vars
  BY <1>3 DEF vars
<1> QED
  BY <1>1, <1>2, <1>3 DEF Next

\* The type invariant of the threads, inboxes, descriptors and reads.
THEOREM TypeCorrect == Spec => []TypeOK
<1>1. Init => TypeOK
  BY DEF Init, TypeOK
<1> QED
  BY <1>1, TypeStep, PTL DEF Spec

\* The counter behind the barrier is exact and, once it has reached the number
\* of cores, every core has registered.
LEMMA BarrierOpens ==
    ASSUME TypeOK, CountInv, registered_count >= Cardinality(Core)
    PROVE  \A d \in Core : notify_fds[d] # "unset"
<1>1. Registered \in SUBSET Core
  BY DEF Registered
<1>2. /\ IsFiniteSet(Registered)
      /\ Cardinality(Registered) <= Cardinality(Core)
      /\ Cardinality(Core) = Cardinality(Registered) => Core = Registered
  BY <1>1, CoreAssumption, FS_Subset
<1>3. Cardinality(Core) \in Nat /\ Cardinality(Registered) \in Nat
  BY <1>2, CoreAssumption, FS_CardinalityType
<1>4. Core = Registered
  BY <1>2, <1>3 DEF CountInv
<1> QED
  BY <1>4 DEF Registered

\* Only register_notify_fd adds a registered core, and it counts it once.
LEMMA CountStep == TypeOK /\ CountInv /\ PhaseInv /\ [Next]_vars => CountInv'
<1> SUFFICES ASSUME TypeOK, CountInv, PhaseInv, [Next]_vars PROVE CountInv'
  OBVIOUS
<1>1. ASSUME NEW c \in Core, register_notify_fd(c) PROVE CountInv'
  <2>1. Registered' = Registered \cup {c} /\ c \notin Registered
    BY <1>1 DEF register_notify_fd, Registered, TypeOK, PhaseInv
  <2>2. IsFiniteSet(Registered)
    BY CoreAssumption, FS_Subset DEF Registered
  <2>3. Cardinality(Registered') = Cardinality(Registered) + 1
    BY <2>1, <2>2, FS_AddElement
  <2> QED
    BY <2>3, <1>1 DEF CountInv, register_notify_fd
<1>2. ASSUME NEW c \in Core, die(c) PROVE CountInv'
  <2>1. Registered' = Registered
    BY <1>2 DEF die, Registered, TypeOK
  <2> QED
    BY <2>1, <1>2 DEF CountInv, die
<1>3. ASSUME notify_fds' = notify_fds, registered_count' = registered_count
      PROVE  CountInv'
  BY <1>3 DEF CountInv, Registered
<1> QED
  BY <1>1, <1>2, <1>3
     DEF Next, Work, vars, wait_for_all_cores, enter_run, notify_core, forward,
         read_event, read_error, consume_all, handle_request, handle_response,
         submit_notification_read

\* Every step keeps phases, descriptors and reads in line.
LEMMA PhaseStep == TypeOK /\ PhaseInv /\ [Next]_vars => PhaseInv'
<1> SUFFICES ASSUME TypeOK, PhaseInv, [Next]_vars PROVE PhaseInv'
  OBVIOUS
<1> USE CoreAssumption DEF TypeOK
<1>1. ASSUME NEW c \in Core, NEW d \in Core, NEW m, push(c, d, m), phase[c] = "loop",
             UNCHANGED <<phase, notify_fds, notif>>
      PROVE  PhaseInv'
  BY <1>1 DEF push, PhaseInv
<1>2. ASSUME NEW c \in Core, phase[c] = "loop" \/ notif[c] = "posted",
             UNCHANGED <<phase, notify_fds, waking>>,
             \A d \in Core \ {c} : notif'[d] = notif[d]
      PROVE  PhaseInv'
  BY <1>2 DEF PhaseInv
<1>3. ASSUME NEW c \in Core, Work(c) PROVE PhaseInv'
  <2>1. CASE register_notify_fd(c)
    BY <2>1 DEF register_notify_fd, PhaseInv
  <2>2. CASE wait_for_all_cores(c)
    BY <2>2 DEF wait_for_all_cores, PhaseInv
  <2>3. CASE enter_run(c)
    BY <2>3 DEF enter_run, PhaseInv
  <2>4. CASE notify_core(c)
    BY <2>4 DEF notify_core, PhaseInv
  <2>5. ASSUME NEW d \in Core \ {c}, NEW b \in Body, forward(c, d, b)
        PROVE  PhaseInv'
    BY <2>5, <1>1 DEF forward, Idle
  <2>6. CASE read_event(c)
    BY <2>6, <1>2 DEF read_event
  <2>7. CASE read_error(c)
    BY <2>7, <1>2 DEF read_error
  <2>8. CASE consume_all(c)
    BY <2>8, <1>2 DEF consume_all, Idle
  <2>9. ASSUME NEW b \in Body, handle_request(c, b) PROVE PhaseInv'
    <3>1. Head(batch[c]).origin_core_id \in Core
      BY <2>9, OriginIsCore DEF handle_request
    <3> QED
      BY <2>9, <3>1, <1>1 DEF handle_request, Consuming
  <2>10. CASE handle_response(c)
    BY <2>10, <1>2 DEF handle_response, Consuming
  <2>11. CASE submit_notification_read(c)
    BY <2>11, <1>2 DEF submit_notification_read, Consuming
  <2> QED
    BY <1>3, <2>1, <2>2, <2>3, <2>4, <2>5, <2>6, <2>7, <2>8, <2>9, <2>10, <2>11
       DEF Work
<1>4. ASSUME NEW c \in Core, die(c) PROVE PhaseInv'
  BY <1>4 DEF die, PhaseInv
<1>5. CASE UNCHANGED vars
  BY <1>5 DEF vars, PhaseInv
<1> QED
  BY <1>3, <1>4, <1>5 DEF Next

\* Nobody unregisters, and a core gets past "barrier" only if all registered.
LEMMA BarrierStep ==
    TypeOK /\ CountInv /\ PhaseInv /\ BarrierInv /\ [Next]_vars => BarrierInv'
<1> SUFFICES ASSUME TypeOK, CountInv, PhaseInv, BarrierInv, [Next]_vars
             PROVE  BarrierInv'
  OBVIOUS
<1> DEFINE AllRegistered == \A d \in Core : notify_fds[d] # "unset"
<1>1. AllRegistered => AllRegistered'
  BY DEF Next, Work, vars, TypeOK, register_notify_fd, wait_for_all_cores,
         enter_run, notify_core, forward, read_event, read_error, consume_all,
         handle_request, handle_response, submit_notification_read, die
<1>2. ASSUME NEW c \in Core, wait_for_all_cores(c) PROVE BarrierInv'
  <2>1. AllRegistered
    BY <1>2, BarrierOpens DEF wait_for_all_cores
  <2> QED
    BY <2>1, <1>1 DEF BarrierInv
<1>3. ASSUME NEW c \in Core, phase[c] \in {"setup", "loop"} PROVE BarrierInv'
  BY <1>1, <1>3 DEF BarrierInv
<1>4. ASSUME NEW c \in Core, register_notify_fd(c) \/ die(c) PROVE BarrierInv'
  BY <1>1, <1>4 DEF BarrierInv, TypeOK, register_notify_fd, die
<1>5. ASSUME NEW c \in Core, notify_core(c) \/ read_event(c) \/ read_error(c)
      PROVE  BarrierInv'
  BY <1>1, <1>5 DEF BarrierInv, TypeOK, notify_core, read_event, read_error
<1>6. CASE UNCHANGED vars
  BY <1>6 DEF vars, BarrierInv
<1> QED
  BY <1>2, <1>3, <1>4, <1>5, <1>6
     DEF Next, Work, enter_run, forward, Idle, Consuming, consume_all,
         handle_request, handle_response, submit_notification_read

\* What a push leaves behind: only the inbox of d can have become non-empty,
\* and the pusher owes d the wake-up.
LEMMA PushStep ==
    ASSUME TypeOK, NoLostWakeup, NEW c \in Core, NEW d \in Core, NEW m,
           push(c, d, m), waking[c] = None, UNCHANGED <<phase, event, notif>>
    PROVE  NoLostWakeup'
  BY CoreAssumption DEF TypeOK, NoLostWakeup, push

\* No step leaves a message in an inbox without a wake-up on its way.
LEMMA WakeupStep ==
    TypeOK /\ PhaseInv /\ BarrierInv /\ NoLostWakeup /\ [Next]_vars => NoLostWakeup'
<1> SUFFICES ASSUME TypeOK, PhaseInv, BarrierInv, NoLostWakeup, [Next]_vars
             PROVE  NoLostWakeup'
  OBVIOUS
<1> USE CoreAssumption DEF TypeOK, NoLostWakeup
<1>1. ASSUME NEW c \in Core, Work(c) PROVE NoLostWakeup'
  <2>1. CASE register_notify_fd(c)
    BY <2>1 DEF register_notify_fd
  <2>2. CASE wait_for_all_cores(c)
    BY <2>2 DEF wait_for_all_cores
  <2>3. CASE enter_run(c)
    <3>1. notif[c] = "none"
      BY <2>3 DEF enter_run, PhaseInv
    <3>2. \A d \in Core : notif[d] = "done" => notif'[d] = "done"
      BY <2>3, <3>1 DEF enter_run
    <3>3. \A d \in Core : phase'[d] # "dead" => phase[d] # "dead"
      BY <2>3 DEF enter_run
    <3> QED
      BY <2>3, <3>2, <3>3 DEF enter_run
  <2>4. CASE notify_core(c)
    \* The debt is paid: the descriptor of a living core is open.
    <3>1. waking[c] \in Core
      BY <2>4 DEF notify_core
    <3>2. notify_fds[waking[c]] # "unset"
      BY <2>4, <3>1 DEF notify_core, BarrierInv
    <3>3. phase[waking[c]] # "dead" => notify_fds[waking[c]] = "eventfd"
      BY <3>1, <3>2 DEF PhaseInv
    <3> QED
      BY <2>4, <3>1, <3>3 DEF notify_core
  <2>5. ASSUME NEW d \in Core \ {c}, NEW b \in Body, forward(c, d, b)
        PROVE  NoLostWakeup'
    BY <2>5, PushStep DEF forward, Idle
  <2>6. CASE read_event(c)
    BY <2>6 DEF read_event
  <2>7. CASE read_error(c)
    BY <2>7 DEF read_error
  <2>8. CASE consume_all(c)
    BY <2>8 DEF consume_all
  <2>9. ASSUME NEW b \in Body, handle_request(c, b) PROVE NoLostWakeup'
    <3>1. Head(batch[c]).origin_core_id \in Core
      BY <2>9, OriginIsCore DEF handle_request
    <3> QED
      BY <2>9, <3>1, PushStep DEF handle_request, Consuming
  <2>10. CASE handle_response(c)
    BY <2>10 DEF handle_response
  <2>11. CASE submit_notification_read(c)
    BY <2>11 DEF submit_notification_read, Consuming
  <2> QED
    BY <1>1, <2>1, <2>2, <2>3, <2>4, <2>5, <2>6, <2>7, <2>8, <2>9, <2>10, <2>11
       DEF Work
<1>2. ASSUME NEW c \in Core, die(c) PROVE NoLostWakeup'
  BY <1>2 DEF die
<1>3. CASE UNCHANGED vars
  BY <1>3 DEF vars
<1> QED
  BY <1>1, <1>2, <1>3 DEF Next

\* Before any thread has run the invariant holds.
LEMMA InitIInv == Init => IInv
<1> SUFFICES ASSUME Init PROVE IInv
  OBVIOUS
<1>1. Registered = {}
  BY DEF Init, Registered
<1>2. CountInv
  BY <1>1, FS_EmptySet DEF Init, CountInv
<1> QED
  BY <1>2 DEF Init, IInv, TypeOK, PhaseInv, BarrierInv, NoLostWakeup

\* The inductive invariant holds in every reachable state.
THEOREM IInvInvariant == Spec => []IInv
<1>1. IInv /\ [Next]_vars => IInv'
  BY TypeStep, CountStep, PhaseStep, BarrierStep, WakeupStep DEF IInv
<1> QED
  BY InitIInv, <1>1, PTL DEF Spec

\* Push-then-notify never strands a message: whatever the number of cores and
\* however their steps interleave, a living core with a non-empty inbox has a
\* wake-up on its way.
THEOREM WakeupSafety == Spec => []NoLostWakeup
<1>1. IInv => NoLostWakeup
  BY DEF IInv
<1> QED
  BY <1>1, IInvInvariant, PTL

\* The barrier of worker_main does what its comment claims.
THEOREM BarrierSafety == Spec => []RegisteredBeforeMessage
<1>1. IInv => RegisteredBeforeMessage
  <2> SUFFICES ASSUME IInv, NEW c \in Core,
                      channel[c] # <<>> \/ (\E p \in Core : waking[p] = c)
               PROVE  notify_fds[c] # "unset"
    BY DEF RegisteredBeforeMessage
  <2>1. CASE channel[c] # <<>>
    BY <2>1 DEF IInv, BarrierInv
  <2>2. CASE \E p \in Core : waking[p] = c
    BY <2>2, CoreAssumption DEF IInv, BarrierInv
  <2> QED
    BY <2>1, <2>2
<1> QED
  BY <1>1, IInvInvariant, PTL
=============================================================================
