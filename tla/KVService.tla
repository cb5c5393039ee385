------------------------------ MODULE KVService ------------------------------
(***************************************************************************)
(* What the server promises to clients that wait for each reply before     *)
(* they send the next command: one map for all cores, every command takes  *)
(* effect at most once, at one instant between the moment it is sent and   *)
(* the moment its reply arrives, and the reply is the one of that instant  *)
(* (linearizability).  A command may be lost, with its connection or with  *)
(* a core, and one that is answered "unknown command" has no effect.       *)
(***************************************************************************)
EXTENDS StringCommands

CONSTANTS
    Client,
    Number,    \* the commands of a client are numbered
    Workload   \* the commands that clients send

VARIABLES
    dict,   \* the map
    pend,   \* pend[i]: the command of client i that has not taken effect
    res,    \* res[i]: its reply, once it has
    got     \* got[i]: the last reply client i has received

vars == <<dict, pend, res, got>>

Init ==
    /\ dict = [k \in Key |-> Absent]
    /\ pend = [i \in Client |-> {}]
    /\ res = [i \in Client |-> {}]
    /\ got = [i \in Client |-> [req |-> Absent, reply |-> Unknown]]

Invoke(i) ==
    /\ pend[i] = {} /\ res[i] = {}
    /\ pend' \in {[pend EXCEPT ![i] = {[req |-> <<i, n>>, cmd |-> cmd]}]
                  : n \in Number, cmd \in Workload}
    /\ UNCHANGED <<dict, res, got>>

Apply(i) ==
    \E p \in pend[i] :
        /\ dict' = Effect(dict, p.cmd, p.req)
        /\ res' = [res EXCEPT ![i] = {[req |-> p.req, reply |-> Answer(dict, p.cmd)]}]
        /\ pend' = [pend EXCEPT ![i] = {}]
        /\ UNCHANGED got

Reject(i) ==
    \E p \in pend[i] :
        /\ res' = [res EXCEPT ![i] = {[req |-> p.req, reply |-> Unknown]}]
        /\ pend' = [pend EXCEPT ![i] = {}]
        /\ UNCHANGED <<dict, got>>

Return(i) ==
    \E r \in res[i] :
        /\ got' = [got EXCEPT ![i] = r]
        /\ res' = [res EXCEPT ![i] = {}]
        /\ UNCHANGED <<dict, pend>>

\* A core that fails loses what it holds for several clients at once.
Lose ==
    /\ UNCHANGED <<dict, got>>
    /\ <<pend', res'>> \in {<<[i \in Client |-> IF i \in S THEN {} ELSE pend[i]],
                             [i \in Client |-> IF i \in S THEN {} ELSE res[i]]>>
                            : S \in SUBSET Client}

Next ==
    \/ Lose
    \/ \E i \in Client : Invoke(i) \/ Apply(i) \/ Reject(i) \/ Return(i)

Spec == Init /\ [][Next]_vars
=============================================================================
