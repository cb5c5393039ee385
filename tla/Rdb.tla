--------------------------------- MODULE Rdb ---------------------------------
(***************************************************************************)
(* Persistence: SAVE, which writes every shard to one file from whatever   *)
(* core the client is connected to, and the load at the start of main().   *)
(* SAVE blocks its own core only.  It visits the slots of shard after      *)
(* shard while the other cores go on serving commands, or run a SAVE of    *)
(* their own into the same file.  A value that another core changes        *)
(* meanwhile is read in a data race, and any value (Junk) may be written   *)
(* for it.                                                                 *)
(*                                                                         *)
(* The file is a sequence of cells, one for each record.  A stream keeps   *)
(* what it has written until it flushes, and flushes to the place where    *)
(* its own records before say it is.                                       *)
(***************************************************************************)
EXTENDS Naturals, FiniteSets, Sequences, SequencesExt

CONSTANTS
    Key,
    Val,        \* key -> the values that clients store under it
    Junk,       \* bytes that need not be a value any client stored
    CoreCounts, \* what hardware_concurrency() may answer at a start
    Owner,      \* get_target_core, for each number of cores
    Slot,       \* the order in which for_each meets the keys of a shard
    Capacity,   \* slots of a shard; that of a deleted key is not used again
    MayExpire,  \* keys that may get a timestamp
    CrashInSave, \* whether the process may be killed during a SAVE
    DiskFull,   \* whether a write may fail
    MaxOps,     \* bound: commands of other cores during one SAVE
    MaxSaves    \* bound: SAVEs

ASSUME CoreAssumption == CoreCounts \subseteq Nat \ {0} /\ CoreCounts # {}
ASSUME OwnerAssumption == \A n \in CoreCounts : Owner[n] \in [Key -> 0 .. n - 1]
ASSUME SlotAssumption == \A k, l \in Key : Slot[k] \in Nat /\ (Slot[k] = Slot[l] => k = l)
ASSUME JunkAssumption == \A k \in Key : Junk \notin Val[k]
ASSUME FaultAssumption == CrashInSave \in BOOLEAN /\ DiskFull \in BOOLEAN
ASSUME BoundAssumption == MaxOps \in Nat /\ MaxSaves \in Nat /\ Capacity \in Nat

VARIABLES
    up,         \* "up", "down", or "aborted": an exception left main()
    cores,      \* n_threads
    data,       \* key -> value, over all shards
    expires,    \* the keys that have a timestamp
    used,       \* core -> slots of its shard that are occupied
    file,       \* data/dump.rdb
    save,       \* core -> its SAVE in progress
    saves,      \* number of SAVEs begun
    acked,      \* for the properties: what the last +OK of SAVE stands for, and
                \* whether nothing has gone wrong with its file
    seen        \* for the properties: keys stored at some time since the SAVE
                \* that was answered last, or one it overlapped with, began

vars == <<up, cores, data, expires, used, file, save, saves, acked, seen>>

With(f, k, v) == [x \in DOMAIN f \cup {k} |-> IF x = k THEN v ELSE f[x]]
Without(f, S) == Restrict(f, DOMAIN f \ S)
Empty == [k \in {} |-> Junk]

\* A record: the magic and version, an EXPIRE_MS opcode with its timestamp, a
\* type byte with key and value, the END_OF_FILE byte.  A cell may also hold an
\* entry that ends in the middle, zero bytes as long as a record that a stream
\* believes it has written, or, up to the end, bytes of no known beginning.
Header == [tag |-> "header"]
Expire == [tag |-> "expire"]
Entry(k, v) == [tag |-> "entry", key |-> k, val |-> v]
Eof == [tag |-> "eof"]
Torn(k) == [tag |-> "torn", key |-> k]
Hole(r) == [tag |-> "hole", of |-> r]
Garbage == [tag |-> "garbage"]

NoSave == [on |-> FALSE, shard |-> 0, ahead |-> {}, out |-> <<>>, flushed |-> 0, bad |-> FALSE,
           touched |-> {}, seen |-> {}, overlap |-> FALSE, fault |-> FALSE, ops |-> 0]

Cores == 0 .. Max(CoreCounts) - 1

Saving == {c \in Cores : save[c].on}

Init ==
    /\ up = "up" /\ cores \in CoreCounts
    /\ data = Empty /\ expires = {}
    /\ used = [c \in Cores |-> 0]
    /\ file = <<>> /\ saves = 0
    /\ save = [c \in Cores |-> NoSave]
    /\ acked = [on |-> FALSE, intact |-> FALSE, cores |-> cores, keys |-> {}, map |-> Empty]
    /\ seen = {}

-----------------------------------------------------------------------------
(* Commands of the other modules, as far as SAVE sees them *)

Home(k) == Owner[cores][k]

\* A core that runs a SAVE runs nothing else.
Serves(k) == up = "up" /\ Home(k) \notin Saving /\ \A c \in Saving : save[c].ops < MaxOps

\* The cores whose SAVE will come to the slot of k.
Awaits(k) == {c \in Saving : k \in save[c].ahead}

\* k is touched, after which the SAVEs of the cores in late have it ahead of them.
Touch(k, late) ==
    save' = [c \in Cores |->
                IF ~save[c].on THEN save[c]
                ELSE [save[c] EXCEPT !.touched = @ \cup {k}, !.ops = @ + 1,
                                     !.ahead = IF c \in late THEN @ \cup {k} ELSE @ \ {k},
                                     !.seen = @ \cup (DOMAIN data' \cap {k})]]

Change(k, v) ==
    /\ Serves(k) /\ k \in DOMAIN data
    /\ data' = With(data, k, v) /\ expires' = expires \ {k}
    /\ Touch(k, Awaits(k))
    /\ UNCHANGED <<up, cores, used, file, saves, acked, seen>>

\* A new key lands in a free slot that for_each has passed, or has not.  Without
\* one put throws, and the worker is gone.
Create(k, v) ==
    /\ Serves(k) /\ k \notin DOMAIN data /\ used[Home(k)] < Capacity
    /\ data' = With(data, k, v) /\ UNCHANGED expires
    /\ used' = [used EXCEPT ![Home(k)] = @ + 1]
    /\ \E late \in SUBSET {c \in Saving : save[c].shard <= Home(k)} : Touch(k, late)
    /\ seen' = seen \cup {k}
    /\ UNCHANGED <<up, cores, file, saves, acked>>

\* Mutant: for_each does not ask whether a slot is deleted.
Delete_visited(k) ==
    /\ Serves(k) /\ k \in DOMAIN data
    /\ data' = Without(data, {k}) /\ expires' = expires \ {k}
    /\ Touch(k, Awaits(k))
    /\ UNCHANGED <<up, cores, used, file, saves, acked, seen>>

Delete(k) ==
    /\ Serves(k) /\ k \in DOMAIN data
    /\ data' = Without(data, {k}) /\ expires' = expires \ {k}
    /\ Touch(k, {})
    /\ UNCHANGED <<up, cores, used, file, saves, acked, seen>>

EXPIRE(k) ==
    /\ Serves(k) /\ k \in DOMAIN data /\ k \in MayExpire
    /\ expires' = expires \cup {k}
    /\ UNCHANGED <<up, cores, data, used, file, saves, acked, seen>>
    /\ Touch(k, Awaits(k))

-----------------------------------------------------------------------------
(* SAVE *)

Unchanged == UNCHANGED <<up, cores, data, expires, used, seen>>

Opened(c) ==
    [[d \in Cores |-> [save[d] EXCEPT !.overlap = save[d].on]] EXCEPT ![c] =
        [NoSave EXCEPT
            !.on = TRUE, !.out = <<Header>>, !.ahead = DOMAIN data,
            !.overlap = Saving # {}, !.fault = \E d \in Saving : save[d].bad,
            !.touched = UNION {save[d].touched : d \in Saving},
            !.seen = DOMAIN data \cup UNION {save[d].seen : d \in Saving}]]

\* Mutant: the file is not truncated.
save_begin_append(c) ==
    /\ up = "up" /\ c < cores /\ ~save[c].on /\ saves < MaxSaves
    /\ save' = Opened(c) /\ saves' = saves + 1
    /\ UNCHANGED <<file, acked>> /\ Unchanged

\* Open the file with trunc and write the header.  (If it cannot be opened
\* nothing changes, and the reply is -ERR failed to save.)
save_begin(c) ==
    /\ up = "up" /\ c < cores /\ ~save[c].on /\ saves < MaxSaves
    /\ file' = <<>>
    /\ save' = Opened(c) /\ saves' = saves + 1
    /\ UNCHANGED acked /\ Unchanged

\* The file after a stream has put the records from + 1 .. Len(out) in their
\* place, which the lengths of its records before determine.  If the cells there
\* hold other records, the new ones begin somewhere inside of a cell.
Written(out, from) ==
    LET differ == {i \in DOMAIN file \cap DOMAIN out : file[i] \notin {out[i], Hole(out[i])}}
        before == {i \in differ : i <= from}
    IN  IF before # {} THEN SubSeq(file, 1, Min(before) - 1) \o <<Garbage>>
        ELSE [i \in 1 .. from |-> IF i <= Len(file) THEN file[i] ELSE Hole(out[i])]
             \o SubSeq(out, from + 1, Len(out))
             \o IF Last(out) = Eof THEN <<>>
                ELSE IF differ # {} THEN <<Garbage>>
                ELSE SubSeq(file, Len(out) + 1, Len(file))

\* The buffer of the stream is full.
flush(c) ==
    /\ save[c].on /\ ~save[c].bad /\ save[c].flushed < Len(save[c].out)
    /\ file' = Written(save[c].out, save[c].flushed)
    /\ save' = [save EXCEPT ![c].flushed = Len(save[c].out)]
    /\ UNCHANGED <<saves, acked>> /\ Unchanged

\* It cannot be flushed.  A stream that has failed once drops every later write;
\* nobody asks it.
disk_full(c) ==
    /\ DiskFull /\ save[c].on /\ ~save[c].bad /\ save[c].flushed < Len(save[c].out)
    /\ save' = [d \in Cores |-> [save[d] EXCEPT !.bad = @ \/ d = c, !.fault = save[d].on]]
    /\ UNCHANGED <<file, saves, acked>> /\ Unchanged

write(c, recs) == IF save[c].bad THEN save[c].out ELSE save[c].out \o recs

\* What the walk over the shards from 0 on, slot by slot, still comes to.
Ahead(c) == {k \in save[c].ahead : save[c].shard <= Home(k)}

Precedes(k, l) == Home(k) < Home(l) \/ (Home(k) = Home(l) /\ Slot[k] <= Slot[l])

\* for_each comes to the slot of k.
InTurn(c, k) == save[c].on /\ k \in Ahead(c) /\ \A l \in Ahead(c) : Precedes(k, l)

Records(c, k) ==
    {(IF k \in expires THEN <<Expire>> ELSE <<>>) \o <<Entry(k, v)>> :
        v \in {data[k]} \cup (IF k \in save[c].touched THEN {Junk} ELSE {})}


save_entry(c, k) ==
    /\ InTurn(c, k)
    /\ \E recs \in Records(c, k) :
        save' = [save EXCEPT ![c].out = write(c, recs), ![c].shard = Home(k),
                             ![c].ahead = @ \ {k}]
    /\ UNCHANGED <<file, saves, acked>> /\ Unchanged

\* Write END_OF_FILE, close the file, which flushes it if the disk has room, and
\* answer +OK.  The keys that no other core touched meanwhile have one value
\* during all of the SAVE.
save_end(c, room) ==
    /\ save[c].on /\ Ahead(c) = {} /\ (room \/ DiskFull)
    /\ file' = IF room THEN Written(write(c, <<Eof>>), save[c].flushed) ELSE file
    /\ save' = [d \in Cores |-> IF d = c THEN NoSave
                                ELSE [save[d] EXCEPT !.fault = save[d].on /\ (@ \/ ~room)]]
    /\ acked' = [on |-> TRUE, cores |-> cores,
                 intact |-> /\ room /\ ~save[c].fault /\ Expire \notin ToSet(save[c].out)
                            /\ save[c].overlap => save[c].touched = {},
                 keys |-> Key \ save[c].touched, map |-> Without(data, save[c].touched)]
    /\ seen' = save[c].seen
    /\ UNCHANGED <<up, cores, data, expires, used, saves>>

-----------------------------------------------------------------------------
(* The end of the process and its next start *)

\* The last entry of a stream is cut short, at the end of the file or over bytes
\* of another stream.
Half(out) == [out EXCEPT ![Len(out)] = IF Len(out) <= Len(file) THEN Garbage ELSE Torn(@.key)]

\* What the streams have not flushed is lost; of one of them part of an entry
\* may have been on its way.
crash ==
    /\ up = "up" /\ (Saving # {} => CrashInSave)
    /\ up' = "down"
    /\ data' = Empty /\ expires' = {}
    /\ used' = [c \in Cores |-> 0] /\ save' = [c \in Cores |-> NoSave]
    /\ \/ UNCHANGED file
       \/ \E c \in Saving :
            /\ save[c].flushed < Len(save[c].out) /\ Last(save[c].out).tag = "entry"
            /\ file' = Written(Half(save[c].out), save[c].flushed)
    /\ acked' = [acked EXCEPT !.intact = @ /\ Saving = {}]
    /\ UNCHANGED <<cores, saves, seen>>

\* How far the loop of load() comes: it leaves at END_OF_FILE, at the end of
\* the file, after half an entry, and at an EXPIRE_MS record.  There it has
\* taken the timestamp for a key before it looks at the opcode: the length it
\* reads, the low 32 bits of the timestamp, is taken to be more than the rest
\* of the file, so that the reads that follow fail, the opcode stays EXPIRE_MS
\* and the inner switch returns false.
Stop ==
    LET ends == {i \in 2 .. Len(file) : file[i].tag # "entry"}
    IN  IF ends = {} THEN Len(file) + 1 ELSE Min(ends)

\* The tag of the cell that ends the loop.
StopsAt == IF Stop > Len(file) THEN "eof" ELSE file[Stop].tag

HasHeader == file # <<>> /\ file[1] = Header

\* Later entries of a key replace earlier ones.
Loaded ==
    LET At(k) == {i \in 2 .. Stop - 1 : file[i].key = k}
    IN  [k \in {file[i].key : i \in 2 .. Stop - 1} |-> file[Max(At(k))].val]

\* What may be in the shards when load() is done.  Half an entry is stored with
\* what the failed reads left, under its own key or under one cut short; bytes
\* that are no record may be read as any entries.
load ==
    IF ~HasHeader THEN {Empty}
    ELSE CASE StopsAt = "torn" -> {Loaded, With(Loaded, file[Stop].key, Junk)}
           [] StopsAt \in {"hole", "garbage"} ->
                {[k \in DOMAIN Loaded \cup S |-> IF k \in S THEN Junk ELSE Loaded[k]] : S \in SUBSET Key}
           [] OTHER -> {Loaded}

Slots(f, n) == [c \in Cores |-> Cardinality({k \in DOMAIN f : Owner[n][k] = c})]

Fits(f, n) == \A c \in Cores : Slots(f, n)[c] <= Capacity

\* put() throws, or a length left uninitialized by a failed read asks for more
\* memory than there is: main() catches neither.
boot_aborts(n) ==
    /\ up = "down" /\ HasHeader
    /\ ~Fits(Loaded, n) \/ StopsAt \in {"expire", "torn", "hole", "garbage"}
    /\ up' = "aborted"
    /\ UNCHANGED <<cores, data, expires, used, file, save, saves, acked, seen>>

\* main() goes on whatever load() returned.
boot(n) ==
    /\ up # "up"
    /\ up' = "up" /\ cores' = n
    /\ data' \in {f \in load : Fits(Loaded, n) /\ Fits(f, n)}
    /\ used' = Slots(data', n)
    /\ seen' = seen \cup DOMAIN data'
    /\ UNCHANGED <<expires, file, save, saves, acked>>

Next ==
    \/ \E k \in Key :
        \/ \E v \in Val[k] : Change(k, v) \/ Create(k, v)
        \/ Delete(k) \/ EXPIRE(k)
    \/ \E c \in Cores :
        \/ save_begin(c) \/ flush(c) \/ disk_full(c)
        \/ \E k \in Key : save_entry(c, k)
        \/ \E room \in BOOLEAN : save_end(c, room)
    \/ crash
    \/ \E n \in CoreCounts : boot(n) \/ boot_aborts(n)

Spec == Init /\ [][Next]_vars

-----------------------------------------------------------------------------
(* Properties *)

Stored == UNION {Val[k] : k \in Key}

Partial(S, T) == UNION {[D -> T] : D \in SUBSET S}

\* A timestamp has its key, for_each has only existing keys ahead of it (it asks
\* whether a slot is deleted), and no shard has more slots occupied than it has.
TypeOK ==
    /\ up \in {"up", "down", "aborted"} /\ cores \in CoreCounts
    /\ data \in Partial(Key, Stored \cup {Junk}) /\ expires \subseteq DOMAIN data
    /\ used \in [Cores -> 0 .. Capacity]
    /\ \A c \in Saving : /\ up = "up" /\ save[c].shard < cores
                         /\ save[c].ahead \subseteq DOMAIN data
                         /\ save[c].flushed \in 0 .. Len(save[c].out)
    /\ acked.map \in Partial(acked.keys, Stored \cup {Junk})

\* The process has, under each key that no other core touched during the last
\* SAVE answered with +OK, the value of that time, and none where none was.
Restored ==
    \A k \in acked.keys :
        /\ k \in DOMAIN data' <=> k \in DOMAIN acked.map
        /\ k \in DOMAIN acked.map => data'[k] = acked.map[k]

Boot == \E n \in CoreCounts : boot(n)


\* "ensuring data durability across restarts" (README.md:138), whatever happened.
DurableAcrossRestarts == [][Boot /\ acked.on => Restored]_vars

\* A key that was deleted before the last SAVE answered with +OK and those that
\* overlapped with it began, and not stored since, does not come back at a
\* restart, whatever happened to the file, unless load() gets to bytes that two
\* SAVEs have left of one another's records.
NoResurrection ==
    [][Boot /\ StopsAt \notin {"hole", "garbage"} => DOMAIN data' \subseteq seen]_vars
=============================================================================
