--------------------------- MODULE ConnectionProofs ---------------------------
(***************************************************************************)
(* Proofs about Connection for every length of a reply and every number of *)
(* replies.                                                                *)
(***************************************************************************)
EXTENDS Connection, Integers, TLAPS

\* The last piece that the client has received.
Last(w) == IF w = <<>> THEN <<0, Parts>> ELSE w[Len(w)]

\* A completion of read_op_ or of write_op_ waits in the queue, and no other of it.
ReadDone(q) == \E k \in DOMAIN q : q[k].op = "read"
WriteDone(q) == \E k \in DOMAIN q : q[k].op = "write"
Written(q) == \E k \in DOMAIN q : q[k].op = "write" /\ q[k].res = "written"
OneDone(q) == \A j, k \in DOMAIN q : q[j].op = q[k].op => j = k

\* Each operation is in one place at a time, and nobody writes for a freed
\* connection.
OneWrite ==
    /\ registered => conn = "live"
    /\ reading => ~ ReadDone(cq)
    /\ writing # 0 => ~ WriteDone(cq)
    /\ conn = "live" => /\ is_writing <=> write_queue # <<>>
                        /\ ~ is_writing => writing = 0 /\ ~ WriteDone(cq)

\* write_queue_ holds the last replies submitted, and the wire ends where the
\* front of the queue begins, or has just been written.
NextInLine ==
    /\ conn = "live" =>
        /\ \A k \in DOMAIN write_queue : write_queue[k] = submitted - Len(write_queue) + k
        /\ ~ is_writing => Last(wire)[1] = submitted
        /\ writing # 0 => write_queue # <<>> /\ writing = write_queue[1]
        /\ is_writing /\ Written(cq) => Last(wire)[1] = write_queue[1]
        /\ writing # 0 => Last(wire)[1] + 1 = writing
        /\ ~ short => Last(wire)[2] = Parts
        /\ Last(wire) # Junk

\* The pieces on wire w are in order, h being the history `short' and c the
\* state of the connection.
InOrder(w, h, c) ==
    \A j \in DOMAIN w :
        LET before == IF j = 1 THEN <<0, Parts>> ELSE w[j - 1]
        IN  \/ w[j] = Junk /\ c = "freed"
            \/ w[j] = <<before[1], before[2] + 1>> /\ before # Junk
            \/ w[j] = <<before[1] + 1, 1>> /\ before # Junk /\ (h \/ before[2] = Parts)

\* The inductive invariant.
IInv == TypeOK /\ OneWrite /\ NextInLine /\ InOrder(wire, short, conn)

-----------------------------------------------------------------------------
(* Queues *)

\* The kernel posts a completion.
LEMMA Posted ==
    ASSUME NEW q \in Seq(Completion), NEW x \in Completion, OneDone(q)
    PROVE  /\ Append(q, x) \in Seq(Completion)
           /\ x.op = "read" /\ ~ ReadDone(q)
                => /\ OneDone(Append(q, x))
                   /\ WriteDone(Append(q, x)) <=> WriteDone(q)
                   /\ Written(Append(q, x)) <=> Written(q)
           /\ x.op = "write" /\ ~ WriteDone(q)
                => /\ OneDone(Append(q, x))
                   /\ ReadDone(Append(q, x)) <=> ReadDone(q)
                   /\ Written(Append(q, x)) <=> x.res = "written"
<1> DEFINE n == Len(q) + 1
           t == Append(q, x)
<1>1. /\ t \in Seq(Completion) /\ n \in DOMAIN t /\ t[n] = x /\ n \notin DOMAIN q
      /\ \A k \in DOMAIN q : k \in DOMAIN t /\ t[k] = q[k]
      /\ \A k \in DOMAIN t : k \in DOMAIN q \/ k = n
  OBVIOUS
<1> HIDE DEF n, t
<1>2. (x.op = "read" => x.op # "write") /\ (x.op = "write" => x.op # "read")
  OBVIOUS
<1>3. x.op = "read" /\ ~ ReadDone(q) => OneDone(t)
  BY <1>1 DEF OneDone, ReadDone
<1>4. x.op = "read" => (WriteDone(t) <=> WriteDone(q)) /\ (Written(t) <=> Written(q))
  BY <1>1, <1>2 DEF WriteDone, Written
<1>5. x.op = "write" /\ ~ WriteDone(q) => OneDone(t) /\ (Written(t) <=> x.res = "written")
  BY <1>1 DEF WriteDone, Written, OneDone
<1>6. x.op = "write" => (ReadDone(t) <=> ReadDone(q))
  BY <1>1, <1>2 DEF ReadDone
<1> QED
  BY <1>1, <1>3, <1>4, <1>5, <1>6 DEF t

\* The rest of a sequence.
LEMMA TailOf ==
    ASSUME NEW S, NEW q \in Seq(S), q # <<>>
    PROVE  /\ Tail(q) \in Seq(S) /\ Len(q) \in Nat /\ Len(q) >= 1
           /\ Len(Tail(q)) = Len(q) - 1 /\ (Tail(q) = <<>> <=> Len(q) = 1)
           /\ \A k \in DOMAIN Tail(q) : k \in Nat /\ k + 1 \in DOMAIN q /\ Tail(q)[k] = q[k + 1]
<1>1. Tail(q) \in Seq(S) /\ Len(q) \in Nat /\ Len(q) >= 1
  OBVIOUS
<1>2. Len(Tail(q)) = Len(q) - 1
  OBVIOUS
<1>3. Tail(q) = <<>> <=> Len(Tail(q)) = 0
  <2> DEFINE t == Tail(q)
  <2>1. t \in Seq(S)
    BY <1>1
  <2> HIDE DEF t
  <2>2. t = <<>> <=> Len(t) = 0
    BY <2>1
  <2> QED
    BY <2>2 DEF t
<1>4. \A k \in DOMAIN Tail(q) : k \in Nat /\ k + 1 \in DOMAIN q /\ Tail(q)[k] = q[k + 1]
  OBVIOUS
<1> QED
  BY <1>1, <1>2, <1>3, <1>4

\* The loop takes the completion at the front.
LEMMA Taken ==
    ASSUME NEW q \in Seq(Completion), q # <<>>, OneDone(q)
    PROVE  /\ Tail(q) \in Seq(Completion) /\ OneDone(Tail(q))
           /\ ReadDone(Tail(q)) => ReadDone(q)
           /\ Head(q).op = "read" => /\ ~ ReadDone(Tail(q))
                                     /\ WriteDone(Tail(q)) <=> WriteDone(q)
                                     /\ Written(Tail(q)) <=> Written(q)
           /\ Head(q).op = "write" => ~ WriteDone(Tail(q)) /\ WriteDone(q)
           /\ Head(q).op = "write" /\ Head(q).res = "written" => Written(q)
<1> DEFINE t == Tail(q)
           h == Head(q)
<1>1. /\ t \in Seq(Completion) /\ 1 \in DOMAIN q /\ h = q[1]
      /\ \A k \in DOMAIN t : k + 1 \in DOMAIN q /\ k + 1 # 1 /\ t[k] = q[k + 1] /\ k \in Nat
      /\ \A k \in DOMAIN q : k # 1 => k - 1 \in DOMAIN t /\ t[k - 1] = q[k]
  OBVIOUS
<1> HIDE DEF t, h
<1>2. OneDone(t)
  <2> SUFFICES ASSUME NEW j \in DOMAIN t, NEW k \in DOMAIN t, t[j].op = t[k].op
               PROVE  j = k
    BY DEF OneDone
  <2>1. j + 1 \in DOMAIN q /\ k + 1 \in DOMAIN q /\ q[j + 1].op = q[k + 1].op
    BY <1>1
  <2>2. j + 1 = k + 1
    BY <2>1, Zenon DEF OneDone
  <2>3. j \in Nat /\ k \in Nat
    BY <1>1
  <2> QED
    BY <2>2, <2>3
<1>3. h.op = "read" => (WriteDone(t) <=> WriteDone(q)) /\ (Written(t) <=> Written(q))
  <2>1. (WriteDone(t) => WriteDone(q)) /\ (Written(t) => Written(q))
    BY <1>1 DEF WriteDone, Written
  <2>2. ASSUME h.op = "read", NEW k \in DOMAIN q, q[k].op = "write"
        PROVE  k - 1 \in DOMAIN t /\ t[k - 1] = q[k]
    BY <1>1, <2>2
  <2>3. h.op = "read" => (WriteDone(q) => WriteDone(t)) /\ (Written(q) => Written(t))
    BY <2>2 DEF WriteDone, Written
  <2> QED
    BY <2>1, <2>3
<1>4. h.op = "write" => ~ WriteDone(t) /\ WriteDone(q)
  BY <1>1 DEF WriteDone, OneDone
<1>5. h.op = "write" /\ h.res = "written" => Written(q)
  BY <1>1 DEF Written
<1>6. (ReadDone(t) => ReadDone(q)) /\ (h.op = "read" => ~ ReadDone(t))
  BY <1>1 DEF ReadDone, OneDone
<1> QED
  BY <1>1, <1>2, <1>3, <1>4, <1>5, <1>6 DEF t, h

\* The kernel appends n pieces to the wire.
LEMMA WireGrows ==
    ASSUME NEW u \in Seq(Piece), NEW n \in 1 .. Parts, NEW f \in [1 .. n -> Piece]
    PROVE  /\ u \o f \in Seq(Piece)
           /\ Len(u \o f) = Len(u) + n
           /\ \A j \in 1 .. Len(u) : (u \o f)[j] = u[j]
           /\ \A j \in 1 .. n : (u \o f)[Len(u) + j] = f[j]
<1> USE PartsAssumption
<1>1. f \in Seq(Piece) /\ Len(f) = n
  OBVIOUS
<1> QED
  BY <1>1

-----------------------------------------------------------------------------
(* The invariant is inductive *)

\* Connection::submit_write puts the next number at the end of the queue, and
\* hands it to the kernel if nothing is being written.
LEMMA Submits ==
    ASSUME IInv, conn = "live", submit_write
    PROVE  /\ write_queue' \in Seq(1 .. MaxReplies) /\ writing' \in 0 .. MaxReplies
           /\ submitted' \in 0 .. MaxReplies /\ is_writing' = TRUE
           /\ write_queue' # <<>>
           /\ \A k \in DOMAIN write_queue' : write_queue'[k] = submitted' - Len(write_queue') + k
           /\ is_writing => writing' = writing /\ write_queue'[1] = write_queue[1]
           /\ ~ is_writing => writing' = submitted + 1 /\ write_queue'[1] = submitted + 1
<1>1. /\ submitted' = submitted + 1 /\ submitted < MaxReplies
      /\ write_queue' = Append(write_queue, submitted + 1) /\ is_writing' = TRUE
      /\ writing' = IF is_writing THEN writing ELSE Head(write_queue')
  BY DEF submit_write
<1>2. /\ write_queue \in Seq(1 .. MaxReplies) /\ submitted \in 0 .. MaxReplies
      /\ writing \in 0 .. MaxReplies /\ is_writing \in BOOLEAN
      /\ is_writing <=> write_queue # <<>>
      /\ \A k \in DOMAIN write_queue : write_queue[k] = submitted - Len(write_queue) + k
  BY DEF IInv, TypeOK, OneWrite, NextInLine
<1> USE MaxRepliesAssumption
<1>3. submitted + 1 \in 1 .. MaxReplies
  BY <1>1, <1>2
<1>4. write_queue' \in Seq(1 .. MaxReplies) /\ write_queue' # <<>>
  BY <1>1, <1>2, <1>3
<1>5. ASSUME NEW k \in DOMAIN write_queue'
      PROVE  write_queue'[k] = submitted' - Len(write_queue') + k
  <2>1. Len(write_queue') = Len(write_queue) + 1 /\ Len(write_queue) \in Nat
    BY <1>1, <1>2
  <2>2. CASE k \in DOMAIN write_queue
    <3>1. write_queue'[k] = write_queue[k] /\ k \in Nat
      BY <1>1, <1>2, <1>3, <2>2
    <3> QED
      BY <1>1, <1>2, <2>1, <2>2, <3>1
  <2>3. CASE k = Len(write_queue) + 1
    <3>1. write_queue'[k] = submitted + 1
      BY <1>1, <1>2, <1>3, <2>3
    <3> QED
      BY <1>1, <1>2, <2>1, <2>3, <3>1
  <2>4. k \in DOMAIN write_queue \/ k = Len(write_queue) + 1
    BY <1>1, <1>2, <1>3
  <2> QED
    BY <2>2, <2>3, <2>4
<1>6. CASE is_writing
  <2>1. write_queue'[1] = write_queue[1]
    BY <1>1, <1>2, <1>3, <1>6
  <2> QED
    BY <1>1, <1>2, <1>3, <1>4, <1>5, <1>6, <2>1
<1>7. CASE ~ is_writing
  <2>1. write_queue = <<>>
    BY <1>2, <1>7
  <2>2. Head(write_queue') = submitted + 1 /\ write_queue'[1] = submitted + 1
    BY <1>1, <1>3, <2>1
  <2> QED
    BY <1>1, <1>2, <1>3, <1>4, <1>5, <1>7, <2>2
<1> QED
  BY <1>6, <1>7

\* A reply is submitted, the completions of write_op_ staying as they are.
LEMMA SubmitStep ==
    ASSUME IInv, conn = "live", submit_write, UNCHANGED <<conn, registered, wire, short>>,
           reading' => ~ ReadDone(cq'), WriteDone(cq') <=> WriteDone(cq), Written(cq') <=> Written(cq)
    PROVE  OneWrite' /\ NextInLine' /\ InOrder(wire, short, conn)'
<1>1. /\ write_queue' # <<>> /\ is_writing' = TRUE /\ submitted \in 0 .. MaxReplies
      /\ \A k \in DOMAIN write_queue' : write_queue'[k] = submitted' - Len(write_queue') + k
      /\ is_writing => writing' = writing /\ write_queue'[1] = write_queue[1]
      /\ ~ is_writing => writing' = submitted + 1 /\ write_queue'[1] = submitted + 1
  BY Submits DEF IInv, TypeOK
<1>2. /\ OneWrite /\ NextInLine /\ is_writing \in BOOLEAN
      /\ Written(cq) => WriteDone(cq)
  BY DEF IInv, TypeOK, Written, WriteDone
<1>3. OneWrite'
  BY <1>1, <1>2 DEF OneWrite
<1>4. NextInLine'
  <2>1. Last(wire') = Last(wire)
    BY DEF Last
  <2>2. CASE is_writing
    BY <1>1, <1>2, <2>1, <2>2 DEF NextInLine
  <2>3. CASE ~ is_writing
    <3>1. /\ Last(wire)[1] = submitted /\ ~ Written(cq) /\ writing' = submitted + 1
          /\ write_queue'[1] = submitted + 1
      BY <1>1, <1>2, <2>3 DEF OneWrite, NextInLine
    <3> QED
      BY <1>1, <1>2, <2>1, <2>3, <3>1 DEF NextInLine
  <2> QED
    BY <2>2, <2>3
<1> QED
  BY <1>3, <1>4 DEF IInv, InOrder

\* The kernel has taken the first n pieces of reply writing.
LEMMA LiveWriteStep ==
    ASSUME IInv, NEW n \in 1 .. Parts, kernel_write(n), conn = "live"
    PROVE  IInv'
<1> USE PartsAssumption, MaxRepliesAssumption
<1> DEFINE c == [op |-> "write", res |-> "written"]
           f == [p \in 1 .. n |-> <<writing, p>>]
<1>1. /\ writing # 0 /\ writing' = 0 /\ short' = (short \/ n < Parts)
      /\ wire' = wire \o f /\ cq' = Append(cq, c)
      /\ UNCHANGED <<conn, registered, write_queue, is_writing, reading, dangling, submitted>>
  BY DEF kernel_write
<1>2. c \in Completion /\ c.op = "write" /\ c.res = "written"
  BY DEF Completion
<1> HIDE DEF c, f
<1>0. (short => short') /\ (~ short' => ~ short /\ n = Parts)
  <2>1. ~ (n < Parts) => n = Parts
    OBVIOUS
  <2> QED
    BY <1>1, <2>1, Zenon
<1>3. /\ cq \in Seq(Completion) /\ wire \in Seq(Piece) /\ OneDone(cq)
      /\ writing \in 1 .. MaxReplies /\ short \in BOOLEAN /\ ~ WriteDone(cq)
      /\ Last(wire)[1] + 1 = writing /\ (~ short => Last(wire)[2] = Parts)
      /\ Last(wire) # Junk /\ (reading => ~ ReadDone(cq))
  BY <1>1 DEF IInv, TypeOK, OneWrite, NextInLine, OneDone
<1>4. cq' \in Seq(Completion) /\ OneDone(cq') /\ Written(cq') /\ (ReadDone(cq') <=> ReadDone(cq))
  BY <1>1, <1>2, <1>3, Posted
<1>5. /\ wire' \in Seq(Piece)
      /\ Len(wire') = Len(wire) + n /\ Len(wire) \in Nat
      /\ \A j \in 1 .. Len(wire) : wire'[j] = wire[j]
      /\ \A j \in 1 .. n : wire'[Len(wire) + j] = <<writing, j>>
  <2>1. f \in [1 .. n -> Piece] /\ \A j \in 1 .. n : f[j] = <<writing, j>>
    BY <1>3 DEF f, Piece
  <2>2. /\ wire \o f \in Seq(Piece)
        /\ Len(wire \o f) = Len(wire) + n
        /\ \A j \in 1 .. Len(wire) : (wire \o f)[j] = wire[j]
        /\ \A j \in 1 .. n : (wire \o f)[Len(wire) + j] = f[j]
    BY <1>3, <2>1, WireGrows, Zenon
  <2>3. Len(wire) \in Nat
    BY <1>3
  <2> QED
    BY <1>1, <2>1, <2>2, <2>3
<1>6. Last(wire') = <<writing, n>>
  <2>1. wire' # <<>> /\ wire'[Len(wire) + n] = <<writing, n>>
    BY <1>5
  <2> QED
    BY <1>5, <2>1 DEF Last
<1>7. TypeOK'
  <2>1. short' \in BOOLEAN /\ writing' \in 0 .. MaxReplies
    BY <1>1, <1>3
  <2> QED
    BY <1>1, <1>4, <1>5, <2>1 DEF IInv, TypeOK, OneDone
<1>8. OneWrite'
  BY <1>1, <1>3, <1>4 DEF IInv, OneWrite
<1>9. NextInLine'
  <2>1. conn = "live" => is_writing /\ writing = write_queue[1]
    BY <1>1 DEF IInv, OneWrite, NextInLine
  <2>3. Last(wire')[1] = writing /\ Last(wire')[2] = n
    BY <1>6
  <2>4. Last(wire') # Junk
    BY <1>6 DEF Junk
  <2> QED
    BY <1>0, <1>1, <2>1, <2>3, <2>4 DEF IInv, NextInLine
<1>10. InOrder(wire', short', conn')
  <2> DEFINE L == Len(wire)
  <2>1. /\ L \in Nat /\ n \in Nat /\ DOMAIN wire' = 1 .. (L + n) /\ DOMAIN wire = 1 .. L
        /\ \A j \in 1 .. L : wire'[j] = wire[j]
        /\ \A j \in 1 .. n : wire'[L + j] = <<writing, j>>
        /\ Last(wire) = IF L = 0 THEN <<0, Parts>> ELSE wire[L]
    <3>1. DOMAIN wire' = 1 .. Len(wire') /\ DOMAIN wire = 1 .. Len(wire) /\ (wire = <<>> <=> L = 0)
      BY <1>3, <1>5
    <3>2. Last(wire) = IF L = 0 THEN <<0, Parts>> ELSE wire[L]
      BY <3>1, Zenon DEF Last
    <3>3. L \in Nat /\ n \in Nat /\ 1 .. Len(wire') = 1 .. (L + n)
      BY <1>5
    <3> QED
      BY <1>5, <3>1, <3>2, <3>3, Zenon
  <2> HIDE DEF L
  <2> SUFFICES ASSUME NEW j \in 1 .. (L + n)
               PROVE  LET before == IF j = 1 THEN <<0, Parts>> ELSE wire'[j - 1]
                      IN  \/ wire'[j] = <<before[1], before[2] + 1>> /\ before # Junk
                          \/ /\ wire'[j] = <<before[1] + 1, 1>> /\ before # Junk
                             /\ short' \/ before[2] = Parts
    BY <2>1 DEF InOrder
  <2>2. CASE j \in 1 .. L
    <3>1. j # 1 => j - 1 \in 1 .. L
      BY <2>1, <2>2
    <3>2. wire'[j] = wire[j] /\ (j # 1 => wire'[j - 1] = wire[j - 1])
      BY <2>1, <2>2, <3>1
    <3> QED
      BY <1>0, <2>1, <2>2, <3>2 DEF IInv, InOrder
  <2>3. CASE j = L + 1
    <3>1. wire'[j] = <<writing, 1>>
      BY <2>1, <2>3
    <3>2. j - 1 = L /\ (j = 1 <=> L = 0) /\ (j # 1 => L \in 1 .. L)
      BY <2>1, <2>3
    <3>3. (IF j = 1 THEN <<0, Parts>> ELSE wire'[j - 1]) = Last(wire)
      BY <2>1, <3>2
    <3>4. short' \/ Last(wire)[2] = Parts
      BY <1>0, <1>3
    <3> QED
      BY <1>3, <3>1, <3>3, <3>4
  <2>4. CASE j > L + 1
    <3>1. PICK k \in 1 .. n : k - 1 \in 1 .. n /\ j = L + k /\ j - 1 = L + (k - 1) /\ j # 1
      <4>1. j - L \in 1 .. n /\ j - L - 1 \in 1 .. n
        BY <2>1, <2>4
      <4> QED
        BY <2>1, <2>4, <4>1
    <3>2. wire'[j] = <<writing, k>> /\ wire'[j - 1] = <<writing, k - 1>>
      BY <2>1, <3>1
    <3>3. k - 1 + 1 = k /\ <<writing, k - 1>> # Junk
      BY <3>1 DEF Junk
    <3> QED
      BY <3>1, <3>2, <3>3
  <2> QED
    BY <2>1, <2>2, <2>3, <2>4
<1> QED
  BY <1>7, <1>8, <1>9, <1>10 DEF IInv, InOrder

\* The kernel has written from a buffer that was freed.
LEMMA FreedWriteStep ==
    ASSUME IInv, NEW n \in 1 .. Parts, kernel_write(n), conn # "live"
    PROVE  IInv'
<1> USE PartsAssumption, MaxRepliesAssumption
<1> DEFINE c == [op |-> "write", res |-> "written"]
           f == [p \in 1 .. n |-> Junk]
<1>1. /\ writing # 0 /\ writing' = 0 /\ short' = (short \/ n < Parts)
      /\ wire' = wire \o f /\ cq' = Append(cq, c) /\ conn = "freed"
      /\ UNCHANGED <<conn, registered, write_queue, is_writing, reading, dangling, submitted>>
  BY DEF kernel_write, IInv, TypeOK
<1>2. c \in Completion /\ c.op = "write"
  BY DEF Completion
<1> HIDE DEF c
<1>3. /\ cq \in Seq(Completion) /\ wire \in Seq(Piece) /\ OneDone(cq) /\ ~ WriteDone(cq)
      /\ reading => ~ ReadDone(cq)
  BY <1>1 DEF IInv, TypeOK, OneWrite, OneDone
<1>4. cq' \in Seq(Completion) /\ OneDone(cq') /\ (ReadDone(cq') <=> ReadDone(cq))
  BY <1>1, <1>2, <1>3, Posted
<1>5. f \in [1 .. n -> Piece] /\ \A j \in 1 .. n : f[j] = Junk
  BY DEF Piece
<1> HIDE DEF f
<1>6. /\ wire' \in Seq(Piece) /\ Len(wire') = Len(wire) + n
      /\ \A j \in 1 .. Len(wire) : wire'[j] = wire[j]
      /\ \A j \in 1 .. n : wire'[Len(wire) + j] = Junk
  <2>1. /\ wire \o f \in Seq(Piece)
        /\ Len(wire \o f) = Len(wire) + n
        /\ \A j \in 1 .. Len(wire) : (wire \o f)[j] = wire[j]
        /\ \A j \in 1 .. n : (wire \o f)[Len(wire) + j] = f[j]
    BY <1>3, <1>5, WireGrows, Zenon
  <2> QED
    BY <1>1, <1>5, <2>1
<1>7. TypeOK'
  <2>1. short' \in BOOLEAN /\ writing' \in 0 .. MaxReplies
    BY <1>1
  <2> QED
    BY <1>1, <1>4, <1>6, <2>1 DEF IInv, TypeOK, OneDone
<1>8. OneWrite'
  BY <1>1, <1>3, <1>4 DEF IInv, OneWrite
<1>9. NextInLine'
  BY <1>1 DEF NextInLine
<1>10. InOrder(wire', short', conn')
  <2> DEFINE L == Len(wire)
  <2>1. /\ L \in Nat /\ n \in Nat /\ DOMAIN wire' = 1 .. (L + n) /\ DOMAIN wire = 1 .. L
        /\ \A j \in 1 .. L : wire'[j] = wire[j]
        /\ \A j \in 1 .. n : wire'[L + j] = Junk
    BY <1>3, <1>6
  <2> HIDE DEF L
  <2>2. ASSUME NEW j \in 1 .. (L + n), j \notin 1 .. L
        PROVE  wire'[j] = Junk
    <3>1. j - L \in 1 .. n /\ L + (j - L) = j
      BY <2>1, <2>2
    <3> QED
      BY <2>1, <3>1
  <2>3. ASSUME NEW j \in 1 .. L
        PROVE  wire'[j] = wire[j] /\ (j # 1 => wire'[j - 1] = wire[j - 1])
    <3>1. j # 1 => j - 1 \in 1 .. L
      BY <2>1
    <3> QED
      BY <2>1, <3>1
  <2>4. short => short'
    BY <1>1, Zenon
  <2> QED
    BY <1>1, <2>1, <2>2, <2>3, <2>4 DEF IInv, InOrder
<1> QED
  BY <1>7, <1>8, <1>9, <1>10 DEF IInv, InOrder

\* The write in the kernel fails.
LEMMA WriteErrorStep ==
    ASSUME IInv, kernel_write_error
    PROVE  IInv'
<1> USE MaxRepliesAssumption
<1> DEFINE c == [op |-> "write", res |-> "error"]
<1>1. /\ writing # 0 /\ writing' = 0 /\ cq' = Append(cq, c)
      /\ UNCHANGED <<conn, registered, write_queue, is_writing, reading, dangling, submitted,
                     wire, short>>
  BY DEF kernel_write_error
<1>2. c \in Completion /\ c.op = "write" /\ c.res # "written"
  BY DEF Completion
<1> HIDE DEF c
<1>3. cq \in Seq(Completion) /\ ~ WriteDone(cq) /\ OneDone(cq)
  BY <1>1 DEF IInv, TypeOK, OneWrite, OneDone
<1>4. /\ cq' \in Seq(Completion) /\ OneDone(cq') /\ ~ Written(cq')
      /\ ReadDone(cq') <=> ReadDone(cq)
  BY <1>1, <1>2, <1>3, Posted
<1>5. TypeOK'
  BY <1>1, <1>4 DEF IInv, TypeOK, OneDone
<1>6. OneWrite'
  BY <1>1, <1>4 DEF IInv, OneWrite, NextInLine
<1>7. NextInLine'
  <2>1. conn = "live" => is_writing
    BY <1>1 DEF IInv, OneWrite
  <2> QED
    BY <1>1, <1>4, <2>1 DEF IInv, NextInLine, Last
<1> QED
  BY <1>1, <1>5, <1>6, <1>7 DEF IInv, InOrder

\* A read completes.
LEMMA ReadStep ==
    ASSUME IInv, NEW res \in {"data", "closed"}, kernel_read(res)
    PROVE  IInv'
<1> DEFINE c == [op |-> "read", res |-> res]
<1>1. /\ reading /\ reading' = FALSE /\ cq' = Append(cq, c)
      /\ UNCHANGED <<conn, registered, write_queue, is_writing, writing, dangling, submitted,
                     wire, short>>
  BY DEF kernel_read
<1>2. c \in Completion /\ c.op = "read"
  BY DEF Completion
<1> HIDE DEF c
<1>3. cq \in Seq(Completion) /\ OneDone(cq) /\ ~ ReadDone(cq)
  BY <1>1 DEF IInv, TypeOK, OneWrite, OneDone
<1>4. /\ cq' \in Seq(Completion) /\ OneDone(cq')
      /\ WriteDone(cq') <=> WriteDone(cq)
      /\ Written(cq') <=> Written(cq)
  BY <1>1, <1>2, <1>3, Posted
<1>5. TypeOK'
  BY <1>1, <1>4 DEF IInv, TypeOK, OneDone
<1> QED
  BY <1>1, <1>4, <1>5 DEF IInv, OneWrite, NextInLine, InOrder, Last

\* What the loop leaves in the queue when it dispatches a completion.
LEMMA Dispatched ==
    ASSUME IInv, NEW op, NEW res, Dispatch(op, res)
    PROVE  /\ conn = "live" /\ cq' \in Seq(Completion) /\ OneDone(cq')
           /\ ReadDone(cq') => ReadDone(cq)
           /\ op = "read" => /\ ~ ReadDone(cq')
                             /\ WriteDone(cq') <=> WriteDone(cq)
                             /\ Written(cq') <=> Written(cq)
           /\ op = "write" => ~ WriteDone(cq') /\ ~ Written(cq') /\ WriteDone(cq)
           /\ op = "write" /\ res = "written" => Written(cq)
<1>1. /\ cq # <<>> /\ conn = "live" /\ cq' = Tail(cq)
      /\ Head(cq).op = op /\ Head(cq).res = res
  BY DEF Dispatch
<1>2. cq \in Seq(Completion) /\ OneDone(cq)
  BY DEF IInv, TypeOK, OneDone
<1>3. Written(cq') => WriteDone(cq')
  BY DEF Written, WriteDone
<1> QED
  BY <1>1, <1>2, <1>3, Taken

\* handle_read, with or without a reply.
LEMMA HandleReadStep ==
    ASSUME IInv, handle_read
    PROVE  IInv'
<1>1. /\ conn = "live" /\ cq' \in Seq(Completion) /\ OneDone(cq')
      /\ ~ ReadDone(cq')
      /\ WriteDone(cq') <=> WriteDone(cq)
      /\ Written(cq') <=> Written(cq)
  BY Dispatched DEF handle_read
<1>2. reading' = TRUE /\ UNCHANGED <<conn, registered, dangling, wire, short>>
  BY DEF handle_read
<1>3. CASE submit_write
  <2>1. OneWrite' /\ NextInLine' /\ InOrder(wire, short, conn)'
    BY <1>1, <1>2, <1>3, SubmitStep
  <2>2. TypeOK'
    BY <1>1, <1>2, <1>3, Submits DEF IInv, TypeOK, OneDone
  <2> QED
    BY <2>1, <2>2 DEF IInv
<1>4. CASE UNCHANGED <<write_queue, is_writing, writing, submitted>>
  <2>1. TypeOK'
    BY <1>1, <1>2, <1>4 DEF IInv, TypeOK, OneDone
  <2> QED
    BY <1>1, <1>2, <1>4, <2>1 DEF IInv, OneWrite, NextInLine, InOrder, Last
<1> QED
  BY <1>3, <1>4 DEF handle_read

\* A reply of another core.
LEMMA HandleResponseStep ==
    ASSUME IInv, handle_response
    PROVE  IInv'
<1>1. /\ conn = "live" /\ submit_write
      /\ UNCHANGED <<conn, registered, reading, cq, dangling, wire, short>>
  BY DEF handle_response, IInv, OneWrite
<1>2. (reading' => ~ ReadDone(cq')) /\ (WriteDone(cq') <=> WriteDone(cq)) /\ (Written(cq') <=> Written(cq))
  BY <1>1 DEF IInv, OneWrite
<1>3. OneWrite' /\ NextInLine' /\ InOrder(wire, short, conn)'
  BY <1>1, <1>2, SubmitStep
<1>4. TypeOK'
  BY <1>1, Submits DEF IInv, TypeOK
<1> QED
  BY <1>3, <1>4 DEF IInv

\* The connection is deleted: what was in the kernel stays there.
LEMMA DeleteStep ==
    ASSUME IInv, NEW op, NEW res, Dispatch(op, res), delete_this, op \in {"read", "write"}
    PROVE  IInv'
<1>1. /\ conn' = "freed" /\ registered' = FALSE /\ write_queue' = <<>>
      /\ UNCHANGED <<is_writing, reading, writing, dangling, submitted, wire, short>>
  BY DEF delete_this
<1>2. /\ cq' \in Seq(Completion) /\ OneDone(cq') /\ (WriteDone(cq') => WriteDone(cq))
      /\ ReadDone(cq') => ReadDone(cq)
  BY Dispatched
<1>3. TypeOK'
  <2>1. write_queue' \in Seq(1 .. MaxReplies)
    BY <1>1
  <2> QED
    BY <1>1, <1>2, <2>1 DEF IInv, TypeOK, OneDone
<1>4. OneWrite'
  BY <1>1, <1>2 DEF IInv, OneWrite
<1>5. NextInLine'
  BY <1>1 DEF NextInLine
<1> QED
  BY <1>1, <1>3, <1>4, <1>5 DEF IInv, InOrder

\* handle_write drops the reply that was written and starts the next one.
LEMMA HandleWriteStep ==
    ASSUME IInv, handle_write
    PROVE  IInv'
<1> USE MaxRepliesAssumption
<1>1. /\ conn = "live" /\ cq' \in Seq(Completion) /\ OneDone(cq')
      /\ ~ WriteDone(cq') /\ ~ Written(cq') /\ WriteDone(cq) /\ Written(cq)
      /\ ReadDone(cq') => ReadDone(cq)
  BY Dispatched DEF handle_write
<1>2. /\ write_queue' = IF write_queue # <<>> THEN Tail(write_queue) ELSE write_queue
      /\ IF write_queue' # <<>>
         THEN writing' = Head(write_queue') /\ UNCHANGED is_writing
         ELSE is_writing' = FALSE /\ UNCHANGED writing
      /\ UNCHANGED <<conn, registered, reading, dangling, submitted, wire, short>>
  BY DEF handle_write
<1>3. /\ write_queue \in Seq(1 .. MaxReplies) /\ submitted \in 0 .. MaxReplies
      /\ is_writing = TRUE /\ writing = 0 /\ write_queue # <<>>
      /\ \A k \in DOMAIN write_queue : write_queue[k] = submitted - Len(write_queue) + k
      /\ Last(wire)[1] = write_queue[1]
      /\ (~ short => Last(wire)[2] = Parts) /\ Last(wire) # Junk
  BY <1>1 DEF IInv, TypeOK, OneWrite, NextInLine
<1>4. write_queue' = Tail(write_queue)
  BY <1>2, <1>3
<1> DEFINE q == write_queue
           t == Tail(write_queue)
           m == Len(write_queue)
<1>5. /\ m \in Nat /\ m >= 1 /\ q[1] = submitted - m + 1 /\ t \in Seq(1 .. MaxReplies)
      /\ Len(t) = m - 1 /\ (t = <<>> <=> m = 1)
      /\ \A k \in DOMAIN t : k \in Nat /\ t[k] = submitted - m + (k + 1)
  <2>1. m \in Nat /\ m >= 1 /\ t \in Seq(1 .. MaxReplies) /\ Len(t) = m - 1 /\ (t = <<>> <=> m = 1)
    BY <1>3, TailOf
  <2>2. \A k \in DOMAIN t : k \in Nat /\ k + 1 \in DOMAIN q /\ t[k] = q[k + 1]
    BY <1>3, TailOf
  <2>3. 1 \in DOMAIN q
    BY <1>3
  <2> HIDE DEF t
  <2> QED
    BY <1>3, <2>1, <2>2, <2>3
<1>6. Last(wire') = Last(wire)
  BY <1>2 DEF Last
<1>7. CASE t = <<>>
  <2>1. is_writing' = FALSE /\ writing' = 0 /\ write_queue' = <<>>
    BY <1>2, <1>3, <1>4, <1>7
  <2>2. Last(wire)[1] = submitted
    BY <1>3, <1>5, <1>7
  <2>3. TypeOK'
    BY <1>1, <1>2, <1>5, <2>1 DEF IInv, TypeOK, OneDone
  <2>4. OneWrite'
    BY <1>1, <1>2, <2>1 DEF IInv, OneWrite
  <2>5. NextInLine'
    BY <1>2, <1>3, <1>6, <2>1, <2>2 DEF NextInLine
  <2> QED
    BY <1>2, <2>3, <2>4, <2>5 DEF IInv, InOrder
<1>8. CASE t # <<>>
  <2>1. 1 \in DOMAIN t /\ Head(t) = t[1]
    BY <1>5, <1>8
  <2>2. is_writing' = TRUE /\ writing' = t[1] /\ write_queue' = t
    BY <1>2, <1>3, <1>4, <1>8, <2>1
  <2> HIDE DEF t
  <2>0. writing' \in 0 .. MaxReplies
    <3>1. t[1] \in 1 .. MaxReplies
      BY <1>5, <2>1
    <3> QED
      BY <2>2, <3>1
  <2>3. Last(wire)[1] + 1 = t[1]
    BY <1>3, <1>5, <2>1
  <2>4. \A k \in DOMAIN t : t[k] = submitted - Len(t) + k
    BY <1>3, <1>5
  <2>5. TypeOK'
    BY <1>1, <1>2, <1>5, <2>2, <2>0 DEF IInv, TypeOK, OneDone
  <2>6. OneWrite'
    BY <1>1, <1>2, <1>8, <2>2 DEF IInv, OneWrite
  <2>7. NextInLine'
    BY <1>1, <1>2, <1>3, <1>6, <1>8, <2>2, <2>3, <2>4 DEF NextInLine
  <2> QED
    BY <1>2, <2>5, <2>6, <2>7 DEF IInv, InOrder
<1> QED
  BY <1>7, <1>8

\* Every step keeps the invariant.
LEMMA IInvStep == IInv /\ [Next]_vars => IInv'
<1> SUFFICES ASSUME IInv, [Next]_vars
             PROVE  IInv'
  OBVIOUS
<1>1. CASE \E res \in {"data", "closed"} : kernel_read(res)
  BY <1>1, ReadStep
<1>2. CASE \E n \in 1 .. Parts : kernel_write(n)
  BY <1>2, LiveWriteStep, FreedWriteStep
<1>3. CASE kernel_write_error
  BY <1>3, WriteErrorStep
<1>4. CASE handle_read
  BY <1>4, HandleReadStep
<1>5. CASE handle_read_closed
  BY <1>5, DeleteStep DEF handle_read_closed
<1>6. CASE handle_write
  BY <1>6, HandleWriteStep
<1>7. CASE handle_write_error
  BY <1>7, DeleteStep DEF handle_write_error
<1>8. CASE handle_response
  BY <1>8, HandleResponseStep
<1>9. CASE dispatch_freed
  BY <1>9 DEF dispatch_freed, IInv, TypeOK, OneWrite, NextInLine, InOrder, Last
<1>10. CASE UNCHANGED vars
  BY <1>10 DEF vars, IInv, TypeOK, OneWrite, NextInLine, InOrder, Last
<1> QED
  BY <1>1, <1>2, <1>3, <1>4, <1>5, <1>6, <1>7, <1>8, <1>9, <1>10 DEF Next

\* A connection that was just accepted satisfies the invariant.
LEMMA InitIInv == Init => IInv
<1> SUFFICES ASSUME Init
             PROVE  IInv
  OBVIOUS
<1> USE MaxRepliesAssumption, PartsAssumption
<1>1. TypeOK
  <2>1. /\ write_queue \in Seq(1 .. MaxReplies) /\ cq \in Seq(Completion)
        /\ wire \in Seq(Piece) /\ DOMAIN cq = {}
    BY DEF Init
  <2>2. 0 \in 0 .. MaxReplies
    OBVIOUS
  <2> QED
    BY <2>1, <2>2 DEF Init, TypeOK
<1>2. /\ ~ ReadDone(cq) /\ ~ WriteDone(cq) /\ ~ Written(cq)
      /\ Last(wire) = <<0, Parts>> /\ Last(wire) # Junk
  BY DEF Init, ReadDone, WriteDone, Written, Last, Junk
<1>3. OneWrite
  BY <1>2 DEF Init, OneWrite
<1>4. NextInLine
  BY <1>2 DEF Init, NextInLine
<1>5. InOrder(wire, short, conn)
  BY DEF Init, InOrder
<1> QED
  BY <1>1, <1>3, <1>4, <1>5 DEF IInv

-----------------------------------------------------------------------------
(* Theorems *)

\* The inductive invariant of a connection.
THEOREM IInvInvariant == Spec => []IInv
<1>1. Init => IInv
  BY InitIInv
<1>2. IInv /\ [Next]_vars => IInv'
  BY IInvStep
<1> QED
  BY <1>1, <1>2, PTL DEF Spec

\* The fields of the Connection, its operations and its completions keep their
\* types through every read, write, reply and end of the connection.
THEOREM TypeCorrect == Spec => []TypeOK
<1>1. IInv => TypeOK
  BY DEF IInv
<1> QED
  BY <1>1, IInvInvariant, PTL

\* However long a reply is, however the kernel cuts its writes and whatever
\* core a reply comes from, write_queue_ and is_writing_ put the replies on the
\* wire in the order of submit_write, each from its first piece on, and
\* write_op_ writes from the front of the queue.
THEOREM RepliesInOrder == Spec => []WholeRepliesInOrder
<1>1. IInv => WholeRepliesInOrder
  <2> SUFFICES ASSUME IInv
               PROVE  WholeRepliesInOrder
    OBVIOUS
  <2>1. conn = "live" /\ writing # 0 => write_queue # <<>> /\ writing = Head(write_queue)
    <3>1. write_queue # <<>> => Head(write_queue) = write_queue[1]
      BY DEF IInv, TypeOK
    <3> QED
      BY <3>1 DEF IInv, NextInLine
  <2> QED
    BY <2>1 DEF IInv, InOrder, WholeRepliesInOrder
<1> QED
  BY <1>1, IInvInvariant, PTL
=============================================================================
