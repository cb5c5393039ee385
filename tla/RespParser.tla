------------------------------ MODULE RespParser ------------------------------
(***************************************************************************)
(* network::RespParser as Connection::handle_data drives it: the client's  *)
(* byte stream arrives in reads of any length, consume() runs over each    *)
(* read, one iteration of its loop per step, and a command that is         *)
(* complete is executed and the parser reset.  The caller never looks at   *)
(* `consumed`: what consume() has not stored when it returns is lost.      *)
(***************************************************************************)
EXTENDS Integers, SequencesExt

CONSTANTS
    Command,     \* commands clients send: sequences of arguments, which are
                 \* sequences of bytes
    MaxCommands  \* bound: commands in the stream

Byte == {"*", "$", "\r", "\n", "x"} \cup {"0", "1", "2", "3"}
Digit == [d \in {"0", "1", "2", "3"} |->
            CASE d = "0" -> 0 [] d = "1" -> 1 [] d = "2" -> 2 [] d = "3" -> 3]

ASSUME CommandAssumption ==
    \A cmd \in Command : /\ cmd \in Seq(Seq(Byte)) /\ Len(cmd) \in 1 .. 3
                         /\ \A n \in DOMAIN cmd : Len(cmd[n]) \in 0 .. 3

-----------------------------------------------------------------------------
(* What a client sends.  resume marks the bytes after which a read may end *)
(* without harm, last those that end a command.                            *)

Mark(s, resume) == [n \in DOMAIN s |-> [byte |-> s[n], resume |-> resume, last |-> FALSE]]

Decimal(n) == CHOOSE d \in DOMAIN Digit : Digit[d] = n

CrLf == Mark(<<"\r">>, FALSE) \o Mark(<<"\n">>, TRUE)

EncodeArg(arg) ==
    Mark(<<"$", Decimal(Len(arg))>>, FALSE) \o CrLf \o Mark(arg, TRUE) \o CrLf

Encode(cmd) ==
    LET body == FlattenSeq([n \in DOMAIN cmd |-> EncodeArg(cmd[n])])
        all == Mark(<<"*">>, TRUE) \o Mark(<<Decimal(Len(cmd))>>, FALSE) \o CrLf \o body
    IN  [all EXCEPT ![Len(all)].last = TRUE]

VARIABLES
    sent,      \* the commands of the stream
    stream,    \* the bytes the server has not read yet
    clean,     \* history: no read has ended at a byte that resume excludes, or
               \* gone beyond the end of a command
    data, pos, \* the arguments and the cursor of consume()
    running,   \* consume() is running
    state, args, expected_args, current_arg_len, current_arg,  \* the parser
    executed   \* what handle_data has executed, <<>> for a protocol error

parser == <<state, args, expected_args, current_arg_len, current_arg>>
vars == <<sent, stream, clean, data, pos, running, parser, executed>>

Init ==
    /\ sent \in UNION {[1 .. n -> Command] : n \in 1 .. MaxCommands}
    /\ stream = FlattenSeq([n \in DOMAIN sent |-> Encode(sent[n])])
    /\ clean = TRUE
    /\ data = <<>> /\ pos = 1 /\ running = FALSE
    /\ state = "WaitType" /\ args = <<>>
    /\ expected_args = 0 /\ current_arg_len = 0 /\ current_arg = <<>>
    /\ executed = <<>>

\* A read of n bytes completes and handle_data calls consume().
read(n) ==
    /\ ~ running
    /\ n \in DOMAIN stream
    /\ data' = [m \in 1 .. n |-> stream[m].byte]
    /\ stream' = SubSeq(stream, n + 1, Len(stream))
    /\ clean' = (clean /\ stream[n].resume /\ \A m \in 1 .. n - 1 : ~ stream[m].last)
    /\ pos' = 1
    /\ running' = TRUE
    /\ UNCHANGED <<sent, parser, executed>>

-----------------------------------------------------------------------------
(* The results of consume() *)

Goto(p) == pos' = p /\ UNCHANGED <<running, executed>>

Partial ==
    /\ running' = FALSE
    /\ UNCHANGED <<pos, executed>>

\* parser_.reset() by handle_data, after Complete and after Error.
reset ==
    /\ state' = "WaitType" /\ args' = <<>>
    /\ expected_args' = 0 /\ current_arg_len' = 0 /\ current_arg' = <<>>

Error ==
    /\ running' = FALSE
    /\ executed' = Append(executed, <<>>)
    /\ reset
    /\ UNCHANGED pos

Complete(a) ==
    /\ running' = FALSE
    /\ executed' = Append(executed, a)
    /\ reset
    /\ UNCHANGED pos

In(s) ==
    /\ running /\ pos <= Len(data) /\ state = s
    /\ UNCHANGED <<sent, stream, clean, data>>

\* std::stoi: white space is skipped, what follows the digits is ignored, and
\* without digits it throws.
Stoi(s) ==
    LET from == SelectInSeq(s, LAMBDA b : b # "\n")
        rest == IF from = 0 THEN <<>> ELSE SubSeq(s, from, Len(s))
        after == SelectInSeq(rest, LAMBDA b : b \notin DOMAIN Digit)
        digits == IF after = 0 THEN rest ELSE SubSeq(rest, 1, after - 1)
    IN  [ok |-> digits # <<>>,
         val |-> FoldLeft(LAMBDA v, d : 10 * v + Digit[d], 0, digits)]

\* The header line that starts at p: where its \r is (0 if it has not come),
\* the number before it, and whether the \n has come too.
Line(p) ==
    LET rest == SubSeq(data, p, Len(data))
        k == SelectInSeq(rest, LAMBDA b : b = "\r")
    IN  [cr |-> IF k = 0 THEN 0 ELSE p + k - 1,
         num |-> Stoi(SubSeq(rest, 1, k - 1)),
         lf |-> k # 0 /\ k < Len(rest) /\ rest[k + 1] = "\n"]

-----------------------------------------------------------------------------
(* The cases of the switch *)

WaitType ==
    /\ In("WaitType")
    /\ IF data[pos] = "*"
       THEN /\ Goto(pos + 1)
            /\ state' = "WaitSize"
            /\ UNCHANGED <<args, expected_args, current_arg_len, current_arg>>
       ELSE Error

WaitSize ==
    /\ In("WaitSize")
    /\ LET line == Line(pos)
       IN  \/ line.cr = 0 /\ Partial /\ UNCHANGED parser
           \/ line.cr # 0 /\ ~ line.num.ok /\ Error
           \/ /\ line.cr # 0 /\ line.num.ok
              /\ expected_args' = line.num.val
              /\ IF line.lf THEN Goto(line.cr + 2) /\ state' = "WaitArgSize"
                            ELSE Partial /\ UNCHANGED state
              /\ UNCHANGED <<args, current_arg_len, current_arg>>

\* Mutant: current_arg_ is not cleared.
WaitArgSize_unclear ==
    /\ In("WaitArgSize")
    /\ LET line == Line(pos + 1)
       IN  /\ data[pos] = "$" /\ line.cr # 0 /\ line.num.ok /\ line.lf
           /\ current_arg_len' = line.num.val
           /\ Goto(line.cr + 2) /\ state' = "WaitArgData"
           /\ UNCHANGED <<args, expected_args, current_arg>>

WaitArgSize ==
    /\ In("WaitArgSize")
    /\ LET line == Line(pos + 1)
       IN  \/ data[pos] # "$" /\ Error
           \/ data[pos] = "$" /\ line.cr = 0 /\ Partial /\ UNCHANGED parser
           \/ data[pos] = "$" /\ line.cr # 0 /\ ~ line.num.ok /\ Error
           \/ /\ data[pos] = "$" /\ line.cr # 0 /\ line.num.ok
              /\ current_arg_len' = line.num.val
              /\ IF line.lf
                 THEN Goto(line.cr + 2) /\ state' = "WaitArgData" /\ current_arg' = <<>>
                 ELSE Partial /\ UNCHANGED <<state, current_arg>>
              /\ UNCHANGED <<args, expected_args>>

\* Mutant: what an earlier read brought of the argument is forgotten.
WaitArgData_restart ==
    /\ In("WaitArgData")
    /\ LET available == Len(data) - pos + 1
           to_copy == IF current_arg_len < available THEN current_arg_len ELSE available
       IN  /\ current_arg' = SubSeq(data, pos, pos + to_copy - 1)
           /\ IF to_copy = current_arg_len
              THEN Goto(pos + to_copy) /\ state' = "WaitCRLF"
              ELSE Partial /\ UNCHANGED state
           /\ UNCHANGED <<args, expected_args, current_arg_len>>

WaitArgData ==
    /\ In("WaitArgData")
    /\ LET needed == current_arg_len - Len(current_arg)
           available == Len(data) - pos + 1
           to_copy == IF needed < available THEN needed ELSE available
       IN  /\ current_arg' = current_arg \o SubSeq(data, pos, pos + to_copy - 1)
           /\ IF needed <= available
              THEN Goto(pos + to_copy) /\ state' = "WaitCRLF"
              ELSE Partial /\ UNCHANGED state
           /\ UNCHANGED <<args, expected_args, current_arg_len>>

WaitCRLF ==
    /\ In("WaitCRLF")
    /\ LET all == Append(args, current_arg)
       IN  \/ pos = Len(data) /\ Partial /\ UNCHANGED parser
           \/ pos < Len(data) /\ <<data[pos], data[pos + 1]>> # <<"\r", "\n">> /\ Error
           \/ /\ pos < Len(data) /\ <<data[pos], data[pos + 1]>> = <<"\r", "\n">>
              /\ \/ Len(all) = expected_args /\ Complete(all)
                 \/ /\ Len(all) # expected_args
                    /\ Goto(pos + 2)
                    /\ state' = "WaitArgSize" /\ args' = all
                    /\ UNCHANGED <<expected_args, current_arg_len, current_arg>>

\* Mutant: the cursor is left one too far.
consume_end_far ==
    /\ running /\ pos > Len(data)
    /\ running' = FALSE /\ pos' = pos + 1
    /\ UNCHANGED <<sent, stream, clean, data, parser, executed>>

\* The loop has run out of data.
consume_end ==
    /\ running /\ pos > Len(data)
    /\ Partial
    /\ UNCHANGED <<sent, stream, clean, data, parser>>

Next ==
    \/ \E n \in DOMAIN stream : read(n)
    \/ WaitType \/ WaitSize \/ WaitArgSize \/ WaitArgData \/ WaitCRLF
    \/ consume_end

Spec == Init /\ [][Next]_vars

-----------------------------------------------------------------------------
(* Properties *)

\* The fields of the parser; the cursor of consume() stays within its data.
TypeOK ==
    /\ stream \in Seq([byte : Byte, resume : BOOLEAN, last : BOOLEAN])
    /\ clean \in BOOLEAN
    /\ data \in Seq(Byte) /\ pos \in 1 .. Len(data) + 1
    /\ running \in BOOLEAN
    /\ state \in {"WaitType", "WaitSize", "WaitArgSize", "WaitArgData", "WaitCRLF"}
    /\ args \in Seq(Seq(Byte)) /\ current_arg \in Seq(Byte)
    /\ {expected_args, current_arg_len} \subseteq Nat
    /\ executed \in Seq(Seq(Seq(Byte)))

\* Reads that end where the parser can resume, and never in the next command,
\* are put together again: exactly the commands sent are executed, in order,
\* whatever bytes their arguments hold, and none is missing in the end.
CleanStreamParsed ==
    clean => /\ IsPrefix(executed, sent)
             /\ stream = <<>> /\ ~ running => executed = sent

\* consume() never holds more bytes of an argument than its header announced,
\* nor more arguments than the array header did, wherever reads end.
WithinAnnounced ==
    /\ state \in {"WaitArgData", "WaitCRLF"} => Len(current_arg) <= current_arg_len
    /\ state = "WaitCRLF" => Len(current_arg) = current_arg_len
    /\ state = "WaitArgSize" /\ expected_args > 0 => Len(args) < expected_args

\* "Maintains internal state to handle partial reads": wherever reads end, only
\* commands that were sent are executed.
PartialReads == IsPrefix(executed, sent)
=============================================================================
