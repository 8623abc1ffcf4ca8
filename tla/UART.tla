-------------------------------- MODULE UART --------------------------------
(***************************************************************************)
(* drivers/harpia/MSM8916UART.cpp: the serial line.                        *)
(*                                                                         *)
(* Threads write strings and read characters, without a lock.  A character *)
(* is written when the transmitter has been seen empty and dropped when it *)
(* was not within so many polls; a character is read when one has been     *)
(* seen.  The two fifos of the controller are external: the transmitter    *)
(* loses what is written to a full fifo, the receiver what arrives at one. *)
(***************************************************************************)
EXTENDS Integers, Sequences, FiniteSets, SequencesExt

CONSTANTS Writers, Readers,   \* threads in uartPuts, threads in uartGetc
          Text,               \* what each writer writes
          TxDepth, RxDepth,   \* sizes of the fifos
          Polls,              \* polls of uartPutc and uartGetc (10000, 100000)
          MaxBytes            \* bound: characters that arrive

VARIABLES
    pc, n,      \* of each thread: "poll", then "move", or "done"; polls left
    todo,       \* of each writer: characters not yet tried, '\r' included
    tx,         \* transmit fifo: characters and whose they are
    line,       \* characters that have left
    dropped,    \* history, of each writer: how many it has given up
    arrived,    \* characters that have arrived so far: they are numbered
    rx,         \* receive fifo
    result,     \* of each reader: what uartGetc returned
    alone       \* history, of each reader: no other reader was inside with it

vars == <<pc, n, todo, tx, line, dropped, arrived, rx, result, alone>>
writing == <<todo, tx, line, dropped>>
reading == <<arrived, rx, result, alone>>

Threads == Writers \cup Readers
Chars == {"a", "b", "CR", "NL"}
Mark == [by : Writers, char : Chars]
Nothing == -1      \* uartGetc gave up
Junk == 0          \* what an empty receive fifo gives

\* The calls of uartPutc that uartPuts makes.
Expand(s) == FlattenSeq([k \in DOMAIN s |-> IF s[k] = "NL" THEN <<"CR", "NL">> ELSE <<s[k]>>])

TypeOK ==
    /\ pc \in [Threads -> {"poll", "move", "done"}] /\ n \in [Threads -> 0..Polls]
    /\ \A t \in Threads : pc[t] = "poll" => n[t] > 0
    /\ todo \in [Writers -> Seq(Chars)]
    /\ \A w \in Writers : todo[w] = <<>> <=> pc[w] = "done"
    /\ tx \in Seq(Mark) /\ Len(tx) <= TxDepth /\ line \in Seq(Mark)
    /\ dropped \in [Writers -> Nat] /\ arrived \in 0..MaxBytes
    /\ rx \in Seq(1..MaxBytes) /\ Len(rx) <= RxDepth
    /\ result \in [Readers -> {Nothing, Junk} \cup 1..MaxBytes]
    /\ alone \in [Readers -> BOOLEAN]

\* Every writer is about to write its text, nobody reads yet.
Init ==
    /\ pc = [t \in Threads |-> IF t \in Writers THEN "poll" ELSE "done"]
    /\ n = [t \in Threads |-> Polls]
    /\ todo = [w \in Writers |-> Expand(Text[w])]
    /\ tx = <<>> /\ line = <<>> /\ dropped = [w \in Writers |-> 0]
    /\ arrived = 0 /\ rx = <<>>
    /\ result = [r \in Readers |-> Nothing] /\ alone = [r \in Readers |-> TRUE]

-----------------------------------------------------------------------------
(* uartPutc, within uartPuts.                                              *)

\* The character at the head of todo[w] is dealt with.
Advance(w) ==
    /\ todo' = [todo EXCEPT ![w] = Tail(@)]
    /\ pc' = [pc EXCEPT ![w] = IF Len(todo[w]) = 1 THEN "done" ELSE "poll"]
    /\ n' = [n EXCEPT ![w] = Polls]

\* Slip: the status is not looked at.
PutcPollBlind(w) ==
    /\ pc[w] = "poll"
    /\ pc' = [pc EXCEPT ![w] = "move"]
    /\ UNCHANGED <<n, todo, dropped, tx, line, reading>>

PutcPoll(w) ==
    /\ pc[w] = "poll"
    /\ IF tx = <<>>
       THEN pc' = [pc EXCEPT ![w] = "move"] /\ UNCHANGED <<n, todo, dropped>>
       ELSE IF n[w] > 1
       THEN n' = [n EXCEPT ![w] = @ - 1] /\ UNCHANGED <<pc, todo, dropped>>
       ELSE Advance(w) /\ dropped' = [dropped EXCEPT ![w] = @ + 1]
    /\ UNCHANGED <<tx, line, reading>>

\* write32(UART_DM_TF, c)
PutcWrite(w) ==
    /\ pc[w] = "move"
    /\ tx' = IF Len(tx) < TxDepth THEN Append(tx, [by |-> w, char |-> Head(todo[w])]) ELSE tx
    /\ Advance(w)
    /\ UNCHANGED <<line, dropped, reading>>

\* The controller sends a character.
Send ==
    /\ tx # <<>>
    /\ line' = Append(line, Head(tx)) /\ tx' = Tail(tx)
    /\ UNCHANGED <<pc, n, todo, dropped, reading>>

-----------------------------------------------------------------------------
(* uartGetc.                                                               *)

Inside(r) == pc[r] # "done"

Getc(r) ==
    /\ pc[r] = "done"
    /\ pc' = [pc EXCEPT ![r] = "poll"] /\ n' = [n EXCEPT ![r] = Polls]
    /\ alone' = [q \in Readers |->
          IF q = r THEN \A p \in Readers \ {r} : ~Inside(p) ELSE alone[q] /\ ~Inside(q)]
    /\ result' = [result EXCEPT ![r] = Nothing]
    /\ UNCHANGED <<writing, arrived, rx>>

\* Slip: the character is taken whether there is one or not.
GetcPollBlind(r) ==
    /\ pc[r] = "poll"
    /\ pc' = [pc EXCEPT ![r] = "move"]
    /\ UNCHANGED <<n, result, writing, arrived, rx, alone>>

GetcPoll(r) ==
    /\ pc[r] = "poll"
    /\ IF rx # <<>> THEN pc' = [pc EXCEPT ![r] = "move"] /\ UNCHANGED <<n, result>>
       ELSE IF n[r] > 1
       THEN n' = [n EXCEPT ![r] = @ - 1] /\ UNCHANGED <<pc, result>>
       ELSE /\ pc' = [pc EXCEPT ![r] = "done"] /\ UNCHANGED n
            /\ result' = [result EXCEPT ![r] = Nothing]
    /\ UNCHANGED <<writing, arrived, rx, alone>>

\* read32(UART_DM_RF)
GetcRead(r) ==
    /\ pc[r] = "move"
    /\ result' = [result EXCEPT ![r] = IF rx = <<>> THEN Junk ELSE Head(rx)]
    /\ rx' = IF rx = <<>> THEN rx ELSE Tail(rx)
    /\ pc' = [pc EXCEPT ![r] = "done"]
    /\ UNCHANGED <<n, writing, arrived, alone>>

Arrive ==
    /\ arrived < MaxBytes /\ arrived' = arrived + 1
    /\ rx' = IF Len(rx) < RxDepth THEN Append(rx, arrived') ELSE rx
    /\ UNCHANGED <<pc, n, writing, result, alone>>

Step(t) == \/ t \in Writers /\ (PutcPoll(t) \/ PutcWrite(t))
           \/ t \in Readers /\ (GetcPoll(t) \/ GetcRead(t))

Next == \/ \E t \in Threads : Step(t)
        \/ \E r \in Readers : Getc(r)
        \/ Send \/ Arrive

Spec == Init /\ [][Next]_vars

-----------------------------------------------------------------------------
(* Properties.                                                             *)

\* What is on the line or will be; how many of its first k characters w wrote;
\* the characters that w has tried to write so far.
Sent == line \o tx
Count(w, k) == Cardinality({j \in 1..k : Sent[j].by = w})
Tried(w) == LET all == Expand(Text[w]) IN SubSeq(all, 1, Len(all) - Len(todo[w]))

\* The characters of every writer leave in its order, with '\r' before '\n', and
\* no other is lost than those that uartPutc gave up after its last poll: not even
\* when several writers have seen the transmitter empty and write at once, as long
\* as there are not more of them than its fifo takes.
SentInOrder ==
    \A w \in Writers :
        /\ Count(w, Len(Sent)) + dropped[w] = Len(Tried(w))
        /\ dropped[w] = 0 => \A k \in DOMAIN Sent :
                               Sent[k].by = w => Sent[k].char = Tried(w)[Count(w, k)]

\* uartGetc returns a character that has arrived, or -1: a reader that was alone
\* never reads an empty fifo.  Of two that see the same character one does.
ReadsArrived == \A r \in Readers : alone[r] => result[r] # Junk
=============================================================================
