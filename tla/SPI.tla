--------------------------------- MODULE SPI ---------------------------------
(***************************************************************************)
(* drivers/harpia/MSM8916SPI.cpp: transfers over a SPI bus.                *)
(*                                                                         *)
(* spiTransfer writes the length and the bytes of a transfer, polls until  *)
(* the controller says COMPLETE or ERROR, and reads the bytes that came    *)
(* back if the caller wants them.  There is no lock, nothing resets the    *)
(* controller after start, and nothing empties its fifo but a caller that  *)
(* wants bytes.                                                            *)
(*                                                                         *)
(* The controller is external.  It begins a transfer some time after it    *)
(* was written and takes back COMPLETE and ERROR only then.  It keeps      *)
(* FifoSize bytes that wait to be sent and drops the others; a transfer    *)
(* that lacks bytes never ends.  The bus is full duplex: a byte comes back *)
(* for every byte sent.                                                    *)
(***************************************************************************)
EXTENDS Integers, Sequences, FiniteSets

CONSTANTS Clients,        \* threads that use devices on the bus
          Lengths,        \* values of len
          MaxLen,         \* the longest transfer that is accepted (4096)
          FifoSize,       \* bytes that the controller keeps before it begins
          Polls,          \* polls of waitForTransfer (100000)
          MaxTransfers    \* bound: transfers given to the controller

VARIABLES
    pc, n,     \* of each client: where it is in spiTransfer; polls left
    len,       \* of each client: length of its transfer
    rx,        \* of each client: rxBuf is given
    mine,      \* of each client: number of its transfer
    ret,       \* of each client: what its last call returned
    bytes,     \* of each client: the transfers its bytes came back from
    issued,    \* number of the last transfer given to the controller
    queue,     \* transfers not begun: number, length, bytes kept
    busy,      \* the transfer on the bus; Idle: none
    status,    \* SPI_STATUS_REG: COMPLETE, ERROR
    fifo,      \* the transfers whose bytes are to be read from SPI_DATA_REG
    done,      \* history: transfers that were completed
    calm,      \* history, of each client: nobody met its transfer, see Meets
    empty      \* history, of each client: the fifo was empty when it began

vars == <<pc, n, len, rx, mine, ret, bytes, issued, queue, busy, status, fifo,
          done, calm, empty>>
driver == <<pc, n, len, rx, mine, ret, bytes, calm, empty>>
controller == <<issued, queue, busy, status, fifo, done>>

Ids == 1..MaxTransfers
Transfers == [id : Ids, len : Lengths, kept : Nat]
Idle == [id |-> 0, len |-> 0, kept |-> 0]
NoData == 0          \* what an empty fifo gives

TypeOK ==
    /\ pc \in [Clients -> {"idle", "fill", "wait", "copy"}]
    /\ n \in [Clients -> 0..Polls]
    /\ \A c \in Clients : pc[c] = "wait" => n[c] > 0
    /\ len \in [Clients -> Lengths \cup {0}] /\ rx \in [Clients -> BOOLEAN]
    /\ mine \in [Clients -> Ids \cup {0}]
    /\ ret \in [Clients -> {"none", "Success", "Timeout", "IOError", "BadArgument"}]
    /\ bytes \in [Clients -> Seq(Ids \cup {NoData})]
    /\ issued \in 0..MaxTransfers
    /\ queue \in Seq(Transfers) /\ busy \in Transfers \cup {Idle}
    /\ status \subseteq {"COMPLETE", "ERROR"}
    /\ fifo \in Seq(Ids) /\ done \subseteq Ids
    /\ calm \in [Clients -> BOOLEAN] /\ empty \in [Clients -> BOOLEAN]

\* start has reset the controller.
Init ==
    /\ pc = [c \in Clients |-> "idle"] /\ n = [c \in Clients |-> 0]
    /\ len = [c \in Clients |-> 0] /\ rx = [c \in Clients |-> FALSE]
    /\ mine = [c \in Clients |-> 0] /\ ret = [c \in Clients |-> "none"]
    /\ bytes = [c \in Clients |-> <<>>]
    /\ issued = 0 /\ queue = <<>> /\ busy = Idle /\ status = {} /\ fifo = <<>>
    /\ done = {} /\ calm = [c \in Clients |-> TRUE] /\ empty = [c \in Clients |-> TRUE]

\* What disturbs a transfer of c and the driver does not see to: another thread
\* is in the driver, or the controller still has a transfer that was given up.
Meets(c) == busy # Idle \/ queue # <<>> \/ \E d \in Clients \ {c} : pc[d] # "idle"

-----------------------------------------------------------------------------
(* The driver.                                                             *)

Goto(c, label) == pc' = [pc EXCEPT ![c] = label]
Return(c, code) == Goto(c, "idle") /\ ret' = [ret EXCEPT ![c] = code]

\* Threads that will still give a transfer to the controller.
Coming == {d \in Clients : pc[d] = "fill"}

Call(c, l, wants) ==
    /\ pc[c] = "idle"
    /\ issued + Cardinality(Coming) < MaxTransfers
    /\ len' = [len EXCEPT ![c] = l] /\ rx' = [rx EXCEPT ![c] = wants]
    /\ bytes' = [bytes EXCEPT ![c] = <<>>]
    /\ IF l = 0 \/ l > MaxLen
       THEN Return(c, "BadArgument") /\ UNCHANGED calm
       ELSE /\ Goto(c, "fill") /\ ret' = [ret EXCEPT ![c] = "none"]
            /\ calm' = [d \in Clients |-> IF d = c THEN ~Meets(c)
                                          ELSE calm[d] /\ pc[d] = "idle"]
    /\ UNCHANGED <<n, mine, empty, controller>>

\* SPI_QUEUE_CTRL and the bytes; TX_FIFO_FULL is not looked at.
Fill(c) ==
    /\ pc[c] = "fill"
    /\ issued' = issued + 1 /\ mine' = [mine EXCEPT ![c] = issued']
    /\ \E kept \in {k \in 0..len[c] : k = len[c] \/ k = FifoSize} :
          queue' = Append(queue, [id |-> issued', len |-> len[c], kept |-> kept])
    /\ empty' = [empty EXCEPT ![c] = fifo = <<>>]
    /\ Goto(c, "wait") /\ n' = [n EXCEPT ![c] = Polls]
    /\ UNCHANGED <<len, rx, ret, bytes, busy, status, fifo, done, calm>>

\* Slip: an error ends the wait like a completion.
PollAny(c) ==
    /\ pc[c] = "wait"
    /\ \/ /\ status # {} /\ Goto(c, "copy")
          /\ calm' = [calm EXCEPT ![c] = @ /\ queue = <<>>]
          /\ UNCHANGED <<n, ret>>
       \/ /\ status = {}
          /\ n' = [n EXCEPT ![c] = @ - 1]
          /\ IF n[c] = 1 THEN Return(c, "Timeout") ELSE UNCHANGED <<pc, ret>>
          /\ UNCHANGED calm
    /\ UNCHANGED <<len, rx, mine, bytes, empty, controller>>

\* One poll of waitForTransfer.  COMPLETE may still be that of an earlier
\* transfer, as long as the controller has not begun this one.
Poll(c) ==
    /\ pc[c] = "wait"
    /\ \/ /\ "COMPLETE" \in status /\ Goto(c, "copy")
          /\ calm' = [calm EXCEPT ![c] = @ /\ queue = <<>>]
          /\ UNCHANGED <<n, ret>>
       \/ /\ status = {"ERROR"} /\ Return(c, "IOError") /\ UNCHANGED <<n, calm>>
       \/ /\ status = {}
          /\ n' = [n EXCEPT ![c] = @ - 1]
          /\ IF n[c] = 1 THEN Return(c, "Timeout") ELSE UNCHANGED <<pc, ret>>
          /\ UNCHANGED calm
    /\ UNCHANGED <<len, rx, mine, bytes, empty, controller>>

\* Slip: one byte too few is read.
CopyShort(c) ==
    /\ pc[c] = "copy"
    /\ bytes' = [bytes EXCEPT ![c] =
          IF rx[c] THEN [i \in 1..len[c] |-> IF i < len[c] /\ i <= Len(fifo)
                                             THEN fifo[i] ELSE NoData]
                   ELSE <<>>]
    /\ fifo' = <<>>
    /\ Return(c, "Success")
    /\ UNCHANGED <<n, len, rx, mine, issued, queue, busy, status, done, calm, empty>>

\* Without rxBuf the bytes stay in the fifo.
Copy(c) ==
    LET got == IF ~rx[c] THEN 0 ELSE IF len[c] <= Len(fifo) THEN len[c] ELSE Len(fifo) IN
    /\ pc[c] = "copy"
    /\ bytes' = [bytes EXCEPT ![c] =
          IF rx[c] THEN [i \in 1..len[c] |-> IF i <= got THEN fifo[i] ELSE NoData]
                   ELSE <<>>]
    /\ fifo' = SubSeq(fifo, got + 1, Len(fifo))
    /\ Return(c, "Success")
    /\ UNCHANGED <<n, len, rx, mine, issued, queue, busy, status, done, calm, empty>>

Step(c) == Fill(c) \/ Poll(c) \/ Copy(c)

-----------------------------------------------------------------------------
(* The controller.                                                         *)

Begin ==
    /\ queue # <<>> /\ busy = Idle
    /\ busy' = Head(queue) /\ queue' = Tail(queue) /\ status' = {}
    /\ UNCHANGED <<driver, issued, fifo, done>>

Complete ==
    /\ busy # Idle /\ busy.kept = busy.len /\ busy' = Idle
    /\ status' = {"COMPLETE"} /\ done' = done \cup {busy.id}
    /\ fifo' = fifo \o [i \in 1..busy.len |-> busy.id]
    /\ UNCHANGED <<driver, issued, queue>>

\* Some bytes have come back by then.
Fail(k) ==
    /\ busy # Idle /\ k < busy.len /\ busy' = Idle
    /\ status' = {"ERROR"}
    /\ fifo' = fifo \o [i \in 1..k |-> busy.id]
    /\ UNCHANGED <<driver, issued, queue, done>>

Next ==
    \/ \E c \in Clients : Step(c) \/ \E l \in Lengths, wants \in BOOLEAN : Call(c, l, wants)
    \/ Begin \/ Complete \/ \E k \in {0, 1} : Fail(k)

Spec == Init /\ [][Next]_vars

-----------------------------------------------------------------------------
(* Properties.                                                             *)

Succeeded(c) == pc[c] = "idle" /\ ret[c] = "Success"

\* A transfer that is reported as done was done, with every one of its bytes,
\* unless another was in the controller or the driver at the same time, or
\* COMPLETE was read before the controller had begun: it is then the COMPLETE of
\* an earlier transfer, which nothing takes back.
SuccessIsDone == \A c \in Clients : Succeeded(c) /\ calm[c] => mine[c] \in done

\* The bytes handed out came back from this very transfer, under the same
\* condition and if the fifo was empty: after an error half way, a transfer that
\* was given up or one without rxBuf it is not.
BytesAreOwn ==
    \A c \in Clients : Succeeded(c) /\ rx[c] /\ calm[c] /\ empty[c]
        => bytes[c] = [i \in 1..len[c] |-> mine[c]]
=============================================================================
