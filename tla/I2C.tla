--------------------------------- MODULE I2C ---------------------------------
(***************************************************************************)
(* drivers/harpia/MSM8916I2C.cpp: transfers to the slaves of an I2C bus.   *)
(*                                                                         *)
(* i2cTransfer waits for the controller to be idle, fills its queue of     *)
(* commands, waits for it to be idle again, and then looks at NACK and     *)
(* reads the bytes.  There is no lock: every driver of a device on the bus *)
(* may be in it.  Only a NACK resets the controller; a wait that gives up, *)
(* and a lost arbitration, do not.                                         *)
(*                                                                         *)
(* The controller is external.  It takes a transfer from its queue some    *)
(* time after it was written, and only then raises BUSY; it appends the    *)
(* bytes it received to a fifo; NACK stays set until the controller is     *)
(* reset.  While RESET is written it drops what it is given.  The commands *)
(* of one transfer are written and executed as one.                        *)
(***************************************************************************)
EXTENDS Integers, Sequences, FiniteSets

CONSTANTS Clients,        \* threads that use devices on the bus
          Lengths,        \* values of rxLen
          Polls,          \* polls of waitForIdle before it gives up (10000)
          MaxTransfers    \* bound: transfers given to the controller

VARIABLES
    pc, n,       \* of each client: where it is in i2cTransfer; polls left
    rxLen,       \* of each client: bytes it wants
    mine,        \* of each client: number of its transfer
    ret,         \* of each client: what its last call returned
    bytes,       \* of each client: the transfers its bytes are from
    issued,      \* number of the last transfer given to the controller
    queue,       \* transfers not started: number and length
    busy,        \* the transfer being executed; Idle: none
    nack,        \* I2C_STATUS_NACK
    fifo,        \* the transfers whose bytes are to be read from I2C_DATA_REG
    enabled,     \* I2C_CTRL_REG is ENA | MASTER, not RESET
    done,        \* history: transfers that reached their slave
    trusted      \* history: see Distrust

driver == <<pc, n, rxLen, mine, ret, bytes>>
controller == <<issued, queue, busy, nack, fifo, enabled, done>>
vars == <<pc, n, rxLen, mine, ret, bytes, issued, queue, busy, nack, fifo,
          enabled, done, trusted>>

Idle == [id |-> 0, rx |-> 0]
NoData == 0          \* what an empty fifo gives
Ids == 1..MaxTransfers
Transfers == [id : Ids, rx : Lengths]

TypeOK ==
    /\ pc \in [Clients -> {"idle", "wait1", "queue", "wait2", "status", "reset", "copy"}]
    /\ n \in [Clients -> 0..Polls]
    /\ \A c \in Clients : pc[c] \in {"wait1", "wait2"} => n[c] > 0
    /\ rxLen \in [Clients -> Lengths \cup {0}]
    /\ mine \in [Clients -> Ids \cup {0}]
    /\ ret \in [Clients -> {"none", "Success", "Timeout", "IOError"}]
    /\ bytes \in [Clients -> Seq(Ids \cup {NoData})]
    /\ issued \in 0..MaxTransfers
    /\ queue \in Seq(Transfers) /\ busy \in Transfers \cup {Idle}
    /\ nack \in BOOLEAN /\ enabled \in BOOLEAN /\ trusted \in BOOLEAN
    /\ fifo \in Seq(Ids) /\ done \subseteq Ids

\* start has reset the controller.
Init ==
    /\ pc = [c \in Clients |-> "idle"] /\ n = [c \in Clients |-> 0]
    /\ rxLen = [c \in Clients |-> 0] /\ mine = [c \in Clients |-> 0]
    /\ ret = [c \in Clients |-> "none"] /\ bytes = [c \in Clients |-> <<>>]
    /\ issued = 0 /\ queue = <<>> /\ busy = Idle /\ nack = FALSE /\ fifo = <<>>
    /\ enabled = TRUE /\ done = {} /\ trusted = TRUE

Alone(c) == \A d \in Clients \ {c} : pc[d] = "idle"

\* What the driver relies on and does not see to: from a transfer that was
\* given up, lost arbitration, overlapped with another or was not yet started
\* when the second wait looked, nothing is promised until a reset.
Distrust(cond) == trusted' = (trusted /\ ~cond)

-----------------------------------------------------------------------------
(* The driver.                                                             *)

Goto(c, label) == pc' = [pc EXCEPT ![c] = label]
Return(c, code) == Goto(c, "idle") /\ ret' = [ret EXCEPT ![c] = code]

\* Threads that will still give a transfer to the controller.
Coming == {d \in Clients : pc[d] \in {"wait1", "queue"}}

\* i2cTransfer, for busReadReg (len > 0) and busWriteReg.
Call(c, len) ==
    /\ pc[c] = "idle"
    /\ issued + Cardinality(Coming) < MaxTransfers
    /\ Goto(c, "wait1")
    /\ n' = [n EXCEPT ![c] = Polls] /\ rxLen' = [rxLen EXCEPT ![c] = len]
    /\ ret' = [ret EXCEPT ![c] = "none"] /\ bytes' = [bytes EXCEPT ![c] = <<>>]
    /\ Distrust(~Alone(c))
    /\ UNCHANGED <<mine, controller>>

\* Slip: the loop starts again instead of giving up.
PollForever(c, next) ==
    \/ /\ busy = Idle /\ Goto(c, next) /\ UNCHANGED <<n, ret>>
       /\ Distrust(queue # <<>>)
    \/ /\ busy # Idle
       /\ n' = [n EXCEPT ![c] = IF @ = 1 THEN Polls ELSE @ - 1]
       /\ UNCHANGED <<pc, ret>> /\ Distrust(FALSE)

\* Slip: one poll too many.
PollOnceMore(c, next) ==
    \/ /\ busy = Idle /\ Goto(c, next) /\ UNCHANGED <<n, ret>>
       /\ Distrust(queue # <<>>)
    \/ /\ busy # Idle
       /\ n' = [n EXCEPT ![c] = @ - 1]
       /\ IF n[c] = 0 THEN Return(c, "Timeout") ELSE UNCHANGED <<pc, ret>>
       /\ Distrust(n[c] = 0)

\* waitForIdle: one poll, which goes on to next, polls again or gives up.  BUSY
\* is not yet set for a transfer that waits in the queue.
Poll(c, next) ==
    \/ /\ busy = Idle /\ Goto(c, next) /\ UNCHANGED <<n, ret>>
       /\ Distrust(queue # <<>>)
    \/ /\ busy # Idle
       /\ n' = [n EXCEPT ![c] = @ - 1]
       /\ IF n[c] = 1 THEN Return(c, "Timeout") ELSE UNCHANGED <<pc, ret>>
       /\ Distrust(n[c] = 1)

WaitBefore(c) ==
    /\ pc[c] = "wait1" /\ Poll(c, "queue")
    /\ UNCHANGED <<rxLen, mine, bytes, controller>>

\* The writes to I2C_DATA_REG and I2C_QUEUE_CMD_REG, STOP included.
Fill(c) ==
    /\ pc[c] = "queue"
    /\ issued' = issued + 1 /\ mine' = [mine EXCEPT ![c] = issued']
    /\ queue' = IF enabled THEN Append(queue, [id |-> issued', rx |-> rxLen[c]]) ELSE queue
    /\ Goto(c, "wait2") /\ n' = [n EXCEPT ![c] = Polls]
    /\ UNCHANGED <<rxLen, ret, bytes, busy, nack, fifo, enabled, done, trusted>>

WaitAfter(c) ==
    /\ pc[c] = "wait2" /\ Poll(c, "status")
    /\ UNCHANGED <<rxLen, mine, bytes, controller>>

\* Slip: the controller is reset on a NACK, but the call goes on.
StatusForgiving(c) ==
    /\ pc[c] = "status" /\ Goto(c, "copy")
    /\ nack' = FALSE
    /\ UNCHANGED <<n, rxLen, mine, ret, bytes, issued, queue, busy, fifo, enabled,
                   done, trusted>>

\* Slip: a NACK is reported without a reset.
StatusUnreset(c) ==
    /\ pc[c] = "status"
    /\ IF nack THEN Return(c, "IOError") ELSE Goto(c, "copy") /\ UNCHANGED ret
    /\ UNCHANGED <<n, rxLen, mine, bytes, controller, trusted>>

\* NACK, which may be that of an earlier transfer: resetController begins, and
\* the controller forgets everything.
Status(c) ==
    /\ pc[c] = "status"
    /\ IF nack
       THEN /\ Goto(c, "reset")
            /\ enabled' = FALSE
            /\ queue' = <<>> /\ busy' = Idle /\ nack' = FALSE /\ fifo' = <<>>
       ELSE /\ Goto(c, "copy")
            /\ UNCHANGED <<enabled, queue, busy, nack, fifo>>
    /\ UNCHANGED <<n, rxLen, mine, ret, bytes, issued, done, trusted>>

\* The second write of resetController, after IOSleep(1).
Reset(c) ==
    /\ pc[c] = "reset"
    /\ enabled' = TRUE
    /\ Return(c, "IOError")
    /\ trusted' = (trusted \/ Alone(c))
    /\ UNCHANGED <<n, rxLen, mine, bytes, issued, queue, busy, nack, fifo, done>>

\* Slip: a byte is read, and thrown away, before the loop.
CopyShifted(c) ==
    /\ pc[c] = "copy"
    /\ bytes' = [bytes EXCEPT ![c] =
                   [i \in 1..rxLen[c] |-> IF i < Len(fifo) THEN fifo[i + 1] ELSE NoData]]
    /\ fifo' = <<>>
    /\ Return(c, "Success")
    /\ UNCHANGED <<n, rxLen, mine, issued, queue, busy, nack, enabled, done, trusted>>

Copy(c) ==
    LET got == IF rxLen[c] <= Len(fifo) THEN rxLen[c] ELSE Len(fifo) IN
    /\ pc[c] = "copy"
    /\ bytes' = [bytes EXCEPT ![c] =
                   [i \in 1..rxLen[c] |-> IF i <= got THEN fifo[i] ELSE NoData]]
    /\ fifo' = SubSeq(fifo, got + 1, Len(fifo))
    /\ Return(c, "Success")
    /\ UNCHANGED <<n, rxLen, mine, issued, queue, busy, nack, enabled, done, trusted>>

Step(c) ==
    WaitBefore(c) \/ Fill(c) \/ WaitAfter(c) \/ Status(c) \/ Reset(c) \/ Copy(c)

-----------------------------------------------------------------------------
(* The controller and the slaves.                                          *)

Start ==
    /\ enabled /\ queue # <<>> /\ busy = Idle
    /\ busy' = Head(queue) /\ queue' = Tail(queue)
    /\ UNCHANGED <<driver, issued, nack, fifo, enabled, done, trusted>>

Complete ==
    /\ busy # Idle /\ busy' = Idle
    /\ done' = done \cup {busy.id}
    /\ fifo' = fifo \o [i \in 1..busy.rx |-> busy.id]
    /\ UNCHANGED <<driver, issued, queue, nack, enabled, trusted>>

Nack ==
    /\ busy # Idle /\ busy' = Idle
    /\ nack' = TRUE
    /\ UNCHANGED <<driver, issued, queue, fifo, enabled, done, trusted>>

\* I2C_STATUS_ARB_LOST, which the driver does not read.
ArbLost ==
    /\ busy # Idle /\ busy' = Idle
    /\ trusted' = FALSE
    /\ UNCHANGED <<driver, issued, queue, nack, fifo, enabled, done>>

Next ==
    \/ \E c \in Clients : Step(c) \/ \E len \in Lengths : Call(c, len)
    \/ Start \/ Complete \/ Nack \/ ArbLost

Spec == Init /\ [][Next]_vars

-----------------------------------------------------------------------------
(* Properties.                                                             *)

Succeeds(c) == ret[c] # "Success" /\ ret'[c] = "Success"

\* A step property.  A call that returns kIOReturnSuccess has reached its slave,
\* unless something the driver does not see to happened since the last reset: then
\* a transfer that was never executed is reported as done.
SuccessIsDone == \A c \in Clients : Succeeds(c) /\ trusted => mine[c] \in done

\* A step property.  The bytes that i2cTransfer hands out are those of this very
\* transfer, under the same condition: otherwise they are what an earlier one left
\* in the fifo.
BytesAreOwn ==
    \A c \in Clients : Succeeds(c) /\ trusted
        => bytes'[c] = [i \in 1..rxLen[c] |-> mine[c]]

\* Between two calls nothing is left in the controller, under the same
\* condition: not after a NACK in the middle of a read either.
NothingLeft ==
    trusted /\ (\A c \in Clients : pc[c] = "idle") =>
        queue = <<>> /\ busy = Idle /\ ~nack /\ fifo = <<>> /\ enabled
=============================================================================
