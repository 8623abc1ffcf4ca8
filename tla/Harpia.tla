------------------------------- MODULE Harpia -------------------------------
(***************************************************************************)
(* The bus drivers of the harpia board side by side: the regulators behind *)
(* SPMI, I2C, SPI and the UART.  They have registers of their own and none *)
(* calls another, so that steps of two of them commute, and a behaviour in *)
(* which one of them moves (part) shows all that can happen to it.         *)
(***************************************************************************)
EXTENDS PMICRegulator, FiniteSets

CONSTANTS
    Clients,                                  \* threads that use I2C, SPI, uartPuts
    Readers,                                  \* threads that use uartGetc
    Polls,                                    \* polls of each loop
    I2CLengths, I2CMax,                       \* I2C: rxLen, transfers
    SPILengths, MaxLen, FifoSize, SPIMax,     \* SPI: len, its limits, transfers
    Text, TxDepth, RxDepth, MaxBytes          \* UART

ASSUME HarpiaAssumption ==
    /\ IsFiniteSet(Clients) /\ Polls \in Nat \ {0}
    /\ I2CLengths \subseteq Nat /\ I2CMax \in Nat
    /\ SPILengths \subseteq Nat /\ SPIMax \in Nat /\ FifoSize \in Nat
    /\ Clients \cap Readers = {} /\ TxDepth \in Nat /\ RxDepth \in Nat /\ MaxBytes \in Nat
    /\ Text \in [Clients -> Seq({"a", "b", "NL"}) \ {<<>>}]

VARIABLES
    part,                                                     \* the driver that moves
    ipc, in, rxLen, imine, iret, ibytes, iissued, iqueue,     \* I2C
    ibusy, nack, ififo, enabled, idone, trusted,
    spc, sn, len, srx, smine, sret, sbytes, sissued, squeue,  \* SPI
    sbusy, status, sfifo, sdone, calm, empty,
    upc, un, todo, tx, line, dropped, arrived, urx,           \* UART
    result, alone

i2c == INSTANCE I2C WITH
    Lengths <- I2CLengths, MaxTransfers <- I2CMax,
    pc <- ipc, n <- in, mine <- imine, ret <- iret, bytes <- ibytes, issued <- iissued,
    queue <- iqueue, busy <- ibusy, fifo <- ififo, done <- idone
spi == INSTANCE SPI WITH
    Lengths <- SPILengths, MaxTransfers <- SPIMax,
    pc <- spc, n <- sn, rx <- srx, mine <- smine, ret <- sret, bytes <- sbytes,
    issued <- sissued, queue <- squeue, busy <- sbusy, fifo <- sfifo, done <- sdone
uart == INSTANCE UART WITH
    Writers <- Clients,
    pc <- upc, n <- un, rx <- urx

i2cVars == <<ipc, in, rxLen, imine, iret, ibytes, iissued, iqueue, ibusy, nack, ififo,
             enabled, idone, trusted>>
spiVars == <<spc, sn, len, srx, smine, sret, sbytes, sissued, squeue, sbusy, status,
             sfifo, sdone, calm, empty>>
uartVars == <<upc, un, todo, tx, line, dropped, arrived, urx, result, alone>>
all == <<part, vars, i2cVars, spiVars, uartVars>>

HarpiaInit ==
    /\ part \in {"regulator", "i2c", "spi", "uart"}
    /\ Init /\ i2c!Init /\ spi!Init /\ uart!Init

HarpiaNext ==
    \/ /\ part = "regulator" /\ Next
       /\ UNCHANGED <<part, i2cVars, spiVars, uartVars>>
    \/ part = "i2c" /\ i2c!Next /\ UNCHANGED <<part, vars, spiVars, uartVars>>
    \/ part = "spi" /\ spi!Next /\ UNCHANGED <<part, vars, i2cVars, uartVars>>
    \/ part = "uart" /\ uart!Next /\ UNCHANGED <<part, vars, i2cVars, spiVars>>

Step(t) ==
    \/ /\ part = "i2c" /\ t \in Clients /\ i2c!Step(t)
       /\ UNCHANGED <<part, vars, spiVars, uartVars>>
    \/ /\ part = "spi" /\ t \in Clients /\ spi!Step(t)
       /\ UNCHANGED <<part, vars, i2cVars, uartVars>>
    \/ /\ part = "uart" /\ uart!Step(t)
       /\ UNCHANGED <<part, vars, i2cVars, spiVars>>

\* Every thread that is in the driver keeps running; nothing is assumed of the
\* controllers.
HarpiaSpec ==
    HarpiaInit /\ [][HarpiaNext]_all /\ \A t \in Clients \cup Readers : WF_all(Step(t))

-----------------------------------------------------------------------------
(* Properties.  That of the regulators, VoltageSound, is in PMICRegulator. *)

\* i2cTransfer leaves nothing in the controller, and its loops end where they
\* should.
I2CSound == part = "i2c" => i2c!TypeOK /\ i2c!NothingLeft

\* i2cTransfer returns success only for a transfer that has reached its slave, and
\* hands out the bytes of that transfer.
I2CTransfers == [][part = "i2c" => i2c!SuccessIsDone /\ i2c!BytesAreOwn]_all

\* spiTransfer returns success only for a transfer that was completed, and hands
\* out the bytes that came back from it.
SPISound == part = "spi" => spi!TypeOK /\ spi!SuccessIsDone /\ spi!BytesAreOwn

\* uartPuts keeps the order of its characters and loses none but those given up;
\* uartGetc never gives a lone reader a character that is not there.
UARTSound == part = "uart" => uart!TypeOK /\ uart!SentInOrder /\ uart!ReadsArrived

Inside(t) == \/ part = "i2c" /\ t \in Clients /\ ipc[t] # "idle"
             \/ part = "spi" /\ t \in Clients /\ spc[t] # "idle"
             \/ part = "uart" /\ upc[t] # "done"

\* i2cTransfer, spiTransfer, uartPuts and uartGetc return in every thread,
\* whatever the controllers and the other threads do.
CallsReturn == \A t \in Clients \cup Readers : Inside(t) ~> ~Inside(t)
=============================================================================
