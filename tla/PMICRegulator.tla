---------------------------- MODULE PMICRegulator ----------------------------
(***************************************************************************)
(* drivers/harpia/MSM8916SPMI.cpp: the payload of pmicWrite, and the two   *)
(* callers that set a regulator of the PMIC.  SPMI models when and whether *)
(* a command is performed, this module what it carries.                    *)
(*                                                                         *)
(* A voltage becomes a step of one of three ranges, rounded up; the step   *)
(* becomes two bytes, four bits in each.  pmicWrite stores byte k of the   *)
(* payload at SPMI_DATA_REG + 4 * k, where the arbiter takes it; the       *)
(* registers that follow are SPMI_RD_DATA_REG and SPMI_OWNER_REG.          *)
(***************************************************************************)
EXTENDS Integers, Sequences

CONSTANTS Voltages,   \* the voltages that are asked for, in mV
          MaxCalls    \* bound: calls of the driver

UInt16 == 0..65535
ASSUME RegulatorAssumption == Voltages \subseteq UInt16 /\ MaxCalls \in Nat

VARIABLES
    reg,      \* the words at SPMI_DATA_REG, SPMI_RD_DATA_REG, SPMI_OWNER_REG
    calls,    \* calls made so far
    asked,    \* history: the voltage the last command given to the arbiter was
              \* for, None if it was for another purpose
    step      \* history: the step that voltage became

vars == <<reg, calls, asked, step>>

None == -1
DATA == 0
RD_DATA == 1
OWNER == 2
Byte == 0..255

TypeOK ==
    /\ reg \in [{DATA, RD_DATA, OWNER} -> Byte]
    /\ calls \in 0..MaxCalls
    /\ asked = None \/ asked \in Voltages
    /\ step \in Byte

\* start makes this processor the owner.
Init ==
    /\ reg = [w \in {DATA, RD_DATA, OWNER} |-> IF w = OWNER THEN 1 ELSE 0]
    /\ calls = 0 /\ asked = None /\ step = 0

-----------------------------------------------------------------------------
(* Voltages and steps.                                                     *)

Base(mV) == IF mV >= 2300 THEN 2300 ELSE IF mV >= 1500 THEN 1500 ELSE 375
Size(mV) == IF mV >= 2300 THEN 8 ELSE IF mV >= 1500 THEN 5 ELSE 3

\* Division of C: towards zero.
Quotient(a, b) == IF a >= 0 THEN a \div b ELSE -((-a) \div b)

\* Slip: rounded down.
vStepDown(mV) ==
    LET s == Quotient(mV - Base(mV), Size(mV)) % 65536 IN IF s > 255 THEN 255 ELSE s

\* The difference is an int, the step an unsigned integer of 16 bits.
vStep(mV) ==
    LET s == Quotient(mV - Base(mV) + Size(mV) - 1, Size(mV)) % 65536
    IN  IF s > 255 THEN 255 ELSE s

\* Slip: the low four bits first.
EncodeSwapped(s) == <<((s % 16) * 16) % 256, (s \div 16) % 256>>

Encode(s) == <<(s \div 16) % 256, ((s % 16) * 16) % 256>>

-----------------------------------------------------------------------------
(* The driver.                                                             *)

\* Slip: one word too many.
pmicWriteOneMore(b) ==
    reg' = [w \in DOMAIN reg |->
               IF w = RD_DATA THEN Len(b) ELSE IF w < Len(b) THEN b[w + 1]
               ELSE IF w = Len(b) THEN 0 ELSE reg[w]]

\* The bytes first, then the length, over the second of them.
pmicWrite(b) ==
    reg' = [w \in DOMAIN reg |->
               IF w = RD_DATA THEN Len(b) ELSE IF w < Len(b) THEN b[w + 1] ELSE reg[w]]

Begin == calls < MaxCalls /\ calls' = calls + 1

pmicRegulatorSetEnabled(enable) ==
    /\ Begin
    /\ pmicWrite(<<IF enable THEN 128 ELSE 0>>)
    /\ asked' = None /\ UNCHANGED step

pmicRegulatorSetVoltage(mV) ==
    /\ Begin
    /\ pmicWrite(Encode(vStep(mV)))
    /\ asked' = mV /\ step' = vStep(mV)

\* waitForIdle gives up: nothing is written.
Busy == Begin /\ UNCHANGED <<reg, asked, step>>

Next ==
    \/ \E enable \in BOOLEAN : pmicRegulatorSetEnabled(enable)
    \/ \E mV \in Voltages : pmicRegulatorSetVoltage(mV)
    \/ Busy

Spec == Init /\ [][Next]_vars

-----------------------------------------------------------------------------
(* Properties.                                                             *)

\* The voltage that a step of a range stands for.
Volts(mV, s) == Base(mV) + Size(mV) * s

\* Each range ends where its 256 steps do, or where the next one begins.
Reachable(mV) == (371 <= mV /\ mV <= 1140) \/ (1500 <= mV /\ mV <= 4340)

\* Within a range the step of pmicRegulatorSetVoltage is the least that reaches
\* the voltage.  Everywhere else it is the last one: below 371 mV, where the
\* difference wraps round; from 1141 to 1499 mV and above 4340 mV, where the
\* steps of the range are used up and the voltage is set too low.
RoundsUp ==
    asked # None =>
       IF Reachable(asked)
       THEN asked <= Volts(asked, step) /\ (step > 0 => Volts(asked, step - 1) < asked)
       ELSE step = 255

\* The step in the registers the arbiter takes the two bytes from.
Given == reg[DATA] * 16 + reg[RD_DATA] \div 16

\* The arbiter is given the step without its low four bits: pmicWrite stores the
\* length over the second byte (line 145), so a voltage is set up to 15 steps
\* lower than the caller asked for, and never higher.
HighBitsGiven == asked # None => Given = step - (step % 16)

\* No payload of the driver reaches SPMI_OWNER_REG, two words behind
\* SPMI_DATA_REG: the arbiter stays with the owner that start made.
OwnerKept == reg[OWNER] = 1

\* What becomes of a voltage: the step it is rounded up to, what of that step
\* the arbiter is given, and that no payload goes past the registers that are
\* there for it.
VoltageSound == TypeOK /\ RoundsUp /\ HighBitsGiven /\ OwnerKept

\* APClockPower.h, lines 70 to 87: the regulators L1 to L18 have "0.375V-1.525V".
\* A voltage they have is reached by the step it is rounded up to.
ReachesRange == asked \in 375..1525 => asked <= Volts(asked, step)
=============================================================================
