---------------------------- MODULE HarpiaProofs ----------------------------
(***************************************************************************)
(* Proofs about Harpia, for any number of threads, transfers, polls, bytes *)
(* and characters, and for every set of voltages.                          *)
(*                                                                         *)
(* Each driver has an inductive invariant of its own, preserved by each of *)
(* its actions; the last part puts them together.                          *)
(***************************************************************************)
EXTENDS Harpia, TLAPS, FiniteSetTheorems, SequenceTheorems, WellFoundedInduction

-----------------------------------------------------------------------------
(* The regulators.                                                         *)

\* What is in the registers after a step was encoded; with the type it is
\* inductive.
RegulatorInv ==
    /\ TypeOK /\ OwnerKept
    /\ asked # None => /\ step = vStep(asked)
                       /\ reg[DATA] = step \div 16 /\ reg[RD_DATA] = 2

\* A voltage is a UInt16, as the parameter mV is.
LEMMA VoltageIsInt == \A v \in Voltages : v \in UInt16
  BY RegulatorAssumption

\* The bound on the calls is a number.
LEMMA CallsIsNat == MaxCalls \in Nat
  BY RegulatorAssumption, Zenon

\* A step is a byte, whatever voltage is asked for.
LEMMA StepIsByte == \A mV \in UInt16 : vStep(mV) \in Byte
<1> SUFFICES ASSUME NEW mV \in UInt16 PROVE vStep(mV) \in Byte
    OBVIOUS
<1> DEFINE s == Quotient(mV - Base(mV) + Size(mV) - 1, Size(mV)) % 65536
<1>1. mV \in Int
  BY DEF UInt16
<1>2. s \in Int /\ 0 <= s
  BY <1>1 DEF Quotient, Base, Size
<1>3. vStep(mV) = IF s > 255 THEN 255 ELSE s
  BY DEF vStep
<1> HIDE DEF s
<1> QED BY <1>2, <1>3 DEF Byte

\* A step becomes two bytes, of which the first holds its upper half.
LEMMA EncodeBytes ==
  \A s \in Byte : /\ Encode(s) \in Seq(Byte) /\ Len(Encode(s)) = 2
                  /\ Encode(s)[1] = s \div 16
<1> SUFFICES ASSUME NEW s \in Byte
             PROVE  /\ Encode(s) \in Seq(Byte) /\ Len(Encode(s)) = 2
                    /\ Encode(s)[1] = s \div 16
    OBVIOUS
<1> DEFINE hi == s \div 16
           lo == s % 16
<1>1. hi \in 0..15 /\ lo \in 0..15
  BY DEF Byte
<1>2. hi % 256 = hi /\ (lo * 16) % 256 = lo * 16
  BY <1>1
<1>3. Encode(s) = <<hi, lo * 16>>
  BY <1>2 DEF Encode
<1> HIDE DEF hi, lo
<1>4. hi \in Byte /\ lo * 16 \in Byte
  BY <1>1 DEF Byte
<1>5. Encode(s) \in Seq(Byte) /\ Len(Encode(s)) = 2 /\ Encode(s)[1] = hi
  BY <1>3, <1>4
<1> QED BY <1>5 DEF hi

\* A payload of one or two bytes has a first byte.
LEMMA FirstByte ==
  ASSUME NEW b \in Seq(Byte), Len(b) = 1 \/ Len(b) = 2
  PROVE  b[1] \in Byte /\ Len(b) \in Byte
<1> DEFINE n == Len(b)
<1>1. n = 1 \/ n = 2
  OBVIOUS
<1> HIDE DEF n
<1>2. 1 \in 1..n /\ n \in 0..255
  BY <1>1
<1> QED BY <1>2, ElementOfSeq DEF Byte, n

\* A payload of one or two bytes leaves the owner alone.
LEMMA WriteKeepsOwner ==
  ASSUME reg \in [{DATA, RD_DATA, OWNER} -> Byte], reg[OWNER] = 1,
         NEW b \in Seq(Byte), Len(b) = 1 \/ Len(b) = 2, pmicWrite(b)
  PROVE  /\ reg' \in [{DATA, RD_DATA, OWNER} -> Byte]
         /\ reg'[OWNER] = 1 /\ reg'[DATA] = b[1] /\ reg'[RD_DATA] = Len(b)
<1>1. b[1] \in Byte /\ Len(b) \in Byte
  BY FirstByte
<1>2. DOMAIN reg = {0, 1, 2}
  BY DEF DATA, RD_DATA, OWNER
<1>3. reg' = [w \in {0, 1, 2} |->
                 IF w = 1 THEN Len(b) ELSE IF w < Len(b) THEN b[w + 1] ELSE reg[w]]
  BY <1>2 DEF pmicWrite, RD_DATA
<1>4. reg'[0] = b[1] /\ reg'[1] = Len(b) /\ reg'[2] = reg[2]
  BY <1>3
<1> QED BY <1>1, <1>3, <1>4 DEF DATA, RD_DATA, OWNER

\* start establishes the invariant.
LEMMA RegulatorInit == Init => RegulatorInv
<1> SUFFICES ASSUME Init PROVE RegulatorInv
    OBVIOUS
<1>1. asked = None /\ calls \in 0..MaxCalls /\ step \in Byte
  BY CallsIsNat DEF Init, Byte
<1>2. reg \in [{DATA, RD_DATA, OWNER} -> Byte] /\ reg[OWNER] = 1
  BY DEF Init, DATA, RD_DATA, OWNER, Byte
<1> QED BY <1>1, <1>2 DEF RegulatorInv, TypeOK, OwnerKept

\* Every call of the driver keeps it.
LEMMA RegulatorStep == RegulatorInv /\ [Next]_vars => RegulatorInv'
<1> SUFFICES ASSUME RegulatorInv, [Next]_vars PROVE RegulatorInv'
    OBVIOUS
<1>0. TypeOK /\ reg[OWNER] = 1
  BY DEF RegulatorInv, OwnerKept
<1>1. ASSUME NEW enable \in BOOLEAN, pmicRegulatorSetEnabled(enable) PROVE RegulatorInv'
  <2> DEFINE b == <<IF enable THEN 128 ELSE 0>>
  <2>1. b \in Seq(Byte) /\ Len(b) = 1
    BY DEF Byte
  <2>2. pmicWrite(b) /\ asked' = None /\ step' = step /\ calls' \in 0..MaxCalls
    BY <1>0, <1>1, CallsIsNat DEF pmicRegulatorSetEnabled, pmicWrite, Begin, TypeOK
  <2> HIDE DEF b
  <2>3. reg' \in [{DATA, RD_DATA, OWNER} -> Byte] /\ reg'[OWNER] = 1
    BY <1>0, <2>1, <2>2, WriteKeepsOwner DEF TypeOK
  <2> QED BY <1>0, <2>1, <2>2, <2>3 DEF RegulatorInv, TypeOK, OwnerKept
<1>2. ASSUME NEW mV \in Voltages, pmicRegulatorSetVoltage(mV) PROVE RegulatorInv'
  <2> DEFINE b == Encode(vStep(mV))
  <2>1. vStep(mV) \in Byte
    <3>1. mV \in UInt16  BY VoltageIsInt
    <3> QED BY <3>1, StepIsByte
  <2>2. b \in Seq(Byte) /\ Len(b) = 2 /\ b[1] = vStep(mV) \div 16
    BY <2>1, EncodeBytes
  <2>3. pmicWrite(b) /\ asked' = mV /\ step' = vStep(mV) /\ calls' \in 0..MaxCalls
    BY <1>0, <1>2, CallsIsNat DEF pmicRegulatorSetVoltage, pmicWrite, Begin, TypeOK
  <2> HIDE DEF b
  <2>4. /\ reg' \in [{DATA, RD_DATA, OWNER} -> Byte] /\ reg'[OWNER] = 1
        /\ reg'[DATA] = b[1] /\ reg'[RD_DATA] = 2
    BY <1>0, <2>2, <2>3, WriteKeepsOwner DEF TypeOK
  <2>5. TypeOK'
    BY <2>1, <2>2, <2>3, <2>4 DEF TypeOK
  <2> QED BY <2>2, <2>3, <2>4, <2>5 DEF RegulatorInv, OwnerKept
<1>3. ASSUME Busy \/ UNCHANGED vars PROVE RegulatorInv'
  <2>1. UNCHANGED <<reg, asked, step>> /\ calls' \in 0..MaxCalls
    BY <1>0, <1>3, CallsIsNat DEF Busy, Begin, vars, TypeOK
  <2> QED BY <2>1 DEF RegulatorInv, TypeOK, OwnerKept
<1> QED BY <1>1, <1>2, <1>3 DEF Next

\* A small number is its own remainder.
LEMMA SmallMod ==
  ASSUME NEW q \in Int, NEW m \in Int, 0 <= q, q < m
  PROVE  q % m = q
  OBVIOUS

\* The step of a voltage, as pmicRegulatorSetVoltage computes it in three
\* ranges, is the least that reaches it, or the last: for every UInt16.
LEMMA StepRoundsUp ==
  ASSUME NEW mV \in UInt16
  PROVE  LET s == vStep(mV)
         IN  IF Reachable(mV)
             THEN mV <= Volts(mV, s) /\ (s > 0 => Volts(mV, s - 1) < mV)
             ELSE s = 255
<1>1. mV \in Int /\ 0 <= mV /\ mV < 65536
  BY DEF UInt16
<1>2. CASE mV >= 2300
  <2> DEFINE d == mV - 2300 + 7
  <2>1. Base(mV) = 2300 /\ Size(mV) = 8
    BY <1>1, <1>2 DEF Base, Size
  <2>2. /\ d \in Int /\ 0 <= d /\ d < 65536 /\ mV = d + 2293
        /\ mV - Base(mV) + Size(mV) - 1 = d
    BY <1>1, <1>2, <2>1
  <2> HIDE DEF d
  <2> DEFINE q == d \div 8
  <2>3. q \in Int /\ 0 <= q /\ q < 65536 /\ 8 * q <= d /\ d < 8 * q + 8
    BY <2>2
  <2>4. Quotient(d, 8) = q
    BY <2>2 DEF Quotient
  <2> HIDE DEF q
  <2>5. q % 65536 = q
    BY <2>3, SmallMod
  <2>6. vStep(mV) = IF q > 255 THEN 255 ELSE q
    BY <2>1, <2>2, <2>4, <2>5 DEF vStep
  <2>7. Reachable(mV) <=> mV <= 4340
    BY <1>1, <1>2 DEF Reachable
  <2>8. mV <= 4340 <=> q <= 255
    BY <2>2, <2>3
  <2>9. CASE q <= 255
    <3>1. vStep(mV) = q /\ Reachable(mV)
      BY <2>3, <2>6, <2>7, <2>8, <2>9
    <3>2. mV <= 2300 + 8 * q /\ (q > 0 => 2300 + 8 * (q - 1) < mV)
      BY <2>2, <2>3
    <3>3. QED
      BY <2>1, <3>1, <3>2 DEF Volts
  <2>10. CASE q > 255
    BY <2>3, <2>6, <2>7, <2>8, <2>10
  <2>11. QED
    BY <2>3, <2>9, <2>10
<1>3. CASE mV >= 1500 /\ mV < 2300
  <2> DEFINE d == mV - 1500 + 4
  <2>1. Base(mV) = 1500 /\ Size(mV) = 5
    BY <1>1, <1>3 DEF Base, Size
  <2>2. /\ d \in Int /\ 0 <= d /\ d < 65536 /\ mV = d + 1496
        /\ mV - Base(mV) + Size(mV) - 1 = d
    BY <1>1, <1>3, <2>1
  <2> HIDE DEF d
  <2> DEFINE q == d \div 5
  <2>3. q \in Int /\ 0 <= q /\ q < 65536 /\ 5 * q <= d /\ d < 5 * q + 5
    BY <2>2
  <2>4. Quotient(d, 5) = q
    BY <2>2 DEF Quotient
  <2> HIDE DEF q
  <2>5. q % 65536 = q
    BY <2>3, SmallMod
  <2>6. vStep(mV) = IF q > 255 THEN 255 ELSE q
    BY <2>1, <2>2, <2>4, <2>5 DEF vStep
  <2>7. QED
    BY <1>1, <1>3, <2>1, <2>2, <2>3, <2>6 DEF Volts, Reachable
<1>4. CASE mV >= 373 /\ mV < 1500
  <2> DEFINE d == mV - 375 + 2
  <2>1. Base(mV) = 375 /\ Size(mV) = 3
    BY <1>1, <1>4 DEF Base, Size
  <2>2. /\ d \in Int /\ 0 <= d /\ d < 65536 /\ mV = d + 373
        /\ mV - Base(mV) + Size(mV) - 1 = d
    BY <1>1, <1>4, <2>1
  <2> HIDE DEF d
  <2> DEFINE q == d \div 3
  <2>3. q \in Int /\ 0 <= q /\ q < 65536 /\ 3 * q <= d /\ d < 3 * q + 3
    BY <2>2
  <2>4. Quotient(d, 3) = q
    BY <2>2 DEF Quotient
  <2> HIDE DEF q
  <2>5. q % 65536 = q
    BY <2>3, SmallMod
  <2>6. vStep(mV) = IF q > 255 THEN 255 ELSE q
    BY <2>1, <2>2, <2>4, <2>5 DEF vStep
  <2>7. QED
    BY <1>1, <1>4, <2>1, <2>2, <2>3, <2>6 DEF Volts, Reachable
<1>5. CASE mV >= 371 /\ mV < 373
  <2>1. Base(mV) = 375 /\ Size(mV) = 3
    BY <1>1, <1>5 DEF Base, Size
  <2> DEFINE d == mV - Base(mV) + Size(mV) - 1
  <2>2. d = -2 \/ d = -1
    BY <1>1, <1>5, <2>1
  <2>3. Quotient(-2, 3) = 0 /\ Quotient(-1, 3) = 0 /\ 0 % 65536 = 0
    BY SmallMod DEF Quotient
  <2>4. vStep(mV) = 0
    BY <2>1, <2>2, <2>3 DEF vStep
  <2>5. QED
    BY <1>1, <1>5, <2>1, <2>4 DEF Volts, Reachable
<1>6. CASE mV < 371
  <2> DEFINE e == 373 - mV
             q == e \div 3
  <2>0. ~Reachable(mV)
    BY <1>1, <1>6 DEF Reachable
  <2>1. Base(mV) = 375 /\ Size(mV) = 3
    BY <1>1, <1>6 DEF Base, Size
  <2>2. e \in Int /\ 3 <= e /\ e <= 373 /\ mV - Base(mV) + Size(mV) - 1 = -e
    BY <1>1, <1>6, <2>1
  <2>3. q \in Int /\ 1 <= q /\ q <= 124
    BY <2>2
  <2>4. Quotient(-e, 3) = -q
    BY <2>2 DEF Quotient
  <2> HIDE DEF e, q
  <2>5. (-q) % 65536 = 65536 - q
    BY <2>3
  <2>6. vStep(mV) = 255
    BY <2>1, <2>2, <2>3, <2>4, <2>5 DEF vStep
  <2>7. QED
    BY <2>0, <2>6
<1>7. QED
  BY <1>1, <1>2, <1>3, <1>4, <1>5, <1>6

\* What the invariant says of the voltages.
LEMMA RegulatorMeaning == RegulatorInv => VoltageSound
<1> SUFFICES ASSUME RegulatorInv PROVE VoltageSound
    OBVIOUS
<1>1. asked # None => asked \in UInt16 /\ step = vStep(asked)
  BY VoltageIsInt DEF RegulatorInv, TypeOK
<1>2. RoundsUp
  BY <1>1, StepRoundsUp DEF RoundsUp
<1>3. HighBitsGiven
  <2>1. step \in 0..255
    BY DEF RegulatorInv, TypeOK, Byte
  <2>2. (step \div 16) * 16 + 2 \div 16 = step - (step % 16)
    BY <2>1
  <2>3. QED
    BY <2>2 DEF RegulatorInv, HighBitsGiven, Given
<1> QED BY <1>2, <1>3 DEF VoltageSound, RegulatorInv

-----------------------------------------------------------------------------
(* I2C: the invariant.                                                     *)

\* Where a thread can be in i2cTransfer.
Places == {"idle", "wait1", "queue", "wait2", "status", "reset", "copy"}

\* While a thread resets the controller it is empty and takes nothing.
ResetInv ==
    /\ \A c \in Clients : ipc[c] = "reset" =>
          ~enabled /\ iqueue = <<>> /\ ibusy = i2c!Idle /\ ~nack /\ ififo = <<>>
    /\ \A c, d \in Clients : ipc[c] = "reset" /\ ipc[d] = "reset" => c = d

Clean == iqueue = <<>> /\ ibusy = i2c!Idle /\ ~nack /\ ififo = <<>> /\ enabled

\* The transfer of c is over: refused by the slave, or done with its bytes.
Over(c) ==
    /\ iqueue = <<>> /\ ibusy = i2c!Idle /\ enabled
    /\ \/ nack /\ ififo = <<>>
       \/ ~nack /\ imine[c] \in idone /\ ififo = [j \in 1..rxLen[c] |-> imine[c]]

\* The transfer of c is in the queue, on the bus or over.
Underway(c) ==
    LET own == [id |-> imine[c], rx |-> rxLen[c]]
    IN  /\ imine[c] \in i2c!Ids
        /\ \/ /\ iqueue = <<own>> /\ ibusy = i2c!Idle
              /\ ~nack /\ ififo = <<>> /\ enabled
           \/ iqueue = <<>> /\ ibusy = own /\ ~nack /\ ififo = <<>> /\ enabled
           \/ Over(c)

\* As long as nothing happened that the driver does not see to, one thread is
\* in it, and the controller has the transfer of this thread and no other.
TrustInv ==
    trusted =>
        /\ \A c, d \in Clients : ipc[c] # "idle" /\ ipc[d] # "idle" => c = d
        /\ (\A c \in Clients : ipc[c] = "idle") => Clean
        /\ \A c \in Clients :
              /\ ipc[c] \in {"wait1", "queue"} => Clean
              /\ ipc[c] = "wait2" => Underway(c)
              /\ ipc[c] = "status" => Over(c)
              /\ ipc[c] = "copy" => Over(c) /\ ~nack

\* A thread in the driver has been given a length.
I2CArgs == \A c \in Clients : ipc[c] # "idle" => rxLen[c] \in I2CLengths

I2CInv ==
    /\ i2c!TypeOK /\ I2CArgs
    /\ iissued + Cardinality(i2c!Coming) <= I2CMax
    /\ ResetInv
    /\ TrustInv

\* The instances of FiniteSets mean the same.
LEMMA SameCardinality ==
    ASSUME NEW S
    PROVE  /\ i2c!Cardinality(S) = Cardinality(S) /\ spi!Cardinality(S) = Cardinality(S)
           /\ uart!Cardinality(S) = Cardinality(S)
  BY Zenon DEF i2c!Cardinality, spi!Cardinality, uart!Cardinality, Cardinality

\* Counting the threads that are coming.
LEMMA ComingFacts ==
    /\ IsFiniteSet(i2c!Coming) /\ Cardinality(i2c!Coming) \in Nat
    /\ \A c \in Clients : c \notin i2c!Coming =>
          Cardinality(i2c!Coming \cup {c}) = Cardinality(i2c!Coming) + 1
    /\ \A c \in i2c!Coming : /\ Cardinality(i2c!Coming \ {c}) = Cardinality(i2c!Coming) - 1
                         /\ Cardinality(i2c!Coming) >= 1
<1>1. i2c!Coming \subseteq Clients
  BY DEF i2c!Coming
<1>2. IsFiniteSet(i2c!Coming) /\ Cardinality(i2c!Coming) \in Nat
  BY <1>1, HarpiaAssumption, FS_Subset, FS_CardinalityType
<1>3. \A c \in Clients : c \notin i2c!Coming =>
          Cardinality(i2c!Coming \cup {c}) = Cardinality(i2c!Coming) + 1
  BY <1>2, FS_AddElement
<1>4. ASSUME NEW c \in i2c!Coming
      PROVE  /\ Cardinality(i2c!Coming \ {c}) = Cardinality(i2c!Coming) - 1
             /\ Cardinality(i2c!Coming) >= 1
  <2>1. Cardinality(i2c!Coming \ {c}) = Cardinality(i2c!Coming) - 1
    BY <1>2, FS_RemoveElement
  <2>2. IsFiniteSet(i2c!Coming \ {c}) /\ Cardinality(i2c!Coming \ {c}) \in Nat
    BY <1>2, FS_RemoveElement, FS_CardinalityType
  <2>3. QED
    BY <1>2, <2>1, <2>2
<1>5. QED
  BY <1>2, <1>3, <1>4

\* Where nobody comes or goes the count stays.
LEMMA SameComing ==
    ASSUME I2CInv, iissued' = iissued, i2c!Coming' = i2c!Coming
    PROVE  iissued' + Cardinality(i2c!Coming') <= I2CMax
  BY DEF I2CInv

\* One who gives up leaves room.
LEMMA LessComing ==
    ASSUME I2CInv, NEW c \in i2c!Coming, iissued' = iissued, i2c!Coming' = i2c!Coming \ {c}
    PROVE  iissued' + Cardinality(i2c!Coming') <= I2CMax
<1>1. iissued \in Nat /\ I2CMax \in Nat
  BY HarpiaAssumption DEF I2CInv, i2c!TypeOK
<1>2. QED
  BY <1>1, ComingFacts DEF I2CInv

\* The controller starts empty.
LEMMA I2CInit == i2c!Init => I2CInv
<1> SUFFICES ASSUME i2c!Init PROVE I2CInv
  OBVIOUS
<1>1. <<>> \in Seq(i2c!Ids \cup {i2c!NoData}) /\ <<>> \in Seq(i2c!Ids)
      /\ <<>> \in Seq(i2c!Transfers)
  BY EmptySeq
<1>2. nack \in BOOLEAN /\ enabled \in BOOLEAN /\ trusted \in BOOLEAN
  BY Zenon DEF i2c!Init
<1>3. i2c!TypeOK /\ I2CArgs
  BY <1>1, <1>2, HarpiaAssumption DEF i2c!Init, i2c!TypeOK, I2CArgs
<1>4. i2c!Coming = {}
  BY DEF i2c!Init, i2c!Coming
<1>5. iissued + Cardinality(i2c!Coming) <= I2CMax
  BY <1>4, HarpiaAssumption, FS_EmptySet DEF i2c!Init
<1>6. ResetInv
  BY DEF i2c!Init, ResetInv
<1>7. TrustInv
  BY DEF i2c!Init, TrustInv, Clean
<1>8. QED
  BY <1>3, <1>5, <1>6, <1>7 DEF I2CInv

\* One poll of waitForIdle.
LEMMA PollEffect ==
    ASSUME i2c!TypeOK, NEW c \in Clients, NEW next, i2c!Poll(c, next)
    PROVE  /\ trusted' \in BOOLEAN
           /\ \/ /\ ibusy = i2c!Idle /\ ipc' = [ipc EXCEPT ![c] = next]
                 /\ UNCHANGED <<in, iret>>
                 /\ trusted' => trusted /\ iqueue = <<>>
              \/ /\ ibusy # i2c!Idle /\ in[c] = 1 /\ in' = [in EXCEPT ![c] = @ - 1]
                 /\ ipc' = [ipc EXCEPT ![c] = "idle"]
                 /\ iret' = [iret EXCEPT ![c] = "Timeout"] /\ ~trusted'
              \/ /\ ibusy # i2c!Idle /\ in[c] # 1 /\ in' = [in EXCEPT ![c] = @ - 1]
                 /\ UNCHANGED <<ipc, iret>> /\ (trusted' => trusted)
<1>1. trusted' \in BOOLEAN
  BY Zenon DEF i2c!Poll, i2c!Distrust
<1>2. QED
  BY <1>1 DEF i2c!Poll, i2c!Distrust, i2c!Goto, i2c!Return

\* The counter of a loop that polls stays above 0.
LEMMA PollTypes ==
    ASSUME I2CInv, NEW c \in Clients, NEW next \in {"queue", "status"},
           i2c!Poll(c, next), ipc[c] \in {"wait1", "wait2"},
           UNCHANGED <<rxLen, imine, ibytes, iissued, iqueue, ibusy, nack, ififo,
                       enabled, idone>>
    PROVE  i2c!TypeOK' /\ I2CArgs'
<1>1. /\ trusted' \in BOOLEAN
      /\ \/ ipc' = [ipc EXCEPT ![c] = next] /\ UNCHANGED <<in, iret>>
         \/ /\ in[c] = 1 /\ in' = [in EXCEPT ![c] = @ - 1]
            /\ ipc' = [ipc EXCEPT ![c] = "idle"]
            /\ iret' = [iret EXCEPT ![c] = "Timeout"]
         \/ /\ in[c] # 1 /\ in' = [in EXCEPT ![c] = @ - 1]
            /\ UNCHANGED <<ipc, iret>>
  BY PollEffect DEF I2CInv
<1>2. /\ in \in [Clients -> 0..Polls] /\ in[c] > 0 /\ Polls \in Nat
      /\ ipc \in [Clients -> Places]
      /\ \A d \in Clients : ipc[d] \in {"wait1", "wait2"} => in[d] > 0
  BY HarpiaAssumption DEF I2CInv, i2c!TypeOK, Places
<1>3. in' \in [Clients -> 0..Polls]
  BY <1>1, <1>2
<1>4. \A d \in Clients : ipc'[d] \in {"wait1", "wait2"} => in'[d] > 0
  BY <1>1, <1>2
<1>5. ipc' \in [Clients -> Places]
  BY <1>1, <1>2 DEF Places
<1>6. iret' \in [Clients -> {"none", "Success", "Timeout", "IOError"}]
  BY <1>1 DEF I2CInv, i2c!TypeOK
<1>7. I2CArgs'
  BY <1>1, <1>2 DEF I2CInv, I2CArgs
<1>8. QED
  BY <1>1, <1>3, <1>4, <1>5, <1>6, <1>7 DEF I2CInv, i2c!TypeOK, Places

\* waitForIdle before the transfer.
LEMMA WaitBeforeStep ==
    ASSUME I2CInv, NEW c \in Clients, i2c!WaitBefore(c)
    PROVE  I2CInv'
<1>1. /\ ipc[c] = "wait1" /\ i2c!Poll(c, "queue")
      /\ UNCHANGED <<rxLen, imine, ibytes, iissued, iqueue, ibusy, nack, ififo,
                     enabled, idone>>
  BY DEF i2c!WaitBefore, i2c!controller
<1>2. c \in i2c!Coming
  BY <1>1 DEF i2c!Coming
<1>3. /\ trusted' \in BOOLEAN
      /\ \/ /\ ibusy = i2c!Idle /\ ipc' = [ipc EXCEPT ![c] = "queue"]
            /\ UNCHANGED <<in, iret>>
            /\ trusted' => trusted /\ iqueue = <<>>
         \/ /\ ibusy # i2c!Idle /\ in[c] = 1 /\ in' = [in EXCEPT ![c] = @ - 1]
            /\ ipc' = [ipc EXCEPT ![c] = "idle"]
            /\ iret' = [iret EXCEPT ![c] = "Timeout"] /\ ~trusted'
         \/ /\ ibusy # i2c!Idle /\ in[c] # 1 /\ in' = [in EXCEPT ![c] = @ - 1]
            /\ UNCHANGED <<ipc, iret>> /\ (trusted' => trusted)
  BY <1>1, PollEffect DEF I2CInv
<1>4. i2c!TypeOK' /\ I2CArgs'
  BY <1>1, PollTypes
<1>5. iissued' + Cardinality(i2c!Coming') <= I2CMax
  <2>1. i2c!Coming' = i2c!Coming \/ i2c!Coming' = i2c!Coming \ {c}
    BY <1>2, <1>3 DEF i2c!Coming, I2CInv, i2c!TypeOK
  <2>2. QED
    BY <1>1, <1>2, <2>1, SameComing, LessComing
<1>6. ResetInv'
  BY <1>1, <1>3 DEF ResetInv, I2CInv, i2c!TypeOK
<1>7. TrustInv'
  BY <1>1, <1>3 DEF TrustInv, Clean, Underway, Over, I2CInv, i2c!TypeOK
<1>8. QED
  BY <1>4, <1>5, <1>6, <1>7 DEF I2CInv

\* A transfer is given to the controller, or dropped by one that is in reset.
LEMMA FillStep ==
    ASSUME I2CInv, NEW c \in Clients, i2c!Fill(c)
    PROVE  I2CInv'
<1> DEFINE own == [id |-> iissued + 1, rx |-> rxLen[c]]
<1>1. /\ ipc[c] = "queue" /\ iissued' = iissued + 1
      /\ imine' = [imine EXCEPT ![c] = iissued + 1]
      /\ iqueue' = IF enabled THEN Append(iqueue, own) ELSE iqueue
      /\ ipc' = [ipc EXCEPT ![c] = "wait2"] /\ in' = [in EXCEPT ![c] = Polls]
      /\ UNCHANGED <<rxLen, iret, ibytes, ibusy, nack, ififo, enabled, idone,
                     trusted>>
  BY DEF i2c!Fill, i2c!Goto
<1>2. c \in i2c!Coming /\ i2c!Coming' = i2c!Coming \ {c}
  BY <1>1 DEF i2c!Coming, I2CInv, i2c!TypeOK
<1>3. iissued \in Nat /\ iissued + 1 \in i2c!Ids
      /\ iissued' + Cardinality(i2c!Coming') <= I2CMax
  <2>1. iissued \in Nat /\ I2CMax \in Nat
    BY HarpiaAssumption DEF I2CInv, i2c!TypeOK
  <2>2. /\ Cardinality(i2c!Coming') = Cardinality(i2c!Coming) - 1
        /\ Cardinality(i2c!Coming) >= 1 /\ Cardinality(i2c!Coming) \in Nat
    BY <1>2, ComingFacts
  <2>3. iissued + Cardinality(i2c!Coming) <= I2CMax
    BY DEF I2CInv
  <2>4. QED
    BY <1>1, <2>1, <2>2, <2>3 DEF i2c!Ids
<1>4. enabled => own \in i2c!Transfers
  <2>1. rxLen[c] \in I2CLengths
    BY <1>1 DEF I2CInv, I2CArgs
  <2>2. QED
    BY <1>3, <2>1 DEF i2c!Transfers
<1>5. i2c!TypeOK' /\ I2CArgs'
  <2>1. iqueue' \in Seq(i2c!Transfers)
    BY <1>1, <1>4, AppendProperties DEF I2CInv, i2c!TypeOK
  <2>2. /\ in' \in [Clients -> 0..Polls]
        /\ ipc' \in [Clients -> Places]
        /\ \A d \in Clients : ipc'[d] \in {"wait1", "wait2"} => in'[d] > 0
    BY <1>1, HarpiaAssumption DEF I2CInv, i2c!TypeOK, Places
  <2>3. imine' \in [Clients -> i2c!Ids \cup {0}] /\ iissued' \in 0..I2CMax
    BY <1>1, <1>3, HarpiaAssumption DEF I2CInv, i2c!TypeOK, i2c!Ids
  <2>4. I2CArgs'
    BY <1>1 DEF I2CInv, i2c!TypeOK, I2CArgs
  <2>5. QED
    BY <1>1, <2>1, <2>2, <2>3, <2>4 DEF I2CInv, i2c!TypeOK, Places
<1>6. ResetInv'
  BY <1>1 DEF ResetInv, I2CInv, i2c!TypeOK
<1>7. TrustInv'
  <2>1. SUFFICES ASSUME trusted PROVE TrustInv'
    BY <1>1 DEF TrustInv
  <2>2. Clean /\ \A d \in Clients : d # c => ipc[d] = "idle"
    BY <1>1, <2>1 DEF I2CInv, TrustInv
  <2>3. /\ ipc'[c] = "wait2" /\ \A d \in Clients : d # c => ipc'[d] = "idle"
    BY <1>1, <2>2 DEF I2CInv, i2c!TypeOK
  <2>4. imine'[c] = iissued + 1
    BY <1>1 DEF I2CInv, i2c!TypeOK
  <2>5. Underway(c)'
    BY <1>1, <1>3, <2>2, <2>4 DEF Clean, Underway
  <2>6. QED
    BY <2>3, <2>5 DEF TrustInv
<1>8. QED
  BY <1>3, <1>5, <1>6, <1>7 DEF I2CInv

\* waitForIdle after the transfer was given to the controller.
LEMMA WaitAfterStep ==
    ASSUME I2CInv, NEW c \in Clients, i2c!WaitAfter(c)
    PROVE  I2CInv'
<1>1. /\ ipc[c] = "wait2" /\ i2c!Poll(c, "status")
      /\ UNCHANGED <<rxLen, imine, ibytes, iissued, iqueue, ibusy, nack, ififo,
                     enabled, idone>>
  BY DEF i2c!WaitAfter, i2c!controller
<1>2. /\ trusted' \in BOOLEAN
      /\ \/ /\ ibusy = i2c!Idle /\ ipc' = [ipc EXCEPT ![c] = "status"]
            /\ trusted' => trusted /\ iqueue = <<>>
         \/ /\ ibusy # i2c!Idle /\ ipc' = [ipc EXCEPT ![c] = "idle"]
            /\ ~trusted'
         \/ /\ ibusy # i2c!Idle /\ UNCHANGED ipc
            /\ trusted' => trusted
  BY <1>1, PollEffect DEF I2CInv
<1>3. i2c!TypeOK' /\ I2CArgs'
  BY <1>1, PollTypes
<1>4. iissued' + Cardinality(i2c!Coming') <= I2CMax
  <2>1. i2c!Coming' = i2c!Coming
    BY <1>1, <1>2 DEF i2c!Coming, I2CInv, i2c!TypeOK
  <2>2. QED
    BY <1>1, <2>1, SameComing
<1>5. ResetInv'
  BY <1>1, <1>2 DEF ResetInv, I2CInv, i2c!TypeOK
<1>6. TrustInv'
  <2>1. SUFFICES ASSUME trusted' PROVE TrustInv'
    BY DEF TrustInv
  <2>2. CASE ibusy = i2c!Idle
    <3>1. trusted /\ iqueue = <<>> /\ ipc' = [ipc EXCEPT ![c] = "status"]
      BY <1>2, <2>1, <2>2
    <3>2. Underway(c) /\ \A d \in Clients : d # c => ipc[d] = "idle"
      BY <1>1, <3>1 DEF I2CInv, TrustInv
    <3>3. Over(c)
      BY <2>2, <3>1, <3>2 DEF Underway, i2c!Idle, i2c!Ids
    <3>4. ipc'[c] = "status" /\ \A d \in Clients : d # c => ipc'[d] = "idle"
      BY <3>1, <3>2 DEF I2CInv, i2c!TypeOK
    <3>5. Over(c)'
      BY <1>1, <3>3 DEF Over
    <3>6. QED
      BY <3>4, <3>5 DEF TrustInv
  <2>3. CASE ibusy # i2c!Idle
    <3>1. trusted /\ ipc' = ipc
      BY <1>2, <2>1, <2>3
    <3>2. QED
      BY <1>1, <2>1, <3>1 DEF I2CInv, TrustInv, Clean, Underway, Over
  <2>4. QED
    BY <2>2, <2>3
<1>7. QED
  BY <1>3, <1>4, <1>5, <1>6 DEF I2CInv

\* NACK is looked at: the first write of resetController, or on to the bytes.
LEMMA StatusStep ==
    ASSUME I2CInv, NEW c \in Clients, i2c!Status(c)
    PROVE  I2CInv'
<1>1. /\ ipc[c] = "status"
      /\ UNCHANGED <<in, rxLen, imine, iret, ibytes, iissued, idone, trusted>>
  BY DEF i2c!Status
<1>2. \/ /\ nack /\ ipc' = [ipc EXCEPT ![c] = "reset"] /\ enabled' = FALSE
         /\ iqueue' = <<>> /\ ibusy' = i2c!Idle /\ nack' = FALSE /\ ififo' = <<>>
      \/ /\ ~nack /\ ipc' = [ipc EXCEPT ![c] = "copy"]
         /\ UNCHANGED <<enabled, iqueue, ibusy, nack, ififo>>
  BY DEF i2c!Status, i2c!Goto
<1>3. i2c!TypeOK' /\ I2CArgs'
  <2>1. <<>> \in Seq(i2c!Transfers) /\ <<>> \in Seq(i2c!Ids)
    BY EmptySeq
  <2>2. nack' \in BOOLEAN /\ enabled' \in BOOLEAN
    BY <1>2, Zenon DEF I2CInv, i2c!TypeOK
  <2>3. ipc' \in [Clients -> Places]
    BY <1>2 DEF I2CInv, i2c!TypeOK, Places
  <2>4. \A d \in Clients : ipc'[d] \in {"wait1", "wait2"} => in'[d] > 0
    BY <1>1, <1>2 DEF I2CInv, i2c!TypeOK
  <2>5. I2CArgs'
    BY <1>1, <1>2 DEF I2CInv, i2c!TypeOK, I2CArgs
  <2>6. QED
    BY <1>1, <1>2, <2>1, <2>2, <2>3, <2>4, <2>5 DEF I2CInv, i2c!TypeOK, Places
<1>4. iissued' + Cardinality(i2c!Coming') <= I2CMax
  <2>1. i2c!Coming' = i2c!Coming
    BY <1>1, <1>2 DEF i2c!Coming, I2CInv, i2c!TypeOK
  <2>2. QED
    BY <1>1, <2>1, SameComing
<1>5. ResetInv'
  BY <1>1, <1>2 DEF ResetInv, I2CInv, i2c!TypeOK
<1>6. TrustInv'
  <2>1. SUFFICES ASSUME trusted PROVE TrustInv'
    BY <1>1 DEF TrustInv
  <2>2. Over(c) /\ \A d \in Clients : d # c => ipc[d] = "idle"
    BY <1>1, <2>1 DEF I2CInv, TrustInv
  <2>3. /\ ipc'[c] \in {"reset", "copy"}
        /\ \A d \in Clients : d # c => ipc'[d] = "idle"
    BY <1>2, <2>2 DEF I2CInv, i2c!TypeOK
  <2>4. ipc'[c] = "copy" => Over(c)' /\ ~nack'
    BY <1>1, <1>2, <2>2 DEF I2CInv, i2c!TypeOK, Over
  <2>5. QED
    BY <2>3, <2>4 DEF TrustInv
<1>7. QED
  BY <1>3, <1>4, <1>5, <1>6 DEF I2CInv

\* The second write of resetController: a thread alone leaves a clean controller.
LEMMA ResetStep ==
    ASSUME I2CInv, NEW c \in Clients, i2c!Reset(c)
    PROVE  I2CInv'
<1>1. /\ ipc[c] = "reset" /\ enabled' = TRUE
      /\ ipc' = [ipc EXCEPT ![c] = "idle"] /\ iret' = [iret EXCEPT ![c] = "IOError"]
      /\ trusted' => trusted \/ i2c!Alone(c)
      /\ UNCHANGED <<in, rxLen, imine, ibytes, iissued, iqueue, ibusy, nack, ififo,
                     idone>>
  BY DEF i2c!Reset, i2c!Return, i2c!Goto
<1>2. trusted' \in BOOLEAN /\ enabled' \in BOOLEAN
  BY Zenon DEF i2c!Reset
<1>3. i2c!TypeOK' /\ I2CArgs'
  BY <1>1, <1>2 DEF I2CInv, i2c!TypeOK, I2CArgs
<1>4. iissued' + Cardinality(i2c!Coming') <= I2CMax
  <2>1. i2c!Coming' = i2c!Coming
    BY <1>1 DEF i2c!Coming, I2CInv, i2c!TypeOK
  <2>2. QED
    BY <1>1, <2>1, SameComing
<1>5. ResetInv'
  BY <1>1 DEF ResetInv, I2CInv, i2c!TypeOK
<1>6. TrustInv'
  <2>1. SUFFICES ASSUME trusted' PROVE TrustInv'
    BY DEF TrustInv
  <2>2. \A d \in Clients : d # c => ipc[d] = "idle"
    BY <1>1, <2>1 DEF I2CInv, TrustInv, i2c!Alone
  <2>3. \A d \in Clients : ipc'[d] = "idle"
    BY <1>1, <2>2 DEF I2CInv, i2c!TypeOK
  <2>4. Clean'
    BY <1>1 DEF I2CInv, ResetInv, Clean
  <2>5. QED
    BY <2>3, <2>4 DEF TrustInv
<1>7. QED
  BY <1>3, <1>4, <1>5, <1>6 DEF I2CInv

\* What a loop of that many reads takes from a fifo.
LEMMA FifoFacts ==
    ASSUME NEW S, NEW fifo \in Seq(S), NEW want \in Nat
    PROVE  LET got == IF want <= Len(fifo) THEN want ELSE Len(fifo)
           IN  /\ got \in 0..Len(fifo)
               /\ SubSeq(fifo, got + 1, Len(fifo)) \in Seq(S)
               /\ got = Len(fifo) => SubSeq(fifo, got + 1, Len(fifo)) = <<>>
               /\ [j \in 1..want |-> IF j <= got THEN fifo[j] ELSE 0]
                     \in Seq(S \cup {0})
<1> DEFINE N == Len(fifo)
           got == IF want <= N THEN want ELSE N
           rest == SubSeq(fifo, got + 1, N)
           read == [j \in 1..want |-> IF j <= got THEN fifo[j] ELSE 0]
<1>1. N \in Nat /\ \A j \in 1..N : fifo[j] \in S
  BY LenProperties
<1>2. got \in 0..N /\ got + 1 \in 1..(N + 1)
  BY <1>1
<1> HIDE DEF got
<1>3. \A j \in (got + 1)..N : fifo[j] \in S
  BY <1>1, <1>2
<1>4. rest \in Seq(S) /\ Len(rest) = IF got + 1 <= N THEN N - (got + 1) + 1 ELSE 0
  BY <1>1, <1>2, <1>3, SubSeqProperties
<1>5. got = N => rest = <<>>
  BY <1>1, <1>4, EmptySeq
<1>6. read \in [1..want -> S \cup {0}]
  BY <1>1, <1>2
<1>7. read \in Seq(S \cup {0})
  BY <1>6, SeqDef
<1>8. QED
  BY <1>2, <1>4, <1>5, <1>7 DEF got

\* The bytes are read, and none is left.
LEMMA CopyStep ==
    ASSUME I2CInv, NEW c \in Clients, i2c!Copy(c)
    PROVE  /\ I2CInv'
           /\ trusted => /\ imine[c] \in idone
                         /\ ibytes'[c] = [j \in 1..rxLen[c] |-> imine[c]]
<1> DEFINE want == rxLen[c]
           got == IF want <= Len(ififo) THEN want ELSE Len(ififo)
           read == [j \in 1..want |-> IF j <= got THEN ififo[j] ELSE 0]
           rest == SubSeq(ififo, got + 1, Len(ififo))
<1>1. /\ ipc[c] = "copy" /\ ipc' = [ipc EXCEPT ![c] = "idle"]
      /\ iret' = [iret EXCEPT ![c] = "Success"]
      /\ ibytes' = [ibytes EXCEPT ![c] = read] /\ ififo' = rest
      /\ UNCHANGED <<in, rxLen, imine, iissued, iqueue, ibusy, nack, enabled,
                     idone, trusted>>
  BY DEF i2c!Copy, i2c!Return, i2c!Goto, i2c!NoData
<1>2. want \in Nat
  <2>1. want \in I2CLengths
    BY <1>1 DEF I2CInv, I2CArgs
  <2>2. QED
    BY <2>1, HarpiaAssumption
<1>3. ififo \in Seq(i2c!Ids) /\ Len(ififo) \in Nat
  BY LenProperties DEF I2CInv, i2c!TypeOK
<1>4. /\ got \in 0..Len(ififo)
      /\ rest \in Seq(i2c!Ids)
      /\ got = Len(ififo) => rest = <<>>
      /\ read \in Seq(i2c!Ids \cup {i2c!NoData})
  BY <1>2, <1>3, FifoFacts DEF i2c!NoData
<1>5. got = IF want <= Len(ififo) THEN want ELSE Len(ififo)
  OBVIOUS
<1>6. read = [j \in 1..want |-> IF j <= got THEN ififo[j] ELSE 0]
  OBVIOUS
<1> HIDE DEF got, rest, read
<1>7. i2c!TypeOK' /\ I2CArgs'
  <2>1. ibytes' \in [Clients -> Seq(i2c!Ids \cup {i2c!NoData})]
    BY <1>1, <1>4 DEF I2CInv, i2c!TypeOK
  <2>2. /\ ipc' \in [Clients -> Places]
        /\ iret' \in [Clients -> {"none", "Success", "Timeout", "IOError"}]
        /\ \A d \in Clients : ipc'[d] \in {"wait1", "wait2"} => in'[d] > 0
    BY <1>1 DEF I2CInv, i2c!TypeOK, Places
  <2>3. I2CArgs'
    BY <1>1 DEF I2CInv, i2c!TypeOK, I2CArgs
  <2>4. QED
    BY <1>1, <1>4, <2>1, <2>2, <2>3 DEF I2CInv, i2c!TypeOK, Places
<1>8. iissued' + Cardinality(i2c!Coming') <= I2CMax
  <2>1. i2c!Coming' = i2c!Coming
    BY <1>1 DEF i2c!Coming, I2CInv, i2c!TypeOK
  <2>2. QED
    BY <1>1, <2>1, SameComing
<1>9. ResetInv'
  <2>1. ififo = <<>> => rest = <<>>
    <3>1. ififo = <<>> => Len(ififo) = 0
      OBVIOUS
    <3>2. QED
      BY <1>4, <3>1
  <2>2. QED
    BY <1>1, <2>1 DEF ResetInv, I2CInv, i2c!TypeOK
<1>10. ASSUME trusted
       PROVE  /\ TrustInv' /\ imine[c] \in idone
              /\ ibytes'[c] = [j \in 1..rxLen[c] |-> imine[c]]
  <2>1. Over(c) /\ ~nack /\ \A d \in Clients : d # c => ipc[d] = "idle"
    BY <1>1, <1>10 DEF I2CInv, TrustInv
  <2>2. /\ imine[c] \in idone /\ ififo = [j \in 1..want |-> imine[c]]
        /\ iqueue = <<>> /\ ibusy = i2c!Idle /\ enabled
    BY <2>1 DEF Over
  <2>3. Len(ififo) = want
    <3>1. DOMAIN ififo = 1..Len(ififo) /\ DOMAIN ififo = 1..want
      BY <1>3, <2>2, LenProperties
    <3>2. QED
      BY <1>2, <1>3, <3>1
  <2>4. got = want /\ rest = <<>>
    BY <1>2, <1>4, <1>5, <2>3
  <2>5. read = [j \in 1..want |-> imine[c]]
    BY <1>2, <1>6, <2>2, <2>4
  <2>6. ibytes'[c] = read
    <3>1. c \in DOMAIN ibytes
      BY DEF I2CInv, i2c!TypeOK
    <3>2. QED
      BY <1>1, <3>1
  <2>7. \A d \in Clients : ipc'[d] = "idle"
    BY <1>1, <2>1 DEF I2CInv, i2c!TypeOK
  <2>8. Clean'
    BY <1>1, <2>1, <2>2, <2>4 DEF Clean
  <2>9. TrustInv'
    BY <2>7, <2>8 DEF TrustInv
  <2>10. QED
    BY <2>2, <2>5, <2>6, <2>9
<1>11. TrustInv'
  BY <1>1, <1>10 DEF TrustInv
<1>12. QED
  BY <1>7, <1>8, <1>9, <1>10, <1>11 DEF I2CInv

\* A call: trust is lost unless the thread is alone.
LEMMA CallStep ==
    ASSUME I2CInv, NEW c \in Clients, NEW l \in I2CLengths, i2c!Call(c, l)
    PROVE  I2CInv'
<1>1. /\ ipc[c] = "idle" /\ ipc' = [ipc EXCEPT ![c] = "wait1"]
      /\ iissued + Cardinality(i2c!Coming) < I2CMax
      /\ in' = [in EXCEPT ![c] = Polls] /\ rxLen' = [rxLen EXCEPT ![c] = l]
      /\ iret' = [iret EXCEPT ![c] = "none"] /\ ibytes' = [ibytes EXCEPT ![c] = <<>>]
      /\ trusted' => trusted /\ i2c!Alone(c)
      /\ UNCHANGED <<imine, iissued, iqueue, ibusy, nack, ififo, enabled, idone>>
  <2>1. iissued + Cardinality(i2c!Coming) < I2CMax
    BY SameCardinality DEF i2c!Call
  <2>2. trusted' => trusted /\ i2c!Alone(c)
    BY DEF i2c!Call, i2c!Distrust
  <2>3. QED
    BY <2>1, <2>2 DEF i2c!Call, i2c!Goto, i2c!controller
<1>2. trusted' \in BOOLEAN
  BY Zenon DEF i2c!Call, i2c!Distrust
<1>3. i2c!TypeOK' /\ I2CArgs'
  <2>1. /\ in' \in [Clients -> 0..Polls] /\ ipc' \in [Clients -> Places]
        /\ \A d \in Clients : ipc'[d] \in {"wait1", "wait2"} => in'[d] > 0
    BY <1>1, HarpiaAssumption DEF I2CInv, i2c!TypeOK, Places
  <2>2. /\ rxLen' \in [Clients -> I2CLengths \cup {0}]
        /\ iret' \in [Clients -> {"none", "Success", "Timeout", "IOError"}]
    BY <1>1 DEF I2CInv, i2c!TypeOK
  <2>3. ibytes' \in [Clients -> Seq(i2c!Ids \cup {i2c!NoData})]
    <3>1. <<>> \in Seq(i2c!Ids \cup {i2c!NoData})
      BY EmptySeq
    <3>2. QED
      BY <1>1, <3>1 DEF I2CInv, i2c!TypeOK
  <2>4. I2CArgs'
    BY <1>1 DEF I2CInv, i2c!TypeOK, I2CArgs
  <2>5. QED
    BY <1>1, <1>2, <2>1, <2>2, <2>3, <2>4 DEF I2CInv, i2c!TypeOK, Places
<1>4. iissued' + Cardinality(i2c!Coming') <= I2CMax
  <2>1. c \notin i2c!Coming /\ i2c!Coming' = i2c!Coming \cup {c}
    BY <1>1 DEF i2c!Coming, I2CInv, i2c!TypeOK
  <2>2. Cardinality(i2c!Coming') = Cardinality(i2c!Coming) + 1 /\ Cardinality(i2c!Coming) \in Nat
    BY <2>1, ComingFacts
  <2>3. iissued \in Nat /\ I2CMax \in Nat
    BY HarpiaAssumption DEF I2CInv, i2c!TypeOK
  <2>4. QED
    BY <1>1, <2>2, <2>3
<1>5. ResetInv'
  BY <1>1 DEF ResetInv, I2CInv, i2c!TypeOK
<1>6. TrustInv'
  <2>1. SUFFICES ASSUME trusted' PROVE TrustInv'
    BY DEF TrustInv
  <2>2. trusted /\ \A d \in Clients : ipc[d] = "idle"
    BY <1>1, <2>1 DEF i2c!Alone
  <2>3. Clean'
    BY <1>1, <2>2 DEF I2CInv, TrustInv, Clean
  <2>4. /\ ipc'[c] = "wait1" /\ \A d \in Clients : d # c => ipc'[d] = "idle"
    BY <1>1, <2>2 DEF I2CInv, i2c!TypeOK
  <2>5. QED
    BY <2>3, <2>4 DEF TrustInv
<1>7. QED
  BY <1>3, <1>4, <1>5, <1>6 DEF I2CInv

\* While trust lasts the transfer at the controller is that of a waiting thread.
LEMMA WhoseTransfer ==
    ASSUME I2CInv, trusted, iqueue # <<>> \/ ibusy # i2c!Idle
    PROVE  \E c \in Clients :
              /\ ipc[c] = "wait2" /\ \A d \in Clients : d # c => ipc[d] = "idle"
              /\ Underway(c) /\ ~Over(c)
<1>1. PICK c \in Clients : ipc[c] # "idle"
  BY DEF I2CInv, TrustInv, Clean
<1>2. \A d \in Clients : d # c => ipc[d] = "idle"
  BY <1>1 DEF I2CInv, TrustInv
<1>3. ipc[c] = "wait2"
  BY <1>1 DEF I2CInv, TrustInv, Clean, Over, ResetInv, i2c!TypeOK
<1>4. Underway(c) /\ ~Over(c)
  BY <1>3 DEF I2CInv, TrustInv, Over
<1>5. QED
  BY <1>2, <1>3, <1>4

\* The controller takes a transfer from its queue.
LEMMA StartStep ==
    ASSUME I2CInv, i2c!Start
    PROVE  I2CInv'
<1>1. /\ enabled /\ iqueue # <<>> /\ ibusy = i2c!Idle
      /\ ibusy' = Head(iqueue) /\ iqueue' = Tail(iqueue)
      /\ UNCHANGED <<ipc, in, rxLen, imine, iret, ibytes, iissued, nack, ififo,
                     enabled, idone, trusted>>
  BY DEF i2c!Start, i2c!driver
<1>2. ibusy' \in i2c!Transfers /\ iqueue' \in Seq(i2c!Transfers)
  BY <1>1, HeadTailProperties DEF I2CInv, i2c!TypeOK
<1>3. i2c!TypeOK' /\ I2CArgs'
  BY <1>1, <1>2 DEF I2CInv, i2c!TypeOK, I2CArgs
<1>4. iissued' + Cardinality(i2c!Coming') <= I2CMax
  BY <1>1, SameComing DEF i2c!Coming
<1>5. ResetInv'
  BY <1>1 DEF ResetInv, I2CInv
<1>6. ASSUME trusted PROVE TrustInv'
  <2>1. PICK c \in Clients :
           /\ ipc[c] = "wait2" /\ \A d \in Clients : d # c => ipc[d] = "idle"
           /\ Underway(c) /\ ~Over(c)
    BY <1>1, <1>6, WhoseTransfer
  <2> DEFINE own == [id |-> imine[c], rx |-> rxLen[c]]
  <2>2. iqueue = <<own>> /\ ~nack /\ ififo = <<>> /\ imine[c] \in i2c!Ids
    BY <1>1, <2>1 DEF Underway
  <2>3. ibusy' = own /\ iqueue' = <<>>
    BY <1>1, <2>2
  <2>4. Underway(c)'
    BY <1>1, <2>2, <2>3 DEF Underway
  <2>5. QED
    BY <1>1, <2>1, <2>4 DEF TrustInv
<1>7. TrustInv'
  BY <1>1, <1>6 DEF TrustInv
<1>8. QED
  BY <1>3, <1>4, <1>5, <1>7 DEF I2CInv

\* The slave has taken or given its bytes.
LEMMA CompleteStep ==
    ASSUME I2CInv, i2c!Complete
    PROVE  I2CInv'
<1> DEFINE came == [j \in 1..ibusy.rx |-> ibusy.id]
<1>1. /\ ibusy # i2c!Idle /\ ibusy' = i2c!Idle /\ idone' = idone \cup {ibusy.id}
      /\ ififo' = ififo \o came
      /\ UNCHANGED <<ipc, in, rxLen, imine, iret, ibytes, iissued, iqueue, nack,
                     enabled, trusted>>
  BY DEF i2c!Complete, i2c!driver
<1>2. ibusy.id \in i2c!Ids /\ ibusy.rx \in Nat
  <2>1. ibusy \in i2c!Transfers
    BY <1>1 DEF I2CInv, i2c!TypeOK
  <2>2. QED
    BY <2>1, HarpiaAssumption DEF i2c!Transfers
<1>3. came \in Seq(i2c!Ids)
  <2>1. came \in [1..ibusy.rx -> i2c!Ids]
    BY <1>2
  <2>2. QED
    BY <1>2, <2>1, SeqDef
<1> HIDE DEF came
<1>4. ififo' \in Seq(i2c!Ids)
  BY <1>1, <1>3, ConcatProperties DEF I2CInv, i2c!TypeOK
<1>5. i2c!TypeOK' /\ I2CArgs'
  BY <1>1, <1>2, <1>4 DEF I2CInv, i2c!TypeOK, I2CArgs
<1>6. iissued' + Cardinality(i2c!Coming') <= I2CMax
  BY <1>1, SameComing DEF i2c!Coming
<1>7. ResetInv'
  BY <1>1 DEF ResetInv, I2CInv
<1>8. ASSUME trusted PROVE TrustInv'
  <2>1. PICK c \in Clients :
           /\ ipc[c] = "wait2" /\ \A d \in Clients : d # c => ipc[d] = "idle"
           /\ Underway(c) /\ ~Over(c)
    BY <1>1, <1>8, WhoseTransfer
  <2> DEFINE own == [id |-> imine[c], rx |-> rxLen[c]]
  <2>2. /\ ibusy = own /\ iqueue = <<>> /\ ~nack /\ ififo = <<>> /\ enabled
        /\ imine[c] \in i2c!Ids
    BY <1>1, <2>1 DEF Underway
  <2>3. ififo' = [j \in 1..rxLen[c] |-> imine[c]]
    <3>1. <<>> \o came = came
      BY <1>3, ConcatEmptySeq
    <3>2. QED
      BY <1>1, <2>2, <3>1 DEF came
  <2>4. Over(c)'
    BY <1>1, <2>2, <2>3 DEF Over
  <2>5. Underway(c)'
    BY <1>1, <2>2, <2>4 DEF Underway
  <2>6. QED
    BY <1>1, <2>1, <2>5 DEF TrustInv
<1>9. TrustInv'
  BY <1>1, <1>8 DEF TrustInv
<1>10. QED
  BY <1>5, <1>6, <1>7, <1>9 DEF I2CInv

\* The slave has refused, or another master has won the bus.
LEMMA RefusedStep ==
    ASSUME I2CInv, i2c!Nack \/ i2c!ArbLost
    PROVE  I2CInv'
<1>1. /\ ibusy # i2c!Idle /\ ibusy' = i2c!Idle
      /\ UNCHANGED <<ipc, in, rxLen, imine, iret, ibytes, iissued, iqueue, ififo,
                     enabled, idone>>
      /\ trusted' => i2c!Nack /\ trusted /\ nack'
  BY DEF i2c!Nack, i2c!ArbLost, i2c!driver
<1>2. nack' \in BOOLEAN /\ trusted' \in BOOLEAN
  BY Zenon DEF i2c!Nack, i2c!ArbLost, I2CInv, i2c!TypeOK
<1>3. i2c!TypeOK' /\ I2CArgs'
  BY <1>1, <1>2 DEF I2CInv, i2c!TypeOK, I2CArgs
<1>4. iissued' + Cardinality(i2c!Coming') <= I2CMax
  BY <1>1, SameComing DEF i2c!Coming
<1>5. ResetInv'
  BY <1>1 DEF ResetInv, I2CInv
<1>6. ASSUME trusted' PROVE TrustInv'
  <2>1. PICK c \in Clients :
           /\ ipc[c] = "wait2" /\ \A d \in Clients : d # c => ipc[d] = "idle"
           /\ Underway(c) /\ ~Over(c)
    BY <1>1, <1>6, WhoseTransfer
  <2>2. /\ iqueue = <<>> /\ ififo = <<>> /\ enabled /\ imine[c] \in i2c!Ids
    BY <1>1, <2>1 DEF Underway
  <2>3. Over(c)'
    BY <1>1, <1>6, <2>2 DEF Over
  <2>4. Underway(c)'
    BY <1>1, <2>2, <2>3 DEF Underway
  <2>5. QED
    BY <1>1, <2>1, <2>4 DEF TrustInv
<1>7. TrustInv'
  BY <1>6 DEF TrustInv
<1>8. QED
  BY <1>3, <1>4, <1>5, <1>7 DEF I2CInv

\* Every step of the driver and the controller preserves the invariant, and only
\* the last step of a call reports success.
LEMMA I2CStep ==
    ASSUME I2CInv, i2c!Next
    PROVE  I2CInv' /\ i2c!SuccessIsDone /\ i2c!BytesAreOwn
<1>1. ASSUME NEW c \in Clients, i2c!Copy(c)
      PROVE  I2CInv' /\ i2c!SuccessIsDone /\ i2c!BytesAreOwn
  <2>1. /\ I2CInv'
        /\ trusted => /\ imine[c] \in idone
                      /\ ibytes'[c] = [j \in 1..rxLen[c] |-> imine[c]]
    BY <1>1, CopyStep
  <2>2. \A d \in Clients : i2c!Succeeds(d) => d = c
    BY <1>1 DEF i2c!Copy, i2c!Return, i2c!Succeeds, I2CInv, i2c!TypeOK
  <2>3. QED
    BY <2>1, <2>2 DEF i2c!SuccessIsDone, i2c!BytesAreOwn
<1>2. ASSUME I2CInv', \A d \in Clients : ~i2c!Succeeds(d)
      PROVE  I2CInv' /\ i2c!SuccessIsDone /\ i2c!BytesAreOwn
  BY <1>2 DEF i2c!SuccessIsDone, i2c!BytesAreOwn
<1>3. ASSUME NEW c \in Clients, i2c!WaitBefore(c) \/ i2c!WaitAfter(c)
      PROVE  I2CInv' /\ i2c!SuccessIsDone /\ i2c!BytesAreOwn
  <2>1. I2CInv'
    BY <1>3, WaitBeforeStep, WaitAfterStep
  <2>2. iret' = iret \/ iret' = [iret EXCEPT ![c] = "Timeout"]
    BY <1>3 DEF i2c!WaitBefore, i2c!WaitAfter, i2c!Poll, i2c!Return
  <2>3. \A d \in Clients : ~i2c!Succeeds(d)
    BY <2>2 DEF i2c!Succeeds, I2CInv, i2c!TypeOK
  <2>4. QED
    BY <1>2, <2>1, <2>3
<1>4. ASSUME NEW c \in Clients, i2c!Fill(c) \/ i2c!Status(c) \/ i2c!Reset(c)
      PROVE  I2CInv' /\ i2c!SuccessIsDone /\ i2c!BytesAreOwn
  <2>1. I2CInv'
    BY <1>4, FillStep, StatusStep, ResetStep
  <2>2. iret' = iret \/ iret' = [iret EXCEPT ![c] = "IOError"]
    BY <1>4 DEF i2c!Fill, i2c!Status, i2c!Reset, i2c!Return
  <2>3. \A d \in Clients : ~i2c!Succeeds(d)
    BY <2>2 DEF i2c!Succeeds, I2CInv, i2c!TypeOK
  <2>4. QED
    BY <1>2, <2>1, <2>3
<1>5. ASSUME NEW c \in Clients, NEW l \in I2CLengths, i2c!Call(c, l)
      PROVE  I2CInv' /\ i2c!SuccessIsDone /\ i2c!BytesAreOwn
  <2>1. I2CInv'
    BY <1>5, CallStep
  <2>2. iret' = [iret EXCEPT ![c] = "none"]
    BY <1>5 DEF i2c!Call
  <2>3. \A d \in Clients : ~i2c!Succeeds(d)
    BY <2>2 DEF i2c!Succeeds, I2CInv, i2c!TypeOK
  <2>4. QED
    BY <1>2, <2>1, <2>3
<1>6. CASE i2c!Start \/ i2c!Complete \/ i2c!Nack \/ i2c!ArbLost
  <2>1. I2CInv'
    BY <1>6, StartStep, CompleteStep, RefusedStep
  <2>2. iret' = iret
    BY <1>6 DEF i2c!Start, i2c!Complete, i2c!Nack, i2c!ArbLost, i2c!driver
  <2>3. \A d \in Clients : ~i2c!Succeeds(d)
    BY <2>2 DEF i2c!Succeeds
  <2>4. QED
    BY <1>2, <2>1, <2>3
<1>7. QED
  BY <1>1, <1>3, <1>4, <1>5, <1>6 DEF i2c!Next, i2c!Step

\* Between two calls.
LEMMA I2CMeaning == I2CInv => i2c!TypeOK /\ i2c!NothingLeft
  BY DEF I2CInv, TrustInv, Clean, i2c!NothingLeft

-----------------------------------------------------------------------------
(* SPI.                                                                    *)

\* The transfer of c is done, and nothing else is at the controller.
Finished(c) ==
    /\ squeue = <<>> /\ sbusy = spi!Idle /\ smine[c] \in sdone
    /\ empty[c] => sfifo = [j \in 1..len[c] |-> smine[c]]

\* The transfer of c is in the queue, on the bus, has failed or is done.
AtBus(c) ==
    LET Own(t) == t.id = smine[c] /\ t.len = len[c]
    IN  \/ /\ Len(squeue) = 1 /\ Own(squeue[1]) /\ sbusy = spi!Idle
           /\ empty[c] => sfifo = <<>>
        \/ /\ squeue = <<>> /\ sbusy # spi!Idle /\ Own(sbusy) /\ status = {}
           /\ empty[c] => sfifo = <<>>
        \/ squeue = <<>> /\ sbusy = spi!Idle /\ status = {"ERROR"}
        \/ Finished(c) /\ status = {"COMPLETE"}

\* A thread whose transfer nobody met has the controller to itself.
CalmInv ==
    \A c \in Clients : spc[c] # "idle" /\ calm[c] =>
        /\ \A d \in Clients : d # c => spc[d] = "idle"
        /\ spc[c] = "fill" => squeue = <<>> /\ sbusy = spi!Idle
        /\ spc[c] = "wait" => smine[c] \in spi!Ids /\ AtBus(c)
        /\ spc[c] = "copy" => Finished(c)

\* A thread in the driver has been given a length.
SPIArgs == \A c \in Clients : spc[c] # "idle" => len[c] \in SPILengths

SPIInv ==
    /\ spi!TypeOK /\ SPIArgs
    /\ sissued + Cardinality(spi!Coming) <= SPIMax
    /\ CalmInv
    /\ spi!SuccessIsDone /\ spi!BytesAreOwn

SPIPlaces == {"idle", "fill", "wait", "copy"}
SPICodes == {"none", "Success", "Timeout", "IOError", "BadArgument"}

\* Counting the threads that will still give a transfer to the controller.
LEMMA SPIComing ==
    /\ IsFiniteSet(spi!Coming) /\ Cardinality(spi!Coming) \in Nat
    /\ \A c \in Clients : c \notin spi!Coming =>
          Cardinality(spi!Coming \cup {c}) = Cardinality(spi!Coming) + 1
    /\ \A c \in spi!Coming :
          /\ Cardinality(spi!Coming \ {c}) = Cardinality(spi!Coming) - 1
          /\ Cardinality(spi!Coming) >= 1
<1>1. spi!Coming \subseteq Clients
  BY DEF spi!Coming
<1>2. IsFiniteSet(spi!Coming) /\ Cardinality(spi!Coming) \in Nat
  BY <1>1, HarpiaAssumption, FS_Subset, FS_CardinalityType
<1>3. \A c \in Clients : c \notin spi!Coming =>
          Cardinality(spi!Coming \cup {c}) = Cardinality(spi!Coming) + 1
  BY <1>2, FS_AddElement
<1>4. ASSUME NEW c \in spi!Coming
      PROVE  /\ Cardinality(spi!Coming \ {c}) = Cardinality(spi!Coming) - 1
             /\ Cardinality(spi!Coming) >= 1
  <2>1. Cardinality(spi!Coming \ {c}) = Cardinality(spi!Coming) - 1
    BY <1>2, FS_RemoveElement
  <2>2. IsFiniteSet(spi!Coming \ {c}) /\ Cardinality(spi!Coming \ {c}) \in Nat
    BY <1>2, FS_RemoveElement, FS_CardinalityType
  <2>3. QED
    BY <1>2, <2>1, <2>2
<1>5. QED
  BY <1>2, <1>3, <1>4

\* start has reset the controller.
LEMMA SPIInit == spi!Init => SPIInv
<1> SUFFICES ASSUME spi!Init PROVE SPIInv
  OBVIOUS
<1>1. <<>> \in Seq(spi!Ids \cup {spi!NoData}) /\ <<>> \in Seq(spi!Ids)
      /\ <<>> \in Seq(spi!Transfers)
  BY EmptySeq
<1>2. /\ calm \in [Clients -> BOOLEAN] /\ empty \in [Clients -> BOOLEAN]
      /\ srx \in [Clients -> BOOLEAN]
  BY DEF spi!Init
<1>3. spi!TypeOK /\ SPIArgs
  BY <1>1, <1>2, HarpiaAssumption DEF spi!Init, spi!TypeOK, SPIArgs
<1>4. spi!Coming = {}
  BY DEF spi!Init, spi!Coming
<1>5. sissued + Cardinality(spi!Coming) <= SPIMax
  BY <1>4, HarpiaAssumption, FS_EmptySet DEF spi!Init
<1>6. CalmInv
  BY DEF spi!Init, CalmInv
<1>7. spi!SuccessIsDone /\ spi!BytesAreOwn
  BY DEF spi!Init, spi!SuccessIsDone, spi!BytesAreOwn, spi!Succeeded
<1>8. QED
  BY <1>3, <1>5, <1>6, <1>7 DEF SPIInv

\* A call: a length that is refused changes nothing for anybody; any other
\* ends the calm of whoever is in the driver.
LEMMA SPICallStep ==
    ASSUME SPIInv, NEW c \in Clients, NEW l \in SPILengths, NEW wants \in BOOLEAN,
           spi!Call(c, l, wants)
    PROVE  SPIInv'
<1>1. /\ spc[c] = "idle" /\ sissued + Cardinality(spi!Coming) < SPIMax
      /\ len' = [len EXCEPT ![c] = l] /\ srx' = [srx EXCEPT ![c] = wants]
      /\ sbytes' = [sbytes EXCEPT ![c] = <<>>]
      /\ UNCHANGED <<sn, smine, empty, sissued, squeue, sbusy, status, sfifo, sdone>>
  BY SameCardinality DEF spi!Call, spi!controller
<1>2. \/ /\ spc' = [spc EXCEPT ![c] = "idle"]
         /\ sret' = [sret EXCEPT ![c] = "BadArgument"] /\ calm' = calm
      \/ /\ spc' = [spc EXCEPT ![c] = "fill"]
         /\ sret' = [sret EXCEPT ![c] = "none"]
         /\ calm' = [d \in Clients |-> IF d = c THEN ~spi!Meets(c)
                                       ELSE calm[d] /\ spc[d] = "idle"]
  BY DEF spi!Call, spi!Goto, spi!Return
<1>3. /\ calm' \in [Clients -> BOOLEAN]
      /\ \A d \in Clients : d # c /\ calm'[d] =>
            calm[d] /\ (spc'[c] # "idle" => spc[d] = "idle")
      /\ spc'[c] # "idle" /\ calm'[c] => ~spi!Meets(c)
  <2>1. calm \in [Clients -> BOOLEAN] /\ spc \in [Clients -> SPIPlaces]
    BY DEF SPIInv, spi!TypeOK, SPIPlaces
  <2>2. QED
    BY <1>2, <2>1
<1>4. /\ spc' \in [Clients -> SPIPlaces] /\ spc'[c] \in {"idle", "fill"}
      /\ \A d \in Clients : d # c => spc'[d] = spc[d]
      /\ sret' \in [Clients -> SPICodes] /\ sret'[c] # "Success"
      /\ \A d \in Clients : d # c => sret'[d] = sret[d]
  BY <1>2 DEF SPIInv, spi!TypeOK, SPIPlaces, SPICodes
<1>5. /\ len' \in [Clients -> SPILengths \cup {0}] /\ len'[c] = l
      /\ srx' \in [Clients -> BOOLEAN]
      /\ \A d \in Clients : d # c => len'[d] = len[d] /\ srx'[d] = srx[d]
  BY <1>1 DEF SPIInv, spi!TypeOK
<1>6. /\ sbytes' \in [Clients -> Seq(spi!Ids \cup {spi!NoData})]
      /\ \A d \in Clients : d # c => sbytes'[d] = sbytes[d]
  <2>1. <<>> \in Seq(spi!Ids \cup {spi!NoData})
    BY EmptySeq
  <2>2. QED
    BY <1>1, <2>1 DEF SPIInv, spi!TypeOK
<1>7. spi!TypeOK' /\ SPIArgs'
  <2>1. \A d \in Clients : spc'[d] = "wait" => sn'[d] > 0
    BY <1>1, <1>4 DEF SPIInv, spi!TypeOK
  <2>2. SPIArgs'
    BY <1>4, <1>5 DEF SPIInv, SPIArgs
  <2>3. QED
    BY <1>1, <1>3, <1>4, <1>5, <1>6, <2>1, <2>2
    DEF SPIInv, spi!TypeOK, SPIPlaces, SPICodes
<1>8. sissued' + Cardinality(spi!Coming') <= SPIMax
  <2>1. c \notin spi!Coming
        /\ (spi!Coming' = spi!Coming \/ spi!Coming' = spi!Coming \cup {c})
    BY <1>1, <1>4 DEF spi!Coming, SPIInv, spi!TypeOK
  <2>2. /\ Cardinality(spi!Coming) \in Nat
        /\ Cardinality(spi!Coming') <= Cardinality(spi!Coming) + 1
    BY <2>1, SPIComing
  <2>3. sissued \in Nat /\ SPIMax \in Nat
    BY HarpiaAssumption DEF SPIInv, spi!TypeOK
  <2>4. Cardinality(spi!Coming') \in Nat
    BY <2>1, SPIComing
  <2>5. QED
    BY <1>1, <2>2, <2>3, <2>4
<1>9. CalmInv'
  <2>1. SUFFICES ASSUME NEW d \in Clients, spc'[d] # "idle", calm'[d]
                 PROVE  /\ \A e \in Clients : e # d => spc'[e] = "idle"
                        /\ spc'[d] = "fill" => squeue' = <<>> /\ sbusy' = spi!Idle
                        /\ spc'[d] = "wait" => smine'[d] \in spi!Ids /\ AtBus(d)'
                        /\ spc'[d] = "copy" => Finished(d)'
    BY DEF CalmInv
  <2>2. CASE d = c
    BY <1>1, <1>3, <1>4, <2>1, <2>2 DEF spi!Meets
  <2>3. CASE d # c
    <3>1. calm[d] /\ spc[d] # "idle" /\ spc'[d] = spc[d] /\ spc'[c] = "idle"
      BY <1>3, <1>4, <2>1, <2>3
    <3>2. /\ \A e \in Clients : e # d => spc[e] = "idle"
          /\ spc[d] = "fill" => squeue = <<>> /\ sbusy = spi!Idle
          /\ spc[d] = "wait" => smine[d] \in spi!Ids /\ AtBus(d)
          /\ spc[d] = "copy" => Finished(d)
      BY <3>1 DEF SPIInv, CalmInv
    <3>3. (AtBus(d) => AtBus(d)') /\ (Finished(d) => Finished(d)')
      BY <1>1, <1>5, <2>3 DEF AtBus, Finished
    <3>4. QED
      BY <1>1, <1>4, <3>1, <3>2, <3>3
  <2>4. QED
    BY <2>2, <2>3
<1>10. spi!SuccessIsDone' /\ spi!BytesAreOwn'
  <2>1. \A d \in Clients : spi!Succeeded(d)' => d # c /\ spi!Succeeded(d)
    BY <1>4 DEF spi!Succeeded
  <2>2. \A d \in Clients : d # c /\ calm'[d] => calm[d]
    BY <1>3
  <2>3. ASSUME NEW d \in Clients, spi!Succeeded(d)', calm'[d]
        PROVE  /\ smine'[d] \in sdone'
               /\ srx'[d] /\ empty'[d] => sbytes'[d] = [j \in 1..len'[d] |-> smine'[d]]
    <3>1. d # c /\ spi!Succeeded(d) /\ calm[d]
      BY <2>1, <2>2, <2>3
    <3>2. /\ smine[d] \in sdone
          /\ srx[d] /\ empty[d] => sbytes[d] = [j \in 1..len[d] |-> smine[d]]
      BY <3>1 DEF SPIInv, spi!SuccessIsDone, spi!BytesAreOwn
    <3>3. QED
      BY <1>1, <1>5, <1>6, <3>1, <3>2
  <2>4. QED
    BY <2>3 DEF spi!SuccessIsDone, spi!BytesAreOwn
<1>11. QED
  BY <1>7, <1>8, <1>9, <1>10 DEF SPIInv

\* What is known of finished calls survives a step that changes nothing of them.
LEMMA SuccessStays ==
    ASSUME SPIInv, sdone \subseteq sdone',
           \A d \in Clients : spi!Succeeded(d)' /\ calm'[d] =>
               /\ spi!Succeeded(d) /\ calm[d]
               /\ smine'[d] = smine[d] /\ srx'[d] = srx[d] /\ len'[d] = len[d]
               /\ sbytes'[d] = sbytes[d] /\ empty'[d] = empty[d]
    PROVE  spi!SuccessIsDone' /\ spi!BytesAreOwn'
<1>1. ASSUME NEW d \in Clients, spi!Succeeded(d)', calm'[d]
      PROVE  /\ smine'[d] \in sdone'
             /\ srx'[d] /\ empty'[d] => sbytes'[d] = [j \in 1..len'[d] |-> smine'[d]]
  <2>1. /\ smine[d] \in sdone
        /\ srx[d] /\ empty[d] => sbytes[d] = [j \in 1..len[d] |-> smine[d]]
    BY <1>1 DEF SPIInv, spi!SuccessIsDone, spi!BytesAreOwn
  <2>2. QED
    BY <1>1, <2>1
<1>2. QED
  BY <1>1 DEF spi!SuccessIsDone, spi!BytesAreOwn

\* The transfer is given to the controller.
LEMMA SPIFillStep ==
    ASSUME SPIInv, NEW c \in Clients, spi!Fill(c)
    PROVE  SPIInv'
<1>1. PICK kept \in 0..len[c] :
         squeue' = Append(squeue, [id |-> sissued', len |-> len[c], kept |-> kept])
  BY DEF spi!Fill
<1> DEFINE own == [id |-> sissued', len |-> len[c], kept |-> kept]
<1>2. /\ spc[c] = "fill" /\ sissued' = sissued + 1
      /\ smine' = [smine EXCEPT ![c] = sissued']
      /\ empty' = [empty EXCEPT ![c] = (sfifo = <<>>)]
      /\ spc' = [spc EXCEPT ![c] = "wait"] /\ sn' = [sn EXCEPT ![c] = Polls]
      /\ UNCHANGED <<len, srx, sret, sbytes, sbusy, status, sfifo, sdone, calm>>
  BY DEF spi!Fill, spi!Goto
<1>3. /\ spc' \in [Clients -> SPIPlaces] /\ spc'[c] = "wait"
      /\ \A d \in Clients : d # c => spc'[d] = spc[d] /\ sn'[d] = sn[d]
      /\ sn' \in [Clients -> 0..Polls] /\ sn'[c] > 0
  BY <1>2, HarpiaAssumption DEF SPIInv, spi!TypeOK, SPIPlaces
<1>4. sissued' + Cardinality(spi!Coming') <= SPIMax /\ sissued' \in spi!Ids
  <2>1. c \in spi!Coming /\ spi!Coming' = spi!Coming \ {c}
    BY <1>2, <1>3 DEF spi!Coming, SPIInv, spi!TypeOK
  <2>2. /\ Cardinality(spi!Coming) \in Nat /\ Cardinality(spi!Coming) >= 1
        /\ Cardinality(spi!Coming') = Cardinality(spi!Coming) - 1
    BY <2>1, SPIComing
  <2>3. sissued \in Nat /\ SPIMax \in Nat /\ sissued + Cardinality(spi!Coming) <= SPIMax
    BY HarpiaAssumption DEF SPIInv, spi!TypeOK
  <2>4. QED
    BY <1>2, <2>2, <2>3 DEF spi!Ids
<1>5. own \in spi!Transfers /\ sissued' \in 0..SPIMax
  <2>1. len[c] \in SPILengths /\ len[c] \in Nat
    BY <1>2, HarpiaAssumption DEF SPIInv, SPIArgs
  <2>2. kept \in Nat
    BY <1>1, <2>1
  <2>3. QED
    BY <1>4, <2>1, <2>2, HarpiaAssumption DEF spi!Transfers, spi!Ids
<1>6. squeue' \in Seq(spi!Transfers)
  BY <1>1, <1>5, AppendProperties DEF SPIInv, spi!TypeOK
<1>7. empty' \in [Clients -> BOOLEAN] /\ (empty'[c] => sfifo = <<>>)
  <2>1. empty \in [Clients -> BOOLEAN]
    BY DEF SPIInv, spi!TypeOK
  <2>2. QED
    BY <1>2, <2>1
<1>8. smine' \in [Clients -> spi!Ids \cup {0}] /\ smine'[c] = sissued'
  BY <1>2, <1>4 DEF SPIInv, spi!TypeOK
<1>9. spi!TypeOK' /\ SPIArgs'
  <2>1. \A d \in Clients : spc'[d] = "wait" => sn'[d] > 0
    BY <1>3 DEF SPIInv, spi!TypeOK
  <2>2. SPIArgs'
    BY <1>2, <1>3 DEF SPIInv, SPIArgs
  <2>3. QED
    BY <1>2, <1>3, <1>5, <1>6, <1>7, <1>8, <2>1, <2>2 DEF SPIInv, spi!TypeOK, SPIPlaces
<1>10. CalmInv'
  <2>1. SUFFICES ASSUME NEW d \in Clients, spc'[d] # "idle", calm[d]
                 PROVE  /\ \A e \in Clients : e # d => spc'[e] = "idle"
                        /\ spc'[d] = "fill" => squeue' = <<>> /\ sbusy' = spi!Idle
                        /\ spc'[d] = "wait" => smine'[d] \in spi!Ids /\ AtBus(d)'
                        /\ spc'[d] = "copy" => Finished(d)'
    BY <1>2 DEF CalmInv
  <2>2. spc[d] # "idle"
    BY <1>2, <1>3, <2>1
  <2>3. /\ \A e \in Clients : e # d => spc[e] = "idle"
        /\ spc[d] = "fill" => squeue = <<>> /\ sbusy = spi!Idle
    BY <2>1, <2>2 DEF SPIInv, CalmInv
  <2>4. d = c
    BY <1>2, <2>3
  <2>5. Len(squeue') = 1 /\ squeue'[1] = own
    BY <1>1, <1>2, <1>5, <2>3, <2>4, AppendProperties DEF SPIInv, spi!TypeOK
  <2>6. AtBus(c)'
    BY <1>2, <1>7, <1>8, <2>3, <2>4, <2>5 DEF AtBus
  <2>7. QED
    BY <1>3, <1>4, <1>8, <2>3, <2>4, <2>6
<1>11. spi!SuccessIsDone' /\ spi!BytesAreOwn'
  <2>1. ASSUME NEW d \in Clients, spi!Succeeded(d)', calm'[d]
        PROVE  /\ spi!Succeeded(d) /\ calm[d]
               /\ smine'[d] = smine[d] /\ srx'[d] = srx[d] /\ len'[d] = len[d]
               /\ sbytes'[d] = sbytes[d] /\ empty'[d] = empty[d]
    <3>1. d # c
      BY <1>3, <2>1 DEF spi!Succeeded
    <3>2. QED
      BY <1>2, <1>3, <2>1, <3>1 DEF spi!Succeeded, SPIInv, spi!TypeOK
  <2>2. QED
    BY <1>2, <2>1, SuccessStays
<1>12. QED
  BY <1>4, <1>9, <1>10, <1>11 DEF SPIInv

\* One poll.  A thread in calm leaves the loop with COMPLETE only when the queue is
\* empty, and then the COMPLETE is that of its own transfer.
LEMMA SPIPollStep ==
    ASSUME SPIInv, NEW c \in Clients, spi!Poll(c)
    PROVE  SPIInv'
<1>1. /\ spc[c] = "wait"
      /\ UNCHANGED <<len, srx, smine, sbytes, empty, sissued, squeue, sbusy, status,
                     sfifo, sdone>>
  BY DEF spi!Poll, spi!controller
<1>2. \/ /\ "COMPLETE" \in status /\ spc' = [spc EXCEPT ![c] = "copy"]
         /\ calm' = [calm EXCEPT ![c] = calm[c] /\ squeue = <<>>]
         /\ sn' = sn /\ sret' = sret
      \/ /\ spc' = [spc EXCEPT ![c] = "idle"]
         /\ sret' = [sret EXCEPT ![c] = "IOError"] /\ sn' = sn /\ calm' = calm
      \/ /\ sn[c] = 1 /\ sn' = [sn EXCEPT ![c] = sn[c] - 1] /\ calm' = calm
         /\ spc' = [spc EXCEPT ![c] = "idle"]
         /\ sret' = [sret EXCEPT ![c] = "Timeout"]
      \/ /\ sn[c] # 1 /\ sn' = [sn EXCEPT ![c] = sn[c] - 1] /\ calm' = calm
         /\ spc' = spc /\ sret' = sret
  BY DEF spi!Poll, spi!Goto, spi!Return
<1>3. /\ spc' \in [Clients -> SPIPlaces] /\ spc'[c] \in {"copy", "idle", "wait"}
      /\ \A d \in Clients : d # c => spc'[d] = spc[d] /\ sret'[d] = sret[d]
      /\ sret' \in [Clients -> SPICodes]
      /\ spc'[c] = "idle" => sret'[c] # "Success"
  BY <1>1, <1>2 DEF SPIInv, spi!TypeOK, SPIPlaces, SPICodes
<1>4. /\ calm' \in [Clients -> BOOLEAN]
      /\ \A d \in Clients : calm'[d] => calm[d]
      /\ spc'[c] = "copy" => "COMPLETE" \in status /\ (calm'[c] => squeue = <<>>)
  <2>1. calm \in [Clients -> BOOLEAN] /\ spc \in [Clients -> SPIPlaces]
    BY DEF SPIInv, spi!TypeOK, SPIPlaces
  <2>2. QED
    BY <1>1, <1>2, <2>1
<1>5. /\ sn' \in [Clients -> 0..Polls]
      /\ \A d \in Clients : spc'[d] = "wait" => sn'[d] > 0
  <2>1. sn[c] \in 1..Polls /\ sn \in [Clients -> 0..Polls]
    BY <1>1, HarpiaAssumption DEF SPIInv, spi!TypeOK
  <2>2. sn' = sn \/ sn' = [sn EXCEPT ![c] = sn[c] - 1]
    BY <1>2
  <2>3. sn' \in [Clients -> 0..Polls]
    BY <2>1, <2>2, HarpiaAssumption
  <2>4. ASSUME NEW d \in Clients, spc'[d] = "wait" PROVE sn'[d] > 0
    <3>1. CASE d = c
      BY <1>2, <2>1, <2>4, <3>1, HarpiaAssumption DEF SPIInv, spi!TypeOK
    <3>2. CASE d # c
      <4>1. spc[d] = "wait" /\ sn'[d] = sn[d]
        BY <1>3, <2>1, <2>2, <2>4, <3>2
      <4>2. QED
        BY <4>1 DEF SPIInv, spi!TypeOK
    <3>3. QED
      BY <3>1, <3>2
  <2>5. QED
    BY <2>3, <2>4
<1>6. spi!TypeOK' /\ SPIArgs'
  <2>1. SPIArgs'
    BY <1>1, <1>3 DEF SPIInv, SPIArgs
  <2>2. QED
    BY <1>1, <1>3, <1>4, <1>5, <2>1 DEF SPIInv, spi!TypeOK, SPIPlaces, SPICodes
<1>7. sissued' + Cardinality(spi!Coming') <= SPIMax
  <2>1. spi!Coming' = spi!Coming
    BY <1>1, <1>3 DEF spi!Coming, SPIInv, spi!TypeOK
  <2>2. QED
    BY <1>1, <2>1 DEF SPIInv
<1>8. CalmInv'
  <2>1. SUFFICES ASSUME NEW d \in Clients, spc'[d] # "idle", calm'[d]
                 PROVE  /\ \A e \in Clients : e # d => spc'[e] = "idle"
                        /\ spc'[d] = "fill" => squeue' = <<>> /\ sbusy' = spi!Idle
                        /\ spc'[d] = "wait" => smine'[d] \in spi!Ids /\ AtBus(d)'
                        /\ spc'[d] = "copy" => Finished(d)'
    BY DEF CalmInv
  <2>2. spc[d] # "idle" /\ calm[d]
    BY <1>1, <1>3, <1>4, <2>1
  <2>3. /\ \A e \in Clients : e # d => spc[e] = "idle"
        /\ spc[d] = "wait" => smine[d] \in spi!Ids /\ AtBus(d)
    BY <2>2 DEF SPIInv, CalmInv
  <2>4. d = c
    BY <1>1, <2>3
  <2>5. (AtBus(c) => AtBus(c)') /\ (Finished(c) => Finished(c)')
    BY <1>1 DEF AtBus, Finished
  <2>6. spc'[c] = "copy" => Finished(c)
    <3>1. SUFFICES ASSUME spc'[c] = "copy" PROVE Finished(c)
      OBVIOUS
    <3>2. "COMPLETE" \in status /\ squeue = <<>>
      BY <1>4, <2>1, <2>4, <3>1
    <3>3. Len(squeue) # 1
      BY <3>2
    <3>4. QED
      BY <1>1, <2>3, <2>4, <3>2, <3>3 DEF AtBus
  <2>7. QED
    BY <1>1, <1>3, <2>3, <2>4, <2>5, <2>6
<1>9. spi!SuccessIsDone' /\ spi!BytesAreOwn'
  <2>1. ASSUME NEW d \in Clients, spi!Succeeded(d)', calm'[d]
        PROVE  /\ spi!Succeeded(d) /\ calm[d]
               /\ smine'[d] = smine[d] /\ srx'[d] = srx[d] /\ len'[d] = len[d]
               /\ sbytes'[d] = sbytes[d] /\ empty'[d] = empty[d]
    <3>1. d # c
      BY <1>3, <2>1 DEF spi!Succeeded
    <3>2. QED
      BY <1>1, <1>3, <1>4, <2>1, <3>1 DEF spi!Succeeded
  <2>2. QED
    BY <1>1, <2>1, SuccessStays
<1>10. QED
  BY <1>6, <1>7, <1>8, <1>9 DEF SPIInv

\* The bytes are read, if they are wanted.
LEMMA SPICopyStep ==
    ASSUME SPIInv, NEW c \in Clients, spi!Copy(c)
    PROVE  SPIInv'
<1> DEFINE want == IF srx[c] THEN len[c] ELSE 0
           got == IF want <= Len(sfifo) THEN want ELSE Len(sfifo)
           read == [j \in 1..want |-> IF j <= got THEN sfifo[j] ELSE 0]
           rest == SubSeq(sfifo, got + 1, Len(sfifo))
<1>1. len[c] \in Nat /\ spc[c] = "copy"
  <2>1. len[c] \in SPILengths /\ spc[c] = "copy"
    BY DEF SPIInv, SPIArgs, spi!Copy
  <2>2. QED
    BY <2>1, HarpiaAssumption
<1>2. sfifo \in Seq(spi!Ids) /\ Len(sfifo) \in Nat
  BY LenProperties DEF SPIInv, spi!TypeOK
<1>3. /\ spc' = [spc EXCEPT ![c] = "idle"] /\ sret' = [sret EXCEPT ![c] = "Success"]
      /\ UNCHANGED <<sn, len, srx, smine, sissued, squeue, sbusy, status, sdone, calm,
                     empty>>
  BY DEF spi!Copy, spi!Return, spi!Goto
<1>4. sbytes' = [sbytes EXCEPT ![c] = read] /\ sfifo' = rest
  <2>1. CASE srx[c]
    BY <2>1 DEF spi!Copy, spi!NoData
  <2>2. CASE ~srx[c]
    <3>1. want = 0 /\ got = 0
      BY <1>2, <2>2
    <3>2. read = <<>>
      BY <3>1
    <3>3. QED
      BY <2>2, <3>1, <3>2 DEF spi!Copy
  <2>3. QED
    BY <2>1, <2>2
<1>5. /\ want \in Nat
      /\ rest \in Seq(spi!Ids)
      /\ read \in Seq(spi!Ids \cup {spi!NoData})
  BY <1>1, <1>2, FifoFacts DEF spi!NoData
<1>6. got = IF want <= Len(sfifo) THEN want ELSE Len(sfifo)
  OBVIOUS
<1>7. read = [j \in 1..want |-> IF j <= got THEN sfifo[j] ELSE 0]
  OBVIOUS
<1>8. srx[c] => want = len[c]
  OBVIOUS
<1> HIDE DEF want, got, rest, read
<1>9. /\ sbytes' \in [Clients -> Seq(spi!Ids \cup {spi!NoData})] /\ sbytes'[c] = read
      /\ \A d \in Clients : d # c => sbytes'[d] = sbytes[d]
  BY <1>4, <1>5 DEF SPIInv, spi!TypeOK
<1>10. /\ spc' \in [Clients -> SPIPlaces] /\ spc'[c] = "idle"
       /\ sret' \in [Clients -> SPICodes]
       /\ \A d \in Clients : d # c => spc'[d] = spc[d] /\ sret'[d] = sret[d]
  BY <1>3 DEF SPIInv, spi!TypeOK, SPIPlaces, SPICodes
<1>11. spi!TypeOK' /\ SPIArgs'
  <2>1. \A d \in Clients : spc'[d] = "wait" => sn'[d] > 0
    BY <1>3, <1>10 DEF SPIInv, spi!TypeOK
  <2>2. SPIArgs'
    BY <1>3, <1>10 DEF SPIInv, SPIArgs
  <2>3. QED
    BY <1>3, <1>4, <1>5, <1>9, <1>10, <2>1, <2>2
    DEF SPIInv, spi!TypeOK, SPIPlaces, SPICodes
<1>12. sissued' + Cardinality(spi!Coming') <= SPIMax
  <2>1. spi!Coming' = spi!Coming
    BY <1>1, <1>10 DEF spi!Coming, SPIInv, spi!TypeOK
  <2>2. QED
    BY <1>3, <2>1 DEF SPIInv
<1>13. CalmInv'
  <2>1. ASSUME NEW d \in Clients, spc'[d] # "idle", calm[d] PROVE FALSE
    <3>1. d # c /\ spc[d] # "idle"
      BY <1>10, <2>1
    <3>2. QED
      BY <1>1, <2>1, <3>1 DEF SPIInv, CalmInv
  <2>2. QED
    BY <1>3, <2>1 DEF CalmInv
<1>14. ASSUME calm[c]
       PROVE  /\ smine[c] \in sdone
              /\ srx[c] /\ empty[c] => sbytes'[c] = [j \in 1..len[c] |-> smine[c]]
  <2>1. Finished(c)
    BY <1>1, <1>14 DEF SPIInv, CalmInv
  <2>2. ASSUME srx[c], empty[c]
        PROVE  sbytes'[c] = [j \in 1..len[c] |-> smine[c]]
    <3>1. sfifo = [j \in 1..len[c] |-> smine[c]]
      BY <2>1, <2>2 DEF Finished
    <3>2. DOMAIN sfifo = 1..Len(sfifo) /\ DOMAIN sfifo = 1..len[c]
      BY <1>2, <3>1, LenProperties
    <3>3. Len(sfifo) = len[c]
      BY <1>1, <1>2, <3>2
    <3>4. want = len[c] /\ got = len[c]
      BY <1>1, <1>6, <1>8, <2>2, <3>3
    <3>5. read = [j \in 1..len[c] |-> smine[c]]
      BY <1>1, <1>7, <3>1, <3>4
    <3>6. QED
      BY <1>9, <3>5
  <2>3. QED
    BY <2>1, <2>2 DEF Finished
<1>15. ASSUME NEW d \in Clients, spi!Succeeded(d)', calm[d]
       PROVE  /\ smine[d] \in sdone
              /\ srx[d] /\ empty[d] => sbytes'[d] = [j \in 1..len[d] |-> smine[d]]
  <2>1. CASE d = c
    BY <1>14, <1>15, <2>1
  <2>2. CASE d # c
    <3>1. spi!Succeeded(d)
      BY <1>10, <1>15, <2>2 DEF spi!Succeeded
    <3>2. QED
      BY <1>9, <1>15, <2>2, <3>1 DEF SPIInv, spi!SuccessIsDone, spi!BytesAreOwn
  <2>3. QED
    BY <2>1, <2>2
<1>16. spi!SuccessIsDone' /\ spi!BytesAreOwn'
  BY <1>3, <1>15 DEF spi!SuccessIsDone, spi!BytesAreOwn
<1>17. QED
  BY <1>11, <1>12, <1>13, <1>16 DEF SPIInv

\* The thread in calm, if a transfer is at the controller.
LEMMA CalmAtBus ==
    ASSUME SPIInv, NEW c \in Clients, spc[c] # "idle", calm[c],
           squeue # <<>> \/ sbusy # spi!Idle
    PROVE  /\ spc[c] = "wait" /\ smine[c] \in spi!Ids
           /\ \A d \in Clients : d # c => spc[d] = "idle"
           /\ empty[c] => sfifo = <<>>
           /\ \/ /\ Len(squeue) = 1 /\ sbusy = spi!Idle
                 /\ squeue[1].id = smine[c] /\ squeue[1].len = len[c]
              \/ /\ squeue = <<>> /\ sbusy # spi!Idle
                 /\ sbusy.id = smine[c] /\ sbusy.len = len[c]
<1>1. /\ \A d \in Clients : d # c => spc[d] = "idle"
      /\ spc[c] = "fill" => squeue = <<>> /\ sbusy = spi!Idle
      /\ spc[c] = "wait" => smine[c] \in spi!Ids /\ AtBus(c)
      /\ spc[c] = "copy" => Finished(c)
  BY DEF SPIInv, CalmInv
<1>2. spc[c] = "wait"
  BY <1>1 DEF Finished, SPIInv, spi!TypeOK
<1>3. QED
  BY <1>1, <1>2 DEF AtBus, Finished

\* The controller changes nothing that the driver keeps.
LEMMA ControllerStep ==
    ASSUME SPIInv,
           UNCHANGED <<spc, sn, len, srx, smine, sret, sbytes, calm, empty, sissued>>,
           squeue' \in Seq(spi!Transfers), sbusy' \in spi!Transfers \cup {spi!Idle},
           status' \subseteq {"COMPLETE", "ERROR"}, sfifo' \in Seq(spi!Ids),
           sdone' \subseteq spi!Ids, sdone \subseteq sdone',
           squeue # <<>> \/ sbusy # spi!Idle,
           \A c \in Clients : spc[c] # "idle" /\ calm[c] => AtBus(c)'
    PROVE  SPIInv'
<1>1. spi!TypeOK' /\ SPIArgs'
  BY DEF SPIInv, spi!TypeOK, SPIArgs
<1>2. sissued' + Cardinality(spi!Coming') <= SPIMax
  BY DEF SPIInv, spi!Coming
<1>3. CalmInv'
  <2>1. \A c \in Clients : spc[c] # "idle" /\ calm[c] =>
            /\ spc[c] = "wait" /\ smine[c] \in spi!Ids
            /\ \A d \in Clients : d # c => spc[d] = "idle"
    BY CalmAtBus
  <2>2. QED
    BY <2>1 DEF CalmInv
<1>4. spi!SuccessIsDone' /\ spi!BytesAreOwn'
  <2>1. \A d \in Clients : spi!Succeeded(d)' => spi!Succeeded(d)
    BY DEF spi!Succeeded
  <2>2. QED
    BY <2>1, SuccessStays
<1>5. QED
  BY <1>1, <1>2, <1>3, <1>4 DEF SPIInv

\* The controller begins a transfer, and takes its status back.
LEMMA BeginStep ==
    ASSUME SPIInv, spi!Begin
    PROVE  SPIInv'
<1>1. /\ squeue # <<>> /\ sbusy = spi!Idle
      /\ sbusy' = Head(squeue) /\ squeue' = Tail(squeue) /\ status' = {}
      /\ UNCHANGED <<spc, sn, len, srx, smine, sret, sbytes, calm, empty, sissued,
                     sfifo, sdone>>
  BY DEF spi!Begin, spi!driver
<1>2. squeue \in Seq(spi!Transfers)
  BY DEF SPIInv, spi!TypeOK
<1>3. /\ sbusy' \in spi!Transfers /\ squeue' \in Seq(spi!Transfers)
      /\ Len(squeue') = Len(squeue) - 1 /\ sbusy' = squeue[1]
  BY <1>1, <1>2, HeadTailProperties
<1>4. sbusy' # spi!Idle
  BY <1>3 DEF spi!Transfers, spi!Idle, spi!Ids
<1>5. ASSUME NEW c \in Clients, spc[c] # "idle", calm[c] PROVE AtBus(c)'
  <2>1. /\ Len(squeue) = 1 /\ squeue[1].id = smine[c] /\ squeue[1].len = len[c]
        /\ empty[c] => sfifo = <<>>
    BY <1>1, <1>5, CalmAtBus
  <2>2. squeue' = <<>>
    BY <1>3, <2>1, EmptySeq
  <2>3. QED
    BY <1>1, <1>3, <1>4, <2>1, <2>2 DEF AtBus
<1>6. /\ status' \subseteq {"COMPLETE", "ERROR"} /\ sfifo' \in Seq(spi!Ids)
      /\ sdone' \subseteq spi!Ids /\ sdone \subseteq sdone'
  BY <1>1 DEF SPIInv, spi!TypeOK
<1>7. QED
  BY <1>1, <1>3, <1>5, <1>6, ControllerStep

\* The bytes that come back are numbered after the transfer on the bus.
LEMMA CameBack ==
    ASSUME SPIInv, sbusy # spi!Idle, NEW k \in Nat
    PROVE  /\ sbusy.id \in spi!Ids /\ sbusy.len \in Nat
           /\ sfifo \o [j \in 1..k |-> sbusy.id] \in Seq(spi!Ids)
           /\ sfifo = <<>> =>
                 sfifo \o [j \in 1..k |-> sbusy.id] = [j \in 1..k |-> sbusy.id]
<1> DEFINE came == [j \in 1..k |-> sbusy.id]
<1>1. sbusy \in spi!Transfers
  BY DEF SPIInv, spi!TypeOK
<1>2. sbusy.id \in spi!Ids /\ sbusy.len \in Nat
  BY <1>1, HarpiaAssumption DEF spi!Transfers
<1>3. came \in [1..k -> spi!Ids]
  BY <1>2
<1>4. came \in Seq(spi!Ids)
  BY <1>3, SeqDef
<1> HIDE DEF came
<1>5. sfifo \o came \in Seq(spi!Ids)
  BY <1>4, ConcatProperties DEF SPIInv, spi!TypeOK
<1>6. <<>> \o came = came
  BY <1>4, ConcatEmptySeq
<1>7. QED
  BY <1>2, <1>5, <1>6 DEF came

\* The transfer on the bus has ended well.
LEMMA SPICompleteStep ==
    ASSUME SPIInv, spi!Complete
    PROVE  SPIInv'
<1>1. /\ sbusy # spi!Idle /\ sbusy' = spi!Idle /\ status' = {"COMPLETE"}
      /\ sdone' = sdone \cup {sbusy.id}
      /\ sfifo' = sfifo \o [j \in 1..sbusy.len |-> sbusy.id]
      /\ UNCHANGED <<spc, sn, len, srx, smine, sret, sbytes, calm, empty, sissued, squeue>>
  BY DEF spi!Complete, spi!driver
<1>2. /\ sbusy.id \in spi!Ids /\ sfifo' \in Seq(spi!Ids)
      /\ sfifo = <<>> => sfifo' = [j \in 1..sbusy.len |-> sbusy.id]
  <2>1. sbusy.len \in Nat
    BY <1>1, CameBack
  <2>2. QED
    BY <1>1, <2>1, CameBack
<1>3. ASSUME NEW c \in Clients, spc[c] # "idle", calm[c] PROVE AtBus(c)'
  <2>1. /\ squeue = <<>> /\ sbusy.id = smine[c] /\ sbusy.len = len[c]
        /\ empty[c] => sfifo = <<>>
    BY <1>1, <1>3, CalmAtBus
  <2>2. Finished(c)'
    BY <1>1, <1>2, <2>1 DEF Finished
  <2>3. QED
    BY <1>1, <2>2 DEF AtBus
<1>4. /\ status' \subseteq {"COMPLETE", "ERROR"} /\ sbusy' \in spi!Transfers \cup {spi!Idle}
      /\ squeue' \in Seq(spi!Transfers)
      /\ sdone' \subseteq spi!Ids /\ sdone \subseteq sdone'
  BY <1>1, <1>2 DEF SPIInv, spi!TypeOK
<1>5. QED
  BY <1>1, <1>2, <1>3, <1>4, ControllerStep

\* The transfer on the bus has failed.
LEMMA SPIFailStep ==
    ASSUME SPIInv, NEW k \in {0, 1}, spi!Fail(k)
    PROVE  SPIInv'
<1>1. /\ sbusy # spi!Idle /\ sbusy' = spi!Idle /\ status' = {"ERROR"}
      /\ sfifo' = sfifo \o [j \in 1..k |-> sbusy.id]
      /\ UNCHANGED <<spc, sn, len, srx, smine, sret, sbytes, calm, empty, sissued,
                     squeue, sdone>>
  BY DEF spi!Fail, spi!driver
<1>2. k \in Nat
  OBVIOUS
<1>3. sfifo' \in Seq(spi!Ids)
  BY <1>1, <1>2, CameBack
<1>4. ASSUME NEW c \in Clients, spc[c] # "idle", calm[c] PROVE AtBus(c)'
  <2>1. squeue = <<>>
    BY <1>1, <1>4, CalmAtBus
  <2>2. QED
    BY <1>1, <2>1 DEF AtBus
<1>5. /\ status' \subseteq {"COMPLETE", "ERROR"} /\ sbusy' \in spi!Transfers \cup {spi!Idle}
      /\ squeue' \in Seq(spi!Transfers)
      /\ sdone' \subseteq spi!Ids /\ sdone \subseteq sdone'
  BY <1>1 DEF SPIInv, spi!TypeOK
<1>6. QED
  BY <1>1, <1>3, <1>4, <1>5, ControllerStep

\* Every step of the driver and the controller preserves the invariant.
LEMMA SPIStep ==
    ASSUME SPIInv, spi!Next
    PROVE  SPIInv'
<1>1. ASSUME NEW c \in Clients, spi!Step(c) PROVE SPIInv'
  BY <1>1, SPIFillStep, SPIPollStep, SPICopyStep DEF spi!Step
<1>2. ASSUME NEW c \in Clients, NEW l \in SPILengths, NEW wants \in BOOLEAN,
             spi!Call(c, l, wants)
      PROVE  SPIInv'
  BY <1>2, SPICallStep
<1>3. CASE spi!Begin \/ spi!Complete \/ \E k \in {0, 1} : spi!Fail(k)
  BY <1>3, BeginStep, SPICompleteStep, SPIFailStep
<1>4. QED
  BY <1>1, <1>2, <1>3 DEF spi!Next

-----------------------------------------------------------------------------
(* UART: the invariant.                                                    *)

\* Threads that have seen the transmitter empty and are about to write.
Moving == {w \in Clients : upc[w] = "move"}

\* The transmit fifo takes a character of every thread that writes.
FifoTakesAll == Cardinality(Clients) <= TxDepth

\* All that uartPuts gives to uartPutc.
Whole(w) == uart!Expand(Text[w])

\* What is to do is the end of the whole.
TodoInv ==
    \A w \in Clients :
        /\ Len(todo[w]) <= Len(Whole(w))
        /\ \A j \in 1..Len(todo[w]) :
              todo[w][j] = Whole(w)[Len(Whole(w)) - Len(todo[w]) + j]

CountIn(s, w, k) == Cardinality({j \in 1..k : s[j].by = w})

\* SentInOrder, in terms of the whole.
OrderInv ==
    \A w \in Clients :
        /\ CountIn(uart!Sent, w, Len(uart!Sent)) + dropped[w] = Len(Whole(w)) - Len(todo[w])
        /\ dropped[w] = 0 => \A k \in 1..Len(uart!Sent) : uart!Sent[k].by = w =>
              uart!Sent[k].char = Whole(w)[CountIn(uart!Sent, w, k)]

\* A lone reader that has seen a character finds it.
AloneInv ==
    \A r \in Readers : upc[r] # "done" /\ alone[r] =>
        /\ \A q \in Readers : q # r => upc[q] = "done"
        /\ upc[r] = "move" => urx # <<>>

UARTInv ==
    /\ uart!TypeOK
    /\ Len(tx) + Cardinality(Moving) <= TxDepth
    /\ TodoInv /\ OrderInv
    /\ AloneInv /\ uart!ReadsArrived

\* Every nonempty set of naturals has a least element.
LEMMA Least ==
    ASSUME NEW T \in SUBSET Nat, T # {}
    PROVE  \E x \in T : \A y \in T : x <= y
<1>1. IsWellFoundedOn(OpToRel(<, Nat), Nat)
  BY NatLessThanWellFounded
<1>2. PICK x \in T : \A y \in T : ~(<<y, x>> \in OpToRel(<, Nat))
  BY <1>1, WFMin
<1>3. \A y \in T : ~(y < x)
  BY <1>2 DEF OpToRel
<1>4. QED
  BY <1>3

\* The recursive function by which sequences are joined is there.
LEMMA JoinExists ==
    ASSUME NEW seqs, NEW n \in Nat
    PROVE  \E f : f = [j \in 1..n |-> IF j = 1 THEN seqs[j] ELSE f[j - 1] \o seqs[j]]
<1> DEFINE Joins(f, m) ==
              f = [j \in 1..m |-> IF j = 1 THEN seqs[j] ELSE f[j - 1] \o seqs[j]]
           Bad == {m \in Nat : ~\E f : Joins(f, m)}
<1>1. SUFFICES ASSUME Bad # {} PROVE FALSE
  OBVIOUS
<1>2. PICK m \in Bad : \A y \in Bad : m <= y
  <2>1. Bad \in SUBSET Nat
    OBVIOUS
  <2> HIDE DEF Bad
  <2>2. QED
    BY <1>1, <2>1, Least
<1>3. m \in Nat /\ ~\E f : Joins(f, m)
  OBVIOUS
<1>4. m # 0
  <2>1. Joins([j \in {} |-> 0], 0)
    OBVIOUS
  <2> HIDE DEF Joins
  <2>2. QED
    BY <1>3, <2>1
<1>5. m - 1 \in Nat /\ m - 1 \notin Bad
  <2>1. m - 1 \in Nat /\ ~(m <= m - 1)
    BY <1>3, <1>4
  <2> HIDE DEF Bad
  <2>2. QED
    BY <1>2, <2>1
<1>6. PICK f : Joins(f, m - 1)
  BY <1>5
<1> DEFINE g == [j \in 1..m |-> IF j = m THEN IF j = 1 THEN seqs[j] ELSE f[j - 1] \o seqs[j]
                                ELSE f[j]]
<1>7. ASSUME NEW j \in 1..m
      PROVE  g[j] = IF j = 1 THEN seqs[j] ELSE g[j - 1] \o seqs[j]
  <2>1. CASE j = 1
    BY <1>3, <1>4, <1>6, <2>1
  <2>2. CASE j # 1
    <3>1. j - 1 \in 1..(m - 1) /\ j - 1 \in 1..m /\ j - 1 # m
      BY <1>3, <2>2
    <3>2. g[j - 1] = f[j - 1]
      BY <3>1
    <3>3. j # m => f[j] = f[j - 1] \o seqs[j]
      <4>1. j # m => j \in 1..(m - 1)
        BY <1>3
      <4>2. QED
        BY <1>6, <2>2, <4>1
    <3>4. g[j] = f[j - 1] \o seqs[j]
      BY <2>2, <3>3
    <3> HIDE DEF g
    <3>5. QED
      BY <2>2, <3>2, <3>4
  <2>3. QED
    BY <2>1, <2>2
<1>8. Joins(g, m)
  <2>1. g = [j \in 1..m |-> g[j]]
    OBVIOUS
  <2> HIDE DEF g
  <2>2. QED
    BY <1>7, <2>1
<1> HIDE DEF Joins
<1>9. QED
  BY <1>3, <1>8

\* Nonempty sequences that are joined give a nonempty sequence.
LEMMA JoinType ==
    ASSUME NEW S, NEW n \in Nat \ {0}, NEW seqs \in [1..n -> Seq(S) \ {<<>>}], NEW f,
           \A j \in 1..n : f[j] = IF j = 1 THEN seqs[j] ELSE f[j - 1] \o seqs[j]
    PROVE  f[n] \in Seq(S) \ {<<>>}
<1> DEFINE Fine == Seq(S) \ {<<>>}
           Bad == {m \in 1..n : f[m] \notin Fine}
<1>1. ASSUME Bad # {} PROVE FALSE
  <2>1. PICK m \in Bad : \A y \in Bad : m <= y
    <3>1. Bad \in SUBSET Nat
      OBVIOUS
    <3> HIDE DEF Bad
    <3>2. QED
      BY <1>1, <3>1, Least
  <2>2. m \in 1..n /\ f[m] \notin Fine
    OBVIOUS
  <2>3. seqs[m] \in Fine
    BY <2>2
  <2> HIDE DEF Fine
  <2>4. m # 1 /\ f[m] = f[m - 1] \o seqs[m]
    BY <2>2, <2>3
  <2>5. m - 1 \in 1..n /\ ~(m <= m - 1)
    BY <2>2, <2>4
  <2>6. f[m - 1] \in Fine
    BY <2>1, <2>5
  <2>7. \A s, t \in Fine : s \o t \in Fine
    <3>1. ASSUME NEW s \in Fine, NEW t \in Fine PROVE s \o t \in Fine
      <4>1. s \in Seq(S) /\ t \in Seq(S) /\ t # <<>>
        BY DEF Fine
      <4>2. s \o t \in Seq(S)
        BY <4>1, ConcatProperties
      <4>3. s \o t # <<>>
        BY <4>1, ConcatEqualIffEmpty
      <4>4. QED
        BY <4>2, <4>3 DEF Fine
    <3>2. QED
      BY <3>1
  <2>8. QED
    BY <2>2, <2>3, <2>4, <2>6, <2>7
<1>2. n \in 1..n
  OBVIOUS
<1>3. QED
  BY <1>1, <1>2

\* A text has characters, and so has what uartPuts makes of it.
LEMMA WholeType ==
    ASSUME NEW w \in Clients
    PROVE  Whole(w) \in Seq(uart!Chars) /\ Whole(w) # <<>>
<1> DEFINE s == Text[w]
           n == Len(s)
           seqs == [k \in DOMAIN s |-> IF s[k] = "NL" THEN <<"CR", "NL">> ELSE <<s[k]>>]
           flatten == CHOOSE f : f = [j \in 1..Len(seqs) |->
                          IF j = 1 THEN seqs[j] ELSE f[j - 1] \o seqs[j]]
<1>1. s \in Seq({"a", "b", "NL"}) /\ s # <<>>
  BY HarpiaAssumption
<1>2. n \in Nat \ {0} /\ DOMAIN s = 1..n /\ s \in [1..n -> {"a", "b", "NL"}]
  BY <1>1, LenProperties, EmptySeq
<1>3. seqs \in [1..n -> Seq(uart!Chars) \ {<<>>}]
  <2>1. <<"CR", "NL">> \in Seq(uart!Chars) \ {<<>>}
    BY DEF uart!Chars
  <2>2. \A c \in {"a", "b", "NL"} : <<c>> \in Seq(uart!Chars) \ {<<>>}
    BY DEF uart!Chars
  <2>3. QED
    BY <1>2, <2>1, <2>2
<1>4. Len(seqs) = n
  <2>1. seqs \in Seq(Seq(uart!Chars) \ {<<>>})
    BY <1>2, <1>3, SeqDef
  <2>2. DOMAIN seqs = 1..n
    BY <1>2
  <2> HIDE DEF seqs, n
  <2>3. Len(seqs) \in Nat /\ DOMAIN seqs = 1..Len(seqs)
    BY <2>1, LenProperties
  <2>4. QED
    BY <1>2, <2>2, <2>3
<1>5. Whole(w) = flatten[Len(seqs)]
  <2>1. Whole(w) = IF Len(seqs) = 0 THEN seqs ELSE flatten[Len(seqs)]
    BY DEF Whole, uart!Expand, uart!FlattenSeq
  <2> HIDE DEF flatten, seqs
  <2>2. QED
    BY <1>2, <1>4, <2>1
<1> HIDE DEF seqs, n
<1>6. \E f : f = [j \in 1..Len(seqs) |-> IF j = 1 THEN seqs[j] ELSE f[j - 1] \o seqs[j]]
  BY <1>2, <1>4, JoinExists
<1>7. flatten = [j \in 1..Len(seqs) |->
                    IF j = 1 THEN seqs[j] ELSE flatten[j - 1] \o seqs[j]]
  BY <1>6, Zenon
<1> HIDE DEF flatten
<1>8. flatten[n] \in Seq(uart!Chars) \ {<<>>}
  <2>1. \A j \in 1..n : flatten[j] = IF j = 1 THEN seqs[j] ELSE flatten[j - 1] \o seqs[j]
    BY <1>4, <1>7
  <2>2. QED
    BY <1>2, <1>3, <2>1, JoinType
<1>9. QED
  BY <1>4, <1>5, <1>8

\* A character that is written comes last.
LEMMA WriteIsLast ==
    ASSUME NEW S, NEW s \in Seq(S), NEW t \in Seq(S), NEW m \in S
    PROVE  s \o Append(t, m) = Append(s \o t, m)
<1>1. s \o t \in Seq(S) /\ <<m>> \in Seq(S)
  BY ConcatProperties
<1>2. Append(t, m) = t \o <<m>> /\ Append(s \o t, m) = (s \o t) \o <<m>>
  BY <1>1, AppendIsConcat
<1>3. QED
  BY <1>1, <1>2, ConcatAssociative

\* A character that leaves the fifo goes to the end of the line.
LEMMA SendIsNext ==
    ASSUME NEW S, NEW s \in Seq(S), NEW t \in Seq(S), t # <<>>
    PROVE  /\ Append(s, Head(t)) \o Tail(t) = s \o t
           /\ Append(s, Head(t)) \in Seq(S) /\ Tail(t) \in Seq(S)
           /\ Len(Tail(t)) = Len(t) - 1
<1> DEFINE m == Head(t)   u == Tail(t)
<1>1. /\ m \in S /\ u \in Seq(S) /\ Len(u) = Len(t) - 1
      /\ \A j \in 1..Len(u) : u[j] = t[j + 1]
  BY HeadTailProperties
<1>2. m = t[1] /\ Len(t) \in Nat \ {0}
  BY EmptySeq
<1> HIDE DEF m, u
<1>3. <<m>> \in Seq(S) /\ Append(s, m) = s \o <<m>> /\ Append(s, m) \in Seq(S)
  BY <1>1, AppendIsConcat, AppendProperties
<1>4. (s \o <<m>>) \o u = s \o (<<m>> \o u)
  BY <1>1, <1>3, ConcatAssociative
<1>5. <<m>> \o u = t
  <2>1. /\ <<m>> \o u \in Seq(S) /\ Len(<<m>> \o u) = 1 + Len(u)
        /\ \A j \in 1..(1 + Len(u)) : (<<m>> \o u)[j] = IF j <= 1 THEN <<m>>[j] ELSE u[j - 1]
    <3>1. Len(<<m>>) = 1
      OBVIOUS
    <3>2. QED
      BY <1>1, <1>3, <3>1, ConcatProperties
  <2>2. \A j \in 1..Len(t) : (<<m>> \o u)[j] = t[j]
    <3>1. ASSUME NEW j \in 1..Len(t) PROVE (<<m>> \o u)[j] = t[j]
      <4>1. (<<m>> \o u)[j] = IF j <= 1 THEN <<m>>[j] ELSE u[j - 1]
        BY <1>1, <1>2, <2>1
      <4>2. CASE j = 1
        BY <1>2, <4>1, <4>2
      <4>3. CASE j # 1
        <5>1. j - 1 \in 1..Len(u) /\ ~(j <= 1) /\ (j - 1) + 1 = j
          BY <1>1, <1>2, <4>3
        <5>2. u[j - 1] = t[j]
          BY <1>1, <5>1
        <5>3. QED
          BY <4>1, <5>1, <5>2
      <4>4. QED
        BY <4>2, <4>3
    <3>2. QED
      BY <3>1
  <2>3. Len(<<m>> \o u) = Len(t)
    BY <1>1, <1>2, <2>1
  <2>4. QED
    BY <2>1, <2>2, <2>3, SeqEqual
<1>6. QED
  BY <1>1, <1>3, <1>4, <1>5 DEF m, u

\* Counting the characters of w among the first k.
LEMMA CountFacts ==
    ASSUME NEW s, NEW w, NEW N \in Nat
    PROVE  /\ \A k \in 0..N : CountIn(s, w, k) \in Nat /\ CountIn(s, w, k) <= CountIn(s, w, N)
           /\ \A k \in 1..N : s[k].by = w => CountIn(s, w, k) >= 1
           /\ \A k \in 0..N : (\A j \in 1..k : s[j].by # w) => CountIn(s, w, k) = 0
<1> DEFINE Own(k) == {j \in 1..k : s[j].by = w}
<1>1. IsFiniteSet(1..N)
  BY FS_Interval
<1>2. \A k \in 0..N : Own(k) \subseteq Own(N) /\ Own(k) \subseteq 1..N
  OBVIOUS
<1>3. IsFiniteSet(Own(N)) /\ \A k \in 0..N : IsFiniteSet(Own(k))
  BY <1>1, <1>2, FS_Subset
<1>4. \A k \in 0..N : Cardinality(Own(k)) \in Nat /\ Cardinality(Own(k)) <= Cardinality(Own(N))
  BY <1>2, <1>3, FS_Subset, FS_CardinalityType
<1>5. ASSUME NEW k \in 1..N, s[k].by = w PROVE Cardinality(Own(k)) >= 1
  <2>1. k \in Own(k) /\ k \in 0..N
    BY <1>5
  <2>2. Cardinality(Own(k)) # 0
    <3> HIDE DEF Own
    <3> QED
      BY <1>3, <2>1, FS_EmptySet
  <2> HIDE DEF Own
  <2>3. QED
    BY <1>4, <2>1, <2>2
<1>6. ASSUME NEW k \in 0..N, \A j \in 1..k : s[j].by # w PROVE Cardinality(Own(k)) = 0
  <2>1. Own(k) = {}
    BY <1>6
  <2>2. QED
    BY <2>1, FS_EmptySet
<1>7. QED
  BY <1>4, <1>5, <1>6 DEF CountIn

\* One more character is counted if it is of w.
LEMMA CountAppend ==
    ASSUME NEW S, NEW s \in Seq(S), NEW m \in S, NEW w
    PROVE  LET N == Len(s)
               t == Append(s, m)
           IN  /\ \A k \in 0..N : CountIn(t, w, k) = CountIn(s, w, k)
               /\ CountIn(t, w, N + 1) = CountIn(s, w, N) + (IF m.by = w THEN 1 ELSE 0)
<1> DEFINE N == Len(s)
           t == Append(s, m)
           Own(x, k) == {j \in 1..k : x[j].by = w}
<1>1. N \in Nat /\ t[N + 1] = m /\ \A j \in 1..N : t[j] = s[j]
  BY LenProperties, AppendProperties
<1> HIDE DEF N, t
<1>2. \A k \in 0..N : Own(t, k) = Own(s, k)
  BY <1>1
<1>3. IsFiniteSet(Own(s, N))
  <2>1. IsFiniteSet(1..N)
    BY <1>1, FS_Interval
  <2>2. Own(s, N) \subseteq 1..N
    OBVIOUS
  <2>3. QED
    BY <2>1, <2>2, FS_Subset
<1>4. N + 1 \notin Own(s, N)
  BY <1>1
<1>5. Own(t, N + 1) = IF m.by = w THEN Own(s, N) \cup {N + 1} ELSE Own(s, N)
  BY <1>1
<1>6. Cardinality(Own(s, N)) \in Nat
  <2> HIDE DEF Own
  <2> QED
    BY <1>3, FS_CardinalityType
<1>7. Cardinality(Own(t, N + 1)) = Cardinality(Own(s, N)) + (IF m.by = w THEN 1 ELSE 0)
  <2> HIDE DEF Own
  <2>1. CASE m.by = w
    BY <1>3, <1>4, <1>5, <2>1, FS_AddElement
  <2>2. CASE m.by # w
    BY <1>5, <1>6, <2>2
  <2>3. QED
    BY <2>1, <2>2
<1>8. QED
  BY <1>2, <1>7 DEF CountIn, N, t

\* Counting the writers that are about to write.
LEMMA MovingFacts ==
    /\ IsFiniteSet(Clients) /\ Cardinality(Clients) \in Nat
    /\ IsFiniteSet(Moving) /\ Cardinality(Moving) \in Nat
    /\ Cardinality(Moving) <= Cardinality(Clients)
    /\ \A w \in Moving : /\ Cardinality(Moving) >= 1
                         /\ Cardinality(Moving \ {w}) = Cardinality(Moving) - 1
    /\ \A w \in Clients \ Moving :
          /\ Cardinality(Moving \cup {w}) = Cardinality(Moving) + 1
          /\ Cardinality(Moving) + 1 <= Cardinality(Clients)
<1>1. IsFiniteSet(Clients) /\ Cardinality(Clients) \in Nat
  BY HarpiaAssumption, FS_CardinalityType
<1>2. Moving \subseteq Clients
  BY DEF Moving
<1>3. /\ IsFiniteSet(Moving) /\ Cardinality(Moving) \in Nat
      /\ Cardinality(Moving) <= Cardinality(Clients)
  BY <1>1, <1>2, FS_Subset, FS_CardinalityType
<1>4. ASSUME NEW w \in Moving
      PROVE  /\ Cardinality(Moving) >= 1
             /\ Cardinality(Moving \ {w}) = Cardinality(Moving) - 1
  <2>1. Cardinality(Moving \ {w}) = Cardinality(Moving) - 1
    BY <1>3, FS_RemoveElement
  <2>2. IsFiniteSet(Moving \ {w}) /\ Cardinality(Moving \ {w}) \in Nat
    BY <1>3, FS_RemoveElement, FS_CardinalityType
  <2>3. QED
    BY <1>3, <2>1, <2>2
<1>5. ASSUME NEW w \in Clients \ Moving
      PROVE  /\ Cardinality(Moving \cup {w}) = Cardinality(Moving) + 1
             /\ Cardinality(Moving) + 1 <= Cardinality(Clients)
  <2>1. Cardinality(Moving \cup {w}) = Cardinality(Moving) + 1
    BY <1>3, FS_AddElement
  <2>2. Moving \cup {w} \subseteq Clients
    BY <1>2
  <2>3. Cardinality(Moving \cup {w}) <= Cardinality(Clients)
    BY <1>1, <2>2, FS_Subset
  <2>4. QED
    BY <2>1, <2>3
<1>6. QED
  BY <1>1, <1>3, <1>4, <1>5

\* What the invariant says.
LEMMA UARTMeaning == UARTInv => uart!TypeOK /\ uart!SentInOrder /\ uart!ReadsArrived
<1> SUFFICES ASSUME UARTInv PROVE uart!TypeOK /\ uart!SentInOrder /\ uart!ReadsArrived
  OBVIOUS
<1> DEFINE s == uart!Sent   N == Len(s)
<1>1. s \in Seq(uart!Mark) /\ N \in Nat /\ DOMAIN s = 1..N
  <2>1. s \in Seq(uart!Mark)
    BY ConcatProperties DEF UARTInv, uart!TypeOK, uart!Sent
  <2>2. QED
    BY <2>1, LenProperties
<1>2. ASSUME NEW w \in Clients, NEW k \in Nat PROVE uart!Count(w, k) = CountIn(s, w, k)
  <2> DEFINE own == {j \in 1..k : s[j].by = w}
  <2>1. uart!Count(w, k) = uart!Cardinality(own) /\ CountIn(s, w, k) = Cardinality(own)
    BY DEF uart!Count, CountIn
  <2> HIDE DEF own
  <2>2. QED
    BY <2>1, SameCardinality
<1> HIDE DEF s, N
<1>3. ASSUME NEW w \in Clients
      PROVE  /\ uart!Count(w, N) + dropped[w] = Len(uart!Tried(w))
             /\ dropped[w] = 0 => \A k \in DOMAIN s :
                   s[k].by = w => s[k].char = uart!Tried(w)[uart!Count(w, k)]
  <2> DEFINE T == Len(Whole(w)) - Len(todo[w])
  <2>1. T \in 0..Len(Whole(w)) /\ Len(Whole(w)) \in Nat
    <3>1. todo[w] \in Seq(uart!Chars) /\ Whole(w) \in Seq(uart!Chars)
      BY WholeType DEF UARTInv, uart!TypeOK
    <3>2. Len(todo[w]) \in Nat /\ Len(Whole(w)) \in Nat /\ Len(todo[w]) <= Len(Whole(w))
      BY <3>1, LenProperties DEF UARTInv, TodoInv
    <3>3. QED
      BY <3>2
  <2>2. uart!Tried(w) = SubSeq(Whole(w), 1, T)
    BY DEF uart!Tried, Whole
  <2>3. /\ CountIn(s, w, N) + dropped[w] = T
        /\ dropped[w] = 0 => \A k \in 1..N : s[k].by = w => s[k].char = Whole(w)[CountIn(s, w, k)]
    BY DEF UARTInv, OrderInv, s, N
  <2> HIDE DEF T
  <2>4. /\ Len(uart!Tried(w)) = T
        /\ \A j \in 1..T : uart!Tried(w)[j] = Whole(w)[j]
    <3>1. \A j \in 1..T : Whole(w)[j] \in uart!Chars
      BY <2>1, WholeType, ElementOfSeq
    <3>2. /\ Len(uart!Tried(w)) = IF 1 <= T THEN T - 1 + 1 ELSE 0
          /\ \A j \in 1..(T - 1 + 1) : uart!Tried(w)[j] = Whole(w)[1 + j - 1]
      BY <2>1, <2>2, <3>1, SubSeqProperties
    <3>3. QED
      BY <2>1, <3>2
  <2>5. ASSUME dropped[w] = 0, NEW k \in 1..N, s[k].by = w
        PROVE  s[k].char = uart!Tried(w)[uart!Count(w, k)]
    <3>1. /\ CountIn(s, w, k) \in Nat /\ CountIn(s, w, k) >= 1
          /\ CountIn(s, w, k) <= CountIn(s, w, N) /\ CountIn(s, w, N) \in Nat
      <4>1. k \in 0..N /\ N \in 0..N
        BY <1>1
      <4>2. QED
        BY <1>1, <2>5, <4>1, CountFacts
    <3>2. CountIn(s, w, N) = T
      BY <2>3, <2>5, <3>1
    <3>3. CountIn(s, w, k) \in 1..T
      BY <3>1, <3>2
    <3>4. uart!Count(w, k) = CountIn(s, w, k)
      BY <1>1, <1>2
    <3>5. s[k].char = Whole(w)[CountIn(s, w, k)]
      BY <2>3, <2>5
    <3>6. QED
      BY <2>4, <3>3, <3>4, <3>5
  <2>6. uart!Count(w, N) = CountIn(s, w, N)
    BY <1>1, <1>2
  <2>7. QED
    BY <1>1, <2>3, <2>4, <2>5, <2>6
<1>4. uart!SentInOrder
  BY <1>3 DEF uart!SentInOrder, s, N
<1>5. QED
  BY <1>4 DEF UARTInv

UARTPlaces == {"poll", "move", "done"}

\* Every writer has its text before it.
LEMMA UARTInit == uart!Init => UARTInv
<1> SUFFICES ASSUME uart!Init PROVE UARTInv
  OBVIOUS
<1>1. \A w \in Clients : /\ Whole(w) \in Seq(uart!Chars) /\ Whole(w) # <<>>
                         /\ todo[w] = Whole(w) /\ upc[w] = "poll"
  BY WholeType DEF uart!Init, Whole, uart!Threads
<1>2. \A w \in Clients : Len(Whole(w)) \in Nat
  BY <1>1, LenProperties
<1>3. uart!TypeOK
  <2>1. upc \in [uart!Threads -> UARTPlaces] /\ un \in [uart!Threads -> 0..Polls]
    BY HarpiaAssumption DEF uart!Init, UARTPlaces
  <2>2. \A t \in uart!Threads : upc[t] = "poll" => un[t] > 0
    BY HarpiaAssumption DEF uart!Init
  <2>3. todo \in [Clients -> Seq(uart!Chars)]
    BY <1>1 DEF uart!Init
  <2>4. /\ tx \in Seq(uart!Mark) /\ Len(tx) <= TxDepth /\ line \in Seq(uart!Mark)
        /\ urx \in Seq(1..MaxBytes) /\ Len(urx) <= RxDepth
    BY HarpiaAssumption, EmptySeq DEF uart!Init
  <2>5. /\ dropped \in [Clients -> Nat] /\ arrived \in 0..MaxBytes
        /\ result \in [Readers -> {uart!Nothing, uart!Junk} \cup 1..MaxBytes]
    BY HarpiaAssumption DEF uart!Init
  <2>6. alone \in [Readers -> BOOLEAN]
    BY DEF uart!Init
  <2>7. QED
    BY <1>1, <2>1, <2>2, <2>3, <2>4, <2>5, <2>6 DEF uart!TypeOK, UARTPlaces
<1>4. Len(tx) + Cardinality(Moving) <= TxDepth
  <2>1. Moving = {}
    BY <1>1 DEF Moving
  <2>2. Len(tx) = 0 /\ Cardinality(Moving) = 0
    BY <2>1, EmptySeq, FS_EmptySet DEF uart!Init
  <2>3. QED
    BY <2>2, HarpiaAssumption
<1>5. TodoInv
  <2>1. ASSUME NEW w \in Clients
        PROVE  /\ Len(todo[w]) <= Len(Whole(w))
               /\ \A j \in 1..Len(todo[w]) :
                     todo[w][j] = Whole(w)[Len(Whole(w)) - Len(todo[w]) + j]
    <3> DEFINE W == Len(Whole(w))
    <3>1. W \in Nat /\ todo[w] = Whole(w) /\ Len(todo[w]) = W
      BY <1>1, <1>2
    <3> HIDE DEF W
    <3>2. W <= W /\ \A j \in 1..W : W - W + j = j
      BY <3>1
    <3>3. QED
      BY <3>1, <3>2 DEF W
  <2>2. QED
    BY <2>1 DEF TodoInv
<1>6. OrderInv
  <2>1. uart!Sent = <<>> /\ Len(uart!Sent) = 0
    BY DEF uart!Init, uart!Sent
  <2>2. \A w \in Clients : CountIn(uart!Sent, w, 0) = 0
    BY CountFacts
  <2>3. \A w \in Clients : dropped[w] = 0
    BY DEF uart!Init
  <2>4. QED
    BY <1>1, <1>2, <2>1, <2>2, <2>3 DEF OrderInv
<1>7. AloneInv
  BY HarpiaAssumption DEF uart!Init, AloneInv, uart!Threads
<1>8. uart!ReadsArrived
  BY DEF uart!Init, uart!ReadsArrived, uart!Nothing, uart!Junk
<1>9. QED
  BY <1>3, <1>4, <1>5, <1>6, <1>7, <1>8 DEF UARTInv

\* Readers do not disturb writers.
LEMMA WritingKept ==
    ASSUME UARTInv, UNCHANGED <<todo, tx, line, dropped>>,
           \A w \in Clients : upc'[w] = upc[w]
    PROVE  Len(tx') + Cardinality(Moving') <= TxDepth /\ TodoInv' /\ OrderInv'
<1>1. Moving' = Moving /\ uart!Sent' = uart!Sent
  BY DEF Moving, uart!Sent
<1>2. QED
  BY <1>1 DEF UARTInv, TodoInv, OrderInv

\* Writers do not disturb readers.
LEMMA ReadingKept ==
    ASSUME UARTInv, UNCHANGED <<urx, result, alone>>,
           \A r \in Readers : upc'[r] = upc[r]
    PROVE  AloneInv' /\ uart!ReadsArrived'
  BY DEF UARTInv, AloneInv, uart!ReadsArrived

\* The writer w goes on to its next character.
LEMMA AdvanceFacts ==
    ASSUME UARTInv, NEW w \in Clients, upc[w] # "done", uart!Advance(w)
    PROVE  /\ upc' \in [uart!Threads -> UARTPlaces] /\ un' \in [uart!Threads -> 0..Polls]
           /\ upc'[w] \in {"poll", "done"}
           /\ \A t \in uart!Threads : t # w => upc'[t] = upc[t]
           /\ \A t \in uart!Threads : upc'[t] = "poll" => un'[t] > 0
           /\ todo' \in [Clients -> Seq(uart!Chars)]
           /\ \A d \in Clients : todo'[d] = <<>> <=> upc'[d] = "done"
           /\ \A d \in Clients : d # w => todo'[d] = todo[d]
           /\ Len(todo'[w]) = Len(todo[w]) - 1 /\ Len(todo[w]) \in Nat
           /\ Head(todo[w]) \in uart!Chars
           /\ Head(todo[w]) = Whole(w)[Len(Whole(w)) - Len(todo[w]) + 1]
           /\ TodoInv'
<1>1. /\ todo' = [todo EXCEPT ![w] = Tail(todo[w])]
      /\ upc' = [upc EXCEPT ![w] = IF Len(todo[w]) = 1 THEN "done" ELSE "poll"]
      /\ un' = [un EXCEPT ![w] = Polls]
  BY DEF uart!Advance
<1>2. todo[w] \in Seq(uart!Chars) /\ todo[w] # <<>> /\ w \in uart!Threads
  BY DEF UARTInv, uart!TypeOK, uart!Threads
<1> DEFINE rest == Tail(todo[w])
           N == Len(todo[w])
           W == Len(Whole(w))
<1>3. /\ Head(todo[w]) \in uart!Chars /\ rest \in Seq(uart!Chars)
      /\ Len(rest) = N - 1
      /\ \A j \in 1..Len(rest) : rest[j] = todo[w][j + 1]
  BY <1>2, HeadTailProperties
<1>4. N \in Nat \ {0} /\ Head(todo[w]) = todo[w][1]
  BY <1>2, EmptySeq
<1>5. /\ N = 1 <=> rest = <<>>
      /\ todo' = [todo EXCEPT ![w] = rest]
      /\ upc' = [upc EXCEPT ![w] = IF N = 1 THEN "done" ELSE "poll"]
  <2>1. Len(rest) = 0 <=> rest = <<>>
    BY <1>3, EmptySeq
  <2>2. Len(rest) = N - 1 /\ N \in Nat
    BY <1>3, <1>4
  <2> HIDE DEF rest, N
  <2>3. N = 1 <=> rest = <<>>
    BY <2>1, <2>2
  <2>4. QED
    BY <1>1, <2>3 DEF rest, N
<1> HIDE DEF rest, N, W
<1>6. /\ upc' \in [uart!Threads -> UARTPlaces] /\ un' \in [uart!Threads -> 0..Polls]
      /\ upc'[w] = IF N = 1 THEN "done" ELSE "poll"
      /\ \A t \in uart!Threads : t # w => upc'[t] = upc[t]
  BY <1>1, <1>2, <1>5, HarpiaAssumption DEF UARTInv, uart!TypeOK, UARTPlaces
<1>7. \A t \in uart!Threads : upc'[t] = "poll" => un'[t] > 0
  BY <1>1, <1>2, <1>6, HarpiaAssumption DEF UARTInv, uart!TypeOK
<1>8. /\ todo' \in [Clients -> Seq(uart!Chars)] /\ todo'[w] = rest
      /\ \A d \in Clients : d # w => todo'[d] = todo[d]
  BY <1>3, <1>5 DEF UARTInv, uart!TypeOK
<1>9. ASSUME NEW d \in Clients PROVE todo'[d] = <<>> <=> upc'[d] = "done"
  <2>1. CASE d = w
    BY <1>5, <1>6, <1>8, <2>1
  <2>2. CASE d # w
    BY <1>6, <1>8, <2>2 DEF UARTInv, uart!TypeOK, uart!Threads
  <2>3. QED
    BY <2>1, <2>2
<1>10. /\ N <= W /\ W \in Nat
       /\ \A j \in 1..N :
             todo[w][j] = Whole(w)[W - N + j]
  BY WholeType, LenProperties DEF UARTInv, TodoInv, N, W
<1>11. Head(todo[w]) = Whole(w)[W - N + 1]
  <2>1. 1 \in 1..N
    BY <1>4
  <2>2. QED
    BY <1>4, <1>10, <2>1
<1>12. ASSUME NEW j \in 1..Len(rest)
       PROVE  rest[j] = Whole(w)[W - Len(rest) + j]
  <2>1. j + 1 \in 1..N /\ j \in Nat
    BY <1>3, <1>4
  <2>2. rest[j] = Whole(w)[W - N + (j + 1)]
    BY <1>3, <1>10, <2>1
  <2>3. W - N + (j + 1) = W - Len(rest) + j
    BY <1>3, <1>4, <1>10, <2>1
  <2>4. QED
    BY <2>2, <2>3
<1>13. TodoInv'
  <2>1. SUFFICES ASSUME NEW d \in Clients
                 PROVE  /\ Len(todo'[d]) <= Len(Whole(d))
                        /\ \A j \in 1..Len(todo'[d]) :
                              todo'[d][j] = Whole(d)[Len(Whole(d)) - Len(todo'[d]) + j]
    BY DEF TodoInv, Whole, uart!Expand
  <2>2. CASE d = w
    <3>1. Len(rest) <= W
      BY <1>3, <1>4, <1>10
    <3>2. QED
      BY <1>8, <1>12, <2>2, <3>1 DEF W
  <2>3. CASE d # w
    <3>1. todo'[d] = todo[d]
      BY <1>8, <2>3
    <3>2. QED
      BY <3>1 DEF UARTInv, TodoInv
  <2>4. QED
    BY <2>2, <2>3
<1>14. QED
  BY <1>3, <1>4, <1>6, <1>7, <1>8, <1>9, <1>11, <1>13 DEF N, W

\* One poll of uartPutc: the transmitter is seen empty, or not, or the character is
\* given up.  A fifo that takes a character of every writer has room when it is empty.
LEMMA PutcPollStep ==
    ASSUME UARTInv, FifoTakesAll, NEW w \in Clients, uart!PutcPoll(w)
    PROVE  UARTInv'
<1>1. upc[w] = "poll" /\ UNCHANGED <<tx, line, arrived, urx, result, alone>>
  BY DEF uart!PutcPoll, uart!reading
<1>2. w \in uart!Threads /\ w \notin Readers /\ un[w] \in 1..Polls
  BY <1>1, HarpiaAssumption DEF UARTInv, uart!TypeOK, uart!Threads
<1>3. CASE /\ tx = <<>> /\ upc' = [upc EXCEPT ![w] = "move"]
           /\ UNCHANGED <<un, todo, dropped>>
  <2>1. /\ upc' \in [uart!Threads -> UARTPlaces] /\ upc'[w] = "move"
        /\ \A t \in uart!Threads : t # w => upc'[t] = upc[t]
    BY <1>2, <1>3 DEF UARTInv, uart!TypeOK, UARTPlaces
  <2>2. uart!TypeOK'
    <3>1. \A t \in uart!Threads : upc'[t] = "poll" => un'[t] > 0
      BY <1>3, <2>1 DEF UARTInv, uart!TypeOK
    <3>2. \A d \in Clients : todo'[d] = <<>> <=> upc'[d] = "done"
      BY <1>1, <1>3, <2>1 DEF UARTInv, uart!TypeOK, uart!Threads
    <3>3. QED
      BY <1>1, <1>3, <2>1, <3>1, <3>2 DEF UARTInv, uart!TypeOK, UARTPlaces
  <2>3. Len(tx') + Cardinality(Moving') <= TxDepth
    <3>1. w \in Clients \ Moving /\ Moving' = Moving \cup {w}
      BY <1>1, <2>1 DEF Moving, uart!Threads
    <3>2. /\ Cardinality(Moving') <= Cardinality(Clients)
          /\ Cardinality(Moving') \in Nat /\ Cardinality(Clients) \in Nat
      BY <3>1, MovingFacts
    <3>3. Len(tx') = 0
      BY <1>1, <1>3
    <3>4. QED
      BY <3>2, <3>3, HarpiaAssumption DEF FifoTakesAll
  <2>4. TodoInv' /\ OrderInv'
    <3>1. uart!Sent' = uart!Sent
      BY <1>1 DEF uart!Sent
    <3>2. QED
      BY <1>3, <3>1 DEF UARTInv, TodoInv, OrderInv
  <2>5. AloneInv' /\ uart!ReadsArrived'
    BY <1>1, <1>2, <2>1, ReadingKept DEF uart!Threads
  <2>6. QED
    BY <2>2, <2>3, <2>4, <2>5 DEF UARTInv
<1>4. CASE /\ un[w] > 1 /\ un' = [un EXCEPT ![w] = un[w] - 1]
           /\ UNCHANGED <<upc, todo, dropped>>
  <2>1. /\ un' \in [uart!Threads -> 0..Polls] /\ un'[w] > 0
        /\ \A t \in uart!Threads : t # w => un'[t] = un[t]
    BY <1>2, <1>4, HarpiaAssumption DEF UARTInv, uart!TypeOK
  <2>2. uart!TypeOK'
    <3>1. \A t \in uart!Threads : upc'[t] = "poll" => un'[t] > 0
      BY <1>4, <2>1 DEF UARTInv, uart!TypeOK
    <3>2. QED
      BY <1>1, <1>4, <2>1, <3>1 DEF UARTInv, uart!TypeOK
  <2>3. Len(tx') + Cardinality(Moving') <= TxDepth /\ TodoInv' /\ OrderInv'
    BY <1>1, <1>4, WritingKept
  <2>4. AloneInv' /\ uart!ReadsArrived'
    BY <1>1, <1>4, ReadingKept
  <2>5. QED
    BY <2>2, <2>3, <2>4 DEF UARTInv
<1>5. CASE uart!Advance(w) /\ dropped' = [dropped EXCEPT ![w] = dropped[w] + 1]
  <2>1. /\ upc' \in [uart!Threads -> UARTPlaces] /\ un' \in [uart!Threads -> 0..Polls]
        /\ upc'[w] \in {"poll", "done"}
        /\ \A t \in uart!Threads : t # w => upc'[t] = upc[t]
        /\ \A t \in uart!Threads : upc'[t] = "poll" => un'[t] > 0
        /\ todo' \in [Clients -> Seq(uart!Chars)]
        /\ \A d \in Clients : todo'[d] = <<>> <=> upc'[d] = "done"
        /\ \A d \in Clients : d # w => todo'[d] = todo[d]
        /\ Len(todo'[w]) = Len(todo[w]) - 1 /\ Len(todo[w]) \in Nat
        /\ TodoInv'
    BY <1>1, <1>5, AdvanceFacts
  <2>2. /\ dropped' \in [Clients -> Nat] /\ dropped'[w] = dropped[w] + 1
        /\ \A d \in Clients : d # w => dropped'[d] = dropped[d]
        /\ dropped \in [Clients -> Nat]
    BY <1>5 DEF UARTInv, uart!TypeOK
  <2>3. uart!TypeOK'
    BY <1>1, <2>1, <2>2 DEF UARTInv, uart!TypeOK, UARTPlaces
  <2>4. Len(tx') + Cardinality(Moving') <= TxDepth
    <3>1. Moving' = Moving
      BY <1>1, <2>1 DEF Moving, uart!Threads
    <3>2. QED
      BY <1>1, <3>1 DEF UARTInv
  <2>5. OrderInv'
    <3> DEFINE s == uart!Sent
               n == Len(s)
    <3>1. s' = s
      BY <1>1 DEF uart!Sent
    <3>2. ASSUME NEW d \in Clients
          PROVE  /\ CountIn(s, d, n) + dropped'[d] = Len(Whole(d)) - Len(todo'[d])
                 /\ dropped'[d] = 0 => \A k \in 1..n : s[k].by = d =>
                       s[k].char = Whole(d)[CountIn(s, d, k)]
      <4>1. /\ CountIn(s, d, n) + dropped[d] = Len(Whole(d)) - Len(todo[d])
            /\ dropped[d] = 0 => \A k \in 1..n : s[k].by = d =>
                  s[k].char = Whole(d)[CountIn(s, d, k)]
        BY DEF UARTInv, OrderInv
      <4>2. CASE d # w
        <5>1. todo'[d] = todo[d] /\ dropped'[d] = dropped[d]
          BY <2>1, <2>2, <4>2
        <5>2. QED
          BY <4>1, <5>1
      <4>3. CASE d = w
        <5>1. dropped'[w] # 0 /\ dropped[w] \in Nat
          BY <2>2
        <5>2. CountIn(s, w, n) \in Nat /\ Len(Whole(w)) \in Nat
          <6>1. s \in Seq(uart!Mark)
            BY ConcatProperties DEF UARTInv, uart!TypeOK, uart!Sent
          <6>2. n \in Nat /\ n \in 0..n
            BY <6>1, LenProperties
          <6>3. QED
            BY <6>2, CountFacts, WholeType, LenProperties
        <5>3. CountIn(s, w, n) + dropped'[w] = Len(Whole(w)) - Len(todo'[w])
          <6> DEFINE C == CountIn(s, w, n)   W == Len(Whole(w))
          <6> HIDE DEF C, W, s, n
          <6>1. C + dropped[w] = W - Len(todo[w]) /\ C \in Nat /\ W \in Nat
            BY <4>1, <4>3, <5>2 DEF C, W
          <6>2. \A a, b \in Nat : C + a = W - b => C + (a + 1) = W - (b - 1)
            BY <6>1
          <6>3. C + (dropped[w] + 1) = W - (Len(todo[w]) - 1)
            BY <2>1, <5>1, <6>1, <6>2
          <6>4. QED
            BY <2>1, <2>2, <6>3 DEF C, W
        <5>4. QED
          BY <4>3, <5>1, <5>3
      <4>4. QED
        BY <4>2, <4>3
    <3>3. QED
      BY <3>1, <3>2, Zenon DEF OrderInv, CountIn, Whole, uart!Expand
  <2>6. AloneInv' /\ uart!ReadsArrived'
    BY <1>1, <1>2, <2>1, ReadingKept DEF uart!Threads
  <2>7. QED
    BY <2>1, <2>3, <2>4, <2>5, <2>6 DEF UARTInv
<1>6. QED
  BY <1>3, <1>4, <1>5 DEF uart!PutcPoll

\* The character is written: the fifo has room for it, it comes after all the
\* others, and it is the next of its writer.
LEMMA PutcWriteStep ==
    ASSUME UARTInv, NEW w \in Clients, uart!PutcWrite(w)
    PROVE  UARTInv'
<1> DEFINE m == [by |-> w, char |-> Head(todo[w])]
           s == uart!Sent
           n == Len(s)
<1>1. /\ upc[w] = "move" /\ uart!Advance(w)
      /\ tx' = IF Len(tx) < TxDepth THEN Append(tx, m) ELSE tx
      /\ UNCHANGED <<line, dropped, arrived, urx, result, alone>>
  BY DEF uart!PutcWrite, uart!reading
<1>2. /\ upc' \in [uart!Threads -> UARTPlaces] /\ un' \in [uart!Threads -> 0..Polls]
      /\ upc'[w] \in {"poll", "done"}
      /\ \A t \in uart!Threads : t # w => upc'[t] = upc[t]
      /\ \A t \in uart!Threads : upc'[t] = "poll" => un'[t] > 0
      /\ todo' \in [Clients -> Seq(uart!Chars)]
      /\ \A d \in Clients : todo'[d] = <<>> <=> upc'[d] = "done"
      /\ \A d \in Clients : d # w => todo'[d] = todo[d]
      /\ Len(todo'[w]) = Len(todo[w]) - 1 /\ Len(todo[w]) \in Nat
      /\ Head(todo[w]) \in uart!Chars
      /\ Head(todo[w]) = Whole(w)[Len(Whole(w)) - Len(todo[w]) + 1]
      /\ TodoInv'
  BY <1>1, AdvanceFacts
<1>3. m \in uart!Mark /\ m.by = w /\ m.char = Head(todo[w])
  BY <1>2 DEF uart!Mark
<1> HIDE DEF m
<1>4. tx \in Seq(uart!Mark) /\ line \in Seq(uart!Mark) /\ Len(tx) \in Nat
  BY LenProperties DEF UARTInv, uart!TypeOK
<1>5. w \in Moving /\ Moving' = Moving \ {w}
  BY <1>1, <1>2 DEF Moving, uart!Threads
<1>6. /\ Cardinality(Moving) \in Nat /\ Cardinality(Moving) >= 1
      /\ Cardinality(Moving') = Cardinality(Moving) - 1
  BY <1>5, MovingFacts
<1>7. Len(tx) + Cardinality(Moving) <= TxDepth /\ TxDepth \in Nat
  BY HarpiaAssumption DEF UARTInv
<1>8. tx' = Append(tx, m) /\ Len(tx') = Len(tx) + 1 /\ tx' \in Seq(uart!Mark)
  <2>1. Len(tx) < TxDepth
    BY <1>4, <1>6, <1>7
  <2>2. tx' = Append(tx, m)
    BY <1>1, <2>1
  <2>3. QED
    BY <1>3, <1>4, <2>2, AppendProperties
<1>9. Len(tx') + Cardinality(Moving') <= TxDepth /\ Len(tx') <= TxDepth
  BY <1>4, <1>6, <1>7, <1>8
<1>10. uart!TypeOK'
  BY <1>1, <1>2, <1>8, <1>9 DEF UARTInv, uart!TypeOK, UARTPlaces
<1>11. s \in Seq(uart!Mark) /\ n \in Nat /\ uart!Sent' = Append(s, m)
  <2>1. s \in Seq(uart!Mark)
    BY <1>4, ConcatProperties DEF uart!Sent
  <2>2. uart!Sent' = Append(s, m)
    BY <1>1, <1>3, <1>4, <1>8, WriteIsLast DEF uart!Sent
  <2>3. QED
    BY <2>1, <2>2, LenProperties
<1> DEFINE t == Append(s, m)
<1>12. Len(t) = n + 1 /\ t[n + 1] = m /\ \A k \in 1..n : t[k] = s[k]
  BY <1>3, <1>11, AppendProperties
<1>13. \A d : /\ \A k \in 0..n : CountIn(t, d, k) = CountIn(s, d, k)
              /\ CountIn(t, d, n + 1) = CountIn(s, d, n) + (IF m.by = d THEN 1 ELSE 0)
  BY <1>3, <1>11, CountAppend
<1>14. \A d \in Clients :
          /\ CountIn(s, d, n) + dropped[d] = Len(Whole(d)) - Len(todo[d])
          /\ dropped[d] = 0 => \A k \in 1..n : s[k].by = d =>
                s[k].char = Whole(d)[CountIn(s, d, k)]
  BY DEF UARTInv, OrderInv
<1>15. \A d \in Clients : /\ CountIn(s, d, n) \in Nat /\ dropped[d] \in Nat
                          /\ Len(Whole(d)) \in Nat
  <2>1. n \in 0..n
    BY <1>11
  <2>2. QED
    BY <1>11, <2>1, CountFacts, WholeType, LenProperties DEF UARTInv, uart!TypeOK
<1> HIDE DEF s, n, t
<1>16. ASSUME NEW d \in Clients
       PROVE  /\ CountIn(t, d, n + 1) + dropped[d] = Len(Whole(d)) - Len(todo'[d])
              /\ dropped[d] = 0 => \A k \in 1..(n + 1) : t[k].by = d =>
                    t[k].char = Whole(d)[CountIn(t, d, k)]
  <2> DEFINE C == CountIn(s, d, n)   W == Len(Whole(d))
  <2>1. C + dropped[d] = W - Len(todo[d]) /\ C \in Nat /\ W \in Nat /\ dropped[d] \in Nat
    BY <1>14, <1>15
  <2>2. CountIn(t, d, n + 1) = IF d = w THEN C + 1 ELSE C
    BY <1>3, <1>13, <2>1
  <2> HIDE DEF C, W
  <2>3. CountIn(t, d, n + 1) + dropped[d] = W - Len(todo'[d])
    <3>1. CASE d = w
      BY <1>2, <2>1, <2>2, <3>1
    <3>2. CASE d # w
      BY <1>2, <2>1, <2>2, <3>2
    <3>3. QED
      BY <3>1, <3>2
  <2>4. ASSUME dropped[d] = 0, NEW k \in 1..(n + 1), t[k].by = d
        PROVE  t[k].char = Whole(d)[CountIn(t, d, k)]
    <3>1. CASE k = n + 1
      <4>1. d = w /\ t[k].char = Head(todo[w])
        BY <1>3, <1>12, <2>4, <3>1
      <4>2. CountIn(t, d, k) = Len(Whole(w)) - Len(todo[w]) + 1
        <5>1. C = W - Len(todo[w])
          BY <1>2, <2>1, <2>4, <4>1
        <5>2. QED
          BY <2>2, <3>1, <4>1, <5>1 DEF W
      <4>3. QED
        BY <1>2, <4>1, <4>2
    <3>2. CASE k # n + 1
      <4>1. k \in 1..n /\ k \in 0..n
        BY <1>11, <3>2
      <4>2. s[k].by = d /\ t[k] = s[k] /\ CountIn(t, d, k) = CountIn(s, d, k)
        BY <1>12, <1>13, <2>4, <4>1
      <4>3. QED
        BY <1>14, <2>4, <4>1, <4>2
    <3>3. QED
      BY <3>1, <3>2
  <2>5. QED
    BY <2>3, <2>4 DEF W
<1>17. OrderInv'
  <2>1. uart!Sent' = t /\ Len(uart!Sent') = n + 1
    BY <1>11, <1>12 DEF t
  <2>2. QED
    BY <1>1, <1>16, <2>1, Zenon DEF OrderInv, CountIn, Whole, uart!Expand
<1>18. AloneInv' /\ uart!ReadsArrived'
  <2>1. \A r \in Readers : upc'[r] = upc[r]
    BY <1>2, HarpiaAssumption DEF uart!Threads
  <2>2. QED
    BY <1>1, <2>1, ReadingKept
<1>19. QED
  BY <1>2, <1>9, <1>10, <1>17, <1>18 DEF UARTInv

\* A character leaves the fifo for the line.
LEMMA SendStep ==
    ASSUME UARTInv, uart!Send
    PROVE  UARTInv'
<1>1. /\ tx # <<>> /\ line' = Append(line, Head(tx)) /\ tx' = Tail(tx)
      /\ UNCHANGED <<upc, un, todo, dropped, arrived, urx, result, alone>>
  BY DEF uart!Send, uart!reading
<1>2. tx \in Seq(uart!Mark) /\ line \in Seq(uart!Mark) /\ Len(tx) \in Nat
  BY LenProperties DEF UARTInv, uart!TypeOK
<1>3. /\ line' \o tx' = line \o tx
      /\ line' \in Seq(uart!Mark) /\ tx' \in Seq(uart!Mark) /\ Len(tx') = Len(tx) - 1
  BY <1>1, <1>2, SendIsNext
<1>4. Moving' = Moving /\ uart!Sent' = uart!Sent
  BY <1>1, <1>3 DEF Moving, uart!Sent
<1>5. Len(tx') + Cardinality(Moving') <= TxDepth /\ Len(tx') <= TxDepth
  <2>1. /\ Len(tx) + Cardinality(Moving) <= TxDepth /\ Cardinality(Moving) \in Nat
        /\ TxDepth \in Nat /\ Len(tx) <= TxDepth
    BY MovingFacts, HarpiaAssumption DEF UARTInv, uart!TypeOK
  <2>2. QED
    BY <1>2, <1>3, <1>4, <2>1
<1>6. uart!TypeOK'
  BY <1>1, <1>3, <1>5 DEF UARTInv, uart!TypeOK
<1>7. TodoInv' /\ OrderInv'
  BY <1>1, <1>4 DEF UARTInv, TodoInv, OrderInv
<1>8. AloneInv' /\ uart!ReadsArrived'
  BY <1>1, ReadingKept
<1>9. QED
  BY <1>5, <1>6, <1>7, <1>8 DEF UARTInv

\* uartGetc is called: whoever reads at the same time is no longer alone.
LEMMA GetcStep ==
    ASSUME UARTInv, NEW r \in Readers, uart!Getc(r)
    PROVE  UARTInv'
<1>1. /\ upc[r] = "done" /\ upc' = [upc EXCEPT ![r] = "poll"]
      /\ un' = [un EXCEPT ![r] = Polls]
      /\ alone' = [q \in Readers |-> IF q = r THEN \A p \in Readers \ {r} : ~uart!Inside(p)
                                     ELSE alone[q] /\ ~uart!Inside(q)]
      /\ result' = [result EXCEPT ![r] = uart!Nothing]
      /\ UNCHANGED <<todo, tx, line, dropped, arrived, urx>>
  BY DEF uart!Getc, uart!writing
<1>2. r \in uart!Threads /\ r \notin Clients
  BY HarpiaAssumption DEF uart!Threads
<1>3. /\ upc' \in [uart!Threads -> UARTPlaces] /\ un' \in [uart!Threads -> 0..Polls]
      /\ upc'[r] = "poll" /\ un'[r] > 0
      /\ \A t \in uart!Threads : t # r => upc'[t] = upc[t] /\ un'[t] = un[t]
  BY <1>1, <1>2, HarpiaAssumption DEF UARTInv, uart!TypeOK, UARTPlaces
<1>4. /\ alone' \in [Readers -> BOOLEAN]
      /\ alone'[r] => \A p \in Readers : p # r => upc[p] = "done"
      /\ \A q \in Readers : q # r /\ alone'[q] => alone[q] /\ upc[q] = "done"
  <2>1. alone \in [Readers -> BOOLEAN]
    BY DEF UARTInv, uart!TypeOK
  <2>2. QED
    BY <1>1, <2>1 DEF uart!Inside
<1>5. /\ result' \in [Readers -> {uart!Nothing, uart!Junk} \cup 1..MaxBytes]
      /\ result'[r] = uart!Nothing /\ \A q \in Readers : q # r => result'[q] = result[q]
  BY <1>1 DEF UARTInv, uart!TypeOK
<1>6. uart!TypeOK'
  <2>1. \A t \in uart!Threads : upc'[t] = "poll" => un'[t] > 0
    BY <1>3 DEF UARTInv, uart!TypeOK
  <2>2. \A d \in Clients : todo'[d] = <<>> <=> upc'[d] = "done"
    BY <1>1, <1>2, <1>3 DEF UARTInv, uart!TypeOK, uart!Threads
  <2>3. QED
    BY <1>1, <1>3, <1>4, <1>5, <2>1, <2>2 DEF UARTInv, uart!TypeOK, UARTPlaces
<1>7. Len(tx') + Cardinality(Moving') <= TxDepth /\ TodoInv' /\ OrderInv'
  BY <1>1, <1>2, <1>3, WritingKept DEF uart!Threads
<1>8. AloneInv'
  BY <1>1, <1>3, <1>4 DEF AloneInv, UARTInv, uart!Threads
<1>9. uart!ReadsArrived'
  BY <1>4, <1>5 DEF UARTInv, uart!ReadsArrived, uart!Nothing, uart!Junk
<1>10. QED
  BY <1>6, <1>7, <1>8, <1>9 DEF UARTInv

\* One poll of uartGetc.
LEMMA GetcPollStep ==
    ASSUME UARTInv, NEW r \in Readers, uart!GetcPoll(r)
    PROVE  UARTInv'
<1>1. upc[r] = "poll" /\ UNCHANGED <<todo, tx, line, dropped, arrived, urx, alone>>
  BY DEF uart!GetcPoll, uart!writing
<1>2. /\ r \in uart!Threads /\ r \notin Clients /\ un[r] \in 1..Polls
      /\ un \in [uart!Threads -> 0..Polls] /\ upc \in [uart!Threads -> UARTPlaces]
  BY <1>1, HarpiaAssumption DEF UARTInv, uart!TypeOK, uart!Threads, UARTPlaces
<1>3. \/ /\ urx # <<>> /\ upc' = [upc EXCEPT ![r] = "move"] /\ un' = un /\ result' = result
      \/ /\ un[r] > 1 /\ un' = [un EXCEPT ![r] = un[r] - 1] /\ upc' = upc /\ result' = result
      \/ /\ upc' = [upc EXCEPT ![r] = "done"] /\ un' = un
         /\ result' = [result EXCEPT ![r] = uart!Nothing]
  BY DEF uart!GetcPoll
<1>4. /\ upc' \in [uart!Threads -> UARTPlaces]
      /\ upc'[r] = "move" => urx # <<>>
      /\ \A t \in uart!Threads : t # r => upc'[t] = upc[t]
  BY <1>1, <1>2, <1>3 DEF UARTPlaces
<1>5. /\ un' \in [uart!Threads -> 0..Polls]
      /\ \A t \in uart!Threads : upc'[t] = "poll" => un'[t] > 0
  <2>1. un' = un \/ (un[r] > 1 /\ un' = [un EXCEPT ![r] = un[r] - 1])
    BY <1>3
  <2>2. un'[r] > 0 /\ un' \in [uart!Threads -> 0..Polls]
        /\ \A t \in uart!Threads : t # r => un'[t] = un[t]
    BY <1>2, <2>1, HarpiaAssumption
  <2>3. QED
    BY <1>4, <2>2 DEF UARTInv, uart!TypeOK
<1>6. /\ result' \in [Readers -> {uart!Nothing, uart!Junk} \cup 1..MaxBytes]
      /\ result'[r] = result[r] \/ result'[r] = uart!Nothing
      /\ \A q \in Readers : q # r => result'[q] = result[q]
  BY <1>3 DEF UARTInv, uart!TypeOK
<1>7. uart!TypeOK'
  <2>1. \A d \in Clients : todo'[d] = <<>> <=> upc'[d] = "done"
    BY <1>1, <1>2, <1>4 DEF UARTInv, uart!TypeOK, uart!Threads
  <2>2. QED
    BY <1>1, <1>4, <1>5, <1>6, <2>1 DEF UARTInv, uart!TypeOK, UARTPlaces
<1>8. Len(tx') + Cardinality(Moving') <= TxDepth /\ TodoInv' /\ OrderInv'
  BY <1>1, <1>2, <1>4, WritingKept DEF uart!Threads
<1>9. AloneInv'
  <2>1. \A q \in Readers : upc'[q] # "done" => upc[q] # "done"
    BY <1>1, <1>4 DEF uart!Threads
  <2>2. \A q \in Readers : upc[q] = "done" => q # r /\ upc'[q] = "done"
    BY <1>1, <1>4 DEF uart!Threads
  <2>3. \A q \in Readers : upc'[q] = "move" => upc[q] = "move" \/ urx # <<>>
    BY <1>4 DEF uart!Threads
  <2>4. QED
    BY <1>1, <2>1, <2>2, <2>3 DEF AloneInv, UARTInv
<1>10. uart!ReadsArrived'
  BY <1>1, <1>6 DEF UARTInv, uart!ReadsArrived, uart!Nothing, uart!Junk
<1>11. QED
  BY <1>7, <1>8, <1>9, <1>10 DEF UARTInv

\* The character is read: there is one if the reader is alone.
LEMMA GetcReadStep ==
    ASSUME UARTInv, NEW r \in Readers, uart!GetcRead(r)
    PROVE  UARTInv'
<1>1. /\ upc[r] = "move" /\ upc' = [upc EXCEPT ![r] = "done"]
      /\ result' = [result EXCEPT ![r] = IF urx = <<>> THEN uart!Junk ELSE Head(urx)]
      /\ urx' = IF urx = <<>> THEN urx ELSE Tail(urx)
      /\ UNCHANGED <<un, todo, tx, line, dropped, arrived, alone>>
  BY DEF uart!GetcRead, uart!writing
<1>2. r \in uart!Threads /\ r \notin Clients
  BY HarpiaAssumption DEF uart!Threads
<1>3. urx \in Seq(1..MaxBytes) /\ Len(urx) \in Nat /\ Len(urx) <= RxDepth /\ RxDepth \in Nat
  BY LenProperties, HarpiaAssumption DEF UARTInv, uart!TypeOK
<1>4. /\ urx # <<>> => Head(urx) \in 1..MaxBytes
      /\ urx' \in Seq(1..MaxBytes) /\ Len(urx') <= RxDepth
  <2>1. CASE urx = <<>>
    BY <1>1, <1>3, <2>1
  <2>2. CASE urx # <<>>
    <3>1. /\ Head(urx) \in 1..MaxBytes /\ Tail(urx) \in Seq(1..MaxBytes)
          /\ Len(Tail(urx)) = Len(urx) - 1
      BY <1>3, <2>2, HeadTailProperties
    <3>2. QED
      BY <1>1, <1>3, <2>2, <3>1
  <2>3. QED
    BY <2>1, <2>2
<1>5. /\ upc' \in [uart!Threads -> UARTPlaces] /\ upc'[r] = "done"
      /\ \A t \in uart!Threads : t # r => upc'[t] = upc[t]
  BY <1>1, <1>2 DEF UARTInv, uart!TypeOK, UARTPlaces
<1>6. /\ result' \in [Readers -> {uart!Nothing, uart!Junk} \cup 1..MaxBytes]
      /\ urx # <<>> => result'[r] # uart!Junk
      /\ \A q \in Readers : q # r => result'[q] = result[q]
  BY <1>1, <1>4 DEF UARTInv, uart!TypeOK, uart!Junk
<1>7. uart!TypeOK'
  <2>1. \A t \in uart!Threads : upc'[t] = "poll" => un'[t] > 0
    BY <1>1, <1>5 DEF UARTInv, uart!TypeOK
  <2>2. \A d \in Clients : todo'[d] = <<>> <=> upc'[d] = "done"
    BY <1>1, <1>2, <1>5 DEF UARTInv, uart!TypeOK, uart!Threads
  <2>3. QED
    BY <1>1, <1>4, <1>5, <1>6, <2>1, <2>2 DEF UARTInv, uart!TypeOK, UARTPlaces
<1>8. Len(tx') + Cardinality(Moving') <= TxDepth /\ TodoInv' /\ OrderInv'
  BY <1>1, <1>2, <1>5, WritingKept DEF uart!Threads
<1>9. AloneInv'
  <2>1. ASSUME NEW q \in Readers, upc'[q] # "done", alone[q] PROVE FALSE
    <3>1. q # r /\ upc[q] # "done"
      BY <1>5, <2>1 DEF uart!Threads
    <3>2. QED
      BY <1>1, <2>1, <3>1 DEF UARTInv, AloneInv
  <2>2. QED
    BY <1>1, <2>1 DEF AloneInv
<1>10. uart!ReadsArrived'
  <2>1. alone[r] => urx # <<>>
    BY <1>1 DEF UARTInv, AloneInv
  <2>2. QED
    BY <1>1, <1>6, <2>1 DEF UARTInv, uart!ReadsArrived
<1>11. QED
  BY <1>7, <1>8, <1>9, <1>10 DEF UARTInv

\* A character arrives, and is lost if the fifo is full.
LEMMA ArriveStep ==
    ASSUME UARTInv, uart!Arrive
    PROVE  UARTInv'
<1>1. /\ arrived < MaxBytes /\ arrived' = arrived + 1
      /\ urx' = IF Len(urx) < RxDepth THEN Append(urx, arrived') ELSE urx
      /\ UNCHANGED <<upc, un, todo, tx, line, dropped, result, alone>>
  BY DEF uart!Arrive, uart!writing
<1>2. arrived' \in 1..MaxBytes /\ arrived' \in 0..MaxBytes
  BY <1>1, HarpiaAssumption DEF UARTInv, uart!TypeOK
<1>3. urx \in Seq(1..MaxBytes) /\ Len(urx) \in Nat /\ Len(urx) <= RxDepth /\ RxDepth \in Nat
  BY LenProperties, HarpiaAssumption DEF UARTInv, uart!TypeOK
<1>4. /\ urx' \in Seq(1..MaxBytes) /\ Len(urx') <= RxDepth
      /\ urx # <<>> => urx' # <<>>
  <2>1. CASE Len(urx) < RxDepth
    <3>1. /\ Append(urx, arrived') \in Seq(1..MaxBytes) /\ Append(urx, arrived') # <<>>
          /\ Len(Append(urx, arrived')) = Len(urx) + 1
      BY <1>2, <1>3, AppendProperties
    <3>2. QED
      BY <1>1, <1>3, <2>1, <3>1
  <2>2. CASE ~(Len(urx) < RxDepth)
    BY <1>1, <1>3, <2>2
  <2>3. QED
    BY <2>1, <2>2
<1>5. uart!TypeOK'
  BY <1>1, <1>2, <1>4 DEF UARTInv, uart!TypeOK
<1>6. Len(tx') + Cardinality(Moving') <= TxDepth /\ TodoInv' /\ OrderInv'
  BY <1>1, WritingKept
<1>7. AloneInv' /\ uart!ReadsArrived'
  BY <1>1, <1>4 DEF UARTInv, AloneInv, uart!ReadsArrived
<1>8. QED
  BY <1>5, <1>6, <1>7 DEF UARTInv

\* Every step of the threads and the controller preserves the invariant.
LEMMA UARTStep ==
    ASSUME UARTInv, FifoTakesAll, uart!Next
    PROVE  UARTInv'
<1>1. ASSUME NEW t \in uart!Threads, uart!Step(t) PROVE UARTInv'
  BY <1>1, PutcPollStep, PutcWriteStep, GetcPollStep, GetcReadStep DEF uart!Step
<1>2. CASE (\E r \in Readers : uart!Getc(r)) \/ uart!Send \/ uart!Arrive
  BY <1>2, GetcStep, SendStep, ArriveStep
<1>3. QED
  BY <1>1, <1>2 DEF uart!Next

-----------------------------------------------------------------------------
(* The drivers together.                                                   *)

\* The I2C driver is not disturbed by the steps of another.
LEMMA I2CKept == I2CInv /\ UNCHANGED i2cVars => I2CInv'
<1> SUFFICES ASSUME I2CInv, UNCHANGED i2cVars PROVE I2CInv'
  OBVIOUS
<1>1. UNCHANGED <<ipc, in, rxLen, imine, iret, ibytes, iissued, iqueue, ibusy, nack,
                  ififo, enabled, idone, trusted>>
  BY DEF i2cVars
<1>2. i2c!TypeOK' /\ I2CArgs'
  BY <1>1 DEF I2CInv, i2c!TypeOK, I2CArgs
<1>3. iissued' + Cardinality(i2c!Coming') <= I2CMax
  BY <1>1, SameComing DEF i2c!Coming
<1>4. ResetInv' /\ TrustInv'
  BY <1>1 DEF I2CInv, ResetInv, TrustInv, Clean, Underway, Over
<1>5. QED
  BY <1>2, <1>3, <1>4 DEF I2CInv

\* Nor is the SPI driver.
LEMMA SPIKept == SPIInv /\ UNCHANGED spiVars => SPIInv'
<1> SUFFICES ASSUME SPIInv, UNCHANGED spiVars PROVE SPIInv'
  OBVIOUS
<1>1. UNCHANGED <<spc, sn, len, srx, smine, sret, sbytes, sissued, squeue, sbusy, status,
                  sfifo, sdone, calm, empty>>
  BY DEF spiVars
<1>2. spi!TypeOK' /\ SPIArgs'
  BY <1>1 DEF SPIInv, spi!TypeOK, SPIArgs
<1>3. sissued' + Cardinality(spi!Coming') <= SPIMax
  BY <1>1 DEF SPIInv, spi!Coming
<1>4. CalmInv'
  BY <1>1 DEF SPIInv, CalmInv, AtBus, Finished
<1>5. spi!SuccessIsDone' /\ spi!BytesAreOwn'
  <2>1. \A d \in Clients : spi!Succeeded(d)' => spi!Succeeded(d)
    BY <1>1 DEF spi!Succeeded
  <2>2. QED
    BY <1>1, <2>1, SuccessStays
<1>6. QED
  BY <1>2, <1>3, <1>4, <1>5 DEF SPIInv

\* Nor is the UART driver.
LEMMA UARTKept == UARTInv /\ UNCHANGED uartVars => UARTInv'
<1> SUFFICES ASSUME UARTInv, UNCHANGED uartVars PROVE UARTInv'
  OBVIOUS
<1>1. UNCHANGED <<upc, un, todo, tx, line, dropped, arrived, urx, result, alone>>
  BY DEF uartVars
<1>2. uart!TypeOK'
  BY <1>1 DEF UARTInv, uart!TypeOK
<1>3. Len(tx') + Cardinality(Moving') <= TxDepth /\ TodoInv' /\ OrderInv'
  BY <1>1, WritingKept
<1>4. AloneInv' /\ uart!ReadsArrived'
  BY <1>1, ReadingKept
<1>5. QED
  BY <1>2, <1>3, <1>4 DEF UARTInv

\* The regulators behind SPMI: for every set of 16-bit voltages and any number of
\* calls of pmicRegulatorSetVoltage and pmicRegulatorSetEnabled the registers hold
\* bytes, a voltage from 371 to 1140 or 1500 to 4340 mV becomes the least step
\* that reaches it and any other the last step, the arbiter is given the step
\* without its low four bits, and pmicWrite never reaches SPMI_OWNER_REG.
THEOREM VoltagesSound == HarpiaSpec => []VoltageSound
<1>1. HarpiaInit => RegulatorInv
  BY RegulatorInit DEF HarpiaInit
<1>2. RegulatorInv /\ [HarpiaNext]_all => RegulatorInv'
  <2>1. [HarpiaNext]_all => [Next]_vars
    BY DEF HarpiaNext, all
  <2>2. QED
    BY <2>1, RegulatorStep
<1>3. QED
  BY <1>1, <1>2, RegulatorMeaning, PTL DEF HarpiaSpec

\* One step of the board, seen from the I2C driver.
LEMMA I2CBoard ==
    I2CInv /\ [HarpiaNext]_all =>
        I2CInv' /\ [part = "i2c" => i2c!SuccessIsDone /\ i2c!BytesAreOwn]_all
<1> SUFFICES ASSUME I2CInv, [HarpiaNext]_all
             PROVE  I2CInv' /\ [part = "i2c" => i2c!SuccessIsDone /\ i2c!BytesAreOwn]_all
  OBVIOUS
<1>1. CASE part = "i2c" /\ i2c!Next
  BY <1>1, I2CStep
<1>2. CASE UNCHANGED i2cVars /\ (part # "i2c" \/ UNCHANGED all)
  BY <1>2, I2CKept
<1>3. QED
  BY <1>1, <1>2 DEF HarpiaNext, all

\* i2cTransfer: whatever the threads, the slaves and other masters of the bus do,
\* after a call that was let in with a clean controller and alone nothing is left in
\* it, and its loops end where they should.
THEOREM I2CIsSound == HarpiaSpec => []I2CSound
<1>1. HarpiaInit => I2CInv
  BY I2CInit DEF HarpiaInit
<1>2. I2CInv => I2CSound
  BY I2CMeaning DEF I2CSound
<1>3. QED
  BY <1>1, <1>2, I2CBoard, PTL DEF HarpiaSpec

\* A step in which i2cTransfer returns success is one whose transfer has reached its
\* slave and whose bytes are those of this transfer, unless something happened that
\* the driver does not see to.
THEOREM I2CTransfersAreSound == HarpiaSpec => I2CTransfers
<1>1. HarpiaInit => I2CInv
  BY I2CInit DEF HarpiaInit
<1>2. QED
  BY <1>1, I2CBoard, PTL DEF HarpiaSpec, I2CTransfers

\* spiTransfer reports success only for a transfer that was completed, and hands out
\* the bytes that came back from it, unless another transfer met it.
THEOREM SPIIsSound == HarpiaSpec => []SPISound
<1>1. HarpiaInit => SPIInv
  BY SPIInit DEF HarpiaInit
<1>2. SPIInv /\ [HarpiaNext]_all => SPIInv'
  <2>1. [HarpiaNext]_all => spi!Next \/ UNCHANGED spiVars
    BY DEF HarpiaNext, all
  <2>2. QED
    BY <2>1, SPIStep, SPIKept
<1>3. SPIInv => SPISound
  BY DEF SPIInv, SPISound
<1>4. QED
  BY <1>1, <1>2, <1>3, PTL DEF HarpiaSpec

\* uartPuts keeps the order of every thread's characters and loses none but those it
\* gave up, and a lone uartGetc reads what has arrived, provided that the transmit
\* fifo takes a character of every thread that writes.
THEOREM UARTIsSound ==
    ASSUME FifoTakesAll
    PROVE  HarpiaSpec => []UARTSound
<1>1. HarpiaInit => UARTInv
  BY UARTInit DEF HarpiaInit
<1>2. UARTInv /\ [HarpiaNext]_all => UARTInv'
  <2>1. [HarpiaNext]_all => uart!Next \/ UNCHANGED uartVars
    BY DEF HarpiaNext, all
  <2>2. QED
    BY <2>1, UARTStep, UARTKept
<1>3. UARTInv => UARTSound
  BY UARTMeaning DEF UARTSound
<1>4. QED
  BY <1>1, <1>2, <1>3, PTL DEF HarpiaSpec
=============================================================================
