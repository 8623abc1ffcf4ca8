-------------------------------- MODULE TLMM --------------------------------
(***************************************************************************)
(* drivers/harpia/MSM8916TLMM.cpp: the pins of the SoC.                    *)
(*                                                                         *)
(* Every pin has a configuration register with four fields and a register  *)
(* with its level.  Every setter reads a register, changes one field and   *)
(* writes the register back, without a lock.  start does the same to every *)
(* pin, after AndroidPlatformDevice::start has published the service: from *)
(* then on clients may call the setters.                                   *)
(*                                                                         *)
(* Words are integers and fields are cut out of them arithmetically, as    *)
(* the masks and shifts of the code do.                                    *)
(***************************************************************************)
EXTENDS Integers, FiniteSets

CONSTANTS Threads,     \* threads of client drivers
          MaxPins,     \* TLMM_GPIO_MAX (122)
          Requests,    \* the fields and values the clients ask for
          BootWords    \* what the firmware may have left in a register

VARIABLES
    word,      \* the registers
    job,       \* of each thread: the setter it is in, or NoJob
    got,       \* of each thread: the word it has read
    booting,   \* start: the pin it works on; MaxPins: done; -1: not published
    bootRead,  \* start: the word it has read, or NoWord
    asked,     \* history: what was last asked of each field; NoWord: nothing
    mixed      \* history: registers that two were changing at once, or too early

vars == <<word, job, got, booting, bootRead, asked, mixed>>

Pins == 0..(MaxPins - 1)
Width == 12
Words == 0..(2^Width - 1)
NoWord == -1

FUNC  == [of |-> "cfg", shift |-> 2, width |-> 3]
DRV   == [of |-> "cfg", shift |-> 6, width |-> 3]
OE    == [of |-> "cfg", shift |-> 9, width |-> 1]
PULL  == [of |-> "cfg", shift |-> 10, width |-> 2]
LEVEL == [of |-> "io", shift |-> 0, width |-> 1]
Fields == {FUNC, DRV, OE, PULL, LEVEL}

Registers == {"cfg", "io"} \X Pins
Jobs == [pin : 0..MaxPins, field : Fields, value : Nat]
NoJob == [pin |-> NoWord, field |-> FUNC, value |-> 0]

Get(w, f) == (w \div 2^f.shift) % 2^f.width

\* Slip: the old value of the field is not cleared first.
PutOr(w, f, v) ==
    IF Get(w, f) = 0 THEN w + (v % 2^f.width) * 2^f.shift ELSE w

\* w &= ~(mask << shift); w |= (v & mask) << shift;
Put(w, f, v) == w - Get(w, f) * 2^f.shift + (v % 2^f.width) * 2^f.shift

\* gpioSetDriveStrength: anything above the last code is the last code.
Saturate(f, v) == IF f = DRV /\ v > 7 THEN 7 ELSE v

TypeOK ==
    /\ word \in [Registers -> Words]
    /\ job \in [Threads -> Jobs \cup {NoJob}] /\ got \in [Threads -> Words]
    /\ booting \in -1..MaxPins /\ bootRead \in Words \cup {NoWord}
    /\ asked \in [Pins \X Fields -> Nat \cup {NoWord}]
    /\ mixed \subseteq Registers

Init ==
    /\ word \in [Registers -> BootWords]
    /\ job = [t \in Threads |-> NoJob] /\ got = [t \in Threads |-> 0]
    /\ booting = -1 /\ bootRead = NoWord
    /\ asked = [x \in Pins \X Fields |-> NoWord]
    /\ mixed = {}

Register(j) == <<j.field.of, j.pin>>

\* Another thread is between the read and the write of register r, or start has
\* not yet been through it.
Contended(r) == \/ \E t \in Threads : job[t] # NoJob /\ Register(job[t]) = r
                \/ r[1] = "cfg" /\ booting <= r[2]

-----------------------------------------------------------------------------
(* start.                                                                  *)

\* AndroidPlatformDevice::start, which registers the service.
Publish ==
    /\ booting = -1 /\ booting' = 0
    /\ UNCHANGED <<word, job, got, bootRead, asked, mixed>>

BootRead ==
    /\ booting \in Pins /\ bootRead = NoWord
    /\ bootRead' = word[<<"cfg", booting>>]
    /\ UNCHANGED <<word, job, got, booting, asked, mixed>>

\* No pull and the GPIO function, whatever a client has asked for by now.
BootWrite ==
    /\ bootRead # NoWord
    /\ word' = [word EXCEPT ![<<"cfg", booting>>] = Put(Put(bootRead, PULL, 0), FUNC, 0)]
    /\ asked' = [x \in Pins \X Fields |->
                   IF x[1] = booting /\ x[2] \in {PULL, FUNC} /\ asked[x] = NoWord
                   THEN 0 ELSE asked[x]]
    /\ booting' = booting + 1 /\ bootRead' = NoWord
    /\ UNCHANGED <<job, got, mixed>>

-----------------------------------------------------------------------------
(* The setters: gpioSetFunction, gpioSetOutput, gpioSetPull,               *)
(* gpioSetDriveStrength and gpioSet.  A pin that is too large is ignored.  *)

\* Slip: the registers of the first pin are read.
SetReadFirst(t, j) ==
    /\ booting >= 0
    /\ job[t] = NoJob /\ j.pin < MaxPins
    /\ job' = [job EXCEPT ![t] = j]
    /\ got' = [got EXCEPT ![t] = word[<<j.field.of, 0>>]]
    /\ mixed' = mixed \cup {r \in {Register(j)} : Contended(r)}
    /\ UNCHANGED <<word, booting, bootRead, asked>>

SetRead(t, j) ==
    /\ booting >= 0
    /\ job[t] = NoJob /\ j.pin < MaxPins
    /\ job' = [job EXCEPT ![t] = j]
    /\ got' = [got EXCEPT ![t] = word[Register(j)]]
    /\ mixed' = mixed \cup {r \in {Register(j)} : Contended(r)}
    /\ UNCHANGED <<word, booting, bootRead, asked>>

SetWrite(t) ==
    /\ job[t] # NoJob
    /\ LET j == job[t] IN
       /\ word' = [word EXCEPT ![Register(j)] =
                                 Put(got[t], j.field, Saturate(j.field, j.value))]
       /\ asked' = [asked EXCEPT ![<<j.pin, j.field>>] =
                                 Saturate(j.field, j.value) % 2^j.field.width]
    /\ job' = [job EXCEPT ![t] = NoJob]
    /\ got' = [got EXCEPT ![t] = 0]
    /\ UNCHANGED <<booting, bootRead, mixed>>

Next ==
    \/ Publish \/ BootRead \/ BootWrite
    \/ \E t \in Threads : SetWrite(t) \/ \E j \in Requests : SetRead(t, j)

Spec == Init /\ [][Next]_vars

-----------------------------------------------------------------------------
(* Properties.                                                             *)

\* Every field of every pin is as a client last asked for, whoever asked and
\* whatever was asked of the other fields and pins (the field written is masked,
\* the others are kept), and as start leaves it if nobody has asked: unless two
\* were changing that register at the same time, or a client that found the
\* published controller was there before start.
FieldsAsAsked ==
    \A x \in Pins \X Fields :
        asked[x] # NoWord /\ <<x[2].of, x[1]>> \notin mixed
            => Get(word[<<x[2].of, x[1]>>], x[2]) = asked[x]

\* A register that only one thread is changing holds what that thread has read,
\* so that writing it back undoes nothing.
ReadIsFresh ==
    \A t \in Threads :
        job[t] # NoJob /\ Register(job[t]) \notin mixed => word[Register(job[t])] = got[t]
=============================================================================
