---------------------------- MODULE RegisterMap ----------------------------
(***************************************************************************)
(* APRegisterMap of drivers/AndroidPlatform.framework/AndroidPlatform.cpp: *)
(* the cached registers of a device on a bus.                              *)
(*                                                                         *)
(* A client loads registers into the shadow, changes the shadow and stores *)
(* it.  The index of a register is sixteen bits wide, its address on the   *)
(* bus is cut to eight (2^8 is AddrSpace), so that two registers of a      *)
(* large map may share an address.  A transfer may fail: a load then       *)
(* leaves the shadow alone, a store may have reached the device as far as  *)
(* any byte.  The value of a register is the set of its bits that are one. *)
(***************************************************************************)
EXTENDS Integers

CONSTANTS NumRegs,     \* registers of the map
          AddrSpace,   \* addresses of the device
          Bits,        \* bits of a register
          Volatile     \* addresses that the device changes by itself

VARIABLES
    device,   \* the registers of the device, by address
    shadow,   \* fShadow
    want,     \* history: what the clients' changes make of each register
    known,    \* history: registers that have been loaded, or set as a whole
    clean     \* history: registers not changed since they were loaded or stored

vars == <<device, shadow, want, known, clean>>

Regs == 0..(NumRegs - 1)
Addresses == 0..(AddrSpace - 1)
Values == SUBSET Bits

\* (uint8_t)reg
Address(r) == r % AddrSpace

TypeOK ==
    /\ device \in [Addresses -> Values]
    /\ shadow \in [Regs -> Values] /\ want \in [Regs -> Values]
    /\ known \subseteq Regs /\ clean \subseteq Regs

Init ==
    /\ device \in [Addresses -> Values]
    /\ shadow = [r \in Regs |-> {}]
    /\ want = [r \in Regs |-> device[Address(r)]]
    /\ known = {} /\ clean = {}

Block(s, n) == s..(s + n - 1)

-----------------------------------------------------------------------------
(* Transfers: read and readBlock, write and writeBlock.                    *)

\* Slip: the test of the end is off by one.
LoadLong(s, n) ==
    /\ s + n <= NumRegs + 1
    /\ shadow' = [r \in Regs |-> IF r \in Block(s, n) THEN device[Address(r)] ELSE shadow[r]]
    /\ want' = [r \in Regs |-> IF r \in Block(s, n) THEN device[Address(r)] ELSE want[r]]
    /\ known' = known \cup Block(s, n)
    /\ clean' = clean \cup Block(s, n)
    /\ UNCHANGED device

\* A load drops the changes that have not been stored.
Load(s, n) ==
    /\ s + n <= NumRegs
    /\ shadow' = [r \in Regs |-> IF r \in Block(s, n) THEN device[Address(r)] ELSE shadow[r]]
    /\ want' = [r \in Regs |-> IF r \in Block(s, n) THEN device[Address(r)] ELSE want[r]]
    /\ known' = known \cup Block(s, n)
    /\ clean' = clean \cup Block(s, n)
    /\ UNCHANGED device

\* The device takes the bytes one after the other: of two registers with one
\* address, the later one stays.
IsLast(B, a, r) == Address(r) = a /\ \A q \in B : Address(q) = a => q <= r
Stored(B) ==
    [a \in Addresses |-> IF \E r \in B : IsLast(B, a, r)
                         THEN shadow[CHOOSE r \in B : IsLast(B, a, r)] ELSE device[a]]

\* Slip: the transfer starts at the second register of the block.
StoreSkips(s, n) ==
    /\ s + n <= NumRegs
    /\ device' = Stored(Block(s + 1, n - 1))
    /\ clean' = clean \cup Block(s, n)
    /\ UNCHANGED <<shadow, want, known>>

Store(s, n) ==
    /\ s + n <= NumRegs
    /\ device' = Stored(Block(s, n))
    /\ clean' = clean \cup Block(s, n)
    /\ UNCHANGED <<shadow, want, known>>

\* The transfer fails after m bytes.
StoreFails(s, n, m) ==
    /\ s + n <= NumRegs
    /\ device' = Stored(Block(s, m))
    /\ UNCHANGED <<shadow, want, known, clean>>

-----------------------------------------------------------------------------
(* Changes of the shadow: set8, set16, modify.                             *)

Set8(r, v) ==
    /\ r < NumRegs
    /\ shadow' = [shadow EXCEPT ![r] = v]
    /\ want' = [want EXCEPT ![r] = v]
    /\ known' = known \cup {r}
    /\ clean' = clean \ {r}
    /\ UNCHANGED device

Set16(r, low, high) ==
    /\ r + 1 < NumRegs
    /\ shadow' = [shadow EXCEPT ![r] = low, ![r + 1] = high]
    /\ want' = [want EXCEPT ![r] = low, ![r + 1] = high]
    /\ known' = known \cup {r, r + 1}
    /\ clean' = clean \ {r, r + 1}
    /\ UNCHANGED device

\* Slip: a bit that is both cleared and set ends as zero.
ModifyBackwards(r, clr, set) ==
    /\ r < NumRegs
    /\ shadow' = [shadow EXCEPT ![r] = (@ \cup set) \ clr]
    /\ want' = [want EXCEPT ![r] = (@ \ clr) \cup set]
    /\ clean' = clean \ {r}
    /\ UNCHANGED <<device, known>>

Modify(r, clr, set) ==
    /\ r < NumRegs
    /\ shadow' = [shadow EXCEPT ![r] = (@ \ clr) \cup set]
    /\ want' = [want EXCEPT ![r] = (@ \ clr) \cup set]
    /\ clean' = clean \ {r}
    /\ UNCHANGED <<device, known>>

-----------------------------------------------------------------------------
DeviceChanges(a, v) ==
    /\ device' = [device EXCEPT ![a] = v]
    /\ UNCHANGED <<shadow, want, known, clean>>

Next ==
    \/ \E s \in Regs, n \in 0..NumRegs :
          Load(s, n) \/ Store(s, n) \/ \E m \in 0..n : StoreFails(s, n, m)
    \/ \E r \in Regs, v \in Values : Set8(r, v)
    \/ \E r \in Regs, low, high \in Values : Set16(r, low, high)
    \/ \E r \in Regs, clr, set \in Values : Modify(r, clr, set)
    \/ \E a \in Volatile \cap Addresses, v \in Values : DeviceChanges(a, v)

Spec == Init /\ [][Next]_vars

-----------------------------------------------------------------------------
(* Properties.                                                             *)

\* No other register of the map goes to the address of r, and the device leaves
\* it alone.
Sole(r) == /\ \A q \in Regs : Address(q) = Address(r) => q = r
           /\ Address(r) \notin Volatile

\* The shadow of a register that has not been changed since it was loaded or
\* stored is what the device holds, whatever transfers have failed half way and
\* whatever happened to other registers: get8 and get16 need no bus traffic.
\* Registers that share an address after the cut to eight bits are excepted.
Coherent == \A r \in clean : Sole(r) => device[Address(r)] = shadow[r]

\* Once stored, a register of the device holds what the clients made of it: the
\* bits that modify was asked to change, and the others as the device had them.
\* This takes that the register was loaded, or set as a whole, at some time.
AsAsked == \A r \in clean \cap known : Sole(r) => device[Address(r)] = want[r]
=============================================================================
