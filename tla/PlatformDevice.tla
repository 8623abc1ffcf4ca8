--------------------------- MODULE PlatformDevice ---------------------------
(***************************************************************************)
(* drivers/AndroidPlatformDevice.cpp: the base class of the drivers, from  *)
(* probe to free, with a driver that takes an interrupt after it has been  *)
(* published (drivers/harpia/I2CTouch.cpp).                                *)
(*                                                                         *)
(* The objects a device may hold are its name, its compatible string, its  *)
(* clock names, the descriptor of its registers and their mapping; refs    *)
(* counts what the device has taken and not given back.  Memory may run    *)
(* out at the descriptor and at the mapping.  A device whose start failed  *)
(* is freed without a stop.  A client of a published device keeps it from  *)
(* being freed.                                                            *)
(***************************************************************************)
EXTENDS Integers, FiniteSets

CONSTANTS OffsetSpace,   \* how many offsets there are: 2 to their width in bits
          RegSize,       \* size of the register space, if there is one
          Sizes          \* sizes of an access: 1, 2, 4

VARIABLES
    props,        \* properties of the provider
    phase,        \* how far the device has come
    refs,         \* references taken, of each object
    fields,       \* the members that are not null
    registered,   \* fInterruptRegistered
    outside       \* history: accesses past the mapping, or without one

vars == <<props, phase, refs, fields, registered, outside>>

Properties == {"name", "compatible", "registers", "interrupt", "clocks", "IONameMatch"}
Objects == {"name", "compatible", "clocks", "descriptor", "map"}
Offsets == 0..(OffsetSpace - 1)

TypeOK ==
    /\ props \subseteq Properties
    /\ phase \in {"new", "probed", "refused", "failed", "published", "running", "stopped", "freed"}
    /\ refs \in [Objects -> 0..1] /\ fields \subseteq Objects
    /\ registered \in BOOLEAN
    /\ outside \subseteq Offsets

Init ==
    /\ props \in SUBSET Properties /\ phase = "new"
    /\ refs = [o \in Objects |-> 0] /\ fields = {}
    /\ registered = FALSE /\ outside = {}

\* A string property that is missing is replaced by the name the driver matched.
getPropertyFromProvider(p) == p \in props \/ "IONameMatch" \in props

\* Slip: an object that is held already is retained again.
TakeTwice(S) == refs' = [o \in Objects |-> IF o \in S THEN refs[o] + 2 ELSE refs[o]]

Take(S) == refs' = [o \in Objects |-> IF o \in S THEN refs[o] + 1 ELSE refs[o]]

-----------------------------------------------------------------------------
probe ==
    /\ phase = "new"
    /\ phase' = IF getPropertyFromProvider("compatible") THEN "probed" ELSE "refused"
    /\ UNCHANGED <<props, refs, fields, registered, outside>>

\* Without a name there is a new string.
Strings == {"name"} \cup {o \in {"compatible"} : getPropertyFromProvider(o)}

\* Slip: the descriptor is forgotten and not released when it cannot be mapped.
StartFailsLeaky ==
    /\ phase = "probed" /\ phase' = "failed"
    /\ \/ UNCHANGED <<refs, fields>>
       \/ /\ "registers" \in props
          /\ Take(Strings \cup {"descriptor"}) /\ fields' = Strings
    /\ UNCHANGED <<props, registered, outside>>

\* start fails: in the superclass, or at the descriptor or the mapping, where the
\* descriptor is released again.
StartFails ==
    /\ phase = "probed" /\ phase' = "failed"
    /\ \/ UNCHANGED <<refs, fields>>
       \/ /\ "registers" \in props
          /\ Take(Strings) /\ fields' = Strings
    /\ UNCHANGED <<props, registered, outside>>

\* start, up to registerService.
Start ==
    LET got == Strings \cup {o \in {"clocks"} : o \in props}
                       \cup (IF "registers" \in props THEN {"descriptor", "map"} ELSE {})
    IN /\ phase = "probed" /\ phase' = "published"
       /\ Take(got) /\ fields' = got
       /\ registered' = FALSE
       /\ UNCHANGED <<props, outside>>

\* registerInterrupt by the driver, which does not look at what it returns: it
\* refuses a device without an interrupt, or without registers, and it may fail.
registerInterrupt ==
    /\ phase = "published" /\ phase' = "running"
    /\ \/ UNCHANGED registered
       \/ /\ "interrupt" \in props /\ "map" \in fields
          /\ registered' = TRUE
    /\ UNCHANGED <<props, refs, fields, outside>>

\* disableInterrupt and disableClock only write to the log.
stop ==
    /\ phase = "running" /\ phase' = "stopped"
    /\ registered' = FALSE
    /\ UNCHANGED <<props, refs, fields, outside>>

free ==
    /\ phase \in {"failed", "stopped", "refused"} /\ phase' = "freed"
    /\ refs' = [o \in Objects |-> IF o \in fields THEN refs[o] - 1 ELSE refs[o]]
    /\ fields' = {}
    /\ UNCHANGED <<props, registered, outside>>

-----------------------------------------------------------------------------
(* Accesses, by the driver or by its clients.                              *)

\* Slip: the last byte of the access is not looked at.
WithinFirst(offset, size) == "map" \in fields /\ offset <= RegSize

\* fRegBase != 0 and offset + sizeof(...) <= fRegSize, in the width of an offset.
Within(offset, size) == "map" \in fields /\ (offset + size) % OffsetSpace <= RegSize

\* read32, write32 and the narrower ones: what is refused changes nothing.
Access(offset, size) ==
    /\ phase \in {"published", "running", "stopped"}
    /\ Within(offset, size)
    /\ outside' = IF offset + size <= RegSize /\ refs["map"] > 0 THEN outside
                  ELSE outside \cup {offset}
    /\ UNCHANGED <<props, phase, refs, fields, registered>>

Next ==
    \/ probe \/ StartFails \/ Start \/ registerInterrupt \/ stop \/ free
    \/ \E offset \in Offsets, size \in Sizes : Access(offset, size)

Spec == Init /\ [][Next]_vars

-----------------------------------------------------------------------------
(* Properties.                                                             *)

\* The device has one reference to each object it still knows and none to any
\* other, on every path through start, its failures, stop and free: after free
\* nothing is left mapped or retained, and nothing was released twice.
Balanced == \A o \in Objects : refs[o] = IF o \in fields THEN 1 ELSE 0

\* Registers are only touched inside a mapping that is still there, unless the
\* end of the access wraps around the width of an offset: then the test passes.
AccessInside == \A offset \in outside : \E size \in Sizes : offset + size >= OffsetSpace
=============================================================================
