-------------------------------- MODULE Parts --------------------------------
(***************************************************************************)
(* Five parts that the drivers are built from or configured by, side by    *)
(* side: APRegisterSet, APRegisterMap, the pin controller, the base class  *)
(* of a device and the device bundle.  They share no state and none calls  *)
(* another, so that steps of two of them commute, and a behaviour in which *)
(* one of them moves (part) shows all that can happen to it.  The others   *)
(* stay in one initial state.                                              *)
(***************************************************************************)
EXTENDS RegisterSet, Integers

CONSTANTS
    NumRegs, AddrSpace, RegBits, Volatile,                  \* RegisterMap
    Threads, MaxPins, Requests, BootWords,                  \* TLMM
    OffsetSpace, RegSize, Sizes,                            \* PlatformDevice
    Paths, Bundles, Files, Of, Kind, Good, Settings,        \* DeviceBundle
    MaxLoads, None

VARIABLES
    part,                                                   \* the part that moves
    mapDevice, mapShadow, mapWant, known, clean,            \* RegisterMap
    tword, job, got, booting, bootRead, asked, mixed,       \* TLMM
    props, phase, refs, fields, registered, outside,        \* PlatformDevice
    path, contents, listed, info, configuration, valid,     \* DeviceBundle
    result, loads, since, assigned

map == INSTANCE RegisterMap
          WITH Bits <- RegBits, device <- mapDevice, shadow <- mapShadow, want <- mapWant
tlmm == INSTANCE TLMM WITH word <- tword
device == INSTANCE PlatformDevice
bundle == INSTANCE DeviceBundle

\* A map has registers and a bus addresses; the clients ask for fields that a pin has, the firmware leaves words in the
\* registers, a bundle is a directory that can be named, and every file is in one.
ASSUME PartsAssumption ==
    /\ NumRegs \in Nat \ {0} /\ AddrSpace \in Nat \ {0}
    /\ MaxPins \in Nat /\ Requests \subseteq tlmm!Jobs /\ BootWords \subseteq tlmm!Words
    /\ OffsetSpace \in Nat \ {0} /\ RegSize \in Nat /\ Sizes \subseteq Nat
    /\ Bundles \subseteq Paths /\ Of \in [Files -> Bundles]
    /\ Kind \in [Files -> bundle!Slots \cup {"listed"}]
    /\ MaxLoads \in Nat /\ None \notin Paths \cup Files /\ None \notin BOOLEAN

mapVars == <<mapDevice, mapShadow, mapWant, known, clean>>
tlmmVars == <<tword, job, got, booting, bootRead, asked, mixed>>
deviceVars == <<props, phase, refs, fields, registered, outside>>
bundleVars == <<path, contents, listed, info, configuration, valid, result, loads, since,
                assigned>>
all == <<part, vars, mapVars, tlmmVars, deviceVars, bundleVars>>

PartsInit ==
    /\ part \in {"set", "map", "tlmm", "device", "bundle"}
    /\ Init /\ map!Init /\ tlmm!Init /\ device!Init /\ bundle!Init
    /\ part # "set" => word = {} /\ \A c \in Clients : shadow[c] = {}
    /\ part # "map" => \A a \in map!Addresses : mapDevice[a] = {}
    /\ part # "device" => props = {}
    /\ part # "bundle" => ~valid /\ ~assigned

PartsNext ==
    \/ part = "set" /\ Next /\ UNCHANGED <<part, mapVars, tlmmVars, deviceVars, bundleVars>>
    \/ part = "map" /\ map!Next /\ UNCHANGED <<part, vars, tlmmVars, deviceVars, bundleVars>>
    \/ part = "tlmm" /\ tlmm!Next /\ UNCHANGED <<part, vars, mapVars, deviceVars, bundleVars>>
    \/ part = "device" /\ device!Next /\ UNCHANGED <<part, vars, mapVars, tlmmVars, bundleVars>>
    \/ part = "bundle" /\ bundle!Next /\ UNCHANGED <<part, vars, mapVars, tlmmVars, deviceVars>>

PartsSpec == PartsInit /\ [][PartsNext]_all

-----------------------------------------------------------------------------
(* Properties.  That of the register sets is in RegisterSet.               *)

\* Of APRegisterMap, the shadow of a register that is not waiting to be stored is
\* what the device holds, and a stored register holds what the clients made of it,
\* whatever transfers have failed half way.  Registers that share an address or are
\* changed by the device are excepted.
RegistersSound == part = "map" => map!TypeOK /\ map!Coherent /\ map!AsAsked

\* The setters of MSM8916TLMM leave every field of every pin as last asked for,
\* and write back nothing that is out of date, unless two were changing the
\* register at once.
PinsSound == part = "tlmm" => tlmm!TypeOK /\ tlmm!FieldsAsAsked /\ tlmm!ReadIsFresh

\* AndroidPlatformDevice gives back what it has taken, once, on every path from
\* start to free, and touches no register outside its mapping, unless the end of
\* the access wraps.
DeviceSound == part = "device" => device!TypeOK /\ device!Balanced /\ device!AccessInside

\* A DeviceBundle knows only files of bundles it was asked to load since it was
\* unloaded, has the files of the bundle it names on record once loadBundle
\* succeeded, and has a description whenever it says it is valid.
BundleSound ==
    part = "bundle" => /\ bundle!TypeOK
                       /\ bundle!FilesTraced /\ bundle!SuccessIsOwn
                       /\ bundle!ValidIsDescribed
=============================================================================
