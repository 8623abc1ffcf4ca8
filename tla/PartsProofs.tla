----------------------------- MODULE PartsProofs -----------------------------
(***************************************************************************)
(* Proofs about the parts of Parts, for any clients, registers, threads,   *)
(* pins, offsets, files and bundles.  Each part has an inductive invariant *)
(* of its own, which the steps of the others leave alone.                  *)
(***************************************************************************)
EXTENDS Parts, TLAPS

-----------------------------------------------------------------------------
(* Register sets: the shadow of a client that nobody has overtaken is the  *)
(* register with the client's own changes (InStep), and that is what makes *)
(* its write the same as applying the changes at once.                     *)

InStep == \A c \in open \ stale : shadow[c] = Change(word, clr[c], set[c])
SetInv == TypeOK /\ InStep /\ AtomicUntilStale

\* Two changes one after the other are one change.
LEMMA ChangeTwice ==
    ASSUME NEW w, NEW a, NEW b, NEW x, NEW y
    PROVE  Change(Change(w, a, b), x, y) = Change(w, a \cup x, Change(b, x, y))
  BY DEF Change

LEMMA ChangeType ==
    ASSUME NEW w \in Words, NEW x \in Words, NEW y \in Words
    PROVE  Change(w, x, y) \in Words /\ Change(w, {}, {}) = w
  BY DEF Change, Words

LEMMA SetInit == Init => SetInv
  BY DEF Init, SetInv, TypeOK, InStep, AtomicUntilStale, Words

LEMMA SetStep == SetInv /\ [Next]_vars => SetInv'
<1> SUFFICES ASSUME SetInv, [Next]_vars PROVE SetInv'
  OBVIOUS
<1> USE DEF SetInv
<1>1. ASSUME NEW c \in Clients, read(c) PROVE SetInv'
  <2>1. TypeOK'
    BY <1>1 DEF read, TypeOK, Words
  <2>2. InStep'
    <3> SUFFICES ASSUME NEW d \in (open \ stale)'
                 PROVE  shadow'[d] = Change(word', clr'[d], set'[d])
      BY DEF InStep, Change
    <3>1. CASE d = c
      BY <1>1, <3>1, ChangeType DEF read, TypeOK
    <3>2. CASE d # c
      BY <1>1, <3>2 DEF read, TypeOK, InStep
    <3>3. QED
      BY <3>1, <3>2
  <2>3. AtomicUntilStale'
    BY <1>1 DEF read, AtomicUntilStale
  <2>4. QED
    BY <2>1, <2>2, <2>3
<1>2. ASSUME NEW c \in Clients, NEW x \in Words, NEW y \in Words, modify(c, x, y) PROVE SetInv'
  <2>1. TypeOK'
    <3>1. Change(shadow[c], x, y) \in Words /\ Change(set[c], x, y) \in Words
      BY ChangeType DEF TypeOK
    <3>2. clr[c] \cup x \in Words
      BY DEF TypeOK, Words
    <3>3. QED
      BY <1>2, <3>1, <3>2 DEF modify, TypeOK
  <2>2. InStep'
    <3> SUFFICES ASSUME NEW d \in (open \ stale)'
                 PROVE  shadow'[d] = Change(word', clr'[d], set'[d])
      BY DEF InStep, Change
    <3>1. CASE d = c
      <4>1. shadow[c] = Change(word, clr[c], set[c])
        BY <1>2, <3>1 DEF modify, InStep
      <4>2. shadow'[c] = Change(shadow[c], x, y)
        BY <1>2 DEF modify, TypeOK
      <4>3. clr'[c] = clr[c] \cup x /\ set'[c] = Change(set[c], x, y) /\ word' = word
        BY <1>2 DEF modify, TypeOK
      <4>4. QED
        BY <3>1, <4>1, <4>2, <4>3, ChangeTwice
    <3>2. CASE d # c
      BY <1>2, <3>2 DEF modify, TypeOK, InStep
    <3>3. QED
      BY <3>1, <3>2
  <2>3. AtomicUntilStale'
    BY <1>2 DEF modify, AtomicUntilStale
  <2>4. QED
    BY <2>1, <2>2, <2>3
<1>3. ASSUME NEW c \in Clients, write(c) PROVE SetInv'
  <2>1. TypeOK'
    <3>1. Change(want, clr[c], set[c]) \in Words
      BY ChangeType DEF TypeOK
    <3>2. {} \in Words
      BY DEF Words
    <3>3. undone' \in BOOLEAN
      BY <1>3, Zenon DEF write, TypeOK
    <3>4. QED
      BY <1>3, <3>1, <3>2, <3>3 DEF write, TypeOK
  <2>2. InStep'
    <3> SUFFICES ASSUME NEW d \in (open \ stale)'
                 PROVE  shadow'[d] = Change(word', clr'[d], set'[d])
      BY DEF InStep, Change
    <3>1. d = c
      BY <1>3 DEF write
    <3>2. QED
      BY <1>3, <3>1, ChangeType DEF write, TypeOK
  <2>3. AtomicUntilStale'
    <3>1. CASE undone \/ c \in stale
      BY <1>3, <3>1 DEF write, AtomicUntilStale
    <3>2. CASE ~undone /\ c \notin stale
      BY <1>3, <3>2 DEF write, AtomicUntilStale, InStep
    <3>3. QED
      BY <3>1, <3>2
  <2>4. QED
    BY <2>1, <2>2, <2>3
<1>4. CASE UNCHANGED vars
  BY <1>4 DEF vars, TypeOK, InStep, AtomicUntilStale
<1>5. QED
  BY <1>1, <1>2, <1>3, <1>4 DEF Next

-----------------------------------------------------------------------------
(* Register maps.  AsAsked is not inductive: a store writes the shadow, so *)
(* that what is needed of a register before it is clean is that the shadow *)
(* is already what the clients asked for (MapKept).  Coherent carries that *)
(* to the device.                                                          *)

MapKept == \A r \in known : mapShadow[r] = mapWant[r]
MapInv == map!TypeOK /\ map!Coherent /\ MapKept

\* The address of a register is one of the device.
LEMMA AddressType == \A r \in map!Regs : map!Address(r) \in map!Addresses
  BY PartsAssumption DEF map!Regs, map!Address, map!Addresses

\* A block that passes the test of its end lies in the map, as does its head.
LEMMA BlockInMap ==
    ASSUME NEW s \in map!Regs, NEW n \in 0..NumRegs, s + n <= NumRegs
    PROVE  \A m \in 0..n : map!Block(s, m) \subseteq map!Regs
  BY PartsAssumption DEF map!Regs, map!Block

\* What a store leaves at the address of a register that has it to itself: the
\* shadow of the register if it was in the block, and the old value otherwise.
LEMMA StoredSole ==
    ASSUME map!TypeOK, NEW B \in SUBSET map!Regs, NEW r \in map!Regs, map!Sole(r)
    PROVE  map!Stored(B)[map!Address(r)] = IF r \in B THEN mapShadow[r] ELSE mapDevice[map!Address(r)]
<1>1. map!Address(r) \in map!Addresses
  BY AddressType
<1>2. \A q \in B : map!Address(q) = map!Address(r) => q = r
  BY DEF map!Sole
<1>3. CASE r \in B
  <2>1. map!IsLast(B, map!Address(r), r)
    BY <1>2 DEF map!IsLast, map!Regs
  <2>2. (CHOOSE q \in B : map!IsLast(B, map!Address(r), q)) = r
    BY <1>2, <1>3, <2>1 DEF map!IsLast
  <2>3. QED
    BY <1>1, <1>3, <2>1, <2>2 DEF map!Stored
<1>4. CASE r \notin B
  <2>1. ~ \E q \in B : map!IsLast(B, map!Address(r), q)
    BY <1>2, <1>4 DEF map!IsLast
  <2>2. QED
    BY <1>1, <1>4, <2>1 DEF map!Stored
<1>5. QED
  BY <1>3, <1>4

\* A store leaves values in the device.
LEMMA StoredType ==
    ASSUME map!TypeOK, NEW B \in SUBSET map!Regs
    PROVE  map!Stored(B) \in [map!Addresses -> map!Values]
<1>1. SUFFICES ASSUME NEW a \in map!Addresses
               PROVE  (IF \E r \in B : map!IsLast(B, a, r)
                       THEN mapShadow[CHOOSE r \in B : map!IsLast(B, a, r)] ELSE mapDevice[a]) \in map!Values
  BY DEF map!Stored
<1>2. CASE \E r \in B : map!IsLast(B, a, r)
  <2>1. (CHOOSE r \in B : map!IsLast(B, a, r)) \in B
    BY <1>2
  <2>2. QED
    BY <1>2, <2>1 DEF map!TypeOK
<1>3. CASE ~ \E r \in B : map!IsLast(B, a, r)
  BY <1>3 DEF map!TypeOK
<1>4. QED
  BY <1>2, <1>3

LEMMA MapInit == map!Init => MapInv
<1> SUFFICES ASSUME map!Init PROVE MapInv
  OBVIOUS
<1>1. map!TypeOK
  BY AddressType DEF map!Init, map!TypeOK, map!Values
<1>2. map!Coherent /\ MapKept
  BY DEF map!Init, map!Coherent, MapKept
<1>3. QED
  BY <1>1, <1>2 DEF MapInv

\* One step for each operation of the map.
LEMMA MapStep == MapInv /\ map!Next => MapInv'
<1> SUFFICES ASSUME MapInv, map!Next PROVE MapInv'
  OBVIOUS
<1> USE DEF MapInv
<1>0. \A r \in map!Regs : map!Sole(r)' <=> map!Sole(r)
  BY DEF map!Sole, map!Address, map!Regs
<1>1. ASSUME NEW s \in map!Regs, NEW n \in 0..NumRegs, map!Load(s, n) PROVE MapInv'
  <2>1. map!Block(s, n) \subseteq map!Regs
    BY <1>1, BlockInMap, PartsAssumption DEF map!Load
  <2>2. map!TypeOK'
    BY <1>1, <2>1, AddressType DEF map!Load, map!TypeOK
  <2>3. map!Coherent'
    BY <1>1, <2>1, <1>0 DEF map!Load, map!Coherent, map!TypeOK, map!Address
  <2>4. MapKept'
    BY <1>1, <2>1 DEF map!Load, MapKept, map!TypeOK
  <2>5. QED
    BY <2>2, <2>3, <2>4
<1>2. ASSUME NEW s \in map!Regs, NEW n \in 0..NumRegs, map!Store(s, n) PROVE MapInv'
  <2>1. map!Block(s, n) \subseteq map!Regs
    BY <1>2, BlockInMap, PartsAssumption DEF map!Store
  <2>2. map!TypeOK'
    BY <1>2, <2>1, StoredType DEF map!Store, map!TypeOK
  <2>3. map!Coherent'
    <3> SUFFICES ASSUME NEW r \in clean', map!Sole(r)'
                 PROVE  mapDevice'[map!Address(r)] = mapShadow'[r]
      BY DEF map!Coherent, map!Address
    <3>1. r \in map!Regs /\ map!Sole(r)
      BY <2>2, <1>0 DEF map!TypeOK
    <3>2. mapDevice'[map!Address(r)] = IF r \in map!Block(s, n) THEN mapShadow[r] ELSE mapDevice[map!Address(r)]
      BY <1>2, <2>1, <3>1, StoredSole DEF map!Store
    <3>3. r \in map!Block(s, n) \/ r \in clean
      BY <1>2 DEF map!Store
    <3>4. QED
      BY <1>2, <3>1, <3>2, <3>3 DEF map!Store, map!Coherent
  <2>4. MapKept'
    BY <1>2 DEF map!Store, MapKept
  <2>5. QED
    BY <2>2, <2>3, <2>4
<1>3. ASSUME NEW s \in map!Regs, NEW n \in 0..NumRegs, NEW m \in 0..n, map!StoreFails(s, n, m)
      PROVE  MapInv'
  <2>1. map!Block(s, m) \subseteq map!Regs
    BY <1>3, BlockInMap DEF map!StoreFails
  <2>2. map!TypeOK'
    BY <1>3, <2>1, StoredType DEF map!StoreFails, map!TypeOK
  <2>3. map!Coherent'
    <3> SUFFICES ASSUME NEW r \in clean', map!Sole(r)'
                 PROVE  mapDevice'[map!Address(r)] = mapShadow'[r]
      BY DEF map!Coherent, map!Address
    <3>1. r \in map!Regs /\ map!Sole(r)
      BY <2>2, <1>0 DEF map!TypeOK
    <3>2. mapDevice'[map!Address(r)] = IF r \in map!Block(s, m) THEN mapShadow[r] ELSE mapDevice[map!Address(r)]
      BY <1>3, <2>1, <3>1, StoredSole DEF map!StoreFails
    <3>3. QED
      BY <1>3, <3>1, <3>2 DEF map!StoreFails, map!Coherent
  <2>4. MapKept'
    BY <1>3 DEF map!StoreFails, MapKept
  <2>5. QED
    BY <2>2, <2>3, <2>4
<1>4. ASSUME NEW r \in map!Regs, NEW v \in map!Values, map!Set8(r, v) PROVE MapInv'
  <2>1. map!TypeOK'
    BY <1>4 DEF map!Set8, map!TypeOK
  <2>2. map!Coherent'
    BY <1>4, <1>0 DEF map!Set8, map!Coherent, map!TypeOK, map!Address
  <2>3. MapKept'
    BY <1>4 DEF map!Set8, MapKept, map!TypeOK
  <2>4. QED
    BY <2>1, <2>2, <2>3
<1>5. ASSUME NEW r \in map!Regs, NEW low \in map!Values, NEW high \in map!Values, map!Set16(r, low, high)
      PROVE  MapInv'
  <2>1. r + 1 \in map!Regs /\ r + 1 # r
    BY <1>5, PartsAssumption DEF map!Set16, map!Regs
  <2>2. map!TypeOK'
    BY <1>5, <2>1 DEF map!Set16, map!TypeOK
  <2>3. map!Coherent'
    BY <1>5, <2>1, <1>0 DEF map!Set16, map!Coherent, map!TypeOK, map!Address
  <2>4. MapKept'
    BY <1>5, <2>1 DEF map!Set16, MapKept, map!TypeOK
  <2>5. QED
    BY <2>2, <2>3, <2>4
<1>6. ASSUME NEW r \in map!Regs, NEW off \in map!Values, NEW on \in map!Values, map!Modify(r, off, on)
      PROVE  MapInv'
  <2>1. map!TypeOK'
    BY <1>6 DEF map!Modify, map!TypeOK, map!Values
  <2>2. map!Coherent'
    BY <1>6, <1>0 DEF map!Modify, map!Coherent, map!TypeOK, map!Address
  <2>3. MapKept'
    BY <1>6 DEF map!Modify, MapKept, map!TypeOK
  <2>4. QED
    BY <2>1, <2>2, <2>3
<1>7. ASSUME NEW a \in Volatile \cap map!Addresses, NEW v \in map!Values, map!DeviceChanges(a, v)
      PROVE  MapInv'
  <2>1. map!TypeOK'
    BY <1>7 DEF map!DeviceChanges, map!TypeOK
  <2>2. map!Coherent'
    <3> SUFFICES ASSUME NEW r \in clean', map!Sole(r)'
                 PROVE  mapDevice'[map!Address(r)] = mapShadow'[r]
      BY DEF map!Coherent, map!Address
    <3>1. r \in map!Regs /\ map!Sole(r) /\ map!Address(r) \in map!Addresses
      BY <2>1, <1>0, AddressType DEF map!TypeOK
    <3>2. map!Address(r) # a
      BY <3>1 DEF map!Sole
    <3>3. QED
      BY <1>7, <3>1, <3>2 DEF map!DeviceChanges, map!Coherent, map!TypeOK
  <2>3. MapKept'
    BY <1>7 DEF map!DeviceChanges, MapKept
  <2>4. QED
    BY <2>1, <2>2, <2>3
<1>8. QED
  BY <1>1, <1>2, <1>3, <1>4, <1>5, <1>6, <1>7 DEF map!Next

LEMMA MapStays == MapInv /\ UNCHANGED mapVars => MapInv'
<1> SUFFICES ASSUME MapInv, UNCHANGED mapVars PROVE MapInv'
  OBVIOUS
<1>1. UNCHANGED <<mapDevice, mapShadow, mapWant, known, clean>>
  BY DEF mapVars
<1>2. map!TypeOK' /\ MapKept'
  BY <1>1 DEF MapInv, map!TypeOK, MapKept
<1>3. map!Coherent'
  BY <1>1 DEF MapInv, map!Coherent, map!Address, map!Sole
<1>4. QED
  BY <1>2, <1>3 DEF MapInv

-----------------------------------------------------------------------------
(* AndroidPlatformDevice: before start and after free it holds nothing,    *)
(* which start, that counts up, and free, that counts down, rely on.       *)

DeviceInv ==
    /\ device!TypeOK /\ device!Balanced /\ device!AccessInside
    /\ phase \in {"new", "probed", "refused", "freed"} => fields = {}

LEMMA DeviceInit == device!Init => DeviceInv
<1> SUFFICES ASSUME device!Init PROVE DeviceInv
  OBVIOUS
<1>1. registered \in BOOLEAN
  BY Zenon DEF device!Init
<1>2. QED
  BY <1>1 DEF device!Init, DeviceInv, device!TypeOK, device!Balanced, device!AccessInside

\* Taking objects once, of which none was held, keeps the count.
LEMMA TakeFacts ==
    ASSUME DeviceInv, fields = {}, NEW S \in SUBSET device!Objects,
           device!Take(S), fields' = S
    PROVE  refs' \in [device!Objects -> 0..1] /\ device!Balanced'
<1>1. \A o \in device!Objects : refs[o] = 0
  BY DEF DeviceInv, device!Balanced
<1>2. refs' = [o \in device!Objects |-> IF o \in S THEN 1 ELSE 0]
  BY <1>1 DEF device!Take
<1>3. QED
  BY <1>2 DEF device!Balanced

LEMMA StringsType == device!Strings \in SUBSET device!Objects
  BY DEF device!Strings, device!Objects

\* An access that the test lets through is inside, or it wraps.
LEMMA WrapsOrInside ==
    ASSUME NEW offset \in device!Offsets, NEW size \in Sizes,
           (offset + size) % OffsetSpace <= RegSize
    PROVE  offset + size <= RegSize \/ offset + size >= OffsetSpace
<1>1. offset \in Nat /\ size \in Nat /\ OffsetSpace \in Nat \ {0} /\ RegSize \in Nat
  BY PartsAssumption DEF device!Offsets
<1>2. \A x, m \in Nat : x < m => x % m = x
  OBVIOUS
<1>3. QED
  BY <1>1, <1>2

LEMMA DeviceStep == DeviceInv /\ device!Next => DeviceInv'
<1> SUFFICES ASSUME DeviceInv, device!Next PROVE DeviceInv'
  OBVIOUS
<1> USE DEF DeviceInv
<1>1. CASE device!probe
  BY <1>1 DEF device!probe, device!TypeOK, device!Balanced, device!AccessInside
<1>2. CASE device!StartFails
  <2>1. fields = {}
    BY <1>2 DEF device!StartFails
  <2>2. refs' \in [device!Objects -> 0..1] /\ device!Balanced'
    <3>1. CASE UNCHANGED <<refs, fields>>
      BY <3>1 DEF device!TypeOK, device!Balanced
    <3>2. CASE device!Take(device!Strings) /\ fields' = device!Strings
      BY <2>1, <3>2, TakeFacts, StringsType
    <3>3. QED
      BY <1>2, <3>1, <3>2 DEF device!StartFails
  <2>3. QED
    BY <1>2, <2>2, StringsType DEF device!StartFails, device!TypeOK, device!AccessInside
<1>3. CASE device!Start
  <2> DEFINE new == device!Strings \cup {o \in {"clocks"} : o \in props}
                        \cup (IF "registers" \in props THEN {"descriptor", "map"} ELSE {})
  <2>1. new \in SUBSET device!Objects
    BY StringsType DEF device!Objects
  <2>2. fields = {} /\ device!Take(new) /\ fields' = new /\ registered' = FALSE
        /\ phase' = "published" /\ UNCHANGED <<props, outside>>
    BY <1>3 DEF device!Start
  <2> HIDE DEF new
  <2>3. QED
    BY <2>1, <2>2, TakeFacts DEF device!TypeOK, device!AccessInside
<1>4. CASE device!registerInterrupt
  BY <1>4 DEF device!registerInterrupt, device!TypeOK, device!Balanced, device!AccessInside
<1>5. CASE device!stop
  BY <1>5 DEF device!stop, device!TypeOK, device!Balanced, device!AccessInside
<1>6. CASE device!free
  <2>1. refs' = [o \in device!Objects |-> 0]
    BY <1>6 DEF device!free, device!Balanced
  <2>2. QED
    BY <1>6, <2>1 DEF device!free, device!TypeOK, device!Balanced, device!AccessInside
<1>7. ASSUME NEW offset \in device!Offsets, NEW size \in Sizes, device!Access(offset, size)
      PROVE  DeviceInv'
  <2>1. refs["map"] = 1 /\ (offset + size) % OffsetSpace <= RegSize
    BY <1>7 DEF device!Access, device!Within, device!Balanced, device!Objects
  <2>2. device!TypeOK' /\ device!Balanced'
    BY <1>7 DEF device!Access, device!TypeOK, device!Balanced
  <2>3. device!AccessInside'
    <3>1. CASE outside' = outside
      BY <3>1 DEF device!AccessInside
    <3>2. CASE outside' = outside \cup {offset} /\ ~(offset + size <= RegSize)
      BY <2>1, <3>2, WrapsOrInside DEF device!AccessInside
    <3>3. QED
      BY <1>7, <2>1, <3>1, <3>2 DEF device!Access
  <2>4. QED
    BY <1>7, <2>2, <2>3 DEF device!Access
<1>8. QED
  BY <1>1, <1>2, <1>3, <1>4, <1>5, <1>6, <1>7 DEF device!Next

-----------------------------------------------------------------------------
(* DeviceBundle: what is on record is from a bundle that was loaded since  *)
(* the object was unloaded.  A file is listed once by each load.           *)

BundleType ==
    /\ path \in Paths \cup {None}
    /\ contents \in [bundle!Slots -> Files \cup {None}]
    /\ \A k \in bundle!Slots : contents[k] # None => Kind[contents[k]] = k
    /\ listed \in [Files -> Nat] /\ loads \in 0..MaxLoads
    /\ since \in [Paths -> Nat] /\ \A b \in Paths : since[b] <= loads
    /\ info \in Files \cup {None} /\ configuration \subseteq Settings

Flags == valid \in BOOLEAN /\ result \in BOOLEAN \cup {None} /\ assigned \in BOOLEAN

\* FilesTraced, record by record.
Traced ==
    /\ \A k \in bundle!Slots : contents[k] # None => since[Of[contents[k]]] > 0
    /\ info # None => since[Of[info]] > 0
    /\ \A f \in Files : listed[f] <= since[Of[f]]

BundleInv ==
    /\ BundleType /\ Flags /\ Traced
    /\ bundle!SuccessIsOwn /\ bundle!ValidIsDescribed

\* Every file is in a bundle that can be named.
LEMMA OfIsPath == \A f \in Files : Of[f] \in Paths
  BY PartsAssumption

LEMMA BundleMeaning ==
    BundleInv => /\ bundle!TypeOK /\ bundle!FilesTraced
                 /\ bundle!SuccessIsOwn /\ bundle!ValidIsDescribed
<1> SUFFICES ASSUME BundleInv PROVE bundle!TypeOK /\ bundle!FilesTraced
  BY DEF BundleInv
<1>1. MaxLoads \in Nat /\ None \notin Files
  BY PartsAssumption
<1>2. \A f \in Files : Of[f] \in Paths /\ listed[f] \in Nat /\ since[Of[f]] \in Nat
  BY OfIsPath DEF BundleInv, BundleType
<1>3. since \in [Paths -> 0..MaxLoads]
  BY <1>1 DEF BundleInv, BundleType
<1>4. listed \in [Files -> 0..MaxLoads]
  <2>1. \A f \in Files : listed[f] \in 0..MaxLoads
    BY <1>1, <1>2 DEF BundleInv, BundleType, Traced
  <2>2. QED
    BY <2>1 DEF BundleInv, BundleType
<1>5. bundle!TypeOK
  BY <1>3, <1>4 DEF BundleInv, BundleType, Flags, bundle!TypeOK
<1>6. bundle!FilesTraced
  <2>1. \A f \in Files : listed[f] > 0 => since[Of[f]] > 0
    BY <1>2 DEF BundleInv, Traced
  <2>2. QED
    BY <2>1 DEF BundleInv, Traced, bundle!FilesTraced, bundle!Known
<1>7. QED
  BY <1>5, <1>6

LEMMA BundleInit == bundle!Init => BundleInv
<1> SUFFICES ASSUME bundle!Init PROVE BundleInv
  OBVIOUS
<1>1. Flags
  BY Zenon DEF bundle!Init, Flags
<1>2. BundleType
  BY PartsAssumption DEF bundle!Init, BundleType
<1>3. Traced
  BY OfIsPath DEF bundle!Init, Traced
<1>4. bundle!SuccessIsOwn
  BY DEF bundle!Init, bundle!SuccessIsOwn
<1>5. bundle!ValidIsDescribed
  BY Zenon DEF bundle!Init, bundle!ValidIsDescribed
<1>6. QED
  BY <1>1, <1>2, <1>3, <1>4, <1>5 DEF BundleInv

\* _scanBundleContents: a field of contents_ keeps its file or gets one of the files
\* seen, of its own kind; every driver and resource seen is listed once more.
LEMMA ScanFacts ==
    ASSUME BundleInv, NEW seen \in SUBSET Files, bundle!Scan(seen)
    PROVE  /\ contents' \in [bundle!Slots -> Files \cup {None}]
           /\ \A k \in bundle!Slots : contents'[k] = contents[k] \/ contents'[k] \in seen
           /\ \A k \in bundle!Slots : contents'[k] # None => Kind[contents'[k]] = k
           /\ \A k \in bundle!Slots : \A f \in seen : Kind[f] = k =>
                 contents'[k] \in seen /\ Kind[contents'[k]] = k
           /\ listed' \in [Files -> Nat]
           /\ \A f \in Files : listed'[f] = listed[f]
                               \/ (f \in seen /\ listed'[f] = listed[f] + 1)
<1>1. PICK p \in bundle!Last("plist", seen), d \in bundle!Last("dts", seen),
           c \in bundle!Last("config", seen) :
        contents' = [contents EXCEPT !["plist"] = p, !["dts"] = d, !["config"] = c]
  BY DEF bundle!Scan
<1>2. \A k \in bundle!Slots : \A x \in bundle!Last(k, seen) :
        /\ x = contents[k] \/ (x \in seen /\ Kind[x] = k)
        /\ \A f \in seen : Kind[f] = k => x \in seen /\ Kind[x] = k
  <2> SUFFICES ASSUME NEW k \in bundle!Slots, NEW x \in bundle!Last(k, seen)
               PROVE  /\ x = contents[k] \/ (x \in seen /\ Kind[x] = k)
                      /\ \A f \in seen : Kind[f] = k => x \in seen /\ Kind[x] = k
    OBVIOUS
  <2> DEFINE found == {f \in seen : Kind[f] = k}
  <2>1. x \in (IF found = {} THEN {contents[k]} ELSE found)
    BY DEF bundle!Last
  <2>2. QED
    BY <2>1
<1>3. contents \in [bundle!Slots -> Files \cup {None}]
  BY DEF BundleInv, BundleType
<1>4. contents'["plist"] = p /\ contents'["dts"] = d /\ contents'["config"] = c
      /\ bundle!Slots = {"plist", "dts", "config"}
  BY <1>1, <1>3 DEF bundle!Slots
<1>5. \A k \in bundle!Slots : contents'[k] = contents[k]
                              \/ (contents'[k] \in seen /\ Kind[contents'[k]] = k)
  BY <1>2, <1>4
<1>10. \A k \in bundle!Slots : \A f \in seen : Kind[f] = k =>
         contents'[k] \in seen /\ Kind[contents'[k]] = k
  BY <1>2, <1>4
<1>6. contents' \in [bundle!Slots -> Files \cup {None}]
  <2>1. DOMAIN contents' = bundle!Slots /\ contents' = [k \in bundle!Slots |-> contents'[k]]
    BY <1>1, <1>3
  <2>2. \A k \in bundle!Slots : contents'[k] \in Files \cup {None}
    BY <1>3, <1>5
  <2>3. QED
    BY <2>1, <2>2
<1>7. \A k \in bundle!Slots : contents'[k] # None => Kind[contents'[k]] = k
  BY <1>5 DEF BundleInv, BundleType
<1>8. /\ listed' \in [Files -> Nat]
      /\ \A f \in Files : listed'[f] = listed[f] \/ (f \in seen /\ listed'[f] = listed[f] + 1)
  <2>1. listed' = [f \in Files |->
                     IF f \in seen /\ Kind[f] = "listed" THEN listed[f] + 1 ELSE listed[f]]
    BY Zenon DEF bundle!Scan
  <2>2. listed \in [Files -> Nat]
    BY DEF BundleInv, BundleType
  <2>3. QED
    BY <2>1, <2>2
<1>9. QED
  BY <1>5, <1>6, <1>7, <1>8, <1>10

\* A load that has put the files seen on record, and perhaps the property list in
\* deviceInfo_, keeps the records in order.
LEMMA LoadFacts ==
    ASSUME BundleInv, NEW b \in Paths, NEW seen \in SUBSET Files,
           bundle!Begin(b), \A f \in seen : Of[f] = b,
           contents' \in [bundle!Slots -> Files \cup {None}],
           \A k \in bundle!Slots : contents'[k] = contents[k] \/ contents'[k] \in seen,
           \A k \in bundle!Slots : contents'[k] # None => Kind[contents'[k]] = k,
           listed' \in [Files -> Nat],
           \A f \in Files : listed'[f] = listed[f] \/ (f \in seen /\ listed'[f] = listed[f] + 1),
           info' = info \/ info' = contents'["plist"]
    PROVE  BundleType' /\ Traced'
<1>1. /\ loads' = loads + 1 /\ loads < MaxLoads /\ loads \in 0..MaxLoads /\ MaxLoads \in Nat
      /\ path' = b /\ b # None /\ configuration' = configuration
      /\ since' = [since EXCEPT ![b] = @ + 1]
  BY PartsAssumption DEF bundle!Begin, BundleInv, BundleType
<1>2. /\ since' \in [Paths -> Nat]
      /\ \A x \in Paths : /\ since[x] \in Nat /\ since'[x] <= loads'
                          /\ since'[x] = IF x = b THEN since[x] + 1 ELSE since[x]
  BY <1>1 DEF BundleInv, BundleType
<1>3. info' \in Files \cup {None} /\ "plist" \in bundle!Slots
  BY DEF BundleInv, BundleType, bundle!Slots
<1>4. BundleType'
  BY <1>1, <1>2, <1>3 DEF BundleInv, BundleType
<1>5. /\ \A f \in Files : since[Of[f]] > 0 => since'[Of[f]] > 0
      /\ \A f \in seen : since'[Of[f]] > 0
  BY <1>2, OfIsPath
<1>6. \A k \in bundle!Slots : contents'[k] # None => since'[Of[contents'[k]]] > 0
  <2>1. \A k \in bundle!Slots : contents[k] \in Files \cup {None}
    BY DEF BundleInv, BundleType
  <2>2. QED
    BY <1>5, <2>1 DEF BundleInv, Traced
<1>7. info' # None => since'[Of[info']] > 0
  <2>1. info \in Files \cup {None}
    BY DEF BundleInv, BundleType
  <2>2. QED
    BY <1>3, <1>5, <1>6, <2>1 DEF BundleInv, Traced
<1>8. \A f \in Files : listed'[f] <= since'[Of[f]]
  <2>1. \A f \in Files : Of[f] \in Paths /\ listed[f] \in Nat /\ listed[f] <= since[Of[f]]
    BY OfIsPath DEF BundleInv, BundleType, Traced
  <2>2. QED
    BY <1>2, <2>1
<1>9. QED
  BY <1>4, <1>6, <1>7, <1>8 DEF Traced

\* A load that ends before anything is put on record.
LEMMA NothingLoaded ==
    ASSUME BundleInv, NEW b \in Paths, bundle!Begin(b),
           UNCHANGED <<contents, listed, info>>
    PROVE  BundleType' /\ Traced'
<1>1. /\ contents' \in [bundle!Slots -> Files \cup {None}]
      /\ \A k \in bundle!Slots : contents'[k] # None => Kind[contents'[k]] = k
      /\ listed' \in [Files -> Nat]
  BY DEF BundleInv, BundleType
<1>2. /\ {} \in SUBSET Files /\ \A f \in {} : Of[f] = b
      /\ \A k \in bundle!Slots : contents'[k] = contents[k] \/ contents'[k] \in {}
      /\ \A f \in Files : listed'[f] = listed[f] \/ (f \in {} /\ listed'[f] = listed[f] + 1)
      /\ info' = info
  OBVIOUS
<1>3. QED
  BY <1>1, <1>2, LoadFacts

LEMMA BundleStep == BundleInv /\ bundle!Next => BundleInv'
<1> SUFFICES ASSUME BundleInv, bundle!Next PROVE BundleInv'
  OBVIOUS
<1>0. Flags /\ bundle!ValidIsDescribed
  BY DEF BundleInv
<1>1. ASSUME NEW b \in Paths, bundle!NotThere(b) \/ bundle!Throws(b) PROVE BundleInv'
  <2>1. bundle!Begin(b) /\ UNCHANGED <<contents, listed, info>>
    BY <1>1 DEF bundle!NotThere, bundle!Throws
  <2>2. Flags' /\ bundle!ValidIsDescribed' /\ result' # TRUE
    <3>1. UNCHANGED <<info, valid, assigned>> /\ result' \in {FALSE, None}
      BY <1>1, Zenon DEF bundle!NotThere, bundle!Throws
    <3>2. None # TRUE
      BY PartsAssumption
    <3>3. QED
      BY <1>0, <3>1, <3>2, Zenon DEF Flags, bundle!ValidIsDescribed
  <2>3. BundleType' /\ Traced'
    BY <2>1, NothingLoaded
  <2>4. QED
    BY <2>2, <2>3 DEF BundleInv, bundle!SuccessIsOwn
<1>2. ASSUME NEW b \in Paths, bundle!ScanThrows(b) PROVE BundleInv'
  <2>1. bundle!Begin(b) /\ info' = info
    BY <1>2 DEF bundle!ScanThrows
  <2>2. PICK seen \in SUBSET {f \in Files : Of[f] = b} : bundle!Scan(seen)
    BY <1>2 DEF bundle!ScanThrows
  <2>3. seen \in SUBSET Files /\ \A f \in seen : Of[f] = b
    OBVIOUS
  <2>4. Flags' /\ bundle!ValidIsDescribed' /\ result' = FALSE
    BY <1>0, <1>2, Zenon DEF bundle!ScanThrows, Flags, bundle!ValidIsDescribed
  <2>5. BundleType' /\ Traced'
    BY <2>1, <2>2, <2>3, ScanFacts, LoadFacts
  <2>6. QED
    BY <2>4, <2>5 DEF BundleInv, bundle!SuccessIsOwn
<1>3. ASSUME NEW b \in Paths, bundle!NotDescribed(b) PROVE BundleInv'
  <2>1. bundle!Begin(b) /\ bundle!Scan({f \in Files : Of[f] = b})
    BY <1>3 DEF bundle!NotDescribed
  <2>2. (info' = info \/ info' = contents'["plist"]) /\ (info # None => info' # None)
    BY <1>3 DEF bundle!NotDescribed, bundle!Undescribed
  <2>3. Flags' /\ bundle!ValidIsDescribed' /\ result' = FALSE
    BY <1>0, <1>3, <2>2, Zenon DEF bundle!NotDescribed, Flags, bundle!ValidIsDescribed
  <2>4. BundleType' /\ Traced'
    BY <2>1, <2>2, ScanFacts, LoadFacts
  <2>5. QED
    BY <2>3, <2>4 DEF BundleInv, bundle!SuccessIsOwn
<1>4. ASSUME NEW b \in Paths, bundle!Loaded(b) PROVE BundleInv'
  <2> DEFINE seen == {f \in Files : Of[f] = b}
  <2>1. bundle!Begin(b) /\ bundle!Scan(seen) /\ path' = b
    BY <1>4 DEF bundle!Loaded, bundle!Begin
  <2>2. info' = contents'["plist"] /\ info' \in Good /\ info' # None
    BY <1>4 DEF bundle!Loaded, bundle!Described
  <2>3. Flags' /\ bundle!ValidIsDescribed'
    BY <1>4, <2>2, Zenon DEF bundle!Loaded, Flags, bundle!ValidIsDescribed
  <2>4. BundleType' /\ Traced'
    BY <2>1, <2>2, ScanFacts, LoadFacts
  <2>5. \A k \in bundle!Slots : \A f \in seen : Kind[f] = k =>
           contents'[k] \in seen /\ Kind[contents'[k]] = k
    <3>1. seen \in SUBSET Files
      OBVIOUS
    <3> HIDE DEF seen
    <3>2. QED
      BY <2>1, <3>1, ScanFacts
  <2>6. bundle!SuccessIsOwn'
    BY <2>1, <2>2, <2>5 DEF bundle!SuccessIsOwn
  <2>7. QED
    BY <2>3, <2>4, <2>6 DEF BundleInv
<1>5. CASE bundle!unloadBundle
  <2>1. Flags' /\ bundle!ValidIsDescribed'
    BY <1>0, <1>5, Zenon DEF bundle!unloadBundle, Flags, bundle!ValidIsDescribed
  <2>2. BundleType'
    BY <1>5, PartsAssumption DEF bundle!unloadBundle, BundleInv, BundleType
  <2>3. Traced'
    BY <1>5, OfIsPath DEF bundle!unloadBundle, Traced
  <2>4. QED
    BY <1>5, <2>1, <2>2, <2>3 DEF bundle!unloadBundle, BundleInv, bundle!SuccessIsOwn
<1>6. ASSUME NEW f \in Settings, bundle!loadConfiguration(f) PROVE BundleInv'
  <2>1. configuration' \subseteq configuration \cup {f}
    BY <1>6 DEF bundle!loadConfiguration
  <2>2. UNCHANGED <<path, contents, listed, info, result, loads, since>>
    BY <1>6 DEF bundle!loadConfiguration
  <2>3. Flags' /\ bundle!ValidIsDescribed'
    BY <1>0, <1>6, Zenon DEF bundle!loadConfiguration, Flags, bundle!ValidIsDescribed
  <2>4. BundleType' /\ Traced'
    BY <2>1, <2>2 DEF BundleInv, BundleType, Traced
  <2>5. QED
    BY <2>2, <2>3, <2>4 DEF BundleInv, bundle!SuccessIsOwn
<1>7. QED
  BY <1>1, <1>2, <1>3, <1>4, <1>5, <1>6 DEF bundle!Next, bundle!loadBundle

LEMMA BundleKept == BundleInv /\ UNCHANGED bundleVars => BundleInv'
<1> SUFFICES ASSUME BundleInv, UNCHANGED bundleVars PROVE BundleInv'
  OBVIOUS
<1>1. UNCHANGED <<path, contents, listed, info, configuration, valid, result, loads,
                  since, assigned>>
  BY DEF bundleVars
<1>2. bundle!ValidIsDescribed' /\ Flags'
  BY <1>1, Zenon DEF BundleInv, bundle!ValidIsDescribed, Flags
<1>3. QED
  BY <1>1, <1>2 DEF BundleInv, BundleType, Traced, bundle!SuccessIsOwn

-----------------------------------------------------------------------------
(* Pins: the arithmetic of the fields.  A word is cut at the field into    *)
(* what is above, in and below it.                                         *)

\* Powers of two up to the width of a word.
LEMMA Powers ==
    /\ 2^0 = 1 /\ 2^1 = 2 /\ 2^2 = 4 /\ 2^3 = 8 /\ 2^6 = 64 /\ 2^9 = 512 /\ 2^10 = 1024
    /\ 2^12 = 4096
  OBVIOUS

\* What the fields are.
Cut(w) ==
    /\ tlmm!Get(w, tlmm!FUNC) = (w \div 4) % 8 /\ tlmm!Get(w, tlmm!DRV) = (w \div 64) % 8
    /\ tlmm!Get(w, tlmm!OE) = (w \div 512) % 2 /\ tlmm!Get(w, tlmm!PULL) = (w \div 1024) % 4
    /\ tlmm!Get(w, tlmm!LEVEL) = (w \div 1) % 2

PutCut(w, v) ==
    /\ tlmm!Put(w, tlmm!FUNC, v) = w - ((w \div 4) % 8) * 4 + (v % 8) * 4
    /\ tlmm!Put(w, tlmm!DRV, v) = w - ((w \div 64) % 8) * 64 + (v % 8) * 64
    /\ tlmm!Put(w, tlmm!OE, v) = w - ((w \div 512) % 2) * 512 + (v % 2) * 512
    /\ tlmm!Put(w, tlmm!PULL, v) = w - ((w \div 1024) % 4) * 1024 + (v % 4) * 1024
    /\ tlmm!Put(w, tlmm!LEVEL, v) = w - ((w \div 1) % 2) * 1 + (v % 2) * 1

LEMMA CutFacts == ASSUME NEW w \in tlmm!Words PROVE Cut(w)
<1> USE DEF tlmm!Get, tlmm!FUNC, tlmm!DRV, tlmm!OE, tlmm!PULL, tlmm!LEVEL
<1>1. tlmm!Get(w, tlmm!FUNC) = (w \div 4) % 8 /\ tlmm!Get(w, tlmm!DRV) = (w \div 64) % 8
  BY Powers
<1>2. tlmm!Get(w, tlmm!OE) = (w \div 512) % 2 /\ tlmm!Get(w, tlmm!PULL) = (w \div 1024) % 4
  BY Powers
<1>3. tlmm!Get(w, tlmm!LEVEL) = (w \div 1) % 2
  BY Powers
<1>4. QED
  BY <1>1, <1>2, <1>3 DEF Cut

LEMMA PutCutFacts == ASSUME NEW w \in tlmm!Words, NEW v \in Nat PROVE PutCut(w, v)
<1> USE DEF tlmm!Get, tlmm!Put, tlmm!FUNC, tlmm!DRV, tlmm!OE, tlmm!PULL, tlmm!LEVEL
<1>1. /\ tlmm!Put(w, tlmm!FUNC, v) = w - ((w \div 4) % 8) * 4 + (v % 8) * 4
      /\ tlmm!Put(w, tlmm!DRV, v) = w - ((w \div 64) % 8) * 64 + (v % 8) * 64
  BY Powers
<1>2. /\ tlmm!Put(w, tlmm!OE, v) = w - ((w \div 512) % 2) * 512 + (v % 2) * 512
      /\ tlmm!Put(w, tlmm!PULL, v) = w - ((w \div 1024) % 4) * 1024 + (v % 4) * 1024
  BY Powers
<1>3. tlmm!Put(w, tlmm!LEVEL, v) = w - ((w \div 1) % 2) * 1 + (v % 2) * 1
  BY Powers
<1>4. QED
  BY <1>1, <1>2, <1>3 DEF PutCut

\* The fields of a register are disjoint: to write one keeps the others.
PutOk(w, f, v) ==
    /\ tlmm!Put(w, f, v) \in tlmm!Words
    /\ tlmm!Get(tlmm!Put(w, f, v), f) = v % 2^f.width
    /\ \A g \in tlmm!Fields : g # f /\ g.of = f.of =>
          tlmm!Get(tlmm!Put(w, f, v), g) = tlmm!Get(w, g)

\* p is w with x as its function.
OnlyFUNC(p, w, x) ==
    /\ p \in 0..4095 /\ (p \div 4) % 8 = x
    /\ (p \div 64) % 8 = (w \div 64) % 8
    /\ (p \div 512) % 2 = (w \div 512) % 2
    /\ (p \div 1024) % 4 = (w \div 1024) % 4

\* The same of a word with h above the field, m in it and l below it.
JoinedFUNC(h, m, x, l) == OnlyFUNC(32 * h + 4 * x + l, 32 * h + 4 * m + l, x)

SplitFUNC(h, m, x, l) == h \in 0..127 /\ m \in 0..7 /\ x \in 0..7 /\ l \in 0..3

LEMMA JoinFUNC == \A h, m, x, l : SplitFUNC(h, m, x, l) => JoinedFUNC(h, m, x, l)
<1> SUFFICES ASSUME NEW h, NEW m, NEW x, NEW l, SplitFUNC(h, m, x, l)
             PROVE  JoinedFUNC(h, m, x, l)
  OBVIOUS
<1> h \in 0..127 /\ m \in 0..7 /\ x \in 0..7 /\ l \in 0..3
  BY DEF SplitFUNC
<1> SUFFICES ASSUME NEW w, w = 32 * h + 4 * m + l, NEW p, p = 32 * h + 4 * x + l
             PROVE  OnlyFUNC(p, w, x)
  BY DEF JoinedFUNC
<1>1. p \in 0..4095
  OBVIOUS
<1>2. (p \div 4) % 8 = x
  <2>1. p \div 4 = 8 * h + x
    OBVIOUS
  <2>2. (8 * h + x) % 8 = x
    OBVIOUS
  <2>3. QED
    BY <2>1, <2>2
<1>3. (p \div 64) % 8 = (w \div 64) % 8
  <2>1. p \div 64 = w \div 64
    OBVIOUS
  <2>2. QED
    BY <2>1
<1>4. (p \div 512) % 2 = (w \div 512) % 2
  <2>1. p \div 512 = w \div 512
    OBVIOUS
  <2>2. QED
    BY <2>1
<1>5. (p \div 1024) % 4 = (w \div 1024) % 4
  <2>1. p \div 1024 = w \div 1024
    OBVIOUS
  <2>2. QED
    BY <2>1
<1>6. QED
  BY Zenon, <1>1, <1>2, <1>3, <1>4, <1>5 DEF OnlyFUNC

\* What a setter makes of the function.
LEMMA PutFUNC ==
    ASSUME NEW w \in tlmm!Words, NEW v \in Nat
    PROVE  PutOk(w, tlmm!FUNC, v)
<1> DEFINE p == tlmm!Put(w, tlmm!FUNC, v)
<1>1. w \in 0..4095 /\ Cut(w) /\ PutCut(w, v)
  BY Powers, CutFacts, PutCutFacts DEF tlmm!Words, tlmm!Width
<1>2. PICK q \in 0..1023, l \in 0..3 : w = 4 * q + l
  BY <1>1
<1>3. PICK h \in 0..127, m \in 0..7 : q = 8 * h + m
  OBVIOUS
<1>4. PICK x \in 0..7 : x = v % 8
  OBVIOUS
<1>5. w = 32 * h + 4 * m + l
  BY <1>2, <1>3
<1>6. p = 32 * h + 4 * x + l
  <2>1. w \div 4 = q
    BY <1>2
  <2>2. q % 8 = m
    BY <1>3
  <2>3. p = w - ((w \div 4) % 8) * 4 + (v % 8) * 4
    BY <1>1 DEF PutCut
  <2>4. p = w - m * 4 + x * 4
    BY <1>4, <2>1, <2>2, <2>3
  <2>5. QED
    BY <1>5, <2>4
<1>7. OnlyFUNC(p, w, x)
  <2>1. SplitFUNC(h, m, x, l)
    BY DEF SplitFUNC
  <2>2. JoinedFUNC(h, m, x, l)
    BY <2>1, JoinFUNC
  <2>3. QED
    BY <1>5, <1>6, <2>2 DEF JoinedFUNC
<1> HIDE DEF p
<1>8. p \in tlmm!Words /\ Cut(p)
  BY <1>7, Powers, CutFacts DEF OnlyFUNC, tlmm!Words, tlmm!Width
<1>9. tlmm!Get(p, tlmm!FUNC) = v % 2^tlmm!FUNC.width
  <2>1. 2^tlmm!FUNC.width = 8
    BY Powers DEF tlmm!FUNC
  <2>2. QED
    BY <1>4, <1>7, <1>8, <2>1 DEF OnlyFUNC, Cut
<1>10. tlmm!Get(p, tlmm!DRV) = tlmm!Get(w, tlmm!DRV)
  BY <1>1, <1>7, <1>8 DEF OnlyFUNC, Cut
<1>11. tlmm!Get(p, tlmm!OE) = tlmm!Get(w, tlmm!OE)
  BY <1>1, <1>7, <1>8 DEF OnlyFUNC, Cut
<1>12. tlmm!Get(p, tlmm!PULL) = tlmm!Get(w, tlmm!PULL)
  BY <1>1, <1>7, <1>8 DEF OnlyFUNC, Cut
<1>13. tlmm!LEVEL.of # tlmm!FUNC.of
  BY DEF tlmm!LEVEL, tlmm!FUNC
<1>14. QED
  BY <1>8, <1>9, <1>10, <1>11, <1>12, <1>13 DEF PutOk, p, tlmm!Fields

\* p is w with x as its drive strength.
OnlyDRV(p, w, x) ==
    /\ p \in 0..4095 /\ (p \div 64) % 8 = x
    /\ (p \div 4) % 8 = (w \div 4) % 8
    /\ (p \div 512) % 2 = (w \div 512) % 2
    /\ (p \div 1024) % 4 = (w \div 1024) % 4

\* The same of a word with h above the field, m in it and l below it.
JoinedDRV(h, m, x, l) == OnlyDRV(512 * h + 64 * x + l, 512 * h + 64 * m + l, x)

SplitDRV(h, m, x, l) == h \in 0..7 /\ m \in 0..7 /\ x \in 0..7 /\ l \in 0..63

LEMMA JoinDRV == \A h, m, x, l : SplitDRV(h, m, x, l) => JoinedDRV(h, m, x, l)
<1> SUFFICES ASSUME NEW h, NEW m, NEW x, NEW l, SplitDRV(h, m, x, l)
             PROVE  JoinedDRV(h, m, x, l)
  OBVIOUS
<1> h \in 0..7 /\ m \in 0..7 /\ x \in 0..7 /\ l \in 0..63
  BY DEF SplitDRV
<1> SUFFICES ASSUME NEW w, w = 512 * h + 64 * m + l, NEW p, p = 512 * h + 64 * x + l
             PROVE  OnlyDRV(p, w, x)
  BY DEF JoinedDRV
<1>1. p \in 0..4095
  OBVIOUS
<1>2. (p \div 64) % 8 = x
  <2>1. p \div 64 = 8 * h + x
    OBVIOUS
  <2>2. (8 * h + x) % 8 = x
    OBVIOUS
  <2>3. QED
    BY <2>1, <2>2
<1>3. (p \div 4) % 8 = (w \div 4) % 8
  <2>1. PICK a \in 0..15, r \in 0..3 : l = 4 * a + r
    OBVIOUS
  <2>2. p \div 4 = 128 * h + 16 * x + a
    BY <2>1
  <2>3. w \div 4 = 128 * h + 16 * m + a
    BY <2>1
  <2>4. (128 * h + 16 * x + a) % 8 = a % 8
    OBVIOUS
  <2>5. (128 * h + 16 * m + a) % 8 = a % 8
    OBVIOUS
  <2>6. QED
    BY <2>2, <2>3, <2>4, <2>5
<1>4. (p \div 512) % 2 = (w \div 512) % 2
  <2>1. p \div 512 = w \div 512
    OBVIOUS
  <2>2. QED
    BY <2>1
<1>5. (p \div 1024) % 4 = (w \div 1024) % 4
  <2>1. p \div 1024 = w \div 1024
    OBVIOUS
  <2>2. QED
    BY <2>1
<1>6. QED
  BY Zenon, <1>1, <1>2, <1>3, <1>4, <1>5 DEF OnlyDRV

\* What a setter makes of the drive strength.
LEMMA PutDRV ==
    ASSUME NEW w \in tlmm!Words, NEW v \in Nat
    PROVE  PutOk(w, tlmm!DRV, v)
<1> DEFINE p == tlmm!Put(w, tlmm!DRV, v)
<1>1. w \in 0..4095 /\ Cut(w) /\ PutCut(w, v)
  BY Powers, CutFacts, PutCutFacts DEF tlmm!Words, tlmm!Width
<1>2. PICK q \in 0..63, l \in 0..63 : w = 64 * q + l
  BY <1>1
<1>3. PICK h \in 0..7, m \in 0..7 : q = 8 * h + m
  OBVIOUS
<1>4. PICK x \in 0..7 : x = v % 8
  OBVIOUS
<1>5. w = 512 * h + 64 * m + l
  BY <1>2, <1>3
<1>6. p = 512 * h + 64 * x + l
  <2>1. w \div 64 = q
    BY <1>2
  <2>2. q % 8 = m
    BY <1>3
  <2>3. p = w - ((w \div 64) % 8) * 64 + (v % 8) * 64
    BY <1>1 DEF PutCut
  <2>4. p = w - m * 64 + x * 64
    BY <1>4, <2>1, <2>2, <2>3
  <2>5. QED
    BY <1>5, <2>4
<1>7. OnlyDRV(p, w, x)
  <2>1. SplitDRV(h, m, x, l)
    BY DEF SplitDRV
  <2>2. JoinedDRV(h, m, x, l)
    BY <2>1, JoinDRV
  <2>3. QED
    BY <1>5, <1>6, <2>2 DEF JoinedDRV
<1> HIDE DEF p
<1>8. p \in tlmm!Words /\ Cut(p)
  BY <1>7, Powers, CutFacts DEF OnlyDRV, tlmm!Words, tlmm!Width
<1>9. tlmm!Get(p, tlmm!DRV) = v % 2^tlmm!DRV.width
  <2>1. 2^tlmm!DRV.width = 8
    BY Powers DEF tlmm!DRV
  <2>2. QED
    BY <1>4, <1>7, <1>8, <2>1 DEF OnlyDRV, Cut
<1>10. tlmm!Get(p, tlmm!FUNC) = tlmm!Get(w, tlmm!FUNC)
  BY <1>1, <1>7, <1>8 DEF OnlyDRV, Cut
<1>11. tlmm!Get(p, tlmm!OE) = tlmm!Get(w, tlmm!OE)
  BY <1>1, <1>7, <1>8 DEF OnlyDRV, Cut
<1>12. tlmm!Get(p, tlmm!PULL) = tlmm!Get(w, tlmm!PULL)
  BY <1>1, <1>7, <1>8 DEF OnlyDRV, Cut
<1>13. tlmm!LEVEL.of # tlmm!DRV.of
  BY DEF tlmm!LEVEL, tlmm!DRV
<1>14. QED
  BY <1>8, <1>9, <1>10, <1>11, <1>12, <1>13 DEF PutOk, p, tlmm!Fields

\* p is w with x as its output enable.
OnlyOE(p, w, x) ==
    /\ p \in 0..4095 /\ (p \div 512) % 2 = x
    /\ (p \div 4) % 8 = (w \div 4) % 8
    /\ (p \div 64) % 8 = (w \div 64) % 8
    /\ (p \div 1024) % 4 = (w \div 1024) % 4

\* The same of a word with h above the field, m in it and l below it.
JoinedOE(h, m, x, l) == OnlyOE(1024 * h + 512 * x + l, 1024 * h + 512 * m + l, x)

SplitOE(h, m, x, l) == h \in 0..3 /\ m \in 0..1 /\ x \in 0..1 /\ l \in 0..511

LEMMA JoinOE == \A h, m, x, l : SplitOE(h, m, x, l) => JoinedOE(h, m, x, l)
<1> SUFFICES ASSUME NEW h, NEW m, NEW x, NEW l, SplitOE(h, m, x, l)
             PROVE  JoinedOE(h, m, x, l)
  OBVIOUS
<1> h \in 0..3 /\ m \in 0..1 /\ x \in 0..1 /\ l \in 0..511
  BY DEF SplitOE
<1> SUFFICES ASSUME NEW w, w = 1024 * h + 512 * m + l, NEW p, p = 1024 * h + 512 * x + l
             PROVE  OnlyOE(p, w, x)
  BY DEF JoinedOE
<1>1. p \in 0..4095
  OBVIOUS
<1>2. (p \div 512) % 2 = x
  <2>1. p \div 512 = 2 * h + x
    OBVIOUS
  <2>2. (2 * h + x) % 2 = x
    OBVIOUS
  <2>3. QED
    BY <2>1, <2>2
<1>3. (p \div 4) % 8 = (w \div 4) % 8
  <2>1. PICK a \in 0..127, r \in 0..3 : l = 4 * a + r
    OBVIOUS
  <2>2. p \div 4 = 256 * h + 128 * x + a
    BY <2>1
  <2>3. w \div 4 = 256 * h + 128 * m + a
    BY <2>1
  <2>4. (256 * h + 128 * x + a) % 8 = a % 8
    OBVIOUS
  <2>5. (256 * h + 128 * m + a) % 8 = a % 8
    OBVIOUS
  <2>6. QED
    BY <2>2, <2>3, <2>4, <2>5
<1>4. (p \div 64) % 8 = (w \div 64) % 8
  <2>1. PICK a \in 0..7, r \in 0..63 : l = 64 * a + r
    OBVIOUS
  <2>2. p \div 64 = 16 * h + 8 * x + a
    BY <2>1
  <2>3. w \div 64 = 16 * h + 8 * m + a
    BY <2>1
  <2>4. (16 * h + 8 * x + a) % 8 = a % 8
    OBVIOUS
  <2>5. (16 * h + 8 * m + a) % 8 = a % 8
    OBVIOUS
  <2>6. QED
    BY <2>2, <2>3, <2>4, <2>5
<1>5. (p \div 1024) % 4 = (w \div 1024) % 4
  <2>1. p \div 1024 = w \div 1024
    OBVIOUS
  <2>2. QED
    BY <2>1
<1>6. QED
  BY Zenon, <1>1, <1>2, <1>3, <1>4, <1>5 DEF OnlyOE

\* What a setter makes of the output enable.
LEMMA PutOE ==
    ASSUME NEW w \in tlmm!Words, NEW v \in Nat
    PROVE  PutOk(w, tlmm!OE, v)
<1> DEFINE p == tlmm!Put(w, tlmm!OE, v)
<1>1. w \in 0..4095 /\ Cut(w) /\ PutCut(w, v)
  BY Powers, CutFacts, PutCutFacts DEF tlmm!Words, tlmm!Width
<1>2. PICK q \in 0..7, l \in 0..511 : w = 512 * q + l
  BY <1>1
<1>3. PICK h \in 0..3, m \in 0..1 : q = 2 * h + m
  OBVIOUS
<1>4. PICK x \in 0..1 : x = v % 2
  OBVIOUS
<1>5. w = 1024 * h + 512 * m + l
  BY <1>2, <1>3
<1>6. p = 1024 * h + 512 * x + l
  <2>1. w \div 512 = q
    BY <1>2
  <2>2. q % 2 = m
    BY <1>3
  <2>3. p = w - ((w \div 512) % 2) * 512 + (v % 2) * 512
    BY <1>1 DEF PutCut
  <2>4. p = w - m * 512 + x * 512
    BY <1>4, <2>1, <2>2, <2>3
  <2>5. QED
    BY <1>5, <2>4
<1>7. OnlyOE(p, w, x)
  <2>1. SplitOE(h, m, x, l)
    BY DEF SplitOE
  <2>2. JoinedOE(h, m, x, l)
    BY <2>1, JoinOE
  <2>3. QED
    BY <1>5, <1>6, <2>2 DEF JoinedOE
<1> HIDE DEF p
<1>8. p \in tlmm!Words /\ Cut(p)
  BY <1>7, Powers, CutFacts DEF OnlyOE, tlmm!Words, tlmm!Width
<1>9. tlmm!Get(p, tlmm!OE) = v % 2^tlmm!OE.width
  <2>1. 2^tlmm!OE.width = 2
    BY Powers DEF tlmm!OE
  <2>2. QED
    BY <1>4, <1>7, <1>8, <2>1 DEF OnlyOE, Cut
<1>10. tlmm!Get(p, tlmm!FUNC) = tlmm!Get(w, tlmm!FUNC)
  BY <1>1, <1>7, <1>8 DEF OnlyOE, Cut
<1>11. tlmm!Get(p, tlmm!DRV) = tlmm!Get(w, tlmm!DRV)
  BY <1>1, <1>7, <1>8 DEF OnlyOE, Cut
<1>12. tlmm!Get(p, tlmm!PULL) = tlmm!Get(w, tlmm!PULL)
  BY <1>1, <1>7, <1>8 DEF OnlyOE, Cut
<1>13. tlmm!LEVEL.of # tlmm!OE.of
  BY DEF tlmm!LEVEL, tlmm!OE
<1>14. QED
  BY <1>8, <1>9, <1>10, <1>11, <1>12, <1>13 DEF PutOk, p, tlmm!Fields

\* p is w with x as its pull.
OnlyPULL(p, w, x) ==
    /\ p \in 0..4095 /\ (p \div 1024) % 4 = x
    /\ (p \div 4) % 8 = (w \div 4) % 8
    /\ (p \div 64) % 8 = (w \div 64) % 8
    /\ (p \div 512) % 2 = (w \div 512) % 2

\* The same of a word with h above the field, m in it and l below it.
JoinedPULL(h, m, x, l) == OnlyPULL(4096 * h + 1024 * x + l, 4096 * h + 1024 * m + l, x)

SplitPULL(h, m, x, l) == h \in {0} /\ m \in 0..3 /\ x \in 0..3 /\ l \in 0..1023

LEMMA JoinPULL == \A h, m, x, l : SplitPULL(h, m, x, l) => JoinedPULL(h, m, x, l)
<1> SUFFICES ASSUME NEW h, NEW m, NEW x, NEW l, SplitPULL(h, m, x, l)
             PROVE  JoinedPULL(h, m, x, l)
  OBVIOUS
<1> h \in {0} /\ m \in 0..3 /\ x \in 0..3 /\ l \in 0..1023
  BY DEF SplitPULL
<1> SUFFICES ASSUME NEW w, w = 4096 * h + 1024 * m + l, NEW p, p = 4096 * h + 1024 * x + l
             PROVE  OnlyPULL(p, w, x)
  BY DEF JoinedPULL
<1>1. p \in 0..4095
  OBVIOUS
<1>2. (p \div 1024) % 4 = x
  <2>1. p \div 1024 = 4 * h + x
    OBVIOUS
  <2>2. (4 * h + x) % 4 = x
    OBVIOUS
  <2>3. QED
    BY <2>1, <2>2
<1>3. (p \div 4) % 8 = (w \div 4) % 8
  <2>1. PICK a \in 0..255, r \in 0..3 : l = 4 * a + r
    OBVIOUS
  <2>2. p \div 4 = 1024 * h + 256 * x + a
    BY <2>1
  <2>3. w \div 4 = 1024 * h + 256 * m + a
    BY <2>1
  <2>4. (1024 * h + 256 * x + a) % 8 = a % 8
    OBVIOUS
  <2>5. (1024 * h + 256 * m + a) % 8 = a % 8
    OBVIOUS
  <2>6. QED
    BY <2>2, <2>3, <2>4, <2>5
<1>4. (p \div 64) % 8 = (w \div 64) % 8
  <2>1. PICK a \in 0..15, r \in 0..63 : l = 64 * a + r
    OBVIOUS
  <2>2. p \div 64 = 64 * h + 16 * x + a
    BY <2>1
  <2>3. w \div 64 = 64 * h + 16 * m + a
    BY <2>1
  <2>4. (64 * h + 16 * x + a) % 8 = a % 8
    OBVIOUS
  <2>5. (64 * h + 16 * m + a) % 8 = a % 8
    OBVIOUS
  <2>6. QED
    BY <2>2, <2>3, <2>4, <2>5
<1>5. (p \div 512) % 2 = (w \div 512) % 2
  <2>1. PICK a \in 0..1, r \in 0..511 : l = 512 * a + r
    OBVIOUS
  <2>2. p \div 512 = 8 * h + 2 * x + a
    BY <2>1
  <2>3. w \div 512 = 8 * h + 2 * m + a
    BY <2>1
  <2>4. (8 * h + 2 * x + a) % 2 = a % 2
    OBVIOUS
  <2>5. (8 * h + 2 * m + a) % 2 = a % 2
    OBVIOUS
  <2>6. QED
    BY <2>2, <2>3, <2>4, <2>5
<1>6. QED
  BY Zenon, <1>1, <1>2, <1>3, <1>4, <1>5 DEF OnlyPULL

\* What a setter makes of the pull.
LEMMA PutPULL ==
    ASSUME NEW w \in tlmm!Words, NEW v \in Nat
    PROVE  PutOk(w, tlmm!PULL, v)
<1> DEFINE p == tlmm!Put(w, tlmm!PULL, v)
<1>1. w \in 0..4095 /\ Cut(w) /\ PutCut(w, v)
  BY Powers, CutFacts, PutCutFacts DEF tlmm!Words, tlmm!Width
<1>2. PICK q \in 0..3, l \in 0..1023 : w = 1024 * q + l
  BY <1>1
<1>3. PICK h \in {0}, m \in 0..3 : q = 4 * h + m
  OBVIOUS
<1>4. PICK x \in 0..3 : x = v % 4
  OBVIOUS
<1>5. w = 4096 * h + 1024 * m + l
  BY <1>2, <1>3
<1>6. p = 4096 * h + 1024 * x + l
  <2>1. w \div 1024 = q
    BY <1>2
  <2>2. q % 4 = m
    BY <1>3
  <2>3. p = w - ((w \div 1024) % 4) * 1024 + (v % 4) * 1024
    BY <1>1 DEF PutCut
  <2>4. p = w - m * 1024 + x * 1024
    BY <1>4, <2>1, <2>2, <2>3
  <2>5. QED
    BY <1>5, <2>4
<1>7. OnlyPULL(p, w, x)
  <2>1. SplitPULL(h, m, x, l)
    BY DEF SplitPULL
  <2>2. JoinedPULL(h, m, x, l)
    BY <2>1, JoinPULL
  <2>3. QED
    BY <1>5, <1>6, <2>2 DEF JoinedPULL
<1> HIDE DEF p
<1>8. p \in tlmm!Words /\ Cut(p)
  BY <1>7, Powers, CutFacts DEF OnlyPULL, tlmm!Words, tlmm!Width
<1>9. tlmm!Get(p, tlmm!PULL) = v % 2^tlmm!PULL.width
  <2>1. 2^tlmm!PULL.width = 4
    BY Powers DEF tlmm!PULL
  <2>2. QED
    BY <1>4, <1>7, <1>8, <2>1 DEF OnlyPULL, Cut
<1>10. tlmm!Get(p, tlmm!FUNC) = tlmm!Get(w, tlmm!FUNC)
  BY <1>1, <1>7, <1>8 DEF OnlyPULL, Cut
<1>11. tlmm!Get(p, tlmm!DRV) = tlmm!Get(w, tlmm!DRV)
  BY <1>1, <1>7, <1>8 DEF OnlyPULL, Cut
<1>12. tlmm!Get(p, tlmm!OE) = tlmm!Get(w, tlmm!OE)
  BY <1>1, <1>7, <1>8 DEF OnlyPULL, Cut
<1>13. tlmm!LEVEL.of # tlmm!PULL.of
  BY DEF tlmm!LEVEL, tlmm!PULL
<1>14. QED
  BY <1>8, <1>9, <1>10, <1>11, <1>12, <1>13 DEF PutOk, p, tlmm!Fields

\* What gpioSet makes of the level.
LEMMA PutLEVEL ==
    ASSUME NEW w \in tlmm!Words, NEW v \in Nat
    PROVE  PutOk(w, tlmm!LEVEL, v)
<1> DEFINE p == tlmm!Put(w, tlmm!LEVEL, v)
<1>1. w \in 0..4095 /\ PutCut(w, v)
  BY Powers, PutCutFacts DEF tlmm!Words, tlmm!Width
<1>2. PICK h \in 0..2047, m \in 0..1 : w = 2 * h + m
  BY <1>1
<1>3. PICK x \in 0..1 : x = v % 2
  OBVIOUS
<1>4. p = 2 * h + x
  <2>1. w \div 1 = w
    BY <1>1
  <2>2. w % 2 = m
    BY <1>2
  <2>3. p = w - ((w \div 1) % 2) * 1 + (v % 2) * 1
    BY <1>1 DEF PutCut
  <2>4. QED
    BY <1>2, <1>3, <2>1, <2>2, <2>3
<1> HIDE DEF p
<1>5. p \in 0..4095 /\ p \div 1 = p
  BY <1>4
<1>6. p % 2 = x
  BY <1>4
<1>7. p \in tlmm!Words /\ Cut(p)
  BY <1>5, Powers, CutFacts DEF tlmm!Words, tlmm!Width
<1>8. tlmm!Get(p, tlmm!LEVEL) = v % 2^tlmm!LEVEL.width
  <2>1. 2^tlmm!LEVEL.width = 2
    BY Powers DEF tlmm!LEVEL
  <2>2. QED
    BY <1>3, <1>5, <1>6, <1>7, <2>1 DEF Cut
<1>9. \A g \in tlmm!Fields : g # tlmm!LEVEL => g.of # tlmm!LEVEL.of
  BY DEF tlmm!Fields, tlmm!LEVEL, tlmm!FUNC, tlmm!DRV, tlmm!OE, tlmm!PULL
<1>10. QED
  BY <1>7, <1>8, <1>9 DEF PutOk, p

\* A setter changes its field, to the value cut to its width, and no other.
LEMMA PutFacts ==
    ASSUME NEW w \in tlmm!Words, NEW f \in tlmm!Fields, NEW v \in Nat
    PROVE  PutOk(w, f, v)
  BY PutFUNC, PutDRV, PutOE, PutPULL, PutLEVEL DEF tlmm!Fields

-----------------------------------------------------------------------------
(* Pins: the invariant.                                                    *)

\* A thread in a setter has a pin that there is; start works on one.
InRange ==
    /\ \A t \in Threads : job[t] # tlmm!NoJob => job[t].pin \in tlmm!Pins
    /\ bootRead # tlmm!NoWord => booting \in tlmm!Pins

\* Two threads in setters of one register are known to be.
Apart ==
    \A t, u \in Threads :
        t # u /\ job[t] # tlmm!NoJob /\ job[u] # tlmm!NoJob
              /\ tlmm!Register(job[t]) = tlmm!Register(job[u])
            => tlmm!Register(job[t]) \in mixed

\* A pin that start has yet to go through, and that nobody was too early for, is as
\* the firmware left it, and no thread is changing it.
Ahead ==
    \A p \in tlmm!Pins : booting <= p /\ <<"cfg", p>> \notin mixed =>
        /\ \A f \in tlmm!Fields : f.of = "cfg" => asked[<<p, f>>] = tlmm!NoWord
        /\ \A t \in Threads : job[t] # tlmm!NoJob => tlmm!Register(job[t]) # <<"cfg", p>>

PinsInv ==
    /\ tlmm!TypeOK /\ InRange /\ Apart /\ Ahead
    /\ tlmm!FieldsAsAsked /\ tlmm!ReadIsFresh

LEMMA PinsInit == tlmm!Init => PinsInv
<1> SUFFICES ASSUME tlmm!Init PROVE PinsInv
  OBVIOUS
<1> USE DEF tlmm!Init
<1>1. 0 \in tlmm!Words
  BY Powers DEF tlmm!Words, tlmm!Width
<1>2. tword \in [tlmm!Registers -> tlmm!Words]
  BY PartsAssumption
<1>3. tlmm!TypeOK
  BY <1>1, <1>2, PartsAssumption DEF tlmm!TypeOK
<1>4. InRange /\ Apart /\ tlmm!ReadIsFresh
  BY DEF InRange, Apart, tlmm!ReadIsFresh
<1>5. \A p \in tlmm!Pins, f \in tlmm!Fields : asked[<<p, f>>] = tlmm!NoWord
  OBVIOUS
<1>6. Ahead
  BY <1>5 DEF Ahead
<1>7. tlmm!FieldsAsAsked
  BY DEF tlmm!FieldsAsAsked
<1>8. QED
  BY <1>3, <1>4, <1>6, <1>7 DEF PinsInv

\* The register of a setter is one.
LEMMA JobFacts ==
    ASSUME PinsInv, NEW t \in Threads, job[t] # tlmm!NoJob
    PROVE  /\ job[t] \in tlmm!Jobs /\ job[t].pin \in tlmm!Pins
           /\ job[t].field \in tlmm!Fields /\ job[t].value \in Nat
           /\ tlmm!Register(job[t]) \in tlmm!Registers
           /\ tlmm!Register(job[t]) = <<job[t].field.of, job[t].pin>>
<1>1. job[t] \in tlmm!Jobs /\ job[t].pin \in tlmm!Pins
  BY DEF PinsInv, tlmm!TypeOK, InRange
<1>2. job[t].field \in tlmm!Fields /\ job[t].value \in Nat
  BY <1>1 DEF tlmm!Jobs
<1>3. \A f \in tlmm!Fields : f.of \in {"cfg", "io"}
  BY DEF tlmm!Fields, tlmm!FUNC, tlmm!DRV, tlmm!OE, tlmm!PULL, tlmm!LEVEL
<1>4. QED
  BY <1>1, <1>2, <1>3 DEF tlmm!Register, tlmm!Registers

LEMMA PublishPins == ASSUME PinsInv, tlmm!Publish PROVE PinsInv'
<1>1. booting = -1 /\ booting' = 0 /\ UNCHANGED <<tword, job, got, bootRead, asked, mixed>>
  BY DEF tlmm!Publish
<1>2. tlmm!TypeOK'
  BY <1>1, PartsAssumption DEF PinsInv, tlmm!TypeOK
<1>3. InRange'
  BY <1>1 DEF PinsInv, InRange, tlmm!Pins
<1>4. Apart' /\ tlmm!FieldsAsAsked' /\ tlmm!ReadIsFresh'
  BY <1>1 DEF PinsInv, Apart, tlmm!FieldsAsAsked, tlmm!ReadIsFresh
<1>5. Ahead'
  <2>1. \A p \in tlmm!Pins : booting <= p
    BY <1>1 DEF tlmm!Pins
  <2>2. QED
    BY <1>1, <2>1 DEF PinsInv, Ahead
<1>6. QED
  BY <1>2, <1>3, <1>4, <1>5 DEF PinsInv

LEMMA BootReadPins == ASSUME PinsInv, tlmm!BootRead PROVE PinsInv'
<1>1. booting \in tlmm!Pins /\ bootRead' = tword[<<"cfg", booting>>]
      /\ UNCHANGED <<tword, job, got, booting, asked, mixed>>
  BY DEF tlmm!BootRead
<1>2. <<"cfg", booting>> \in tlmm!Registers
  BY <1>1 DEF tlmm!Registers
<1>3. tlmm!TypeOK'
  BY <1>1, <1>2 DEF PinsInv, tlmm!TypeOK
<1>4. InRange' /\ Apart' /\ Ahead'
  BY <1>1 DEF PinsInv, InRange, Apart, Ahead
<1>5. tlmm!FieldsAsAsked' /\ tlmm!ReadIsFresh'
  BY <1>1 DEF PinsInv, tlmm!FieldsAsAsked, tlmm!ReadIsFresh
<1>6. QED
  BY <1>3, <1>4, <1>5 DEF PinsInv

\* What start writes.
LEMMA BootWord ==
    ASSUME NEW w \in tlmm!Words
    PROVE  LET p == tlmm!Put(tlmm!Put(w, tlmm!PULL, 0), tlmm!FUNC, 0)
           IN  p \in tlmm!Words /\ tlmm!Get(p, tlmm!PULL) = 0 /\ tlmm!Get(p, tlmm!FUNC) = 0
<1> DEFINE q == tlmm!Put(w, tlmm!PULL, 0)
<1> DEFINE p == tlmm!Put(q, tlmm!FUNC, 0)
<1>1. tlmm!PULL \in tlmm!Fields /\ tlmm!FUNC \in tlmm!Fields
  BY DEF tlmm!Fields
<1>2. q \in tlmm!Words /\ tlmm!Get(q, tlmm!PULL) = 0 % 2^tlmm!PULL.width
  BY <1>1, PutFacts DEF PutOk
<1>3. 2^tlmm!PULL.width = 4 /\ 2^tlmm!FUNC.width = 8 /\ 0 % 4 = 0 /\ 0 % 8 = 0
  BY Powers DEF tlmm!PULL, tlmm!FUNC
<1>4. tlmm!PULL # tlmm!FUNC /\ tlmm!PULL.of = tlmm!FUNC.of
  BY DEF tlmm!PULL, tlmm!FUNC
<1> HIDE DEF q
<1>5. PutOk(q, tlmm!FUNC, 0)
  BY <1>1, <1>2, PutFacts
<1>6. p \in tlmm!Words /\ tlmm!Get(p, tlmm!FUNC) = 0
      /\ tlmm!Get(p, tlmm!PULL) = tlmm!Get(q, tlmm!PULL)
  BY <1>1, <1>3, <1>4, <1>5 DEF PutOk
<1>7. QED
  BY <1>2, <1>3, <1>6 DEF q

LEMMA BootWritePins == ASSUME PinsInv, tlmm!BootWrite PROVE PinsInv'
<1> DEFINE new == tlmm!Put(tlmm!Put(bootRead, tlmm!PULL, 0), tlmm!FUNC, 0)
<1> DEFINE r == <<"cfg", booting>>
<1>1. /\ bootRead # tlmm!NoWord /\ booting \in tlmm!Pins /\ bootRead \in tlmm!Words
      /\ tword' = [tword EXCEPT ![r] = new]
      /\ asked' = [x \in tlmm!Pins \X tlmm!Fields |->
                     IF x[1] = booting /\ x[2] \in {tlmm!PULL, tlmm!FUNC}
                        /\ asked[x] = tlmm!NoWord
                     THEN 0 ELSE asked[x]]
      /\ booting' = booting + 1 /\ bootRead' = tlmm!NoWord
      /\ UNCHANGED <<job, got, mixed>>
  BY DEF tlmm!BootWrite, PinsInv, InRange, tlmm!TypeOK
<1>2. new \in tlmm!Words /\ tlmm!Get(new, tlmm!PULL) = 0 /\ tlmm!Get(new, tlmm!FUNC) = 0
  BY <1>1, BootWord
<1> HIDE DEF new
<1>3. /\ r \in tlmm!Registers /\ booting \in Int /\ tlmm!Pins \subseteq Int
      /\ tword \in [tlmm!Registers -> tlmm!Words]
  BY <1>1, PartsAssumption DEF tlmm!Registers, tlmm!Pins, PinsInv, tlmm!TypeOK
<1>4. \A p \in tlmm!Pins, f \in tlmm!Fields :
        asked'[<<p, f>>] = IF p = booting /\ f \in {tlmm!PULL, tlmm!FUNC}
                              /\ asked[<<p, f>>] = tlmm!NoWord
                           THEN 0 ELSE asked[<<p, f>>]
  BY <1>1
<1>5. tlmm!TypeOK'
  <2>1. booting' \in -1..MaxPins
    BY <1>1, PartsAssumption DEF tlmm!Pins
  <2>2. asked' \in [tlmm!Pins \X tlmm!Fields -> Nat \cup {tlmm!NoWord}]
    BY <1>1 DEF PinsInv, tlmm!TypeOK
  <2>3. tword' \in [tlmm!Registers -> tlmm!Words]
    BY <1>1, <1>2, <1>3
  <2>4. QED
    BY <1>1, <2>1, <2>2, <2>3 DEF PinsInv, tlmm!TypeOK
<1>6. InRange' /\ Apart'
  BY <1>1 DEF PinsInv, InRange, Apart
<1>7. Ahead'
  <2> SUFFICES ASSUME NEW p \in tlmm!Pins, booting' <= p, <<"cfg", p>> \notin mixed'
               PROVE  /\ \A f \in tlmm!Fields : f.of = "cfg" => asked'[<<p, f>>] = tlmm!NoWord
                      /\ \A t \in Threads : job'[t] # tlmm!NoJob =>
                            tlmm!Register(job'[t]) # <<"cfg", p>>
    BY DEF Ahead, tlmm!Register
  <2>1. booting <= p /\ p # booting /\ <<"cfg", p>> \notin mixed
    BY <1>1, <1>3
  <2>2. \A f \in tlmm!Fields : asked'[<<p, f>>] = asked[<<p, f>>]
    BY <1>4, <2>1
  <2>3. QED
    BY <1>1, <2>1, <2>2 DEF PinsInv, Ahead
<1>8. tlmm!FieldsAsAsked'
  <2> SUFFICES ASSUME NEW p \in tlmm!Pins, NEW f \in tlmm!Fields,
                      asked'[<<p, f>>] # tlmm!NoWord, <<f.of, p>> \notin mixed'
               PROVE  tlmm!Get(tword'[<<f.of, p>>], f) = asked'[<<p, f>>]
    BY DEF tlmm!FieldsAsAsked
  <2>1. <<f.of, p>> \in tlmm!Registers /\ <<f.of, p>> \notin mixed
    <3>1. f.of \in {"cfg", "io"}
      BY DEF tlmm!Fields, tlmm!FUNC, tlmm!DRV, tlmm!OE, tlmm!PULL, tlmm!LEVEL
    <3>2. QED
      BY <1>1, <3>1 DEF tlmm!Registers
  <2>2. CASE <<f.of, p>> = r
    <3>1. p = booting /\ f.of = "cfg"
      BY <2>2
    <3>2. asked[<<p, f>>] = tlmm!NoWord
      BY <1>3, <2>1, <3>1 DEF PinsInv, Ahead
    <3>3. f \in {tlmm!PULL, tlmm!FUNC} /\ asked'[<<p, f>>] = 0
      BY <1>4, <3>1, <3>2
    <3>4. tword'[<<f.of, p>>] = new
      BY <1>1, <1>3, <2>2
    <3>5. QED
      BY <1>2, <3>3, <3>4
  <2>3. CASE <<f.of, p>> # r
    <3>1. tword'[<<f.of, p>>] = tword[<<f.of, p>>]
      BY <1>1, <1>3, <2>1, <2>3
    <3>2. asked'[<<p, f>>] = asked[<<p, f>>]
      <4>1. p = booting => f \notin {tlmm!PULL, tlmm!FUNC}
        BY <2>3 DEF tlmm!PULL, tlmm!FUNC
      <4>2. QED
        BY <1>4, <4>1
    <3>3. QED
      BY <2>1, <3>1, <3>2 DEF PinsInv, tlmm!FieldsAsAsked
  <2>4. QED
    BY <2>2, <2>3
<1>9. tlmm!ReadIsFresh'
  <2> SUFFICES ASSUME NEW t \in Threads, job[t] # tlmm!NoJob,
                      tlmm!Register(job[t]) \notin mixed
               PROVE  tword'[tlmm!Register(job[t])] = got[t]
    BY <1>1 DEF tlmm!ReadIsFresh, tlmm!Register
  <2>1. tlmm!Register(job[t]) # r
    BY <1>1, <1>3 DEF PinsInv, Ahead
  <2>2. tword'[tlmm!Register(job[t])] = tword[tlmm!Register(job[t])]
    BY <1>1, <1>3, <2>1, JobFacts
  <2>3. QED
    BY <2>2 DEF PinsInv, tlmm!ReadIsFresh
<1>10. QED
  BY <1>5, <1>6, <1>7, <1>8, <1>9 DEF PinsInv

LEMMA SetReadPins ==
    ASSUME PinsInv, NEW t \in Threads, NEW j \in Requests, tlmm!SetRead(t, j)
    PROVE  PinsInv'
<1> DEFINE r == tlmm!Register(j)
<1>1. /\ job[t] = tlmm!NoJob /\ j.pin < MaxPins
      /\ job' = [job EXCEPT ![t] = j] /\ got' = [got EXCEPT ![t] = tword[r]]
      /\ mixed' = mixed \cup {x \in {r} : tlmm!Contended(x)}
      /\ UNCHANGED <<tword, booting, bootRead, asked>>
  BY DEF tlmm!SetRead
<1>2. j \in tlmm!Jobs /\ j.pin \in tlmm!Pins /\ j.field \in tlmm!Fields
  <2>1. j \in tlmm!Jobs
    BY PartsAssumption
  <2>2. QED
    BY <1>1, <2>1, PartsAssumption DEF tlmm!Jobs, tlmm!Pins
<1>3. r \in tlmm!Registers /\ r = <<j.field.of, j.pin>>
  <2>1. \A f \in tlmm!Fields : f.of \in {"cfg", "io"}
    BY DEF tlmm!Fields, tlmm!FUNC, tlmm!DRV, tlmm!OE, tlmm!PULL, tlmm!LEVEL
  <2>2. QED
    BY <1>2, <2>1 DEF tlmm!Register, tlmm!Registers
<1>4. j # tlmm!NoJob
  <2>1. j.pin # tlmm!NoJob.pin
    BY <1>2 DEF tlmm!NoJob, tlmm!NoWord, tlmm!Pins
  <2>2. QED
    BY <2>1
<1>5. /\ job \in [Threads -> tlmm!Jobs \cup {tlmm!NoJob}] /\ got \in [Threads -> tlmm!Words]
      /\ tword \in [tlmm!Registers -> tlmm!Words] /\ mixed \subseteq tlmm!Registers
  BY DEF PinsInv, tlmm!TypeOK
<1>6. job'[t] = j /\ got'[t] = tword[r]
      /\ \A u \in Threads : u # t => job'[u] = job[u] /\ got'[u] = got[u]
  BY <1>1, <1>5
<1>7. r \notin mixed' =>
        /\ \A u \in Threads : job[u] # tlmm!NoJob => tlmm!Register(job[u]) # r
        /\ r[1] = "cfg" => ~(booting <= r[2])
  <2>1. r \notin mixed' => ~tlmm!Contended(r)
    BY <1>1
  <2>2. QED
    BY <2>1 DEF tlmm!Contended
<1>8. mixed \subseteq mixed'
  BY <1>1
<1>9. tlmm!TypeOK'
  <2>1. mixed' \subseteq tlmm!Registers
    BY <1>1, <1>3, <1>5
  <2>2. job' \in [Threads -> tlmm!Jobs \cup {tlmm!NoJob}] /\ got' \in [Threads -> tlmm!Words]
    BY <1>1, <1>2, <1>3, <1>5
  <2>3. QED
    BY <1>1, <2>1, <2>2 DEF PinsInv, tlmm!TypeOK
<1>10. InRange'
  BY <1>1, <1>2, <1>6 DEF PinsInv, InRange
<1>11. Apart'
  <2> SUFFICES ASSUME NEW u \in Threads, NEW v \in Threads, u # v,
                      job'[u] # tlmm!NoJob, job'[v] # tlmm!NoJob,
                      tlmm!Register(job'[u]) = tlmm!Register(job'[v])
               PROVE  tlmm!Register(job'[u]) \in mixed'
    BY DEF Apart, tlmm!Register
  <2>1. CASE u = t
    BY <1>6, <1>7, <2>1
  <2>2. CASE v = t
    BY <1>6, <1>7, <2>2
  <2>3. CASE u # t /\ v # t
    BY <1>6, <1>8, <2>3 DEF PinsInv, Apart
  <2>4. QED
    BY <2>1, <2>2, <2>3
<1>12. Ahead'
  <2> SUFFICES ASSUME NEW p \in tlmm!Pins, booting <= p, <<"cfg", p>> \notin mixed'
               PROVE  /\ \A f \in tlmm!Fields : f.of = "cfg" => asked[<<p, f>>] = tlmm!NoWord
                      /\ \A u \in Threads : job'[u] # tlmm!NoJob =>
                            tlmm!Register(job'[u]) # <<"cfg", p>>
    BY <1>1 DEF Ahead, tlmm!Register
  <2>1. <<"cfg", p>> \notin mixed
    BY <1>8
  <2>2. r # <<"cfg", p>>
    BY <1>7
  <2>3. QED
    BY <1>6, <2>1, <2>2 DEF PinsInv, Ahead
<1>13. tlmm!FieldsAsAsked'
  BY <1>1, <1>8 DEF PinsInv, tlmm!FieldsAsAsked
<1>14. tlmm!ReadIsFresh'
  <2> SUFFICES ASSUME NEW u \in Threads, job'[u] # tlmm!NoJob,
                      tlmm!Register(job'[u]) \notin mixed'
               PROVE  tword[tlmm!Register(job'[u])] = got'[u]
    BY <1>1 DEF tlmm!ReadIsFresh, tlmm!Register
  <2>1. CASE u = t
    BY <1>6, <2>1
  <2>2. CASE u # t
    BY <1>6, <1>8, <2>2 DEF PinsInv, tlmm!ReadIsFresh
  <2>3. QED
    BY <2>1, <2>2
<1>15. QED
  BY <1>9, <1>10, <1>11, <1>12, <1>13, <1>14 DEF PinsInv

LEMMA FieldSizes ==
    /\ 2^tlmm!FUNC.width = 8 /\ 2^tlmm!DRV.width = 8 /\ 2^tlmm!OE.width = 2
    /\ 2^tlmm!PULL.width = 4 /\ 2^tlmm!LEVEL.width = 2
<1>1. 2^tlmm!FUNC.width = 8 /\ 2^tlmm!DRV.width = 8
  BY Powers DEF tlmm!FUNC, tlmm!DRV
<1>2. 2^tlmm!OE.width = 2 /\ 2^tlmm!PULL.width = 4
  BY Powers DEF tlmm!OE, tlmm!PULL
<1>3. 2^tlmm!LEVEL.width = 2
  BY Powers DEF tlmm!LEVEL
<1>4. QED
  BY <1>1, <1>2, <1>3

LEMMA SetWritePins ==
    ASSUME PinsInv, NEW t \in Threads, tlmm!SetWrite(t)
    PROVE  PinsInv'
<1> DEFINE j == job[t]
<1> DEFINE r == tlmm!Register(j)
<1> DEFINE v == tlmm!Saturate(j.field, j.value)
<1> DEFINE new == tlmm!Put(got[t], j.field, v)
<1>1. /\ j # tlmm!NoJob
      /\ tword' = [tword EXCEPT ![r] = new]
      /\ asked' = [asked EXCEPT ![<<j.pin, j.field>>] = v % 2^j.field.width]
      /\ job' = [job EXCEPT ![t] = tlmm!NoJob] /\ got' = [got EXCEPT ![t] = 0]
      /\ UNCHANGED <<booting, bootRead, mixed>>
  BY DEF tlmm!SetWrite
<1>2. /\ j \in tlmm!Jobs /\ j.pin \in tlmm!Pins /\ j.field \in tlmm!Fields /\ j.value \in Nat
      /\ r \in tlmm!Registers /\ r = <<j.field.of, j.pin>>
  BY <1>1, JobFacts
<1>3. v \in Nat
  BY <1>2 DEF tlmm!Saturate
<1>4. /\ job \in [Threads -> tlmm!Jobs \cup {tlmm!NoJob}] /\ got \in [Threads -> tlmm!Words]
      /\ tword \in [tlmm!Registers -> tlmm!Words]
      /\ asked \in [tlmm!Pins \X tlmm!Fields -> Nat \cup {tlmm!NoWord}]
  BY DEF PinsInv, tlmm!TypeOK
<1>5. /\ new \in tlmm!Words /\ tlmm!Get(new, j.field) = v % 2^j.field.width
      /\ \A g \in tlmm!Fields : g # j.field /\ g.of = j.field.of =>
            tlmm!Get(new, g) = tlmm!Get(got[t], g)
  <2>1. PutOk(got[t], j.field, v)
    BY <1>2, <1>3, <1>4, PutFacts
  <2>2. QED
    BY <2>1 DEF PutOk
<1>6. v % 2^j.field.width \in Nat
  <2>1. 2^j.field.width \in {2, 4, 8}
    BY <1>2, FieldSizes DEF tlmm!Fields
  <2>2. v % 2 \in Nat /\ v % 4 \in Nat /\ v % 8 \in Nat
    BY <1>3
  <2>3. QED
    BY <2>1, <2>2
<1> HIDE DEF new, v
<1>7. job'[t] = tlmm!NoJob /\ \A u \in Threads : u # t => job'[u] = job[u] /\ got'[u] = got[u]
  BY <1>1, <1>4
<1>8. /\ asked'[<<j.pin, j.field>>] = v % 2^j.field.width
      /\ \A p \in tlmm!Pins, f \in tlmm!Fields :
            <<p, f>> # <<j.pin, j.field>> => asked'[<<p, f>>] = asked[<<p, f>>]
  BY <1>1, <1>2, <1>4
<1>9. tword'[r] = new /\ \A x \in tlmm!Registers : x # r => tword'[x] = tword[x]
  BY <1>1, <1>2, <1>4
<1> HIDE DEF r, j
<1>10. tlmm!TypeOK'
  <2>1. 0 \in tlmm!Words
    BY Powers DEF tlmm!Words, tlmm!Width
  <2>2. tword' \in [tlmm!Registers -> tlmm!Words]
    BY <1>1, <1>2, <1>4, <1>5
  <2>3. asked' \in [tlmm!Pins \X tlmm!Fields -> Nat \cup {tlmm!NoWord}]
    BY <1>1, <1>2, <1>4, <1>6
  <2>4. job' \in [Threads -> tlmm!Jobs \cup {tlmm!NoJob}] /\ got' \in [Threads -> tlmm!Words]
    BY <1>1, <1>4, <2>1
  <2>5. QED
    BY <1>1, <2>2, <2>3, <2>4 DEF PinsInv, tlmm!TypeOK
<1>11. InRange' /\ Apart'
  <2>1. InRange'
    BY <1>1, <1>7 DEF PinsInv, InRange
  <2>2. Apart'
    <3> SUFFICES ASSUME NEW u \in Threads, NEW w \in Threads, u # w,
                        job'[u] # tlmm!NoJob, job'[w] # tlmm!NoJob,
                        tlmm!Register(job'[u]) = tlmm!Register(job'[w])
                 PROVE  tlmm!Register(job'[u]) \in mixed'
      BY DEF Apart, tlmm!Register
    <3>1. u # t /\ w # t
      BY <1>7
    <3>2. QED
      BY <1>1, <1>7, <3>1 DEF PinsInv, Apart
  <2>3. QED
    BY <2>1, <2>2
<1>12. Ahead'
  <2> SUFFICES ASSUME NEW p \in tlmm!Pins, booting <= p, <<"cfg", p>> \notin mixed
               PROVE  /\ \A f \in tlmm!Fields : f.of = "cfg" => asked'[<<p, f>>] = tlmm!NoWord
                      /\ \A u \in Threads : job'[u] # tlmm!NoJob =>
                            tlmm!Register(job'[u]) # <<"cfg", p>>
    BY <1>1 DEF Ahead, tlmm!Register
  <2>1. r # <<"cfg", p>>
    BY <1>1 DEF PinsInv, Ahead, r, j
  <2>2. \A f \in tlmm!Fields : f.of = "cfg" => <<p, f>> # <<j.pin, j.field>>
    BY <1>2, <2>1
  <2>3. \A f \in tlmm!Fields : f.of = "cfg" => asked'[<<p, f>>] = tlmm!NoWord
    BY <1>8, <2>2 DEF PinsInv, Ahead
  <2>4. \A u \in Threads : job'[u] # tlmm!NoJob => tlmm!Register(job'[u]) # <<"cfg", p>>
    BY <1>7 DEF PinsInv, Ahead
  <2>5. QED
    BY <2>3, <2>4
<1>13. tlmm!FieldsAsAsked'
  <2> SUFFICES ASSUME NEW p \in tlmm!Pins, NEW f \in tlmm!Fields,
                      asked'[<<p, f>>] # tlmm!NoWord, <<f.of, p>> \notin mixed
               PROVE  tlmm!Get(tword'[<<f.of, p>>], f) = asked'[<<p, f>>]
    BY <1>1 DEF tlmm!FieldsAsAsked
  <2>1. <<f.of, p>> \in tlmm!Registers
    <3>1. f.of \in {"cfg", "io"}
      BY DEF tlmm!Fields, tlmm!FUNC, tlmm!DRV, tlmm!OE, tlmm!PULL, tlmm!LEVEL
    <3>2. QED
      BY <3>1 DEF tlmm!Registers
  <2>2. CASE <<p, f>> = <<j.pin, j.field>>
    <3>1. p = j.pin /\ f = j.field
      BY <2>2
    <3>2. QED
      BY <1>2, <1>5, <1>8, <1>9, <3>1
  <2>3. CASE <<p, f>> # <<j.pin, j.field>> /\ <<f.of, p>> = r
    <3>1. p = j.pin /\ f.of = j.field.of /\ f # j.field
      BY <1>2, <2>3
    <3>2. tword[r] = got[t]
      BY <1>1, <2>3 DEF PinsInv, tlmm!ReadIsFresh, r, j
    <3>3. tlmm!Get(new, f) = tlmm!Get(got[t], f)
      BY <1>5, <3>1
    <3>4. asked'[<<p, f>>] = asked[<<p, f>>]
      BY <1>8, <2>3
    <3>5. tlmm!Get(tword[<<f.of, p>>], f) = asked[<<p, f>>]
      BY <3>4 DEF PinsInv, tlmm!FieldsAsAsked
    <3>6. QED
      BY <1>9, <2>3, <3>2, <3>3, <3>4, <3>5
  <2>4. CASE <<p, f>> # <<j.pin, j.field>> /\ <<f.of, p>> # r
    <3>1. asked'[<<p, f>>] = asked[<<p, f>>] /\ tword'[<<f.of, p>>] = tword[<<f.of, p>>]
      BY <1>8, <1>9, <2>1, <2>4
    <3>2. QED
      BY <3>1 DEF PinsInv, tlmm!FieldsAsAsked
  <2>5. QED
    BY <2>2, <2>3, <2>4
<1>14. tlmm!ReadIsFresh'
  <2> SUFFICES ASSUME NEW u \in Threads, job'[u] # tlmm!NoJob,
                      tlmm!Register(job'[u]) \notin mixed
               PROVE  tword'[tlmm!Register(job'[u])] = got'[u]
    BY <1>1 DEF tlmm!ReadIsFresh, tlmm!Register
  <2>1. u # t /\ job'[u] = job[u] /\ got'[u] = got[u]
    BY <1>7
  <2>2. tlmm!Register(job[u]) # r
    BY <1>1, <2>1 DEF PinsInv, Apart, r, j
  <2>3. tword'[tlmm!Register(job[u])] = tword[tlmm!Register(job[u])]
    BY <1>9, <2>1, <2>2, JobFacts
  <2>4. QED
    BY <2>1, <2>3 DEF PinsInv, tlmm!ReadIsFresh
<1>15. QED
  BY <1>10, <1>11, <1>12, <1>13, <1>14 DEF PinsInv

LEMMA PinsStep == PinsInv /\ tlmm!Next => PinsInv'
  BY PublishPins, BootReadPins, BootWritePins, SetReadPins, SetWritePins DEF tlmm!Next

LEMMA PinsKept == PinsInv /\ UNCHANGED tlmmVars => PinsInv'
<1> SUFFICES ASSUME PinsInv, UNCHANGED tlmmVars PROVE PinsInv'
  OBVIOUS
<1>1. UNCHANGED <<tword, job, got, booting, bootRead, asked, mixed>>
  BY DEF tlmmVars
<1>2. tlmm!TypeOK' /\ InRange'
  BY <1>1 DEF PinsInv, tlmm!TypeOK, InRange
<1>3. Apart' /\ Ahead'
  BY <1>1 DEF PinsInv, Apart, Ahead, tlmm!Register
<1>4. tlmm!FieldsAsAsked' /\ tlmm!ReadIsFresh'
  BY <1>1 DEF PinsInv, tlmm!FieldsAsAsked, tlmm!ReadIsFresh, tlmm!Register
<1>5. QED
  BY <1>2, <1>3, <1>4 DEF PinsInv

LEMMA DeviceKept == DeviceInv /\ UNCHANGED deviceVars => DeviceInv'
  BY DEF deviceVars, DeviceInv, device!TypeOK, device!Balanced, device!AccessInside

-----------------------------------------------------------------------------
(* The theorems.                                                           *)

\* APRegisterSet: until a client writes a set that was overtaken, every write of
\* every client is as good as an atomic update of its own fields.
THEOREM AtomicIfFresh == PartsSpec => []AtomicUntilStale
<1>1. PartsInit => SetInv
  BY SetInit DEF PartsInit
<1>2. SetInv /\ [PartsNext]_all => SetInv'
  <2>1. [PartsNext]_all => [Next]_vars
    BY DEF PartsNext, all
  <2>2. QED
    BY <2>1, SetStep
<1>3. SetInv => AtomicUntilStale
  BY DEF SetInv
<1>4. QED
  BY <1>1, <1>2, <1>3, PTL DEF PartsSpec

\* APRegisterMap, for maps and address spaces of every size: no operation gets past
\* the end of the map; a register that is not waiting to be stored has the shadow of
\* what the device holds; one that is stored holds the bits that were asked for and,
\* in the others, what the device had.
THEOREM RegistersAreSound == PartsSpec => []RegistersSound
<1>1. PartsInit => MapInv
  BY MapInit DEF PartsInit
<1>2. MapInv /\ [PartsNext]_all => MapInv'
  <2>1. [PartsNext]_all => map!Next \/ UNCHANGED mapVars
    BY DEF PartsNext, all
  <2>2. QED
    BY <2>1, MapStep, MapStays
<1>3. MapInv => RegistersSound
  BY DEF MapInv, RegistersSound, MapKept, map!TypeOK, map!Coherent, map!AsAsked
<1>4. QED
  BY <1>1, <1>2, <1>3, PTL DEF PartsSpec

\* MSM8916TLMM: whatever threads call the setters, and whenever, every field of
\* every pin is as last asked for, and no setter writes back what is out of date,
\* as long as no two change the register at once and start has been through it.
THEOREM PinsAreSound == PartsSpec => []PinsSound
<1>1. PartsInit => PinsInv
  BY PinsInit DEF PartsInit
<1>2. PinsInv /\ [PartsNext]_all => PinsInv'
  <2>1. [PartsNext]_all => tlmm!Next \/ UNCHANGED tlmmVars
    BY DEF PartsNext, all
  <2>2. QED
    BY <2>1, PinsStep, PinsKept
<1>3. PinsInv => PinsSound
  BY DEF PinsInv, PinsSound
<1>4. QED
  BY <1>1, <1>2, <1>3, PTL DEF PartsSpec

\* AndroidPlatformDevice: on every path from probe to free each object that was
\* taken is given back once, and read and write stay inside the mapping, unless the
\* end of the access wraps.
THEOREM DeviceIsSound == PartsSpec => []DeviceSound
<1>1. PartsInit => DeviceInv
  BY DeviceInit DEF PartsInit
<1>2. DeviceInv /\ [PartsNext]_all => DeviceInv'
  <2>1. [PartsNext]_all => device!Next \/ UNCHANGED deviceVars
    BY DEF PartsNext, all
  <2>2. QED
    BY <2>1, DeviceStep, DeviceKept
<1>3. DeviceInv => DeviceSound
  BY DEF DeviceInv, DeviceSound
<1>4. QED
  BY <1>1, <1>2, <1>3, PTL DEF PartsSpec

\* DeviceBundle: for any directories, whatever order they are walked in and wherever
\* a load throws, an object knows only files of bundles it was asked to load since it
\* was unloaded; a loadBundle that succeeded has put the bundle's own files on record
\* over whatever was there; and once valid_ was given a value, isValid means that
\* there is a description.
THEOREM BundleIsSound == PartsSpec => []BundleSound
<1>1. PartsInit => BundleInv
  BY BundleInit DEF PartsInit
<1>2. BundleInv /\ [PartsNext]_all => BundleInv'
  <2>1. [PartsNext]_all => bundle!Next \/ UNCHANGED bundleVars
    BY DEF PartsNext, all
  <2>2. QED
    BY <2>1, BundleStep, BundleKept
<1>3. BundleInv => BundleSound
  BY BundleMeaning DEF BundleSound
<1>4. QED
  BY <1>1, <1>2, <1>3, PTL DEF PartsSpec
=============================================================================
