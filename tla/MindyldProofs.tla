---------------------------- MODULE MindyldProofs ----------------------------
(***************************************************************************)
(* Proofs about Mindyld for any number of handles, address ranges, files   *)
(* and segments.                                                           *)
(*                                                                         *)
(* ListInv says how loaded_objects and the "next" fields spell the history *)
(* of loads: it is stated position by position, and WalkIsOrder shows that *)
(* whatever is spelled so is what following the pointers meets, by the     *)
(* least position at which the two would differ.  MapInv says whose a      *)
(* mapping is while a load is in progress.                                 *)
(***************************************************************************)
EXTENDS Mindyld, TLAPS, FiniteSetTheorems, SequenceTheorems, WellFoundedInduction

\* What a sequence holds.
Elements(s) == {s[n] : n \in DOMAIN s}

\* What a load has taken, by where it is; the handle to register is not in the
\* list, and nothing hangs behind it.
ControlInv ==
    /\ fd => pc \notin {"idle", "open", "register"}
    /\ phdrs => pc \in {"map", "segment", "killed"}
    /\ base # Null => pc \in {"segment", "handle", "killed"}
    /\ base \in Regions => base \in mapped \ abandoned
    /\ pc = "register" =>
          result \in held /\ result \notin Elements(order) /\ next[result] = Null

\* The list of loaded objects is "order", linked.
ListInv ==
    /\ \A m, n \in DOMAIN order : order[m] = order[n] => m = n
    /\ \A n \in DOMAIN order : order[n] \in held
    /\ head = IF order = <<>> THEN Null ELSE order[1]
    /\ \A n \in DOMAIN order :
          next[order[n]] = IF n = Len(order) THEN Null ELSE order[n + 1]

\* The inductive invariant of control and list.
IInv == TypeOK /\ ControlInv /\ ListInv

\* The mapping of the load in progress is its own; a failed mmap gets past
\* elf_map_segments only if there was no segment to load.
BaseInv ==
    /\ pc = "segment" => base # Null
    /\ pc = "handle" =>
          base \in Regions \/ (base = MapFailed /\ Segments[file] = <<>>)
    /\ base \in Regions => \A h \in held : address[h] # base

MapInv == Accounted /\ OwnMapping /\ BaseInv

-----------------------------------------------------------------------------
(* Sequences, and the walk along the list.                                 *)

\* Every nonempty set of naturals has a least element.
LEMMA Least ==
    ASSUME NEW T \in SUBSET Nat, T # {}
    PROVE  \E x \in T : \A y \in T : x <= y
<1>1. IsWellFoundedOn(OpToRel(<, Nat), Nat)
  BY NatLessThanWellFounded
<1>2. PICK x \in T : \A y \in T : ~(<<y, x>> \in OpToRel(<, Nat))
  BY <1>1, WFMin
<1>3. \A y \in T : ~(y < x)
  BY <1>2 DEF OpToRel
<1>4. QED
  BY <1>3

\* A sequence of different handles is no longer than there are handles.
LEMMA LengthBound ==
    ASSUME NEW s \in Seq(Handles), \A m, n \in DOMAIN s : s[m] = s[n] => m = n
    PROVE  Cardinality(Handles) \in Nat /\ Len(s) <= Cardinality(Handles)
<1> DEFINE N == Len(s)   C == Cardinality(Handles)
<1>1. N \in Nat /\ DOMAIN s = 1..N /\ s \in [1..N -> Handles]
  BY LenProperties
<1>2. IsFiniteSet(Handles) /\ C \in Nat
  BY MindyldAssumption, FS_CardinalityType
<1>3. IsFiniteSet(1..N) /\ Cardinality(1..N) = N
  BY <1>1, FS_Interval
<1> HIDE DEF N, C
<1>4. ~(C < N)
  <2>1. SUFFICES ASSUME C < Cardinality(1..N) PROVE FALSE
    BY <1>3
  <2>2. \E x, y \in 1..N : x # y /\ s[x] = s[y]
    BY <1>1, <1>2, <1>3, <2>1, FS_PigeonHole DEF C
  <2>3. QED
    BY <1>1, <2>2
<1>5. QED
  BY <1>1, <1>2, <1>4 DEF N, C

\* A list that spells "order" is walked in that order, to its end.
LEMMA WalkIsOrder ==
    ASSUME TypeOK, ListInv
    PROVE  Walk = order
<1> DEFINE N == Len(order)   C == Cardinality(Handles)
           Body(f, n) == IF n = 0 THEN head
                         ELSE IF f[n - 1] = Null THEN Null ELSE next[f[n - 1]]
           at == CHOOSE f : f = [n \in Nat |-> Body(f, n)]
           g == [n \in Nat |-> IF n < N THEN order[n + 1] ELSE Null]
<1>1. N \in Nat /\ DOMAIN order = 1..N /\ order \in [1..N -> Handles]
  BY LenProperties DEF TypeOK
<1>2. C \in Nat /\ N <= C
  BY LengthBound DEF TypeOK, ListInv
<1>3. Null \notin Handles
  BY MindyldAssumption
<1>4. ASSUME NEW n \in Nat PROVE g[n] = Body(g, n)
  <2>1. CASE n = 0
    <3>1. CASE N = 0
      <4>1. order = <<>>
        BY <1>1, <3>1, EmptySeq DEF TypeOK
      <4>2. QED
        BY <2>1, <3>1, <4>1 DEF ListInv
    <3>2. CASE N # 0
      <4>1. order # <<>> /\ 0 < N
        BY <1>1, <3>2, EmptySeq
      <4>2. QED
        BY <2>1, <4>1 DEF ListInv
    <3>3. QED
      BY <3>1, <3>2
  <2>2. CASE n # 0 /\ n - 1 < N
    <3>1. n \in 1..N /\ n - 1 \in Nat
      BY <1>1, <2>2
    <3>2. g[n - 1] = order[n] /\ order[n] # Null
      BY <1>1, <1>3, <2>2, <3>1
    <3>3. next[order[n]] = IF n = N THEN Null ELSE order[n + 1]
      BY <1>1, <3>1 DEF ListInv
    <3>4. g[n] = next[order[n]]
      <4>1. n < N <=> n # N
        <5> HIDE DEF N
        <5> QED
          BY <1>1, <3>1
      <4>2. g[n] = IF n < N THEN order[n + 1] ELSE Null
        OBVIOUS
      <4> HIDE DEF g
      <4>3. QED
        BY <3>3, <4>1, <4>2
    <3> HIDE DEF g
    <3>5. QED
      BY <2>2, <3>2, <3>4
  <2>3. CASE n # 0 /\ ~(n - 1 < N)
    <3>1. n - 1 \in Nat /\ ~(n < N)
      BY <1>1, <2>3
    <3>2. g[n - 1] = Null /\ g[n] = Null
      BY <2>3, <3>1
    <3> HIDE DEF g
    <3>3. QED
      BY <2>3, <3>2
  <2>4. QED
    BY <2>1, <2>2, <2>3
<1>5. at = [n \in Nat |-> Body(at, n)]
  <2>1. g = [n \in Nat |-> Body(g, n)]
    <3> HIDE DEF Body
    <3> QED
      BY <1>4
  <2> HIDE DEF g, Body
  <2>2. QED
    BY <2>1
<1>6. \A n \in Nat : at[n] = Body(at, n)
  <2> HIDE DEF at, Body
  <2> QED
    BY <1>5
<1>7. Walk = [n \in {m + 1 : m \in {m \in 0..C : at[m] # Null}} |-> at[n - 1]]
  BY DEF Walk
<1> HIDE DEF at
<1>8. \A n \in Nat : at[n] = g[n]
  <2> DEFINE Bad == {n \in Nat : at[n] # g[n]}
  <2>1. SUFFICES ASSUME Bad # {} PROVE FALSE
    OBVIOUS
  <2>2. PICK n \in Bad : \A m \in Bad : n <= m
    <3>1. Bad \in SUBSET Nat
      OBVIOUS
    <3> HIDE DEF Bad
    <3>2. QED
      BY <2>1, <3>1, Least
  <2>3. n # 0 => n - 1 \in Nat /\ at[n - 1] = g[n - 1]
    BY <2>2
  <2>4. Body(at, n) = Body(g, n)
    <3> HIDE DEF g
    <3> QED
      BY <2>3
  <2> HIDE DEF Body, g
  <2>5. QED
    BY <1>4, <1>6, <2>2, <2>4
<1>9. \A n \in Nat : at[n] # Null <=> n < N
  BY <1>1, <1>3, <1>8
<1>10. {m + 1 : m \in {m \in 0..C : at[m] # Null}} = 1..N
  <2>1. {m \in 0..C : at[m] # Null} = 0..(N - 1)
    BY <1>1, <1>2, <1>9
  <2>2. \A n \in 1..N : n - 1 \in 0..(N - 1) /\ n = (n - 1) + 1
    BY <1>1
  <2>3. \A m \in 0..(N - 1) : m + 1 \in 1..N
    BY <1>1
  <2>4. {m + 1 : m \in 0..(N - 1)} = 1..N
    BY <2>2, <2>3
  <2>5. QED
    BY <2>1, <2>4
<1>11. \A n \in 1..N : at[n - 1] = order[n]
  BY <1>1, <1>8
<1>12. Walk = [n \in 1..N |-> order[n]]
  BY <1>7, <1>10, <1>11
<1>13. QED
  BY <1>1, <1>12

\* Without takes one element out of a sequence of different ones.
LEMMA WithoutFacts ==
    ASSUME NEW s \in Seq(Handles), NEW p \in DOMAIN s, NEW h, s[p] = h,
           \A m, n \in DOMAIN s : s[m] = s[n] => m = n
    PROVE  /\ Without(s, h) \in Seq(Handles) /\ Len(Without(s, h)) = Len(s) - 1
           /\ DOMAIN Without(s, h) = 1..(Len(s) - 1)
           /\ \A n \in 1..(Len(s) - 1) :
                 Without(s, h)[n] = IF n < p THEN s[n] ELSE s[n + 1]
<1> DEFINE N == Len(s)   at == CHOOSE n \in DOMAIN s : s[n] = h
           t == [n \in 1..(N - 1) |-> IF n < p THEN s[n] ELSE s[n + 1]]
<1>1. N \in Nat /\ DOMAIN s = 1..N /\ \A n \in 1..N : s[n] \in Handles
  BY LenProperties
<1>2. at = p
  <2>1. at \in DOMAIN s /\ s[at] = h
    OBVIOUS
  <2>2. QED
    BY <2>1
<1>3. Without(s, h) = [n \in 1..(N - 1) |-> IF n < at THEN s[n] ELSE s[n + 1]]
  BY DEF Without
<1> HIDE DEF at
<1>4. Without(s, h) = t
  BY <1>2, <1>3
<1>5. N - 1 \in Nat /\ \A n \in 1..(N - 1) : n \in 1..N /\ n + 1 \in 1..N
  BY <1>1
<1>6. t \in [1..(N - 1) -> Handles]
  BY <1>1, <1>5
<1>7. t \in Seq(Handles)
  BY <1>5, <1>6, SeqDef
<1>8. Len(t) = N - 1
  BY <1>5, <1>7, LenProperties
<1>9. QED
  BY <1>4, <1>7, <1>8

-----------------------------------------------------------------------------
(* The invariant of control and list.                                      *)

\* mindyld starts with nothing loaded.
LEMMA InitIInv == Init => IInv
<1> SUFFICES ASSUME Init PROVE IInv
  OBVIOUS
<1>1. order = <<>> /\ order \in Seq(Handles) /\ DOMAIN order = {}
  BY EmptySeq DEF Init
<1>2. TypeOK
  <2>1. /\ pc = "idle" /\ file \in Files /\ k \in Nat /\ head = Null
        /\ base = Null /\ held = {} /\ bare = {} /\ mapped = {} /\ abandoned = {} /\ result = Null
        /\ next \in [Handles -> Handles \cup {Null}]
        /\ address \in [Handles -> Regions \cup {Null, MapFailed}]
    BY DEF Init
  <2>2. fd \in BOOLEAN /\ phdrs \in BOOLEAN /\ sound \in BOOLEAN
    BY Zenon DEF Init
  <2>3. QED
    BY <1>1, <2>1, <2>2 DEF TypeOK
<1>3. ControlInv
  BY MindyldAssumption DEF Init, ControlInv
<1>4. ListInv
  BY <1>1 DEF Init, ListInv
<1>5. QED
  BY <1>2, <1>3, <1>4 DEF IInv

\* Where elf_map_segments goes stays within the table.
LEMMA LoadedType ==
    ASSUME TypeOK, NEW j \in 0..Len(Segments[file]), Loaded(j), file' = file
    PROVE  /\ pc' \in {"handle", "segment"} /\ k' \in Nat /\ phdrs' \in BOOLEAN
           /\ pc' = "segment" => k' \in DOMAIN Segments[file] /\ phdrs' = phdrs
           /\ pc' = "handle" => phdrs' = FALSE /\ j = Len(Segments[file])
<1> DEFINE N == Len(Segments[file])
<1>1. N \in Nat /\ DOMAIN Segments[file] = 1..N
  BY MindyldAssumption, LenProperties DEF TypeOK
<1> HIDE DEF N
<1>2. j \in 0..N
  BY DEF N
<1>3. CASE j = N
  BY <1>3 DEF Loaded, TypeOK, N
<1>4. CASE j # N
  <2>1. pc' = "segment" /\ k' = j + 1 /\ phdrs' = phdrs
    BY <1>4 DEF Loaded, N
  <2>2. j + 1 \in 1..N
    BY <1>1, <1>2, <1>4
  <2>3. QED
    BY <1>1, <2>1, <2>2 DEF TypeOK
<1>5. QED
  BY <1>3, <1>4

\* Steps of a load up to the handle leave the list alone.
LEMMA LoadingStep ==
    ASSUME IInv, UNCHANGED list, result' \in {result, Null},
           pc' \notin {"register"}, pc # "register" \/ pc' = "idle"
    PROVE  /\ ListInv'
           /\ head' \in Handles \cup {Null}
           /\ next' \in [Handles -> Handles \cup {Null}]
           /\ address' \in [Handles -> Regions \cup {Null, MapFailed}]
           /\ held' \subseteq Handles /\ result' \in Handles \cup {Null}
           /\ bare' \subseteq held'
           /\ order' \in Seq(Handles)
  BY DEF IInv, TypeOK, ListInv, list

\* The system calls of a load, each of which may fail.
LEMMA LoadStep ==
    ASSUME IInv, \/ \E f \in Files : mindyld_load(f)
                 \/ Open \/ Header \/ Table \/ Map \/ Segment \/ Unmapped
    PROVE  IInv'
<1>1. CASE \E f \in Files : mindyld_load(f)
  <2>1. UNCHANGED list /\ result' = Null /\ pc' \in {"idle", "open"} /\ pc = "idle"
    BY <1>1 DEF mindyld_load
  <2>2. sound' \in BOOLEAN
    BY <1>1, Zenon DEF mindyld_load
  <2>3. QED
    BY <1>1, <2>1, <2>2, LoadingStep DEF mindyld_load, IInv, TypeOK, ControlInv
<1>2. CASE Open
  <2>1. /\ UNCHANGED list /\ result' \in {result, Null}
        /\ pc' \in {"idle", "header"} /\ pc = "open"
    BY <1>2 DEF Open, ReturnNull
  <2>2. fd' \in BOOLEAN /\ sound' \in BOOLEAN
    BY <1>2, Zenon DEF Open, IInv, TypeOK
  <2>3. QED
    BY <1>2, <2>1, <2>2, LoadingStep, MindyldAssumption
    DEF Open, ReturnNull, IInv, TypeOK, ControlInv
<1>3. CASE Header
  <2>1. /\ UNCHANGED list /\ result' \in {result, Null}
        /\ pc' \in {"idle", "table"} /\ pc = "header"
    BY <1>3 DEF Header, ReturnNull
  <2>2. fd' \in BOOLEAN /\ sound' \in BOOLEAN
    BY <1>3, Zenon DEF Header, IInv, TypeOK
  <2>3. QED
    BY <1>3, <2>1, <2>2, LoadingStep, MindyldAssumption
    DEF Header, ReturnNull, IInv, TypeOK, ControlInv
<1>4. CASE Table
  <2>1. /\ UNCHANGED list /\ result' = result
        /\ pc' \in {"map", "unmapped"} /\ pc = "table"
    BY <1>4 DEF Table
  <2>2. phdrs' \in BOOLEAN /\ sound' \in BOOLEAN
    BY <1>4, Zenon DEF Table, IInv, TypeOK
  <2>3. QED
    BY <1>4, <2>1, <2>2, LoadingStep DEF Table, IInv, TypeOK, ControlInv
<1>5. CASE Map
  <2>1. UNCHANGED <<list, file, fd, result>> /\ pc = "map"
    BY <1>5 DEF Map
  <2>2. /\ pc' \in {"handle", "segment", "unmapped"} /\ k' \in Nat
        /\ phdrs' \in BOOLEAN
        /\ pc' = "segment" => k' \in DOMAIN Segments[file]
        /\ pc' # "segment" => phdrs' = FALSE
    <3>1. Len(Segments[file]) \in Nat
      BY MindyldAssumption, LenProperties DEF IInv, TypeOK
    <3>2. 0 \in 0..Len(Segments[file])
      BY <3>1
    <3>3. CASE Loaded(0)
      BY <2>1, <3>2, <3>3, LoadedType DEF IInv
    <3>4. CASE pc' = "unmapped" /\ phdrs' = FALSE /\ UNCHANGED k
      BY <3>4 DEF IInv, TypeOK
    <3>5. QED
      BY <1>5, <3>3, <3>4 DEF Map
  <2>3. /\ base' \in Regions \cup {Null, MapFailed}
        /\ base' # Null => pc' \in {"handle", "segment"}
        /\ base' \in Regions => base' \in mapped' \ abandoned'
        /\ mapped' \subseteq Regions \cup {PageZero} /\ abandoned' \subseteq mapped'
    BY <1>5, <2>2, MindyldAssumption DEF Map, Loaded, IInv, TypeOK, ControlInv
  <2>4. sound' \in BOOLEAN
    BY <1>5, Zenon DEF Map, IInv, TypeOK
  <2>5. QED
    BY <2>1, <2>2, <2>3, <2>4, LoadingStep DEF IInv, TypeOK, ControlInv
<1>6. CASE Segment
  <2>1. UNCHANGED <<list, file, fd, result, abandoned>> /\ pc = "segment"
    BY <1>6 DEF Segment
  <2>2. /\ pc' \in {"handle", "segment", "unmapped", "killed"} /\ k' \in Nat
        /\ phdrs' \in BOOLEAN
        /\ pc' = "segment" => k' \in DOMAIN Segments[file]
        /\ pc' \in {"handle", "unmapped"} => phdrs' = FALSE
    <3>1. k \in 0..Len(Segments[file])
      <4>1. /\ Len(Segments[file]) \in Nat
            /\ DOMAIN Segments[file] = 1..Len(Segments[file])
        BY MindyldAssumption, LenProperties DEF IInv, TypeOK
      <4>2. QED
        BY <2>1, <4>1 DEF IInv, TypeOK
    <3>2. CASE Loaded(k)
      BY <2>1, <3>1, <3>2, LoadedType DEF IInv
    <3>3. CASE SegmentFails
      BY <3>3 DEF SegmentFails, IInv, TypeOK
    <3>4. CASE pc' = "killed" /\ UNCHANGED <<k, phdrs>>
      BY <3>4 DEF IInv, TypeOK
    <3>5. QED
      BY <1>6, <3>2, <3>3, <3>4 DEF Segment
  <2>3. /\ base' \in Regions \cup {Null, MapFailed}
        /\ base' # Null => pc' \in {"handle", "segment", "killed"}
        /\ base' \in Regions => base' \in mapped' \ abandoned
        /\ mapped' \subseteq Regions \cup {PageZero}
    BY <1>6, <2>2, MindyldAssumption
    DEF Segment, SegmentFails, Loaded, IInv, TypeOK, ControlInv
  <2>4. sound' \in BOOLEAN
    BY <1>6, Zenon DEF Segment, SegmentFails, IInv, TypeOK
  <2>5. abandoned' \subseteq mapped'
    <3>1. base \notin abandoned
      BY MindyldAssumption DEF IInv, TypeOK, ControlInv
    <3>2. QED
      BY <1>6, <3>1 DEF Segment, SegmentFails, IInv, TypeOK
  <2>6. QED
    BY <2>1, <2>2, <2>3, <2>4, <2>5, LoadingStep DEF IInv, TypeOK, ControlInv
<1>7. CASE Unmapped
  <2>1. UNCHANGED list /\ result' = Null /\ pc' = "idle" /\ pc = "unmapped"
    BY <1>7 DEF Unmapped, ReturnNull
  <2>2. QED
    BY <1>7, <2>1, LoadingStep, MindyldAssumption
    DEF Unmapped, ReturnNull, IInv, TypeOK, ControlInv
<1>8. QED
  BY <1>1, <1>2, <1>3, <1>4, <1>5, <1>6, <1>7

\* The new handle is not in the list yet; malloc may have reused old memory.
LEMMA HandleStep ==
    ASSUME IInv, Handle
    PROVE  IInv'
<1>1. /\ pc = "handle" /\ fd' = FALSE
      /\ UNCHANGED <<file, k, phdrs, mapped, head, order>>
  BY DEF Handle
<1>2. ASSUME NEW h \in Handles \ held,
             held' = held \cup {h}, address' = [address EXCEPT ![h] = base],
             next' = [next EXCEPT ![h] = Null],
             bare' = IF Segments[file] = <<>> THEN bare \cup {h} ELSE bare,
             result' = h, pc' = "register", base' = Null,
             UNCHANGED <<abandoned, sound>>
      PROVE  IInv'
  <2>1. TypeOK'
    BY <1>1, <1>2 DEF IInv, TypeOK
  <2>2. \A n \in DOMAIN order : order[n] # h /\ order[n] \in Handles
    BY <1>2 DEF IInv, TypeOK, ListInv
  <2>3. ControlInv'
    BY <1>1, <1>2, <2>2, MindyldAssumption
    DEF IInv, TypeOK, ControlInv, Elements
  <2>4. ListInv'
    BY <1>1, <1>2, <2>2 DEF IInv, TypeOK, ListInv
  <2>5. QED
    BY <2>1, <2>3, <2>4 DEF IInv
<1>3. ASSUME ReturnNull, sound' = FALSE,
             abandoned' = abandoned \cup ({base} \cap mapped),
             UNCHANGED <<held, address, next, bare>>
      PROVE  IInv'
  BY <1>1, <1>3, MindyldAssumption
  DEF ReturnNull, IInv, TypeOK, ControlInv, ListInv
<1>4. QED
  BY <1>2, <1>3 DEF Handle

\* The new handle is linked behind the last one.
LEMMA RegisterStep ==
    ASSUME IInv, Register
    PROVE  IInv'
<1> DEFINE N == Len(order)
<1>1. /\ pc = "register" /\ pc' = "idle" /\ order' = Append(order, result)
      /\ UNCHANGED <<file, k, fd, phdrs, base, address, held, bare, mapped,
                     result, abandoned, sound>>
      /\ register_loaded_object(result)
  BY DEF Register, loading
<1>2. /\ result \in held /\ result \in Handles /\ next[result] = Null
      /\ \A n \in DOMAIN order : order[n] # result
  BY <1>1 DEF IInv, TypeOK, ControlInv, Elements
<1>3. /\ N \in Nat /\ DOMAIN order = 1..N /\ order \in Seq(Handles)
      /\ \A n \in 1..N : order[n] \in Handles
  BY LenProperties DEF IInv, TypeOK
<1>4. /\ order' \in Seq(Handles) /\ Len(order') = N + 1
      /\ DOMAIN order' = 1..(N + 1)
      /\ \A n \in 1..N : order'[n] = order[n]
      /\ order'[N + 1] = result /\ order' # <<>>
  BY <1>1, <1>2, <1>3, AppendProperties, LenProperties
<1>5. order = <<>> <=> N = 0
  BY <1>3, EmptySeq
<1>6. Null \notin Handles
  BY MindyldAssumption
<1>7. head' = order'[1] /\ next' \in [Handles -> Handles \cup {Null}]
      /\ head' \in Handles
      /\ next'[result] = Null
      /\ \A n \in 1..N : next'[order[n]] = IF n = N THEN result ELSE order[n + 1]
  <2>1. CASE N = 0
    <3>1. head = Null
      BY <1>5, <2>1 DEF IInv, ListInv
    <3>2. head' = result /\ next' = next
      BY <1>1, <3>1 DEF register_loaded_object
    <3>3. QED
      BY <1>2, <1>4, <2>1, <3>2 DEF IInv, TypeOK
  <2>2. CASE N # 0
    <3>1. 1 \in 1..N /\ N \in 1..N
      BY <1>3, <2>2
    <3>2. head = order[1] /\ head # Null
      BY <1>3, <1>5, <1>6, <2>2, <3>1 DEF IInv, ListInv
    <3>3. Last(Walk) = order[N]
      BY WalkIsOrder DEF IInv, Last
    <3>4. head' = head /\ next' = [next EXCEPT ![order[N]] = result]
      BY <1>1, <3>2, <3>3 DEF register_loaded_object
    <3>5. /\ next' \in [Handles -> Handles \cup {Null}]
          /\ \A g \in Handles : next'[g] = IF g = order[N] THEN result ELSE next[g]
      BY <1>2, <1>3, <3>1, <3>4 DEF IInv, TypeOK
    <3>6. \A n \in 1..N : order[n] = order[N] <=> n = N
      BY <1>3, <3>1 DEF IInv, ListInv
    <3>7. \A n \in 1..N : next[order[n]] = IF n = N THEN Null ELSE order[n + 1]
      BY <1>3 DEF IInv, ListInv
    <3> HIDE DEF N
    <3>8. \A n \in 1..N : next'[order[n]] = IF n = N THEN result ELSE order[n + 1]
      BY <1>3, <3>5, <3>6, <3>7
    <3>9. QED
      BY <1>2, <1>3, <1>4, <3>1, <3>2, <3>4, <3>5, <3>8
  <2>3. QED
    BY <2>1, <2>2
<1>8. TypeOK'
  BY <1>1, <1>4, <1>7 DEF IInv, TypeOK
<1>9. ControlInv'
  BY <1>1 DEF IInv, ControlInv
<1> HIDE DEF N
<1>10. ListInv'
  <2>1. \A n \in 1..(N + 1) : n \in 1..N \/ n = N + 1
    BY <1>3
  <2>2. \A m, n \in DOMAIN order' : order'[m] = order'[n] => m = n
    <3>1. \A m, n \in 1..N : order[m] = order[n] => m = n
      BY <1>3 DEF IInv, ListInv
    <3>2. QED
      BY <1>2, <1>3, <1>4, <2>1, <3>1
  <2>3. \A n \in DOMAIN order' : order'[n] \in held'
    BY <1>1, <1>2, <1>3, <1>4, <2>1 DEF IInv, ListInv
  <2>4. ASSUME NEW n \in 1..(N + 1)
        PROVE  next'[order'[n]] = IF n = N + 1 THEN Null ELSE order'[n + 1]
    <3>1. CASE n = N + 1
      BY <1>4, <1>7, <3>1
    <3>2. CASE n \in 1..N /\ n = N
      BY <1>3, <1>4, <1>7, <3>2
    <3>3. CASE n \in 1..N /\ n # N
      <4>1. n + 1 \in 1..N /\ n # N + 1
        BY <1>3, <3>3
      <4>2. QED
        BY <1>4, <1>7, <3>3, <4>1
    <3>4. QED
      BY <2>1, <3>1, <3>2, <3>3
  <2>5. QED
    BY <1>4, <1>7, <2>2, <2>3, <2>4 DEF ListInv
<1>11. QED
  BY <1>8, <1>9, <1>10 DEF IInv

\* The handle that goes is bridged by the one before it, or by the head; a
\* handle that mindyld_init dropped from the list changes nothing in it.
LEMMA UnloadStep ==
    ASSUME IInv, NEW h \in Handles, mindyld_unload(h)
    PROVE  IInv'
<1> DEFINE N == Len(order)
<1>1. /\ pc = "idle" /\ h \in held /\ held' = held \ {h} /\ bare' = bare \ {h}
      /\ order' = Without(order, h)
      /\ abandoned' = abandoned \cup ({address[h]} \cap mapped)
      /\ result' = Null /\ sound' = TRUE
      /\ UNCHANGED <<pc, file, k, fd, phdrs, base, mapped, address>>
      /\ Unlink(h)
  BY DEF mindyld_unload, loading
<1>2. /\ N \in Nat /\ DOMAIN order = 1..N /\ order \in Seq(Handles)
      /\ \A n \in 1..N : order[n] \in Handles
  BY LenProperties DEF IInv, TypeOK
<1>3. Null \notin Handles
  BY MindyldAssumption
<1>4. /\ next' = [g \in Handles |->
                    IF \E n \in {m \in 1..N : m > 1 /\ order[m] = h} :
                          g = order[n - 1]
                    THEN next[h] ELSE next[g]]
      /\ head' = IF head = h THEN next[h] ELSE head
  <2>1. Walk = order
    BY WalkIsOrder DEF IInv
  <2>2. QED
    BY <1>1, <1>2, <2>1 DEF Unlink
<1>5. /\ \A m, n \in 1..N : order[m] = order[n] => m = n
      /\ \A n \in 1..N : order[n] \in held
      /\ head = IF order = <<>> THEN Null ELSE order[1]
      /\ \A n \in 1..N : next[order[n]] = IF n = N THEN Null ELSE order[n + 1]
  BY <1>2 DEF IInv, ListInv
<1>6. order = <<>> <=> N = 0
  BY <1>2, EmptySeq
<1>7. next' \in [Handles -> Handles \cup {Null}] /\ head' \in Handles \cup {Null}
  <2>1. next[h] \in Handles \cup {Null} /\ head \in Handles \cup {Null}
        /\ \A g \in Handles : next[g] \in Handles \cup {Null}
    BY DEF IInv, TypeOK
  <2>2. QED
    BY <1>4, <2>1
<1> HIDE DEF N
<1>8. order' \in Seq(Handles) /\ ListInv'
  <2>1. CASE \A n \in 1..N : order[n] # h
    <3>1. order' = order
      BY <1>1, <1>2, <2>1 DEF Without
    <3>2. \A g \in Handles : next'[g] = next[g]
      BY <1>4, <2>1
    <3>3. head' = head
      <4>1. CASE N = 0
        BY <1>3, <1>4, <1>5, <1>6, <4>1
      <4>2. CASE N # 0
        <5>1. 1 \in 1..N
          BY <1>2, <4>2
        <5>2. QED
          BY <1>4, <1>5, <1>6, <2>1, <4>2, <5>1
      <4>3. QED
        BY <4>1, <4>2
    <3>4. QED
      BY <1>1, <1>2, <1>5, <2>1, <3>1, <3>2, <3>3 DEF ListInv, N
  <2>2. ASSUME NEW p \in 1..N, order[p] = h
        PROVE  order' \in Seq(Handles) /\ ListInv'
    <3>1. /\ order' \in Seq(Handles) /\ Len(order') = N - 1
          /\ DOMAIN order' = 1..(N - 1)
          /\ \A n \in 1..(N - 1) :
                order'[n] = IF n < p THEN order[n] ELSE order[n + 1]
      <4>1. /\ order \in Seq(Handles) /\ p \in DOMAIN order /\ order[p] = h
            /\ \A m, n \in DOMAIN order : order[m] = order[n] => m = n
        BY <1>2, <1>5, <2>2
      <4>2. /\ Without(order, h) \in Seq(Handles)
            /\ Len(Without(order, h)) = Len(order) - 1
            /\ DOMAIN Without(order, h) = 1..(Len(order) - 1)
            /\ \A n \in 1..(Len(order) - 1) :
                  Without(order, h)[n] = IF n < p THEN order[n] ELSE order[n + 1]
        BY <4>1, WithoutFacts
      <4>3. QED
        BY <1>1, <4>2 DEF N
    <3>2. \A g \in Handles :
             next'[g] = IF p > 1 /\ g = order[p - 1] THEN next[h] ELSE next[g]
      <4>1. {m \in 1..N : m > 1 /\ order[m] = h} = IF p > 1 THEN {p} ELSE {}
        BY <1>2, <1>5, <2>2
      <4>2. QED
        BY <1>4, <4>1
    <3>3. next[h] = IF p = N THEN Null ELSE order[p + 1]
      BY <1>5, <2>2
    <3>4. /\ p \in Nat /\ 1 <= p /\ p <= N /\ N - 1 \in Nat
          /\ order # <<>> /\ 1 \in 1..N
      BY <1>2, <1>6, <2>2
    <3>5. order' = <<>> <=> N = 1
      BY <1>2, <3>1, <3>4, EmptySeq
    <3>6. \A n \in 1..(N - 1) : n < p => n \in 1..N /\ n # p
      BY <1>2, <3>4
    <3>7. \A n \in 1..(N - 1) : ~(n < p) => n + 1 \in 1..N /\ n + 1 # p
      BY <1>2, <3>4
    <3>8. \A m, n \in 1..(N - 1) : order'[m] = order'[n] => m = n
      <4>1. SUFFICES ASSUME NEW m \in 1..(N - 1), NEW n \in 1..(N - 1),
                            order'[m] = order'[n]
                     PROVE  m = n
        OBVIOUS
      <4>2. CASE m < p /\ n < p
        BY <1>5, <3>1, <3>6, <4>1, <4>2
      <4>3. CASE m < p /\ ~(n < p)
        <5>1. order[m] = order[n + 1] /\ m \in 1..N /\ n + 1 \in 1..N
          BY <3>1, <3>6, <3>7, <4>1, <4>3
        <5>2. m = n + 1
          BY <1>5, <5>1
        <5>3. QED
          BY <3>4, <4>3, <5>2
      <4>4. CASE ~(m < p) /\ n < p
        <5>1. order[m + 1] = order[n] /\ m + 1 \in 1..N /\ n \in 1..N
          BY <3>1, <3>6, <3>7, <4>1, <4>4
        <5>2. m + 1 = n
          BY <1>5, <5>1
        <5>3. QED
          BY <3>4, <4>4, <5>2
      <4>5. CASE ~(m < p) /\ ~(n < p)
        <5>1. order[m + 1] = order[n + 1] /\ m + 1 \in 1..N /\ n + 1 \in 1..N
          BY <3>1, <3>7, <4>1, <4>5
        <5>2. m + 1 = n + 1
          BY <1>5, <5>1
        <5>3. QED
          BY <5>2
      <4>6. QED
        BY <4>2, <4>3, <4>4, <4>5
    <3>9. \A n \in 1..(N - 1) : order'[n] \in held'
      BY <1>1, <1>5, <2>2, <3>1, <3>6, <3>7
    <3>10. head' = IF order' = <<>> THEN Null ELSE order'[1]
      <4>1. CASE p = 1 /\ N = 1
        BY <1>4, <1>5, <2>2, <3>3, <3>4, <3>5, <4>1
      <4>2. CASE p = 1 /\ N # 1
        <5>1. 1 \in 1..(N - 1) /\ ~(1 < p) /\ p # N
          BY <1>2, <3>4, <4>2
        <5>2. order'[1] = order[2]
          BY <3>1, <5>1
        <5>3. head' = order[2]
          BY <1>4, <1>5, <2>2, <3>3, <3>4, <4>2
        <5>4. QED
          BY <3>5, <4>2, <5>2, <5>3
      <4>3. CASE p # 1
        <5>1. 1 \in 1..(N - 1) /\ 1 < p /\ N # 1
          BY <1>2, <3>4, <4>3
        <5>2. order'[1] = order[1] /\ order[1] # h
          BY <1>5, <2>2, <3>1, <3>4, <4>3, <5>1
        <5>3. QED
          BY <1>4, <1>5, <3>4, <3>5, <5>1, <5>2
      <4>4. QED
        BY <4>1, <4>2, <4>3
    <3>11. ASSUME NEW n \in 1..(N - 1)
           PROVE  next'[order'[n]] = IF n = N - 1 THEN Null ELSE order'[n + 1]
      <4>1. CASE n < p - 1
        <5>1. /\ n \in 1..N /\ n < p /\ n # N /\ n # N - 1 /\ p - 1 \in 1..N
              /\ n + 1 \in 1..(N - 1) /\ n + 1 < p /\ n # p - 1
          BY <1>2, <3>4, <4>1
        <5>2. order'[n] = order[n] /\ order'[n + 1] = order[n + 1]
          BY <3>1, <5>1
        <5>3. order[n] # order[p - 1] /\ order[n] \in Handles
          BY <1>2, <1>5, <5>1
        <5>4. next'[order[n]] = next[order[n]]
          BY <3>2, <5>3
        <5>5. next[order[n]] = order[n + 1]
          BY <1>5, <5>1
        <5>6. QED
          BY <5>1, <5>2, <5>4, <5>5
      <4>2. CASE n = p - 1
        <5>1. n < p /\ p > 1 /\ n \in 1..N /\ (n = N - 1 <=> p = N) /\ n + 1 = p
          BY <1>2, <3>4, <4>2
        <5>2. order'[n] = order[p - 1] /\ order[p - 1] \in Handles
          BY <1>2, <3>1, <4>2, <5>1
        <5>3. next'[order'[n]] = next[h]
          BY <3>2, <5>1, <5>2
        <5>4. p # N => order'[n + 1] = order[p + 1]
          <6>1. p # N => p \in 1..(N - 1) /\ ~(p < p)
            BY <1>2, <3>4
          <6>2. QED
            BY <3>1, <5>1, <6>1
        <5>5. QED
          BY <3>3, <5>1, <5>3, <5>4
      <4>3. CASE ~(n < p)
        <5>1. /\ n + 1 \in 1..N /\ (n = N - 1 <=> n + 1 = N)
              /\ (p > 1 => p - 1 \in 1..N /\ n + 1 # p - 1)
          BY <1>2, <3>4, <4>3
        <5>2. order'[n] = order[n + 1] /\ order[n + 1] \in Handles
          BY <1>2, <3>1, <4>3, <5>1
        <5>3. p > 1 => order[n + 1] # order[p - 1]
          BY <1>5, <5>1
        <5>4. next'[order[n + 1]] = next[order[n + 1]]
          BY <3>2, <5>2, <5>3
        <5>5. next[order[n + 1]] = IF n + 1 = N THEN Null ELSE order[(n + 1) + 1]
          BY <1>5, <5>1
        <5>6. n # N - 1 => order'[n + 1] = order[(n + 1) + 1]
          <6>1. n # N - 1 => n + 1 \in 1..(N - 1) /\ ~(n + 1 < p)
            BY <1>2, <3>4, <4>3
          <6>2. QED
            BY <3>1, <6>1
        <5>7. QED
          BY <5>1, <5>2, <5>4, <5>5, <5>6
      <4>4. n < p - 1 \/ n = p - 1 \/ ~(n < p)
        BY <3>4
      <4>5. QED
        BY <4>1, <4>2, <4>3, <4>4
    <3>12. QED
      BY <3>1, <3>8, <3>9, <3>10, <3>11 DEF ListInv
  <2>3. QED
    BY <2>1, <2>2
<1>9. TypeOK'
  BY <1>1, <1>7, <1>8 DEF IInv, TypeOK
<1>10. ControlInv'
  <2>1. base = Null
    BY <1>1 DEF IInv, ControlInv
  <2>2. QED
    BY <1>1, <2>1, MindyldAssumption DEF IInv, ControlInv
<1>11. QED
  BY <1>8, <1>9, <1>10 DEF IInv

\* Every step preserves the invariant of control and list.
LEMMA IInvStep == IInv /\ [Next]_vars => IInv'
<1> SUFFICES ASSUME IInv, [Next]_vars PROVE IInv'
  OBVIOUS
<1>1. CASE \/ \E f \in Files : mindyld_load(f)
           \/ Open \/ Header \/ Table \/ Map \/ Segment \/ Unmapped
  BY <1>1, LoadStep
<1>2. CASE Handle
  BY <1>2, HandleStep
<1>3. CASE Register
  BY <1>3, RegisterStep
<1>4. CASE \E h \in Handles : mindyld_unload(h)
  BY <1>4, UnloadStep
<1>5. CASE mindyld_init
  <2>1. order' = <<>> /\ order' \in Seq(Handles) /\ DOMAIN order' = {}
    BY <1>5, EmptySeq DEF mindyld_init
  <2>2. TypeOK'
    BY <1>5, <2>1 DEF mindyld_init, loading, IInv, TypeOK
  <2>3. ControlInv'
    BY <1>5 DEF mindyld_init, loading, IInv, ControlInv
  <2>4. ListInv'
    BY <1>5, <2>1 DEF mindyld_init, ListInv
  <2>5. QED
    BY <2>2, <2>3, <2>4 DEF IInv
<1>6. CASE UNCHANGED vars
  BY <1>6 DEF vars, IInv, TypeOK, ControlInv, ListInv, Elements
<1>7. QED
  BY <1>1, <1>2, <1>3, <1>4, <1>5, <1>6 DEF Next, Killed

\* Whatever files are loaded and unloaded in whatever order, and whichever
\* system calls fail, the variables keep their types, a load keeps what it has
\* taken to itself, and the "next" fields spell the history of loads.
THEOREM InductiveInvariant == Spec => []IInv
<1>1. QED
  BY InitIInv, IInvStep, PTL DEF Spec

\* mindyld_resolve_symbol meets exactly the handles loaded since mindyld_init
\* and not unloaded, oldest first, all of them allocated: for any number of
\* handles, and whatever freed memory malloc hands out again.
THEOREM ListIsSound == Spec => []ListSound
<1>1. IInv => ListSound
  BY WalkIsOrder DEF IInv, ListInv, ListSound
<1>2. QED
  BY <1>1, InductiveInvariant, PTL

-----------------------------------------------------------------------------
(* Mappings.                                                               *)

\* Which address ranges a mapping, a handle or a load can have.
LEMMA AddressFacts ==
    ASSUME TypeOK
    PROVE  /\ \A h \in held : address[h] # PageZero
           /\ Null \notin mapped /\ MapFailed \notin mapped
           /\ base # PageZero
  BY MindyldAssumption DEF TypeOK

\* Steps that change no mapping and no handle, and drop no address.
LEMMA KeepStep ==
    ASSUME IInv', MapInv, UNCHANGED <<mapped, abandoned, held, address, bare>>,
           base' = base, pc' \notin {"segment", "handle"}
    PROVE  MapInv'
<1>1. pc' = "idle" => ~fd' /\ ~phdrs'
  BY DEF IInv, ControlInv
<1>2. Accounted'
  BY <1>1 DEF MapInv, Accounted
<1>3. OwnMapping'
  BY DEF MapInv, OwnMapping
<1>4. BaseInv'
  BY MindyldAssumption DEF MapInv, BaseInv
<1>5. QED
  BY <1>2, <1>3, <1>4 DEF MapInv

\* The range mmap gives is nobody else's; that it failed is still to be seen.
LEMMA MapKeepsMapInv ==
    ASSUME IInv, IInv', MapInv, Map
    PROVE  MapInv'
<1>1. pc = "map" /\ base = Null /\ UNCHANGED <<file, held, address, bare>>
  BY DEF Map, list, IInv, ControlInv
<1>2. pc' = "idle" => ~fd' /\ ~phdrs'
  BY DEF IInv, ControlInv
<1>3. Loaded(0) => \/ pc' = "segment"
                   \/ pc' = "handle" /\ Segments[file] = <<>>
  <2>1. Segments[file] \in Seq([bytes : BOOLEAN, bss : BOOLEAN])
    BY MindyldAssumption DEF IInv, TypeOK
  <2>2. Len(Segments[file]) = 0 => Segments[file] = <<>>
    BY <2>1, EmptySeq
  <2>3. QED
    BY <2>2 DEF Loaded
<1>4. Null \notin mapped
  BY AddressFacts DEF IInv
<1>5. ASSUME NEW r \in Regions \ mapped, base' = r, mapped' = mapped \cup {r},
             Loaded(0), UNCHANGED <<abandoned, sound>>
      PROVE  MapInv'
  BY <1>1, <1>2, <1>3, <1>4, <1>5, MindyldAssumption
  DEF MapInv, Accounted, OwnMapping, BaseInv
<1>6. CASE base' = MapFailed /\ Loaded(0) /\ UNCHANGED <<mapped, abandoned>>
  BY <1>1, <1>2, <1>3, <1>4, <1>6, MindyldAssumption
  DEF MapInv, Accounted, OwnMapping, BaseInv
<1>7. CASE /\ mapped' = mapped \cup {PageZero}
           /\ abandoned' = abandoned \cup {PageZero}
           /\ pc' = "unmapped" /\ UNCHANGED base
  <2>1. \A h \in held : address[h] # PageZero
    BY AddressFacts DEF IInv
  <2>2. QED
    BY <1>1, <1>2, <1>4, <1>7, <2>1, MindyldAssumption
    DEF MapInv, Accounted, OwnMapping, BaseInv
<1>8. QED
  BY <1>5, <1>6, <1>7 DEF Map

\* A segment that failed gives back the mapping of this load and no other.
LEMMA SegmentKeepsMapInv ==
    ASSUME IInv, IInv', MapInv, Segment
    PROVE  MapInv'
<1>1. pc = "segment" /\ base # Null /\ UNCHANGED <<file, held, address, bare, abandoned>>
  BY DEF Segment, list, MapInv, BaseInv
<1>2. pc' = "idle" => ~fd' /\ ~phdrs'
  BY DEF IInv, ControlInv
<1>3. base \in Regions \/ base = MapFailed
  BY <1>1 DEF IInv, TypeOK
<1>4. CASE base # MapFailed /\ Loaded(k) /\ UNCHANGED <<base, mapped>>
  <2>1. pc' \in {"handle", "segment"} /\ base \in Regions
    BY <1>3, <1>4 DEF Loaded
  <2>2. Accounted'
    BY <1>1, <1>2, <1>4 DEF MapInv, Accounted
  <2>3. OwnMapping'
    BY <1>1, <1>4 DEF MapInv, OwnMapping
  <2>4. BaseInv'
    BY <1>1, <1>4, <2>1 DEF MapInv, BaseInv
  <2>5. QED
    BY <2>2, <2>3, <2>4 DEF MapInv
<1>5. CASE SegmentFails
  <2>1. mapped' = mapped \ {base} /\ pc' = "unmapped" /\ base' = Null
    BY <1>5 DEF SegmentFails
  <2>2. base \in mapped => \A h \in held : address[h] # base
    BY <1>3, AddressFacts DEF IInv, MapInv, BaseInv
  <2>3. Accounted'
    BY <1>1, <1>2, <2>1, <2>2 DEF MapInv, Accounted
  <2>4. OwnMapping'
    BY <1>1, <2>1, <2>2 DEF MapInv, OwnMapping
  <2>5. BaseInv'
    BY <2>1, MindyldAssumption DEF BaseInv
  <2>6. QED
    BY <2>3, <2>4, <2>5 DEF MapInv
<1>6. CASE pc' = "killed" /\ UNCHANGED <<base, mapped>>
  BY <1>1, <1>2, <1>6 DEF MapInv, Accounted, OwnMapping, BaseInv
<1>7. QED
  BY <1>4, <1>5, <1>6 DEF Segment

\* The handle takes the mapping over, or the mapping is lost.
LEMMA HandleKeepsMapInv ==
    ASSUME IInv, IInv', MapInv, Handle
    PROVE  MapInv'
<1>1. /\ pc = "handle" /\ mapped' = mapped
      /\ \/ /\ base \in mapped \ abandoned
            /\ \A g \in held : address[g] # base
         \/ base = MapFailed /\ Segments[file] = <<>>
  BY DEF Handle, MapInv, BaseInv, IInv, ControlInv
<1>2. pc' = "idle" => ~fd' /\ ~phdrs'
  BY DEF IInv, ControlInv
<1>3. ASSUME NEW h \in Handles \ held,
             held' = held \cup {h}, address' = [address EXCEPT ![h] = base],
             bare' = IF Segments[file] = <<>> THEN bare \cup {h} ELSE bare,
             pc' = "register", base' = Null, UNCHANGED abandoned
      PROVE  MapInv'
  <2>1. address'[h] = base /\ \A g \in held : address'[g] = address[g]
    BY <1>3 DEF IInv, TypeOK
  <2>2. Accounted'
    BY <1>1, <1>2, <1>3, <2>1 DEF MapInv, Accounted
  <2>3. OwnMapping'
    <3>1. base \in mapped => \A g \in held : address[g] # base
      BY <1>1, AddressFacts DEF IInv
    <3>2. \/ address'[h] \in mapped' \ abandoned'
          \/ address'[h] = MapFailed /\ h \in bare'
      BY <1>1, <1>3, <2>1
    <3>3. bare \subseteq bare'
      BY <1>3
    <3>4. \A g \in held :
             \/ /\ address[g] \in mapped \ abandoned
                /\ \A f \in held : address[f] = address[g] => f = g
             \/ address[g] = MapFailed /\ g \in bare
      BY DEF MapInv, OwnMapping
    <3>5. \A g \in held' : g \in held \/ g = h
      BY <1>3
    <3>6. QED
      BY <1>1, <1>3, <2>1, <3>1, <3>2, <3>3, <3>4, <3>5 DEF OwnMapping
  <2>4. BaseInv'
    BY <1>3, MindyldAssumption DEF BaseInv
  <2>5. QED
    BY <2>2, <2>3, <2>4 DEF MapInv
<1>4. CASE ReturnNull /\ abandoned' = abandoned \cup ({base} \cap mapped)
           /\ UNCHANGED <<held, address, bare>>
  <2>1. Accounted'
    BY <1>1, <1>2, <1>4 DEF ReturnNull, MapInv, Accounted
  <2>2. \A g \in held : address[g] \in mapped \ abandoned
                         => address[g] \notin {base} \cap mapped
    BY <1>1, AddressFacts DEF IInv
  <2>3. OwnMapping'
    BY <1>1, <1>4, <2>2 DEF MapInv, OwnMapping
  <2>4. BaseInv'
    BY <1>4, MindyldAssumption DEF ReturnNull, BaseInv
  <2>5. QED
    BY <2>1, <2>3, <2>4 DEF MapInv
<1>5. QED
  BY <1>3, <1>4 DEF Handle

\* Unloading a handle costs no other handle its mapping.
LEMMA UnloadKeepsMapInv ==
    ASSUME IInv, IInv', MapInv, NEW h \in Handles, mindyld_unload(h)
    PROVE  MapInv'
<1>1. /\ pc' = "idle" /\ h \in held /\ held' = held \ {h} /\ bare' = bare \ {h}
      /\ abandoned' = abandoned \cup ({address[h]} \cap mapped)
      /\ UNCHANGED <<base, mapped, address>> /\ base = Null
  BY DEF mindyld_unload, loading, IInv, ControlInv
<1>2. pc' = "idle" => ~fd' /\ ~phdrs'
  BY DEF IInv, ControlInv
<1>3. Accounted'
  BY <1>1, <1>2 DEF MapInv, Accounted
<1>4. OwnMapping'
  BY <1>1 DEF MapInv, OwnMapping
<1>5. BaseInv'
  BY <1>1, MindyldAssumption DEF BaseInv
<1>6. QED
  BY <1>3, <1>4, <1>5 DEF MapInv

\* Every step preserves the invariant of the mappings.
LEMMA MapInvStep ==
    ASSUME IInv, MapInv, [Next]_vars
    PROVE  MapInv'
<1>1. IInv'
  BY IInvStep
<1>2. CASE \/ \E f \in Files : mindyld_load(f)
           \/ Open \/ Header \/ Table \/ Unmapped
  <2>1. /\ UNCHANGED <<mapped, abandoned, held, address, bare>>
        /\ pc' \notin {"segment", "handle"}
        /\ base' = base \/ base' = Null
        /\ pc \in {"idle", "open", "header", "table", "unmapped"}
    BY <1>2 DEF mindyld_load, Open, Header, Table, Unmapped, ReturnNull, list
  <2>2. base = Null
    BY <2>1 DEF IInv, ControlInv
  <2>3. QED
    BY <1>1, <2>1, <2>2, KeepStep
<1>3. CASE Map
  BY <1>1, <1>3, MapKeepsMapInv
<1>4. CASE Segment
  BY <1>1, <1>4, SegmentKeepsMapInv
<1>5. CASE Handle
  BY <1>1, <1>5, HandleKeepsMapInv
<1>6. CASE Register
  <2>1. /\ UNCHANGED <<mapped, abandoned, held, address, bare>>
        /\ base' = base
        /\ pc' \notin {"segment", "handle"}
    BY <1>6 DEF Register, loading
  <2>2. QED
    BY <1>1, <2>1, KeepStep
<1>7. CASE \E h \in Handles : mindyld_unload(h)
  BY <1>1, <1>7, UnloadKeepsMapInv
<1>8. CASE mindyld_init
  <2>1. /\ UNCHANGED <<mapped, abandoned, held, address, bare>>
        /\ base' = base
        /\ pc' \notin {"segment", "handle"}
    BY <1>8 DEF mindyld_init, loading
  <2>2. QED
    BY <1>1, <2>1, KeepStep
<1>9. CASE UNCHANGED vars
  BY <1>9 DEF vars, MapInv, Accounted, OwnMapping, BaseInv
<1>10. QED
  BY <1>2, <1>3, <1>4, <1>5, <1>6, <1>7, <1>8, <1>9 DEF Next, Killed

\* For any number of handles, ranges, files and segments: between two calls no
\* descriptor and no table is left, a mapping is lost only at the three places
\* Accounted names, and no two handles share one.  A handle without a mapping,
\* with address MAP_FAILED, is one of a file without a PT_LOAD segment.
THEOREM MappingsAreSound == Spec => []MappingsSound
<1>1. Init => MapInv
  BY MindyldAssumption
  DEF Init, MapInv, Accounted, OwnMapping, BaseInv
<1>2. IInv /\ MapInv /\ [Next]_vars => MapInv'
  BY MapInvStep
<1>3. IInv /\ MapInv => MappingsSound
  BY DEF IInv, MapInv, MappingsSound
<1>4. QED
  BY <1>1, <1>2, <1>3, InductiveInvariant, PTL DEF Spec
=============================================================================
