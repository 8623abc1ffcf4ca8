---------------------------- MODULE GNUKextProofs ----------------------------
(***************************************************************************)
(* Proofs about GNUKext for any number of objects, bundles and drivers.    *)
(*                                                                         *)
(* The inductive invariant adds to the properties to be proved who is in   *)
(* which record: libkern's list holds exactly the live objects whose       *)
(* KextInfo says loaded, a GNUKext among them has its _loaded flag, and    *)
(* memory that is free has no driver.  That the flag, and so the class's   *)
(* list, is only with GNUKexts is why dealloc never frees what libkern     *)
(* still points to.                                                        *)
(*                                                                         *)
(* The lists are sequences; what Append, RemoveFirst and removeObject: do  *)
(* to their contents is proved first, by the least counterexample.         *)
(***************************************************************************)
EXTENDS GNUKext, TLAPS, SequenceTheorems, WellFoundedInduction

\* Every nonempty set of naturals has a least element.
LEMMA Least ==
    ASSUME NEW T \in SUBSET Nat, T # {}
    PROVE  \E x \in T : \A y \in T : x <= y
<1>1. IsWellFoundedOn(OpToRel(<, Nat), Nat)
  BY NatLessThanWellFounded
<1>2. PICK x \in T : \A y \in T : ~(<<y, x>> \in OpToRel(<, Nat))
  BY <1>1, WFMin
<1>3. \A y \in T : ~(y < x)
  BY <1>2 DEF OpToRel
<1>4. QED
  BY <1>3

\* Every set of naturals that holds 0 and with each number below n the next one
\* holds 0 to n.
LEMMA Induction ==
    ASSUME NEW n \in Nat, NEW T, 0 \in T, \A i \in 1..n : i - 1 \in T => i \in T
    PROVE  \A i \in 0..n : i \in T
<1> DEFINE Bad == {i \in 0..n : i \notin T}
<1> SUFFICES ASSUME Bad # {} PROVE FALSE
  OBVIOUS
<1>1. Bad \in SUBSET Nat
  OBVIOUS
<1>2. PICK m \in Bad : \A j \in Bad : m <= j
  BY <1>1, Least
<1>3. m \in 1..n /\ m - 1 \in 0..n /\ ~(m <= m - 1)
  BY <1>2
<1>4. m - 1 \in T
  BY <1>2, <1>3
<1>5. QED
  BY <1>2, <1>3, <1>4

\* Append adds e to the contents; what was new stays without duplicates.
LEMMA AppendFacts ==
    ASSUME NEW S, NEW s \in Seq(S), NEW e \in S
    PROVE  /\ Append(s, e) \in Seq(S)
           /\ Range(Append(s, e)) = Range(s) \cup {e}
           /\ IsInjective(s) /\ e \notin Range(s) => IsInjective(Append(s, e))
<1> DEFINE t == Append(s, e)   n == Len(s)
<1>1. n \in Nat /\ DOMAIN s = 1..n
  BY LenProperties
<1>2. /\ t \in Seq(S) /\ DOMAIN t = 1..(n + 1)
      /\ \A i \in 1..n : t[i] = s[i]
      /\ t[n + 1] = e
  BY AppendProperties, LenProperties
<1> HIDE DEF t, n
<1>3. \A i \in 1..(n + 1) : i \in 1..n \/ i = n + 1
  BY <1>1
<1>4. Range(t) = Range(s) \cup {e}
  <2>1. ASSUME NEW x \in Range(t) PROVE x \in Range(s) \cup {e}
    BY <2>1, <1>1, <1>2, <1>3 DEF Range
  <2>2. Range(s) \subseteq Range(t)
    BY <1>1, <1>2 DEF Range
  <2>3. n + 1 \in DOMAIN t
    BY <1>1, <1>2
  <2>4. e \in Range(t)
    BY <1>2, <2>3 DEF Range
  <2>5. QED
    BY <2>1, <2>2, <2>4
<1>5. ASSUME IsInjective(s), e \notin Range(s) PROVE IsInjective(t)
  <2>1. \A i \in 1..n : s[i] # e
    BY <1>5, <1>1 DEF Range
  <2>2. QED
    BY <1>5, <1>1, <1>2, <1>3, <2>1 DEF IsInjective
<1>6. QED
  BY <1>2, <1>4, <1>5 DEF t

\* RemoveAt moves what lies behind position i up by one.
LEMMA RemoveAtFacts ==
    ASSUME NEW S, NEW s \in Seq(S), NEW i \in 1..Len(s)
    PROVE  /\ RemoveAt(s, i) \in Seq(S)
           /\ Len(RemoveAt(s, i)) = Len(s) - 1
           /\ \A j \in 1..(Len(s) - 1) :
                 RemoveAt(s, i)[j] = IF j < i THEN s[j] ELSE s[j + 1]
<1> DEFINE a == SubSeq(s, 1, i - 1)   b == SubSeq(s, i + 1, Len(s)) n == Len(s)
<1>0. n \in Nat /\ i \in 1..n /\ \A j \in 1..n : s[j] \in S
  BY LenProperties
<1>1. /\ a \in Seq(S) /\ Len(a) = i - 1
      /\ \A j \in 1..(i - 1) : a[j] = s[j]
  <2>1. \A j \in 1..(i-1) : s[j] \in S
    BY <1>0
  <2>2. /\ a \in Seq(S) /\ Len(a) = IF 1 <= i - 1 THEN i - 1 - 1 + 1 ELSE 0
        /\ \A j \in 1..(i - 1 - 1 + 1) : a[j] = s[1 + j - 1]
    BY <2>1, SubSeqProperties, <1>0
  <2> QED
    BY <2>2, <1>0
<1>2. /\ b \in Seq(S) /\ Len(b) = n - i
      /\ \A j \in 1..(n - i) : b[j] = s[i + j]
  <2>1. \A j \in (i + 1)..n : s[j] \in S
    BY <1>0
  <2>2. /\ b \in Seq(S) /\ Len(b) = IF i + 1 <= n THEN n - (i + 1) + 1 ELSE 0
        /\ \A j \in 1..(n - (i + 1) + 1) : b[j] = s[i + 1 + j - 1]
    BY <2>1, SubSeqProperties, <1>0
  <2> QED
    BY <2>2, <1>0
<1>3. RemoveAt(s, i) = a \o b
  BY DEF RemoveAt
<1> HIDE DEF a, b, n
<1>4. /\ a \o b \in Seq(S) /\ Len(a \o b) = Len(a) + Len(b)
      /\ \A j \in 1..(Len(a) + Len(b)) :
            (a \o b)[j] = IF j <= Len(a) THEN a[j] ELSE b[j - Len(a)]
  BY <1>1, <1>2, ConcatProperties
<1>5. Len(a) + Len(b) = n - 1
  BY <1>0, <1>1, <1>2
<1>6. ASSUME NEW j \in 1..(n - 1)
      PROVE  (a \o b)[j] = IF j < i THEN s[j] ELSE s[j + 1]
  <2>1. CASE j < i
    <3>1. j \in 1..(i - 1) /\ j <= Len(a)
      BY <1>0, <1>1, <2>1
    <3>2. QED
      BY <2>1, <3>1, <1>1, <1>4, <1>5
  <2>2. CASE ~(j < i)
    <3>1. j - Len(a) \in 1..(n - i) /\ ~(j <= Len(a)) /\ i + (j - Len(a)) = j + 1
      BY <1>0, <1>1, <2>2
    <3>2. b[j - Len(a)] = s[j + 1]
      BY <3>1, <1>2
    <3>3. QED
      BY <2>2, <3>1, <3>2, <1>4, <1>5
  <2>3. QED
    BY <2>1, <2>2
<1>7. QED
  BY <1>3, <1>4, <1>5, <1>6 DEF n

\* Where nothing is listed twice, taking out the first e takes out e.
LEMMA RemoveFirstFacts ==
    ASSUME NEW S, NEW s \in Seq(S), NEW e, IsInjective(s)
    PROVE  /\ RemoveFirst(s, e) \in Seq(S)
           /\ Range(RemoveFirst(s, e)) = Range(s) \ {e}
           /\ IsInjective(RemoveFirst(s, e))
<1> DEFINE n == Len(s)
<1>1. n \in Nat /\ DOMAIN s = 1..n
  BY LenProperties
<1>2. CASE \E i \in 1..n : s[i] = e
  <2> DEFINE I == {i \in 1..Len(s) : s[i] = e}
  <2>1. PICK m \in I : \A j \in I : m <= j
    <3>1. I \in SUBSET Nat /\ I # {}
      BY <1>1, <1>2
    <3>2. QED
      BY <3>1, Least
  <2>2. Min(I) \in I
    BY <2>1 DEF Min
  <2>3. RemoveFirst(s, e) = RemoveAt(s, Min(I))
    BY <1>2, <2>2 DEF RemoveFirst, SelectInSeq
  <2> DEFINE i == Min(I)   t == RemoveAt(s, i)
  <2>4. i \in 1..n /\ s[i] = e
    BY <2>2
  <2> HIDE DEF I, i
  <2>5. /\ t \in Seq(S) /\ DOMAIN t = 1..(n - 1)
        /\ \A j \in 1..(n - 1) : t[j] = IF j < i THEN s[j] ELSE s[j + 1]
    BY <2>4, RemoveAtFacts, LenProperties
  <2> HIDE DEF t, n
  <2>6. \A j \in 1..n : s[j] = e => j = i
    BY <1>1, <2>4 DEF IsInjective
  <2>7. IsInjective(t)
    <3>1. SUFFICES ASSUME NEW a \in 1..(n - 1), NEW b \in 1..(n - 1), t[a] = t[b]
                   PROVE  a = b
      BY <2>5 DEF IsInjective
    <3> DEFINE A == IF a < i THEN a ELSE a + 1   B == IF b < i THEN b ELSE b + 1
    <3>2. A \in 1..n /\ B \in 1..n /\ (A = B => a = b)
      BY <1>1, <2>4
    <3>3. t[a] = s[A] /\ t[b] = s[B]
      BY <2>5
    <3> HIDE DEF A, B
    <3>4. QED
      BY <3>1, <3>2, <3>3, <1>1 DEF IsInjective
  <2>8. Range(t) = Range(s) \ {e}
    <3>1. ASSUME NEW j \in 1..(n - 1) PROVE t[j] \in Range(s) \ {e}
      <4> DEFINE J == IF j < i THEN j ELSE j + 1
      <4>1. J \in 1..n /\ J # i
        BY <1>1, <2>4
      <4>2. t[j] = s[J]
        BY <2>5
      <4> HIDE DEF J
      <4>3. QED
        BY <4>1, <4>2, <1>1, <2>6 DEF Range
    <3>2. ASSUME NEW j \in 1..n, s[j] # e PROVE s[j] \in Range(t)
      <4> DEFINE J == IF j < i THEN j ELSE j - 1
      <4>1. J \in 1..(n - 1) /\ j = IF J < i THEN J ELSE J + 1
        BY <1>1, <2>4, <3>2
      <4>2. t[J] = s[j]
        BY <4>1, <2>5
      <4> HIDE DEF J
      <4>3. QED
        BY <4>1, <4>2, <2>5 DEF Range
    <3>3. QED
      BY <3>1, <3>2, <1>1, <2>5 DEF Range
  <2>9. QED
    BY <2>3, <2>5, <2>7, <2>8 DEF t, i
<1>3. CASE ~(\E i \in 1..n : s[i] = e)
  <2>1. RemoveFirst(s, e) = s
    BY <1>3 DEF RemoveFirst
  <2>2. e \notin Range(s)
    BY <1>1, <1>3 DEF Range
  <2>3. QED
    BY <2>1, <2>2
<1>4. QED
  BY <1>2, <1>3

\* The recursive function removeObject is defined by has its equations.
LEMMA RemoveObjectDef ==
    ASSUME NEW S, NEW s \in Seq(S), NEW e
    PROVE  \E f : /\ f[0] = <<>>
                  /\ \A i \in 1..Len(s) :
                        f[i] = IF s[i] = e THEN f[i - 1]
                               ELSE Append(f[i - 1], s[i])
                  /\ removeObject(s, e) = f[Len(s)]
<1> DEFINE n == Len(s)
           Body(g, i) == IF i = 0 THEN <<>> ELSE IF s[i] = e THEN g[i - 1]
                         ELSE Append(g[i - 1], s[i])
           kept == CHOOSE g : g = [i \in 0..n |-> Body(g, i)]
           Upto(m) == \E g : g = [i \in 0..m |-> Body(g, i)]
           T == {m \in 0..n : Upto(m)}
<1>1. n \in Nat
  BY LenProperties
<1>2. 0 \in T
  <2>1. 0..0 = {0}
    OBVIOUS
  <2> DEFINE z == [i \in 0..0 |-> <<>>]
  <2>2. z = [i \in 0..0 |-> Body(z, i)]
    BY <2>1
  <2>3. Upto(0)
    <3> HIDE DEF z, Body
    <3> QED
      BY <2>2
  <2>4. QED
    BY <1>1, <2>3
<1>3. ASSUME NEW m \in 1..n, m - 1 \in T PROVE m \in T
  <2>1. PICK g : g = [i \in 0..(m - 1) |-> Body(g, i)]
    BY <1>3
  <2> DEFINE h == [i \in 0..m |-> IF i = m THEN Body(g, m) ELSE g[i]]
  <2>2. ASSUME NEW i \in 0..m PROVE h[i] = Body(h, i)
    <3>1. i # 0 => i - 1 \in 0..m /\ i - 1 # m /\ h[i - 1] = g[i - 1]
      BY <1>1
    <3>2. Body(h, i) = Body(g, i)
      BY <3>1
    <3> HIDE DEF Body
    <3>3. i # m => g[i] = Body(g, i)
      <4>1. i # m => i \in 0..(m - 1)
        BY <1>1
      <4>2. QED
        BY <4>1, <2>1
    <3>4. h[i] = Body(g, i)
      BY <3>3
    <3>5. QED
      BY <3>2, <3>4
  <2>3. h = [i \in 0..m |-> Body(h, i)]
    <3> HIDE DEF Body
    <3> QED
      BY <2>2
  <2>4. Upto(m)
    <3> HIDE DEF h, Body
    <3> QED
      BY <2>3
  <2>5. m \in 0..n
    BY <1>1
  <2> HIDE DEF Upto
  <2>6. QED
    BY <2>4, <2>5
<1>4. n \in T
  <2> HIDE DEF T
  <2>1. \A i \in 0..n : i \in T
    BY <1>1, <1>2, <1>3, Induction
  <2>2. QED
    BY <1>1, <2>1
<1>5. kept = [i \in 0..n |-> Body(kept, i)]
  <2> HIDE DEF Body
  <2> QED
    BY <1>4
<1>6. removeObject(s, e) = kept[n]
  BY DEF removeObject
<1> HIDE DEF kept
<1>7. \A i \in 0..n : kept[i] = Body(kept, i)
  <2> HIDE DEF Body
  <2> QED
    BY <1>5
<1>8. kept[0] = <<>>
  BY <1>1, <1>7
<1>9. \A i \in 1..n : kept[i] = IF s[i] = e THEN kept[i - 1]
                                 ELSE Append(kept[i - 1], s[i])
  <2>1. \A i \in 1..n : i \in 0..n /\ i # 0
    BY <1>1
  <2>2. QED
    BY <1>7, <2>1
<1>10. QED
  BY <1>6, <1>8, <1>9

\* removeObject: takes e out and nothing else.
LEMMA RemoveObjectFacts ==
    ASSUME NEW S, NEW s \in Seq(S), NEW e
    PROVE  /\ removeObject(s, e) \in Seq(S)
           /\ Range(removeObject(s, e)) = Range(s) \ {e}
           /\ IsInjective(s) => IsInjective(removeObject(s, e))
<1> DEFINE n == Len(s)   Upto(i) == {s[j] : j \in 1..i}
<1>1. n \in Nat /\ DOMAIN s = 1..n /\ \A j \in 1..n : s[j] \in S
  BY LenProperties
<1>2. PICK f : /\ f[0] = <<>>
               /\ \A i \in 1..n : f[i] = IF s[i] = e THEN f[i - 1]
                                          ELSE Append(f[i - 1], s[i])
               /\ removeObject(s, e) = f[n]
  BY RemoveObjectDef
<1> DEFINE T == {i \in 0..n : /\ f[i] \in Seq(S)
                              /\ Range(f[i]) = Upto(i) \ {e}
                              /\ IsInjective(s) => IsInjective(f[i])}
<1>3. 0 \in T
  <2>1. f[0] \in Seq(S) /\ DOMAIN f[0] = {}
    BY <1>2, EmptySeq
  <2>2. Range(f[0]) = {} /\ IsInjective(f[0])
    BY <2>1 DEF Range, IsInjective
  <2>3. Upto(0) = {}
    OBVIOUS
  <2>4. 0 \in 0..n
    BY <1>1
  <2> HIDE DEF Upto
  <2>5. QED
    BY <2>1, <2>2, <2>3, <2>4
<1>4. ASSUME NEW i \in 1..n, i - 1 \in T PROVE i \in T
  <2>1. /\ f[i - 1] \in Seq(S) /\ Range(f[i - 1]) = Upto(i - 1) \ {e}
        /\ IsInjective(s) => IsInjective(f[i - 1])
    BY <1>4
  <2>2. i \in 0..n /\ s[i] \in S
    BY <1>1
  <2>3. Upto(i) = Upto(i - 1) \cup {s[i]}
    <3>1. \A j \in 1..i : j \in 1..(i - 1) \/ j = i
      BY <1>1
    <3>2. 1..(i - 1) \subseteq 1..i /\ i \in 1..i
      BY <1>1
    <3>3. QED
      BY <3>1, <3>2
  <2>4. IsInjective(s) => s[i] \notin Upto(i - 1)
    <3>1. \A j \in 1..(i - 1) : j \in 1..n /\ j # i
      BY <1>1
    <3>2. QED
      BY <3>1, <1>1 DEF IsInjective
  <2> HIDE DEF Upto
  <2>5. CASE s[i] = e
    BY <1>2, <2>1, <2>2, <2>3, <2>5
  <2>6. CASE s[i] # e
    <3>1. f[i] = Append(f[i - 1], s[i])
      BY <1>2, <2>6
    <3>2. /\ f[i] \in Seq(S) /\ Range(f[i]) = Range(f[i - 1]) \cup {s[i]}
          /\ IsInjective(f[i - 1]) /\ s[i] \notin Range(f[i - 1]) => IsInjective(f[i])
      BY <3>1, <2>1, <2>2, AppendFacts
    <3>3. QED
      BY <2>1, <2>2, <2>3, <2>4, <2>6, <3>2
  <2>7. QED
    BY <2>5, <2>6
<1>5. n \in T
  <2> HIDE DEF T
  <2>1. \A i \in 0..n : i \in T
    BY <1>1, <1>3, <1>4, Induction
  <2>2. QED
    BY <1>1, <2>1
<1>6. Upto(n) = Range(s)
  BY <1>1 DEF Range
<1> HIDE DEF Upto
<1>7. QED
  BY <1>2, <1>5, <1>6

\* What is looked up by identifier is in the list.
LEMMA FirstFacts ==
    ASSUME NEW S, NEW s \in Seq(S), NEW id
    PROVE  First(s, id) \subseteq Range(s)
<1> DEFINE hits == {k \in DOMAIN s : IdOf(s[k]) = id}
<1>1. CASE hits = {}
  BY <1>1 DEF First
<1>2. CASE hits # {}
  <2>1. hits \in SUBSET Nat
    BY LenProperties
  <2>2. PICK m \in hits : \A j \in hits : m <= j
    BY <1>2, <2>1, Least
  <2> DEFINE k == CHOOSE k \in hits : \A j \in hits : k <= j
  <2>3. k \in hits
    BY <2>2
  <2>4. First(s, id) = {s[k]}
    BY <1>2 DEF First
  <2>5. QED
    BY <2>3, <2>4 DEF Range
<1>3. QED
  BY <1>1, <1>2

-----------------------------------------------------------------------------
(* The invariant.                                                          *)

\* libkern's list and the states of the KextInfos.
ListInv == \A o \in Live : state[o] = "Loaded" => o \in Range(infos)

\* Only GNUKexts have the flag, and those that libkern has loaded all do.
FlagInv ==
    /\ loaded \subseteq wrapped
    /\ \A o \in wrapped : state[o] = "Loaded" => o \in loaded
    /\ ~foreign => \A o \in loaded : state[o] = "Loaded"

\* Free memory has no driver.
FreeInv == \A o \in Objects : o \notin Live => started[o] = {}

\* The records agree with each other and with the memory.
RecordInv ==
    /\ NoDangling
    /\ ListInv
    /\ FlagInv
    /\ Range(global) = loaded /\ IsInjective(global)

\* Where a driver may have been started.
QuietInv == FreeInv /\ UnloadedIsQuiet

\* The inductive invariant.
IInv == TypeOK /\ RecordInv /\ ModuleHeld /\ QuietInv

-----------------------------------------------------------------------------
(* What the functions of libkern do to the records.                        *)

\* What KextInfoLoad leaves in libkern's records and in the kernel.
LEMMA LoadEffect ==
    ASSUME IInv, NEW o \in Live, NEW r, KextInfoLoad(o, r)
    PROVE  \/ r # "Success" /\ UNCHANGED <<state, infos, kernel, struck>>
           \/ /\ r # "Success" /\ state[o] # "Loaded"
              /\ state' = [state EXCEPT ![o] = "Failed"]
              /\ UNCHANGED <<infos, kernel, struck>>
           \/ /\ r = "Success" /\ state[o] # "Loaded"
              /\ state' = [state EXCEPT ![o] = "Loaded"]
              /\ infos' \in Seq(Objects)
              /\ Range(infos') = Range(infos) \cup {o}
              /\ IsInjective(infos')
              /\ \/ ModuleOf(o) = NoModule /\ UNCHANGED <<kernel, struck>>
                 \/ /\ ModuleOf(o) \notin kernel /\ UNCHANGED struck
                    /\ kernel' = kernel \cup {ModuleOf(o)}
<1>1. infos \in Seq(Objects) /\ IsInjective(infos) /\ o \in Objects
  BY DEF IInv, TypeOK, RecordInv, NoDangling, Live
<1>2. state[o] # "Loaded" => o \notin Range(infos)
  BY DEF IInv, RecordInv, NoDangling
<1>3. ASSUME infos' = Append(infos, o), state[o] # "Loaded"
      PROVE  /\ infos' \in Seq(Objects) /\ IsInjective(infos')
             /\ Range(infos') = Range(infos) \cup {o}
  BY <1>1, <1>2, <1>3, AppendFacts
<1>4. QED
  BY <1>3 DEF KextInfoLoad, InsertModule

\* delete_module has found a module with the file's name.
Deleted(o) ==
    /\ ModuleOf(o) # NoModule
    /\ kernel' = kernel \ {FileOf(o)}
    /\ struck' = IF FileOf(o) = ModuleOf(o) THEN struck ELSE struck \cup {FileOf(o)}

\* What KextInfoUnload leaves in libkern's records and in the kernel.
LEMMA UnloadEffect ==
    ASSUME IInv, NEW o \in Live, NEW r, KextInfoUnload(o, r)
    PROVE  \/ /\ r # "Success" /\ state[o] # "Loaded"
              /\ UNCHANGED <<state, infos, kernel, struck>>
           \/ /\ r = "Success" /\ state[o] = "Loaded"
              /\ state' = [state EXCEPT ![o] = "Unloaded"]
              /\ infos' \in Seq(Objects)
              /\ Range(infos') = Range(infos) \ {o}
              /\ IsInjective(infos')
              /\ \/ UNCHANGED <<kernel, struck>>
                 \/ Deleted(o)
<1>1. infos \in Seq(Objects) /\ IsInjective(infos)
  BY DEF IInv, TypeOK, RecordInv, NoDangling
<1>2. infos' = RemoveFirst(infos, o) =>
          /\ infos' \in Seq(Objects) /\ IsInjective(infos')
          /\ Range(infos') = Range(infos) \ {o}
  BY <1>1, RemoveFirstFacts
<1>3. QED
  BY <1>2 DEF KextInfoUnload, DeleteModule, Deleted

-----------------------------------------------------------------------------
(* The operations preserve the invariant.                                  *)

\* Nothing is loaded at the start.
LEMMA InitIInv == Init => IInv
<1> SUFFICES ASSUME Init PROVE IInv
  OBVIOUS
<1>1. TypeOK
  <2>1. <<>> \in Seq(Objects)
    BY EmptySeq
  <2>2. Live = {}
    BY DEF Init, Live
  <2>3. QED
    BY <2>1, <2>2 DEF Init, TypeOK
<1>2. Live = {} /\ Range(infos) = {} /\ Range(global) = {}
  BY DEF Init, Live, Range
<1>3. IsInjective(infos) /\ IsInjective(global)
  BY DEF Init, IsInjective
<1>4. QED
  BY <1>1, <1>2, <1>3 DEF Init, IInv, RecordInv, NoDangling, ListInv, FlagInv,
     ModuleHeld, QuietInv, FreeInv, UnloadedIsQuiet

\* A new object has no record yet, though its memory may have been used.
LEMMA CreateStep ==
    ASSUME IInv, NEW o \in Objects, NEW b \in Bundles, NEW kext \in BOOLEAN,
           Create(o, b, kext), UNCHANGED history
    PROVE  IInv'
<1> USE GNUKextAssumption DEF history
<1>1. Live' = Live \cup {o} /\ o \notin Live
  BY DEF IInv, TypeOK, Create, Live
<1>2. TypeOK'
  BY <1>1 DEF IInv, TypeOK, Create
<1>3. RecordInv'
  BY <1>1 DEF IInv, TypeOK, RecordInv, NoDangling, ListInv, FlagInv, Create
<1>4. ModuleHeld'
  <2>1. \A q \in Live : ModuleOf(q)' = ModuleOf(q) /\ state'[q] = state[q]
    BY <1>1 DEF IInv, TypeOK, Create, Live, ModuleOf
  <2>2. state'[o] # "Loaded"
    BY DEF IInv, TypeOK, Create
  <2>3. kernel' = kernel /\ struck' = struck
    BY DEF Create
  <2>4. QED
    BY <1>1, <2>1, <2>2, <2>3 DEF IInv, ModuleHeld
<1>5. QuietInv'
  BY <1>1 DEF IInv, QuietInv, FreeInv, UnloadedIsQuiet, Create
<1>6. QED
  BY <1>2, <1>3, <1>4, <1>5 DEF IInv

\* KextInfoLoad of a bare KextInfo, and [o load].
LEMMA LoadKeepsModules ==
    ASSUME IInv, NEW o \in Live, NEW r, KextInfoLoad(o, r), UNCHANGED bundle
    PROVE  ModuleHeld' /\ state' \in [Objects -> {"Unloaded", "Loaded", "Failed"}]
                       /\ kernel' \subseteq {Module[c] : c \in Bundles}
                       /\ struck' \subseteq {FileName[c] : c \in Bundles}
<1>1. Live' = Live /\ \A q : ModuleOf(q)' = ModuleOf(q)
  BY DEF Live, ModuleOf
<1>2. ModuleOf(o) \in {Module[c] : c \in Bundles}
  BY DEF IInv, TypeOK, Live, ModuleOf
<1>3. Live \subseteq Objects
  BY DEF Live
<1> HIDE DEF ModuleOf
<1>4. CASE state[o] # "Loaded" /\ state' = [state EXCEPT ![o] = "Loaded"]
           /\ \/ ModuleOf(o) = NoModule /\ UNCHANGED <<kernel, struck>>
              \/ /\ ModuleOf(o) \notin kernel /\ UNCHANGED struck
                 /\ kernel' = kernel \cup {ModuleOf(o)}
  <2>1. state' \in [Objects -> {"Unloaded", "Loaded", "Failed"}]
    BY <1>4 DEF IInv, TypeOK
  <2>2. /\ kernel' \subseteq {Module[c] : c \in Bundles}
        /\ struck' \subseteq {FileName[c] : c \in Bundles}
    BY <1>2, <1>4 DEF IInv, TypeOK
  <2>3. \A q \in Live : state'[q] = "Loaded" => q = o \/ state[q] = "Loaded"
    BY <1>3, <1>4 DEF IInv, TypeOK
  <2>4. QED
    BY <1>1, <1>4, <2>1, <2>2, <2>3 DEF IInv, ModuleHeld
<1>5. CASE UNCHANGED <<kernel, struck>>
           /\ \/ UNCHANGED state
              \/ state' = [state EXCEPT ![o] = "Failed"]
  <2>1. state' \in [Objects -> {"Unloaded", "Loaded", "Failed"}]
    BY <1>5 DEF IInv, TypeOK
  <2>2. \A q \in Live : state'[q] = "Loaded" => state[q] = "Loaded"
    BY <1>3, <1>5 DEF IInv, TypeOK
  <2>3. QED
    BY <1>1, <1>5, <2>1, <2>2 DEF IInv, TypeOK, ModuleHeld
<1>6. QED
  BY <1>4, <1>5, LoadEffect

\* KextInfoLoad by a C client.
LEMMA InfoLoadStep ==
    ASSUME IInv, NEW o \in Objects, InfoLoad(o), UNCHANGED history
    PROVE  IInv'
<1>1. PICK r \in Results : KextInfoLoad(o, r)
  BY DEF InfoLoad
<1>2. o \in Live /\ o \notin wrapped
  BY DEF InfoLoad, IInv, TypeOK
<1>3. /\ UNCHANGED <<bundle, wrapped, held, loaded, global, started, history>>
      /\ result' = "void" /\ Live' = Live
  BY DEF InfoLoad, Live
<1>4. ModuleHeld' /\ state' \in [Objects -> {"Unloaded", "Loaded", "Failed"}]
                  /\ kernel' \subseteq {Module[c] : c \in Bundles}
                  /\ struck' \subseteq {FileName[c] : c \in Bundles}
  BY <1>1, <1>2, <1>3, LoadKeepsModules
<1>5. TypeOK'
  BY <1>1, <1>2, <1>3, <1>4, LoadEffect DEF IInv, TypeOK, history
<1>6. RecordInv'
  <2>1. Live \subseteq Objects
    BY DEF Live
  <2>2. \A q \in Objects : q # o => state'[q] = state[q]
    BY <1>1, <1>2, LoadEffect DEF IInv, TypeOK
  <2>3. /\ IsInjective(infos')
        /\ \/ Range(infos') = Range(infos) /\ (state'[o] = "Loaded" <=> state[o] = "Loaded")
           \/ Range(infos') = Range(infos) \cup {o} /\ state'[o] = "Loaded"
    BY <1>1, <1>2, LoadEffect DEF IInv, TypeOK, RecordInv, NoDangling
  <2>4. QED
    BY <1>2, <1>3, <2>1, <2>2, <2>3
    DEF IInv, TypeOK, RecordInv, NoDangling, ListInv, FlagInv, history
<1>7. QuietInv'
  BY <1>3 DEF IInv, QuietInv, FreeInv, UnloadedIsQuiet, history
<1>8. QED
  BY <1>4, <1>5, <1>6, <1>7 DEF IInv

\* [o load] records a GNUKext with both lists and its flag.
LEMMA LoadStep ==
    ASSUME IInv, NEW o \in wrapped, Load(o), UNCHANGED history
    PROVE  IInv'
<1>1. UNCHANGED <<bundle, wrapped, held, started, history>> /\ Live' = Live
  BY DEF Load, Live
<1>2. CASE UNCHANGED <<loaded, global, state, infos, kernel, struck>> /\ result' \in {"YES", "NO"}
  BY <1>1, <1>2 DEF IInv, TypeOK, RecordInv, NoDangling, ListInv, FlagInv,
     ModuleHeld, ModuleOf, QuietInv, FreeInv, UnloadedIsQuiet, history
<1>3. ASSUME o \notin loaded, NEW r \in Results, KextInfoLoad(o, r),
             IF r = "Success"
             THEN /\ loaded' = loaded \cup {o}
                  /\ global' = Append(global, o)
                  /\ result' = "YES"
             ELSE result' = "NO" /\ UNCHANGED <<loaded, global>>
      PROVE  IInv'
  <2>1. o \in Live /\ o \in Objects
    BY DEF IInv, TypeOK, Live
  <2>2. ModuleHeld' /\ state' \in [Objects -> {"Unloaded", "Loaded", "Failed"}]
                    /\ kernel' \subseteq {Module[c] : c \in Bundles}
                    /\ struck' \subseteq {FileName[c] : c \in Bundles}
    BY <1>1, <1>3, <2>1, LoadKeepsModules
  <2>3. /\ global' \in Seq(Objects) /\ Range(global') = loaded'
        /\ IsInjective(global') /\ loaded' \subseteq wrapped
        /\ loaded' = IF r = "Success" THEN loaded \cup {o} ELSE loaded
    <3>1. /\ global \in Seq(Objects) /\ Range(global) = loaded
          /\ IsInjective(global) /\ loaded \subseteq wrapped
      BY DEF IInv, TypeOK, RecordInv, FlagInv
    <3>2. /\ Append(global, o) \in Seq(Objects)
          /\ Range(Append(global, o)) = loaded \cup {o}
          /\ IsInjective(Append(global, o))
      BY <1>3, <2>1, <3>1, AppendFacts
    <3>3. QED
      BY <1>3, <3>1, <3>2
  <2>4. TypeOK'
    BY <1>1, <1>3, <2>1, <2>2, <2>3, LoadEffect DEF IInv, TypeOK, history
  <2>5. RecordInv'
    <3>1. Live \subseteq Objects
      BY DEF Live
    <3>2. \A q \in Objects : q # o => state'[q] = state[q]
      BY <1>3, <2>1, LoadEffect DEF IInv, TypeOK
    <3>3. /\ IsInjective(infos') /\ state[o] # "Loaded"
          /\ \/ /\ r # "Success" /\ Range(infos') = Range(infos)
                /\ state'[o] # "Loaded"
             \/ /\ r = "Success" /\ Range(infos') = Range(infos) \cup {o}
                /\ state'[o] = "Loaded"
      BY <1>3, <2>1, LoadEffect DEF IInv, TypeOK, RecordInv, NoDangling, FlagInv
    <3>4. NoDangling' /\ ListInv'
      BY <1>1, <2>1, <3>1, <3>2, <3>3
      DEF IInv, TypeOK, RecordInv, NoDangling, ListInv
    <3>5. FlagInv'
      BY <1>1, <1>3, <2>1, <2>3, <3>1, <3>2, <3>3
      DEF IInv, TypeOK, RecordInv, FlagInv, history
    <3>6. QED
      BY <2>3, <3>4, <3>5 DEF RecordInv
  <2>6. QuietInv'
    BY <1>1, <2>3 DEF IInv, QuietInv, FreeInv, UnloadedIsQuiet, history
  <2>7. QED
    BY <2>2, <2>4, <2>5, <2>6 DEF IInv
<1>4. QED
  BY <1>2, <1>3 DEF Load, LoadUnloaded

\* KextInfoUnload keeps the modules of the other KextInfos.
LEMMA UnloadKeepsModules ==
    ASSUME IInv, NEW o \in Live, NEW r, KextInfoUnload(o, r),
           Live' \subseteq Live, \A q \in Live' : bundle'[q] = bundle[q]
    PROVE  ModuleHeld' /\ state' \in [Objects -> {"Unloaded", "Loaded", "Failed"}]
                       /\ kernel' \subseteq {Module[c] : c \in Bundles}
                       /\ struck' \subseteq {FileName[c] : c \in Bundles}
<1>1. \A q \in Live' : ModuleOf(q)' = ModuleOf(q) /\ q \in Live
  BY DEF ModuleOf
<1>2. Live \subseteq Objects
  BY DEF Live
<1>0. FileOf(o) \in {FileName[c] : c \in Bundles}
  BY DEF IInv, TypeOK, Live, FileOf
<1> HIDE DEF ModuleOf, FileOf
<1>3. CASE UNCHANGED <<state, infos, kernel, struck>>
  BY <1>1, <1>2, <1>3 DEF IInv, TypeOK, ModuleHeld
<1>4. CASE /\ state[o] = "Loaded" /\ state' = [state EXCEPT ![o] = "Unloaded"]
           /\ UNCHANGED <<kernel, struck>> \/ Deleted(o)
  <2>1. ASSUME NEW q \in Live', state'[q] = "Loaded",
               ModuleOf(q) \notin struck' \cup {NoModule}
        PROVE  /\ q # o /\ q \in Live /\ state[q] = "Loaded"
               /\ ModuleOf(q) \notin struck \cup {NoModule} /\ ModuleOf(q) \in kernel'
    <3>1. q # o /\ q \in Live /\ state[q] = "Loaded"
      BY <1>1, <1>2, <1>4, <2>1 DEF IInv, TypeOK
    <3>2. ModuleOf(q) \notin struck \cup {NoModule}
      BY <1>4, <2>1 DEF Deleted
    <3>3. ModuleOf(q) \in kernel /\ ModuleOf(q) # ModuleOf(o)
      BY <1>4, <3>1, <3>2 DEF IInv, ModuleHeld
    <3>4. ModuleOf(q) \in kernel'
      BY <1>4, <2>1, <3>3 DEF Deleted
    <3>5. QED
      BY <3>1, <3>2, <3>4
  <2>2. state' \in [Objects -> {"Unloaded", "Loaded", "Failed"}]
    BY <1>4 DEF IInv, TypeOK
  <2>3. /\ kernel' \subseteq {Module[c] : c \in Bundles}
        /\ struck' \subseteq {FileName[c] : c \in Bundles}
    BY <1>0, <1>4 DEF IInv, TypeOK, Deleted
  <2>4. \A q \in Live' : state'[q] = "Loaded" => state[q] = "Loaded"
    BY <1>1, <1>2, <1>4 DEF IInv, TypeOK
  <2>5. QED
    BY <1>1, <2>1, <2>2, <2>3, <2>4 DEF IInv, ModuleHeld
<1>5. QED
  BY <1>3, <1>4, UnloadEffect

\* KextInfoUnload by a C client, of its own KextInfo or of one it found.
LEMMA BareUnloadStep ==
    ASSUME IInv, NEW o \in Live, NEW r, KextInfoUnload(o, r),
           foreign' \/ (o \notin wrapped /\ foreign' = foreign),
           foreign' \in BOOLEAN, direct' = direct, result' = "void",
           UNCHANGED <<bundle, wrapped, held, loaded, global, started>>
    PROVE  IInv'
<1>1. Live' = Live
  BY DEF Live
<1>2. ModuleHeld' /\ state' \in [Objects -> {"Unloaded", "Loaded", "Failed"}]
                  /\ kernel' \subseteq {Module[c] : c \in Bundles}
                  /\ struck' \subseteq {FileName[c] : c \in Bundles}
  BY <1>1, UnloadKeepsModules
<1>3. TypeOK'
  BY <1>1, <1>2, UnloadEffect DEF IInv, TypeOK
<1>4. RecordInv'
  <2>1. Live \subseteq Objects
    BY DEF Live
  <2>2. QED
    BY <1>1, <2>1, UnloadEffect
    DEF IInv, TypeOK, RecordInv, NoDangling, ListInv, FlagInv
<1>5. QuietInv'
  BY <1>1 DEF IInv, QuietInv, FreeInv, UnloadedIsQuiet
<1>6. QED
  BY <1>2, <1>3, <1>4, <1>5 DEF IInv

\* [o unload], also of an object that only _globalLoadedKexts retains.
LEMMA UnloadStep ==
    ASSUME IInv, NEW o \in wrapped, Unload(o), UNCHANGED history
    PROVE  IInv'
<1>1. o \in Live /\ o \in Objects /\ Live \subseteq Objects
  BY DEF IInv, TypeOK, Live
<1>2. UNCHANGED <<held, history>>
  BY DEF Unload
<1>3. CASE /\ o \notin loaded /\ result' = "YES"
           /\ UNCHANGED <<bundle, wrapped, loaded, global, state, infos, kernel, struck,
                          started>>
  BY <1>2, <1>3 DEF IInv, TypeOK, RecordInv, NoDangling, ListInv, FlagInv, Live,
     ModuleHeld, ModuleOf, QuietInv, FreeInv, UnloadedIsQuiet, history
<1>4. ASSUME o \in loaded, NEW r \in Results, KextInfoUnload(o, r),
             r # "Success", result' = "NO", stop(o),
             UNCHANGED <<bundle, wrapped, loaded, global>>
      PROVE  IInv'
  <2>1. UNCHANGED <<state, infos, kernel, struck>> /\ Live' = Live
    BY <1>1, <1>4, UnloadEffect DEF Live
  <2>2. started' = [started EXCEPT ![o] = {}]
    BY <1>4 DEF stop
  <2>3. TypeOK'
    BY <1>2, <1>4, <2>1, <2>2 DEF IInv, TypeOK, history
  <2>4. RecordInv' /\ ModuleHeld'
    BY <1>2, <1>4, <2>1 DEF IInv, RecordInv, NoDangling, ListInv, FlagInv,
       ModuleHeld, ModuleOf, history
  <2>5. QuietInv'
    BY <1>1, <1>2, <1>4, <2>1, <2>2
    DEF IInv, TypeOK, QuietInv, FreeInv, UnloadedIsQuiet, history
  <2>6. QED
    BY <2>3, <2>4, <2>5 DEF IInv
<1>5. ASSUME o \in loaded, KextInfoUnload(o, "Success"),
             global' = removeObject(global, o), result' = "YES",
             \/ /\ loaded' = loaded \ {o} /\ stop(o) /\ UNCHANGED <<bundle, wrapped>>
             \/ o \notin held /\ Destroy(o)
      PROVE  IInv'
  <2>1. /\ state' = [state EXCEPT ![o] = "Unloaded"]
        /\ infos' \in Seq(Objects) /\ Range(infos') = Range(infos) \ {o}
        /\ IsInjective(infos')
    BY <1>1, <1>5, UnloadEffect
  <2>2. loaded' = loaded \ {o} /\ started' = [started EXCEPT ![o] = {}]
    BY <1>5 DEF Destroy, stop
  <2>3. \/ bundle' = bundle /\ wrapped' = wrapped /\ Live' = Live
        \/ /\ o \notin held /\ bundle' = [bundle EXCEPT ![o] = NoBundle]
           /\ wrapped' = wrapped \ {o} /\ Live' = Live \ {o}
    BY <1>1, <1>5 DEF Destroy, Live, IInv, TypeOK
  <2>4. /\ global' \in Seq(Objects) /\ Range(global') = loaded'
        /\ IsInjective(global')
    BY <1>5, <2>2, RemoveObjectFacts DEF IInv, TypeOK, RecordInv
  <2>5. ModuleHeld' /\ state' \in [Objects -> {"Unloaded", "Loaded", "Failed"}]
                    /\ kernel' \subseteq {Module[c] : c \in Bundles}
                    /\ struck' \subseteq {FileName[c] : c \in Bundles}
    <3>1. Live' \subseteq Live /\ \A q \in Live' : bundle'[q] = bundle[q]
      BY <1>1, <2>3 DEF IInv, TypeOK
    <3>2. QED
      BY <1>1, <1>5, <3>1, UnloadKeepsModules
  <2>6. TypeOK'
    <3>1. bundle' \in [Objects -> Bundles \cup {NoBundle}]
      BY <2>3 DEF IInv, TypeOK
    <3>2. wrapped' \subseteq Live' /\ held' \subseteq Live'
      BY <1>2, <2>3 DEF IInv, TypeOK
    <3>3. started' \in [Objects -> SUBSET Pairs] /\ loaded' \subseteq Objects
      BY <2>2 DEF IInv, TypeOK
    <3>4. QED
      BY <1>2, <1>5, <2>1, <2>4, <2>5, <3>1, <3>2, <3>3
      DEF IInv, TypeOK, history
  <2>7. RecordInv'
    <3>1. state'[o] # "Loaded" /\ \A q \in Objects : q # o => state'[q] = state[q]
      BY <1>1, <2>1 DEF IInv, TypeOK
    <3>2. NoDangling' /\ ListInv'
      BY <1>1, <2>1, <2>3, <3>1 DEF IInv, RecordInv, NoDangling, ListInv
    <3>3. FlagInv'
      BY <1>1, <1>2, <2>2, <2>3, <3>1
      DEF IInv, TypeOK, RecordInv, FlagInv, history
    <3>4. QED
      BY <2>4, <3>2, <3>3 DEF RecordInv
  <2>8. QuietInv'
    BY <1>1, <1>2, <2>2, <2>3
    DEF IInv, TypeOK, QuietInv, FreeInv, UnloadedIsQuiet, history
  <2>9. QED
    BY <2>5, <2>6, <2>7, <2>8 DEF IInv
<1>6. QED
  <2>1. CASE o \in loaded /\ UnloadLoaded(o)
    <3>1. PICK r \in Results :
              /\ KextInfoUnload(o, r)
              /\ IF r = "Success"
                 THEN /\ global' = removeObject(global, o)
                      /\ result' = "YES"
                      /\ IF o \in held
                         THEN /\ loaded' = loaded \ {o}
                              /\ stop(o)
                              /\ UNCHANGED <<bundle, wrapped>>
                         ELSE Destroy(o)
                 ELSE /\ result' = "NO"
                      /\ stop(o)
                      /\ UNCHANGED <<bundle, wrapped, loaded, global>>
      BY <2>1 DEF UnloadLoaded
    <3>2. CASE r = "Success"
      BY <2>1, <3>1, <3>2, <1>5
    <3>3. CASE r # "Success"
      BY <2>1, <3>1, <3>3, <1>4
    <3>4. QED
      BY <3>2, <3>3
  <2>2. QED
    BY <1>3, <2>1 DEF Unload

\* Memory is given back: what libkern points to is never the victim.
LEMMA DestroyStep ==
    ASSUME IInv, NEW o \in Live, Destroy(o), o \notin loaded, state[o] # "Loaded",
           held' = held \ {o}, result' = "void",
           UNCHANGED <<global, state, infos, kernel, struck>>, UNCHANGED history
    PROVE  IInv'
<1>1. Live' = Live \ {o} /\ o \in Objects /\ Live \subseteq Objects
  BY DEF Destroy, Live, IInv, TypeOK
<1>2. /\ wrapped' = wrapped \ {o} /\ loaded' = loaded
      /\ started' = [started EXCEPT ![o] = {}]
      /\ bundle' = [bundle EXCEPT ![o] = NoBundle]
  BY DEF Destroy, stop
<1>3. TypeOK'
  <2>1. bundle' \in [Objects -> Bundles \cup {NoBundle}]
    BY <1>2 DEF IInv, TypeOK
  <2>2. started' \in [Objects -> SUBSET Pairs]
    BY <1>2 DEF IInv, TypeOK
  <2>3. QED
    BY <1>1, <1>2, <2>1, <2>2 DEF IInv, TypeOK, history
<1>4. RecordInv'
  BY <1>1, <1>2 DEF IInv, RecordInv, NoDangling, ListInv, FlagInv, history
<1>5. ModuleHeld'
  <2>1. \A q \in Live' : q \in Live /\ ModuleOf(q)' = ModuleOf(q)
    BY <1>1, <1>2 DEF IInv, TypeOK, ModuleOf
  <2>2. QED
    BY <2>1 DEF IInv, ModuleHeld
<1>6. QuietInv'
  BY <1>1, <1>2 DEF IInv, TypeOK, QuietInv, FreeInv, UnloadedIsQuiet, history
<1>7. QED
  BY <1>3, <1>4, <1>5, <1>6 DEF IInv

\* KextInfoFree gives back a bare KextInfo that is not loaded.
LEMMA KextInfoFreeStep ==
    ASSUME IInv, NEW o \in Objects, KextInfoFree(o), UNCHANGED history
    PROVE  IInv'
<1>1. o \in Live /\ o \notin loaded
  BY DEF KextInfoFree, IInv, TypeOK, RecordInv, FlagInv
<1>2. QED
  BY <1>1, DestroyStep DEF KextInfoFree

\* The last release deallocates; a loaded GNUKext is retained by its list.
LEMMA releaseStep ==
    ASSUME IInv, NEW o \in Objects, release(o), UNCHANGED history
    PROVE  IInv'
<1>1. o \in wrapped /\ o \in Live /\ held' = held \ {o} /\ result' = "void"
  BY DEF release, IInv, TypeOK
<1>2. CASE o \in Range(global) /\ UNCHANGED <<bundle, wrapped, loaded, started>>
  BY <1>1, <1>2 DEF release, IInv, TypeOK, RecordInv, NoDangling, ListInv,
     FlagInv, Live, ModuleHeld, ModuleOf, QuietInv, FreeInv, UnloadedIsQuiet,
     history
<1>3. CASE o \notin Range(global) /\ Destroy(o)
  <2>1. o \notin loaded /\ state[o] # "Loaded"
    BY <1>1, <1>3 DEF IInv, RecordInv, FlagInv
  <2>2. QED
    BY <1>1, <1>3, <2>1, DestroyStep DEF release
<1>4. QED
  BY <1>2, <1>3 DEF release

\* Steps that touch neither the records nor the memory.
LEMMA OtherStep ==
    ASSUME IInv, held \subseteq held', held' \subseteq Live,
           result' \in {"YES", "NO", "void"},
           UNCHANGED <<bundle, wrapped, loaded, global, state, infos, kernel, struck>>,
           foreign' = foreign, direct' \in BOOLEAN, direct => direct',
           started' \in [Objects -> SUBSET Pairs],
           \A o \in Objects : ~direct' /\ o \notin loaded => started'[o] = started[o],
           \A o \in Objects : o \notin Live => started'[o] = started[o]
    PROVE  IInv'
<1>1. Live' = Live /\ Live \subseteq Objects
  BY DEF Live
<1>2. TypeOK'
  BY <1>1 DEF IInv, TypeOK
<1>3. RecordInv' /\ ModuleHeld'
  BY <1>1 DEF IInv, RecordInv, NoDangling, ListInv, FlagInv, ModuleHeld, ModuleOf
<1>4. QuietInv'
  BY <1>1 DEF IInv, QuietInv, FreeInv, UnloadedIsQuiet
<1>5. QED
  BY <1>2, <1>3, <1>4 DEF IInv

\* startMatchingWithProvider: starts drivers also of a GNUKext not loaded, which
\* "direct" remembers.
LEMMA startMatchingStep ==
    ASSUME IInv, NEW o \in Objects, NEW p \in Providers,
           startMatchingWithProvider(o, p)
    PROVE  IInv'
<1>1. o \in Live /\ o \in Objects
  BY DEF startMatchingWithProvider, IInv, TypeOK, Live
<1>2. Startable(o, p) \subseteq Pairs
  BY <1>1, GNUKextAssumption DEF Startable, Pairs, IInv, TypeOK, Live
<1>3. PICK new \in SUBSET Startable(o, p) :
          started' = [started EXCEPT ![o] = @ \cup new]
  BY DEF startMatchingWithProvider, start
<1>4. started' \in [Objects -> SUBSET Pairs]
  BY <1>1, <1>2, <1>3 DEF IInv, TypeOK
<1>5. \A q \in Objects : q \notin Live => started'[q] = started[q]
  BY <1>1, <1>3 DEF IInv, TypeOK
<1>6. /\ direct' = TRUE /\ foreign' = foreign /\ result' = "YES" /\ held' = held
      /\ UNCHANGED <<bundle, wrapped, loaded, global, state, infos, kernel, struck>>
  BY DEF startMatchingWithProvider
<1>7. QED
  BY <1>4, <1>5, <1>6, OtherStep DEF IInv, TypeOK

\* matchAndStartDrivers starts drivers of the listed GNUKexts only.
LEMMA matchStep ==
    ASSUME IInv, matchAndStartDrivers, UNCHANGED history
    PROVE  IInv'
<1>1. Range(global) = loaded /\ loaded \subseteq Live /\ Live \subseteq Objects
  BY DEF IInv, TypeOK, RecordInv, FlagInv, Live
<1>2. PICK new \in [Range(global) -> SUBSET Pairs] :
          started' = [o \in Objects |->
                         IF o \in Range(global) THEN started[o] \cup new[o]
                         ELSE started[o]]
  BY DEF matchAndStartDrivers
<1>3. started' \in [Objects -> SUBSET Pairs]
  BY <1>2 DEF IInv, TypeOK
<1>4. \A o \in Objects : o \notin loaded => started'[o] = started[o]
  BY <1>1, <1>2
<1>5. /\ direct' = direct /\ foreign' = foreign /\ result' = "void" /\ held' = held
      /\ UNCHANGED <<bundle, wrapped, loaded, global, state, infos, kernel, struck>>
  BY DEF matchAndStartDrivers, history
<1>6. QED
  BY <1>1, <1>3, <1>4, <1>5, OtherStep DEF IInv, TypeOK

\* kextWithIdentifier:, and the two operations by identifier.
LEMMA ByIdentifierStep ==
    ASSUME IInv, NEW id \in Ids, UNCHANGED history,
           \/ kextWithIdentifier(id)
           \/ loadKextWithIdentifier(id)
           \/ unloadKextWithIdentifier(id)
    PROVE  IInv'
<1>1. First(global, id) \subseteq wrapped /\ wrapped \subseteq Live
  BY FirstFacts DEF IInv, TypeOK, RecordInv, FlagInv
<1>2. CASE kextWithIdentifier(id)
  BY <1>1, <1>2, OtherStep DEF kextWithIdentifier, history, IInv, TypeOK
<1>3. CASE \E o \in First(global, id) : Load(o)
  BY <1>1, <1>3, LoadStep
<1>4. CASE \E o \in First(global, id) : Unload(o)
  BY <1>1, <1>4, UnloadStep
<1>5. CASE /\ result' = "NO"
           /\ UNCHANGED <<bundle, wrapped, held, loaded, global, state, infos,
                          kernel, struck, started>>
  BY <1>5, OtherStep DEF history, IInv, TypeOK
<1>6. QED
  BY <1>2, <1>3, <1>4, <1>5 DEF loadKextWithIdentifier, unloadKextWithIdentifier

\* KextInfoUnload by a C client.
LEMMA CUnloadStep ==
    ASSUME IInv,
           \/ \E o \in Objects : InfoUnload(o) /\ UNCHANGED history
           \/ \E id \in Ids : FindAndUnload(id)
    PROVE  IInv'
<1>1. ASSUME NEW o \in Objects, InfoUnload(o), UNCHANGED history PROVE IInv'
  <2>1. o \in Live /\ o \notin wrapped
    BY <1>1 DEF InfoUnload, IInv, TypeOK
  <2>2. QED
    BY <1>1, <2>1, BareUnloadStep DEF InfoUnload, history, IInv, TypeOK
<1>2. ASSUME NEW id \in Ids, FindAndUnload(id) PROVE IInv'
  <2>1. PICK o \in First(infos, id), r \in Results : KextInfoUnload(o, r)
    BY <1>2 DEF FindAndUnload
  <2>2. o \in Live
    BY FirstFacts DEF IInv, TypeOK, RecordInv, NoDangling
  <2>3. QED
    BY <1>2, <2>1, <2>2, BareUnloadStep DEF FindAndUnload
<1>3. QED
  BY <1>1, <1>2

\* Every step preserves the invariant.
LEMMA IInvStep == IInv /\ [Next]_vars => IInv'
<1> SUFFICES ASSUME IInv, [Next]_vars PROVE IInv'
  OBVIOUS
<1>1. ASSUME NEW o \in Objects, NEW b \in Bundles, UNCHANGED history,
             KextInfoCreateFromPath(o, b) \/ kextWithPath(o, b)
      PROVE  IInv'
  BY <1>1, CreateStep DEF KextInfoCreateFromPath, kextWithPath
<1>2. ASSUME NEW o \in Objects, UNCHANGED history,
             InfoLoad(o) \/ KextInfoFree(o) \/ release(o)
      PROVE  IInv'
  BY <1>2, InfoLoadStep, KextInfoFreeStep, releaseStep
<1>3. ASSUME NEW o \in Objects, UNCHANGED history, load(o) \/ unload(o)
      PROVE  IInv'
  BY <1>3, LoadStep, UnloadStep DEF load, unload
<1>4. ASSUME matchAndStartDrivers, UNCHANGED history PROVE IInv'
  BY <1>4, matchStep
<1>5. CASE UNCHANGED vars
  BY <1>5, OtherStep DEF vars, IInv, TypeOK
<1>6. CASE CClient
  BY <1>1, <1>2, <1>6, CUnloadStep DEF CClient
<1>7. CASE KextClient
  BY <1>1, <1>2, <1>3, <1>4, <1>7, startMatchingStep, ByIdentifierStep
  DEF KextClient
<1>8. QED
  BY <1>5, <1>6, <1>7 DEF Next

-----------------------------------------------------------------------------
(* The theorems.                                                           *)

\* IInv is an invariant of the library under all its clients.
THEOREM InductiveInvariant == Spec => []IInv
  BY InitIInv, IInvStep, PTL DEF Spec

\* The five records of what is loaded: no pointer in _loadedKexts dangles, the
\* two layers agree as long as no C client unloads what is not its own, and the
\* kernel has the module of whatever counts as loaded, unless the unload of a kext
\* whose file is not named after its module took it away.
THEOREM RecordsAreSound == Spec => []RecordsSound
<1>1. IInv => RecordsAgree
  BY DEF IInv, TypeOK, RecordInv, NoDangling, ListInv, FlagInv, RecordsAgree
<1>2. IInv => RecordsSound
  BY <1>1 DEF IInv, RecordInv, RecordsSound
<1>3. QED
  BY <1>2, InductiveInvariant, PTL

\* A kext that is not loaded has no started driver, as long as drivers are
\* started by matchAndStartDrivers only.
THEOREM UnloadedStaysQuiet == Spec => []UnloadedIsQuiet
<1>1. IInv => UnloadedIsQuiet
  BY DEF IInv, QuietInv
<1>2. QED
  BY <1>1, InductiveInvariant, PTL

\* [o unload] of a loaded kext returns YES until a C client has unloaded a
\* KextInfo that it looked up.
THEOREM UnloadAlwaysSucceeds == Spec => UnloadSucceeds
<1>1. ASSUME IInv, ~foreign, NEW o \in loaded, unload(o) PROVE result' = "YES"
  <2>1. o \in Live /\ state[o] = "Loaded"
    BY <1>1 DEF IInv, TypeOK, RecordInv, FlagInv
  <2>2. UnloadLoaded(o)
    BY <1>1 DEF unload, Unload
  <2>3. QED
    BY <2>1, <2>2 DEF UnloadLoaded, KextInfoUnload
<1>2. IInv => [~foreign => \A o \in loaded : unload(o) => result' = "YES"]_vars
  BY <1>1
<1>3. QED
  BY <1>2, InductiveInvariant, PTL DEF UnloadSucceeds
=============================================================================
