------------------------ MODULE GNUKextRegistryProofs ------------------------
(***************************************************************************)
(* Proofs about GNUKextRegistry, for any entries and names and paths of    *)
(* any length.                                                             *)
(*                                                                         *)
(* The walk up from an entry is a set (Above), and what is known of walks  *)
(* follows from its being the least closed one: a step keeps the walks     *)
(* that meet nothing it changes, and a set that is closed after the step   *)
(* bounds the others.  On a walk that ends the number of entries above an  *)
(* entry is its place, which is what cached paths are compared by.         *)
(***************************************************************************)
EXTENDS GNUKextRegistry, TLAPS, FiniteSetTheorems, SequenceTheorems, WellFoundedInduction

\* Whoever lists an entry is its parent; the root is listed by nobody.
Linked ==
    /\ parent[Root] = Nil
    /\ \A p \in live : \A c \in children[p] : c \in live /\ c # Root /\ parent[c] = p

\* Parents, freed ones among them, were allocated at some time.
ParentsUsed == \A x \in used : parent[x] \in used \cup {Nil}

\* No walk up comes back to where it started.
NoCycle == \A e \in live : ~Ends(e) => e \notin Above(parent[e])

\* The children of an entry have different names.
OneName == \A p \in live : \A c, d \in children[p] : name[c] = name[d] => c = d

\* Every entry is retained by somebody.
Kept == \A e \in live : e = Root \/ e \in held \/ \E p \in live : e \in children[p]

\* A cached path that no move made stale has the names on the walk, if the walk
\* leads to the root: the one of x at the place of x.
PathFresh ==
    \A e \in live : path[e] # <<>> /\ e \notin stale /\ Root \in Above(e) =>
        /\ Len(path[e]) = Cardinality(Above(e))
        /\ \A x \in Above(e) : path[e][Cardinality(Above(x))] = name[x]

\* What an array lists is allocated, whatever the client does.
ListedLive == \A p \in live : children[p] \subseteq live

\* Memory that was never allocated has nothing in it.
Blank == \A e \in Entries \ used : path[e] = <<>> /\ children[e] = {}

IInv ==
    /\ TypeOK /\ ListedLive /\ Blank
    /\ careful => Linked /\ ParentsUsed /\ NoCycle /\ OneName /\ Kept /\ PathFresh

-----------------------------------------------------------------------------
(* Walks, for any set L of allocated entries and any parent pointers P.    *)

Pointers == [Entries -> Entries \cup {Nil}]
Stops(L, P, x) == x \notin L \/ P[x] = Nil
Closes(L, P, S) == \A x \in S : ~Stops(L, P, x) => P[x] \in S
Up(L, P, e) == {x \in Entries : \A S \in SUBSET Entries : e \in S /\ Closes(L, P, S) => x \in S}

\* Of an entry, that the walk from it does not come back.
Onward(L, P, x) == ~Stops(L, P, x) => x \notin Up(L, P, P[x])

\* The walks of the model are these, in a state and in the next.
LEMMA AboveIsUp == \A e : Above(e) = Up(live, parent, e) /\ (Ends(e) <=> Stops(live, parent, e))
BY DEF Above, Up, Closed, Closes, Ends, Stops

LEMMA AboveIsUpPrime ==
    \A e : Above(e)' = Up(live', parent', e) /\ (Ends(e)' <=> Stops(live', parent', e))
BY DEF Above, Up, Closed, Closes, Ends, Stops

\* The walk is the least closed set.
LEMMA UpLeast ==
    ASSUME NEW L, NEW P, NEW e \in Entries, NEW S \in SUBSET Entries, e \in S, Closes(L, P, S)
    PROVE  Up(L, P, e) \subseteq S
BY DEF Up

\* A walk is closed, and has its first entry.
LEMMA UpFacts ==
    ASSUME NEW L, NEW P \in Pointers, NEW e \in Entries
    PROVE  /\ Up(L, P, e) \in SUBSET Entries /\ e \in Up(L, P, e)
           /\ \A x \in Up(L, P, e) : ~Stops(L, P, x) => P[x] \in Up(L, P, e)
<1>1. Up(L, P, e) \in SUBSET Entries /\ e \in Up(L, P, e)
  BY DEF Up
<1>2. ASSUME NEW x \in Up(L, P, e), ~Stops(L, P, x) PROVE P[x] \in Up(L, P, e)
  <2>1. x \in Entries /\ P[x] \in Entries
    BY <1>1, <1>2 DEF Pointers, Stops
  <2>2. ASSUME NEW S \in SUBSET Entries, e \in S, Closes(L, P, S) PROVE P[x] \in S
    <3>1. x \in S
      BY <2>2 DEF Up
    <3>2. QED
      BY <1>2, <2>2, <3>1 DEF Closes
  <2>3. QED
    BY <2>1, <2>2 DEF Up
<1>3. QED
  BY <1>1, <1>2

\* The walk from an entry of a walk is part of it.
LEMMA UpMono ==
    ASSUME NEW L, NEW P \in Pointers, NEW e \in Entries, NEW x \in Up(L, P, e)
    PROVE  x \in Entries /\ Up(L, P, x) \subseteq Up(L, P, e)
<1>1. Up(L, P, e) \in SUBSET Entries /\ Closes(L, P, Up(L, P, e))
  BY UpFacts DEF Closes
<1>2. QED
  BY <1>1, UpLeast

\* A walk is its first entry and the walk from the parent.
LEMMA UpStep ==
    ASSUME NEW L, NEW P \in Pointers, NEW e \in Entries
    PROVE  /\ Stops(L, P, e) => Up(L, P, e) = {e}
           /\ ~Stops(L, P, e) => P[e] \in Entries /\ Up(L, P, e) = {e} \cup Up(L, P, P[e])
<1>1. ASSUME Stops(L, P, e) PROVE Up(L, P, e) = {e}
  <2>1. Closes(L, P, {e})
    BY <1>1 DEF Closes
  <2>2. Up(L, P, e) \subseteq {e}
    BY <2>1, UpLeast
  <2>3. QED
    BY <2>2, UpFacts
<1>2. ASSUME ~Stops(L, P, e) PROVE P[e] \in Entries /\ Up(L, P, e) = {e} \cup Up(L, P, P[e])
  <2>1. P[e] \in Entries
    BY <1>2 DEF Stops, Pointers
  <2> DEFINE S == {e} \cup Up(L, P, P[e])
  <2>2. S \in SUBSET Entries /\ e \in S /\ Closes(L, P, S)
    <3>1. P[e] \in Up(L, P, P[e]) /\ Up(L, P, P[e]) \in SUBSET Entries
          /\ \A x \in Up(L, P, P[e]) : ~Stops(L, P, x) => P[x] \in Up(L, P, P[e])
      BY <2>1, UpFacts
    <3>2. QED
      BY <3>1 DEF Closes
  <2>3. Up(L, P, e) \subseteq S
    <3> HIDE DEF S
    <3> QED
      BY <2>2, UpLeast
  <2>4. e \in Up(L, P, e) /\ P[e] \in Up(L, P, e)
    BY <1>2, UpFacts
  <2>5. Up(L, P, P[e]) \subseteq Up(L, P, e)
    BY <2>4, UpMono
  <2>6. QED
    BY <2>1, <2>3, <2>4, <2>5
<1>3. QED
  BY <1>1, <1>2

\* Of two entries on a walk, one is above the other.
LEMMA UpLinear ==
    ASSUME NEW L, NEW P \in Pointers, NEW e \in Entries,
           NEW x \in Up(L, P, e), NEW y \in Up(L, P, e)
    PROVE  x \in Up(L, P, y) \/ y \in Up(L, P, x)
<1> DEFINE S == {z \in Entries : z \in Up(L, P, y) \/ y \in Up(L, P, z)}
<1>0. y \in Entries
  BY UpMono
<1>1. e \in S
  OBVIOUS
<1>2. ASSUME NEW z \in S, ~Stops(L, P, z) PROVE P[z] \in S
  <2>1. P[z] \in Entries /\ Up(L, P, z) = {z} \cup Up(L, P, P[z])
    BY <1>2, UpStep
  <2>2. CASE z \in Up(L, P, y)
    BY <1>0, <1>2, <2>1, <2>2, UpFacts
  <2>3. CASE y \in Up(L, P, z)
    <3>1. CASE y = z
      BY <1>0, <1>2, <2>1, <3>1, UpFacts
    <3>2. CASE y \in Up(L, P, P[z])
      BY <2>1, <3>2
    <3>3. QED
      BY <2>1, <2>3, <3>1, <3>2
  <2>4. QED
    BY <2>2, <2>3
<1>3. S \in SUBSET Entries /\ Closes(L, P, S)
  BY <1>2 DEF Closes
<1>4. Up(L, P, e) \subseteq S
  <2> HIDE DEF S
  <2> QED
    BY <1>1, <1>3, UpLeast
<1>5. QED
  BY <1>4

\* A walk has one end.
LEMMA OneEnd ==
    ASSUME NEW L, NEW P \in Pointers, NEW e \in Entries,
           NEW x \in Up(L, P, e), NEW y \in Up(L, P, e), Stops(L, P, x), Stops(L, P, y)
    PROVE  x = y
<1>1. x \in Entries /\ y \in Entries
  BY UpMono
<1>2. Up(L, P, x) = {x} /\ Up(L, P, y) = {y}
  BY <1>1, UpStep
<1>3. QED
  BY <1>2, UpLinear

-----------------------------------------------------------------------------
(* Walks before (L, P) and after (M, Q) a step.                            *)

\* A step that changes nothing on a walk keeps it.
LEMMA SameWalk ==
    ASSUME NEW L, NEW P \in Pointers, NEW M, NEW Q \in Pointers, NEW e \in Entries,
           \A x \in Up(L, P, e) : /\ Stops(M, Q, x) <=> Stops(L, P, x)
                                  /\ ~Stops(L, P, x) => Q[x] = P[x]
    PROVE  Up(M, Q, e) = Up(L, P, e)
<1>1. Up(L, P, e) \in SUBSET Entries /\ e \in Up(L, P, e) /\ Closes(M, Q, Up(L, P, e))
  BY UpFacts DEF Closes
<1>2. Up(M, Q, e) \subseteq Up(L, P, e)
  BY <1>1, UpLeast
<1>3. Up(M, Q, e) \in SUBSET Entries /\ e \in Up(M, Q, e) /\ Closes(L, P, Up(M, Q, e))
  <2>1. Up(M, Q, e) \in SUBSET Entries /\ e \in Up(M, Q, e)
        /\ \A x \in Up(M, Q, e) : ~Stops(M, Q, x) => Q[x] \in Up(M, Q, e)
    BY UpFacts
  <2>2. QED
    BY <1>2, <2>1 DEF Closes
<1>4. Up(L, P, e) \subseteq Up(M, Q, e)
  BY <1>3, UpLeast
<1>5. QED
  BY <1>2, <1>4

\* A step that frees entries and takes parents away makes walks shorter.
LEMMA ShorterWalk ==
    ASSUME NEW L, NEW P \in Pointers, NEW M, NEW Q \in Pointers, NEW e \in Entries,
           \A x \in Entries : ~Stops(M, Q, x) => ~Stops(L, P, x) /\ Q[x] = P[x]
    PROVE  Up(M, Q, e) \subseteq Up(L, P, e)
<1>1. Up(L, P, e) \in SUBSET Entries /\ e \in Up(L, P, e) /\ Closes(M, Q, Up(L, P, e))
  <2>1. Up(L, P, e) \in SUBSET Entries /\ e \in Up(L, P, e)
        /\ \A x \in Up(L, P, e) : ~Stops(L, P, x) => P[x] \in Up(L, P, e)
    BY UpFacts
  <2>2. QED
    BY <2>1 DEF Closes
<1>2. QED
  BY <1>1, UpLeast

\* One that still leads to the root is the same as before.
LEMMA RootWalk ==
    ASSUME NEW L, NEW P \in Pointers, NEW M, NEW Q \in Pointers, NEW e \in Entries,
           \A x \in Entries : ~Stops(M, Q, x) => ~Stops(L, P, x) /\ Q[x] = P[x],
           Stops(L, P, Root), Root \in Up(M, Q, e)
    PROVE  \A x \in Up(L, P, e) : Up(M, Q, x) = Up(L, P, x)
<1>0. Root \in Entries
  BY RegistryAssumption
<1>1. Stops(M, Q, Root)
  BY <1>0
<1>2. \A x \in Up(M, Q, e) : x \in Entries /\ (Stops(M, Q, x) => x = Root)
  BY <1>1, OneEnd, UpMono
<1>3. \A x \in Up(M, Q, e) : /\ Stops(L, P, x) <=> Stops(M, Q, x)
                             /\ ~Stops(M, Q, x) => P[x] = Q[x]
  BY <1>2
<1>4. Up(L, P, e) = Up(M, Q, e)
  BY <1>3, SameWalk
<1>5. ASSUME NEW x \in Up(L, P, e) PROVE Up(M, Q, x) = Up(L, P, x)
  <2>1. x \in Entries /\ Up(L, P, x) \subseteq Up(M, Q, e)
    BY <1>4, UpMono
  <2>2. \A y \in Up(L, P, x) : /\ Stops(M, Q, y) <=> Stops(L, P, y)
                               /\ ~Stops(L, P, y) => Q[y] = P[y]
    BY <1>3, <2>1
  <2>3. QED
    BY <2>1, <2>2, SameWalk
<1>6. QED
  BY <1>5

-----------------------------------------------------------------------------
(* The places on a walk that ends.                                         *)

\* A walk that ends goes on from every entry of it.
LEMMA EndedWalk ==
    ASSUME NEW L, NEW P \in Pointers, NEW e \in Entries, NEW t \in Up(L, P, e), Stops(L, P, t)
    PROVE  \A x \in Up(L, P, e) : Onward(L, P, x)
<1> SUFFICES ASSUME NEW x \in Up(L, P, e), ~Stops(L, P, x), x \in Up(L, P, P[x]) PROVE FALSE
  BY DEF Onward
<1>0. t \in Entries /\ x \in Entries
  BY UpMono
<1> DEFINE S == {y \in Entries : x \in Up(L, P, y)}
<1>1. x \in S /\ S \in SUBSET Entries
  BY <1>0, UpFacts
<1>2. ASSUME NEW y \in S, ~Stops(L, P, y) PROVE P[y] \in S
  <2>1. P[y] \in Entries /\ Up(L, P, y) = {y} \cup Up(L, P, P[y])
    BY <1>2, UpStep
  <2>2. QED
    BY <2>1
<1>3. Closes(L, P, S)
  BY <1>2 DEF Closes
<1>4. Up(L, P, x) \subseteq S
  <2> HIDE DEF S
  <2> QED
    BY <1>0, <1>1, <1>3, UpLeast
<1>5. Up(L, P, t) = {t}
  BY <1>0, UpStep
<1>6. t \in Up(L, P, x)
  BY <1>5, UpLinear
<1>7. QED
  BY <1>4, <1>5, <1>6

Place(L, P, x) == Cardinality(Up(L, P, x))

\* Places count from 1.
LEMMA PlaceType ==
    ASSUME NEW L, NEW P \in Pointers, NEW e \in Entries
    PROVE  IsFiniteSet(Up(L, P, e)) /\ Place(L, P, e) \in Nat \ {0}
<1>1. Up(L, P, e) \in SUBSET Entries /\ e \in Up(L, P, e)
  BY UpFacts
<1>2. IsFiniteSet(Up(L, P, e))
  BY <1>1, RegistryAssumption, FS_Subset
<1>3. QED
  BY <1>1, <1>2, FS_CardinalityType, FS_EmptySet DEF Place

\* The parent is one place further up.
LEMMA PlaceStep ==
    ASSUME NEW L, NEW P \in Pointers, NEW e \in Entries, Onward(L, P, e)
    PROVE  /\ Stops(L, P, e) => Place(L, P, e) = 1
           /\ ~Stops(L, P, e) => Place(L, P, e) = Place(L, P, P[e]) + 1
<1>1. ASSUME Stops(L, P, e) PROVE Place(L, P, e) = 1
  BY <1>1, UpStep, FS_Singleton DEF Place
<1>2. ASSUME ~Stops(L, P, e) PROVE Place(L, P, e) = Place(L, P, P[e]) + 1
  <2>1. P[e] \in Entries /\ Up(L, P, e) = {e} \cup Up(L, P, P[e]) /\ e \notin Up(L, P, P[e])
    BY <1>2, UpStep DEF Onward
  <2>2. IsFiniteSet(Up(L, P, P[e]))
    BY <2>1, PlaceType
  <2>3. Up(L, P, e) = Up(L, P, P[e]) \cup {e}
    BY <2>1
  <2>4. QED
    BY <2>1, <2>2, <2>3, FS_AddElement DEF Place
<1>3. QED
  BY <1>1, <1>2

\* An entry further up has a lower place.
LEMMA PlaceBefore ==
    ASSUME NEW L, NEW P \in Pointers, NEW y \in Entries, Onward(L, P, y),
           NEW x \in Up(L, P, y), x # y
    PROVE  Place(L, P, x) < Place(L, P, y)
<1>1. ~Stops(L, P, y) /\ P[y] \in Entries /\ Up(L, P, y) = {y} \cup Up(L, P, P[y])
  BY UpStep
<1>2. x \in Entries /\ Up(L, P, x) \subseteq Up(L, P, P[y])
  BY <1>1, UpMono
<1>3. Place(L, P, x) <= Place(L, P, P[y])
  BY <1>1, <1>2, PlaceType, FS_Subset DEF Place
<1>4. Place(L, P, y) = Place(L, P, P[y]) + 1
  BY <1>1, PlaceStep
<1>5. QED
  BY <1>1, <1>2, <1>3, <1>4, PlaceType

\* No two entries of a walk have one place, and the first has the last.
LEMMA PlaceUnique ==
    ASSUME NEW L, NEW P \in Pointers, NEW e \in Entries, \A x \in Up(L, P, e) : Onward(L, P, x)
    PROVE  /\ \A x, y \in Up(L, P, e) : Place(L, P, x) = Place(L, P, y) => x = y
           /\ \A x \in Up(L, P, e) : Place(L, P, x) \in 1..Place(L, P, e)
<1>1. ASSUME NEW x \in Up(L, P, e), NEW y \in Up(L, P, e), x \in Up(L, P, y), x # y
      PROVE  Place(L, P, x) < Place(L, P, y)
  <2>1. y \in Entries
    BY UpMono
  <2>2. QED
    BY <1>1, <2>1, PlaceBefore
<1>2. \A x \in Up(L, P, e) : Place(L, P, x) \in Nat \ {0}
  BY PlaceType, UpMono
<1>3. ASSUME NEW x \in Up(L, P, e), NEW y \in Up(L, P, e), Place(L, P, x) = Place(L, P, y)
      PROVE  x = y
  <2>1. x \in Up(L, P, y) \/ y \in Up(L, P, x)
    BY UpLinear
  <2>2. ~(Place(L, P, x) < Place(L, P, y)) /\ ~(Place(L, P, y) < Place(L, P, x))
    BY <1>2, <1>3
  <2>3. QED
    BY <1>1, <2>1, <2>2
<1>4. ASSUME NEW x \in Up(L, P, e) PROVE Place(L, P, x) \in 1..Place(L, P, e)
  <2>1. e \in Up(L, P, e)
    BY UpFacts
  <2>2. x = e \/ Place(L, P, x) < Place(L, P, e)
    BY <1>1, <2>1
  <2>3. QED
    BY <1>2, <2>1, <2>2
<1>5. QED
  BY <1>3, <1>4

\* Every nonempty set of naturals has a least element.
LEMMA Least ==
    ASSUME NEW T \in SUBSET Nat, T # {}
    PROVE  \E x \in T : \A y \in T : x <= y
<1>1. IsWellFoundedOn(OpToRel(<, Nat), Nat)
  BY NatLessThanWellFounded
<1>2. PICK x \in T : \A y \in T : ~(<<y, x>> \in OpToRel(<, Nat))
  BY <1>1, WFMin
<1>3. \A y \in T : ~(y < x)
  BY <1>2 DEF OpToRel
<1>4. QED
  BY <1>3

\* Every place of a walk is taken: below the lowest free place there would be an
\* entry whose parent takes it.
LEMMA PlaceTaken ==
    ASSUME NEW L, NEW P \in Pointers, NEW e \in Entries, \A x \in Up(L, P, e) : Onward(L, P, x),
           NEW i \in 1..Place(L, P, e)
    PROVE  \E x \in Up(L, P, e) : Place(L, P, x) = i
<1> DEFINE N == Place(L, P, e)
           Taken(j) == \E x \in Up(L, P, e) : Place(L, P, x) = j
           Free == {d \in 0..(N - 1) : ~Taken(N - d)}
<1>0. N \in Nat \ {0}
  BY PlaceType
<1>1. Taken(N)
  BY UpFacts
<1>2. ASSUME NEW j \in 1..N, j # 1, Taken(j) PROVE Taken(j - 1)
  <2>1. PICK x \in Up(L, P, e) : Place(L, P, x) = j
    BY <1>2
  <2>2. x \in Entries
    BY UpMono
  <2>3. ~Stops(L, P, x) /\ j = Place(L, P, P[x]) + 1
    BY <1>2, <2>1, <2>2, PlaceStep
  <2>4. P[x] \in Up(L, P, e) /\ P[x] \in Entries
    BY <2>3, UpFacts, UpMono
  <2>5. Place(L, P, P[x]) = j - 1
    BY <2>3, <2>4, PlaceType
  <2>6. QED
    BY <2>4, <2>5
<1>3. Free = {}
  <2>1. SUFFICES ASSUME Free # {} PROVE FALSE
    OBVIOUS
  <2>2. PICK d \in Free : \A y \in Free : d <= y
    <3>1. Free \in SUBSET Nat
      BY <1>0
    <3> HIDE DEF Free
    <3>2. QED
      BY <2>1, <3>1, Least
  <2>3. d \in 0..(N - 1) /\ ~Taken(N - d)
    OBVIOUS
  <2> HIDE DEF N, Taken
  <2>4. d # 0
    BY <1>0, <1>1, <2>3
  <2>5. d - 1 \in 0..(N - 1) /\ ~(d <= d - 1)
    BY <1>0, <2>3, <2>4
  <2>6. d - 1 \notin Free
    <3> HIDE DEF Free
    <3> QED
      BY <2>2, <2>5
  <2>7. Taken(N - (d - 1))
    BY <2>5, <2>6
  <2>8. N - (d - 1) \in 1..N /\ N - (d - 1) # 1 /\ (N - (d - 1)) - 1 = N - d
    BY <1>0, <2>3, <2>4
  <2>9. QED
    BY <1>2, <2>3, <2>7, <2>8
<1>4. N - i \in 0..(N - 1) /\ N - (N - i) = i
  BY <1>0
<1>5. QED
  <2>1. N - i \notin Free
    BY <1>3
  <2>2. Taken(N - (N - i))
    BY <1>4, <2>1
  <2> HIDE DEF N
  <2>3. QED
    BY <1>4, <2>2

\* A walk on which nothing comes back ends.
LEMMA WalkEnds ==
    ASSUME NEW L, NEW P \in Pointers, NEW e \in Entries, \A x \in Up(L, P, e) : Onward(L, P, x)
    PROVE  \E t \in Up(L, P, e) : Stops(L, P, t)
<1>1. 1 \in 1..Place(L, P, e)
  BY PlaceType
<1>2. PICK t \in Up(L, P, e) : Place(L, P, t) = 1
  BY <1>1, PlaceTaken
<1>3. t \in Entries
  BY UpMono
<1>4. ASSUME ~Stops(L, P, t) PROVE FALSE
  <2>1. P[t] \in Entries /\ 1 = Place(L, P, P[t]) + 1
    BY <1>2, <1>3, <1>4, PlaceStep, UpStep
  <2>2. QED
    BY <2>1, PlaceType
<1>5. QED
  BY <1>4

\* What entryPath collects: at every place, the entry that has it.
LEMMA ChainFacts ==
    ASSUME parent \in Pointers, NEW e \in Entries,
           \A x \in Above(e) : Onward(live, parent, x)
    PROVE  /\ Cardinality(Above(e)) \in Nat \ {0}
           /\ Len(Chain(e)) = Cardinality(Above(e)) /\ Chain(e) \in Seq(Above(e))
           /\ \A x \in Above(e) : /\ Cardinality(Above(x)) \in 1..Cardinality(Above(e))
                                  /\ Chain(e)[Cardinality(Above(x))] = x
           /\ \A i \in 1..Cardinality(Above(e)) : /\ Chain(e)[i] \in Above(e)
                                                  /\ Cardinality(Above(Chain(e)[i])) = i
<1> DEFINE N == Cardinality(Above(e))
           C(i) == CHOOSE x \in Above(e) : Cardinality(Above(x)) = i
<1>0. \A x : Above(x) = Up(live, parent, x) /\ Cardinality(Above(x)) = Place(live, parent, x)
  BY AboveIsUp DEF Place
<1>1. N \in Nat \ {0}
  BY <1>0, PlaceType
<1>2. \A i \in 1..N : \E x \in Above(e) : Cardinality(Above(x)) = i
  BY <1>0, PlaceTaken
<1>3. \A i \in 1..N : C(i) \in Above(e) /\ Cardinality(Above(C(i))) = i
  BY <1>2
<1>4. \A x, y \in Above(e) : Cardinality(Above(x)) = Cardinality(Above(y)) => x = y
  BY <1>0, PlaceUnique
<1>5. \A x \in Above(e) : Cardinality(Above(x)) \in 1..N
  BY <1>0, PlaceUnique
<1>6. Chain(e) = [i \in 1..N |-> C(i)]
  BY DEF Chain
<1> HIDE DEF N, C
<1>7. Chain(e) \in [1..N -> Above(e)]
  BY <1>3, <1>6
<1>8. Chain(e) \in Seq(Above(e)) /\ Len(Chain(e)) = N
  BY <1>1, <1>6, <1>7, LenProperties, SeqDef
<1>9. \A i \in 1..N : Chain(e)[i] \in Above(e) /\ Cardinality(Above(Chain(e)[i])) = i
  BY <1>3, <1>6
<1>10. \A x \in Above(e) : Chain(e)[Cardinality(Above(x))] = x
  BY <1>4, <1>5, <1>9
<1>11. QED
  BY <1>1, <1>5, <1>8, <1>9, <1>10 DEF N

-----------------------------------------------------------------------------
(* Following a path down.                                                  *)

\* childWithName: a child of that name, or Nil if there is none.
LEMMA ChildFacts ==
    ASSUME NEW e, NEW s
    PROVE  /\ \/ childWithName(e, s) = Nil
              \/ childWithName(e, s) \in children[e] /\ name[childWithName(e, s)] = s
           /\ Nil \notin children[e] /\ childWithName(e, s) = Nil =>
                 \A c \in children[e] : name[c] # s
<1> DEFINE found == {c \in children[e] : name[c] = s}
<1>1. childWithName(e, s) = IF found = {} THEN Nil ELSE CHOOSE c \in found : TRUE
  BY DEF childWithName
<1>2. found # {} => (CHOOSE c \in found : TRUE) \in found
  OBVIOUS
<1>3. QED
  <2>1. CASE found = {}
    <3>1. childWithName(e, s) = Nil
      BY <1>1, <2>1
    <3>2. \A c \in children[e] : name[c] # s
      BY <2>1
    <3>3. QED
      BY <3>1, <3>2
  <2>2. CASE found # {}
    <3>1. childWithName(e, s) \in found
      BY <1>1, <1>2, <2>2
    <3> QED
      BY <3>1
  <2>3. QED
    BY <2>1, <2>2

\* It starts at e, and goes on from an entry to the child of the next name.
LEMMA AlongSteps ==
    ASSUME NEW e, NEW p, Len(p) \in Nat
    PROVE  /\ Along(e, p)[0] = e
           /\ \A i \in 1..Len(p) :
                Along(e, p)[i] = IF Along(e, p)[i - 1] = Nil THEN Nil
                                 ELSE childWithName(Along(e, p)[i - 1], p[i])
<1> DEFINE Body(f, i) == IF i = 0 THEN e
                         ELSE IF f[i - 1] = Nil THEN Nil ELSE childWithName(f[i - 1], p[i])
           at == CHOOSE f : f = [i \in 0..Len(p) |-> Body(f, i)]
<1>1. Along(e, p) = at
  BY DEF Along
<1>2. \E f : f = [i \in 0..Len(p) |-> Body(f, i)]
  <2> DEFINE Child(x, i) == IF x = Nil THEN Nil ELSE childWithName(x, p[i])
             Leads(f, m) == f = [i \in 0..m |-> IF i = 0 THEN e ELSE Child(f[i - 1], i)]
             Bad == {m \in Nat : ~\E f : Leads(f, m)}
  <2>1. SUFFICES ASSUME Bad # {} PROVE FALSE
    OBVIOUS
  <2>2. PICK m \in Bad : \A y \in Bad : m <= y
    <3>1. Bad \in SUBSET Nat
      OBVIOUS
    <3> HIDE DEF Bad
    <3>2. QED
      BY <2>1, <3>1, Least
  <2>3. m \in Nat /\ ~\E f : Leads(f, m)
    OBVIOUS
  <2> HIDE DEF Child
  <2>4. m # 0
    <3>1. Leads([j \in 0..0 |-> e], 0)
      OBVIOUS
    <3> HIDE DEF Leads
    <3>2. QED
      BY <2>3, <3>1
  <2>5. m - 1 \in Nat /\ m - 1 \notin Bad
    <3>1. m - 1 \in Nat /\ ~(m <= m - 1)
      BY <2>3, <2>4
    <3> HIDE DEF Bad
    <3>2. QED
      BY <2>2, <3>1
  <2>6. PICK f : Leads(f, m - 1)
    BY <2>5
  <2> DEFINE g == [j \in 0..m |-> IF j = m THEN Child(f[m - 1], m) ELSE f[j]]
  <2>7. ASSUME NEW j \in 0..m
        PROVE  g[j] = IF j = 0 THEN e ELSE Child(g[j - 1], j)
    <3>1. CASE j = 0
      <4>1. g[j] = f[j] /\ j \in 0..(m - 1)
        BY <2>3, <2>4, <3>1
      <4>2. f[j] = e
        BY <2>6, <3>1, <4>1
      <4> HIDE DEF g
      <4>3. QED
        BY <3>1, <4>1, <4>2
    <3>2. CASE j # 0
      <4>1. j - 1 \in 0..(m - 1) /\ j - 1 \in 0..m /\ j - 1 # m
        BY <2>3, <3>2
      <4>2. g[j - 1] = f[j - 1]
        BY <4>1
      <4>3. j # m => f[j] = Child(f[j - 1], j)
        <5>1. j # m => j \in 0..(m - 1)
          BY <2>3
        <5>2. QED
          BY <2>6, <3>2, <5>1
      <4>4. g[j] = Child(f[j - 1], j)
        BY <3>2, <4>3
      <4> HIDE DEF g
      <4>5. QED
        BY <3>2, <4>2, <4>4
    <3>3. QED
      BY <3>1, <3>2
  <2>8. Leads(g, m)
    <3>1. g = [j \in 0..m |-> g[j]]
      OBVIOUS
    <3> HIDE DEF g
    <3>2. QED
      BY <2>7, <3>1
  <2> HIDE DEF Leads
  <2>9. QED
    BY <2>3, <2>8
<1>3. at = [i \in 0..Len(p) |-> Body(at, i)]
  BY <1>2, Zenon
<1> HIDE DEF at
<1>4. \A i \in 0..Len(p) : at[i] = Body(at, i)
  <2> HIDE DEF Body
  <2> QED
    BY <1>3
<1>5. QED
  <2>1. 0 \in 0..Len(p) /\ \A i \in 1..Len(p) : i \in 0..Len(p) /\ i # 0
    OBVIOUS
  <2>2. QED
    BY <1>1, <1>4, <2>1

\* What is met on the way is allocated.
LEMMA AlongLive ==
    ASSUME ListedLive, NEW e \in live, NEW p, Len(p) \in Nat
    PROVE  \A i \in 0..Len(p) : Along(e, p)[i] \in live \cup {Nil}
<1> DEFINE at == Along(e, p)
           Bad == {i \in 0..Len(p) : at[i] \notin live \cup {Nil}}
<1>1. SUFFICES ASSUME Bad # {} PROVE FALSE
  OBVIOUS
<1>2. PICK m \in Bad : \A y \in Bad : m <= y
  <2>1. Bad \in SUBSET Nat
    OBVIOUS
  <2> HIDE DEF Bad
  <2>2. QED
    BY <1>1, <2>1, Least
<1>3. m \in 0..Len(p) /\ at[m] \notin live \cup {Nil}
  OBVIOUS
<1>4. m # 0
  BY <1>3, AlongSteps
<1>5. m \in 1..Len(p) /\ m - 1 \in 0..Len(p) /\ ~(m <= m - 1)
  BY <1>3, <1>4
<1>6. at[m - 1] \in live \cup {Nil}
  <2>1. m - 1 \notin Bad
    <3> HIDE DEF Bad
    <3> QED
      BY <1>2, <1>5
  <2>2. QED
    BY <1>5, <2>1
<1>7. at[m] = IF at[m - 1] = Nil THEN Nil ELSE childWithName(at[m - 1], p[m])
  BY <1>5, AlongSteps
<1> HIDE DEF at
<1>8. QED
  BY <1>3, <1>6, <1>7, ChildFacts DEF ListedLive

\* The last entry of the path that is there.
LEMMA KnownExists ==
    ASSUME NEW e, e # Nil, NEW p, Len(p) \in Nat
    PROVE  \E k \in 0..Len(p) : /\ Along(e, p)[k] # Nil
                                /\ \A j \in (k + 1)..Len(p) : Along(e, p)[j] = Nil
<1> DEFINE n == Len(p)   at == Along(e, p)
           T == {d \in 0..n : at[n - d] # Nil}
<1>1. n \in T /\ T \in SUBSET Nat
  <2>1. n - n = 0 /\ n \in 0..n
    OBVIOUS
  <2>2. QED
    BY <2>1, AlongSteps
<1> HIDE DEF n
<1>0. n \in Nat
  BY DEF n
<1>2. PICK d \in T : \A y \in T : d <= y
  <2> HIDE DEF T
  <2> QED
    BY <1>1, Least
<1>3. n - d \in 0..n /\ at[n - d] # Nil
  BY <1>0
<1>4. ASSUME NEW j \in ((n - d) + 1)..n PROVE at[j] = Nil
  <2>1. n - j \in 0..n /\ n - (n - j) = j /\ ~(d <= n - j)
    BY <1>0
  <2>2. n - j \notin T
    <3> HIDE DEF T
    <3> QED
      BY <1>2, <2>1
  <2>3. QED
    BY <2>1, <2>2
<1>5. QED
  BY <1>3, <1>4 DEF n, at

-----------------------------------------------------------------------------
(* What the invariant says about trees and paths.                          *)

\* Entries and their parents, as the lemmas about walks want them.
LEMMA TypeFacts ==
    ASSUME TypeOK
    PROVE  /\ parent \in Pointers /\ live \subseteq Entries /\ Root \in live /\ Root \in Entries
           /\ Nil \notin Entries
           /\ \A p \in Entries : children[p] \subseteq Entries /\ Nil \notin children[p]
BY RegistryAssumption DEF TypeOK, Pointers

\* Without cycles no walk comes back.
LEMMA AllOnward ==
    ASSUME TypeOK, NoCycle
    PROVE  \A x \in Entries : Onward(live, parent, x)
<1>1. ASSUME NEW x \in Entries, ~Stops(live, parent, x) PROVE x \notin Up(live, parent, parent[x])
  <2>1. x \in live
    BY <1>1 DEF Stops
  <2>2. ~Ends(x)
    BY <1>1, AboveIsUp
  <2>3. x \notin Above(parent[x])
    BY <2>1, <2>2 DEF NoCycle
  <2>4. QED
    BY <2>3, AboveIsUp
<1>2. QED
  BY <1>1 DEF Onward

\* Walks without cycles end.
LEMMA InvTreeShape ==
    ASSUME IInv
    PROVE  TreeShape
<1> SUFFICES ASSUME careful, NEW p \in live, NEW c \in children[p]
             PROVE  c \in live /\ parent[c] = p /\ ~Cyclic(c)
  BY DEF TreeShape
<1>1. TypeOK /\ Linked /\ NoCycle
  BY DEF IInv
<1>2. c \in live /\ parent[c] = p
  BY <1>1 DEF Linked
<1>3. c \in Entries /\ parent \in Pointers
  BY <1>1, <1>2, TypeFacts
<1>4. \A x \in Up(live, parent, c) : Onward(live, parent, x)
  BY <1>1, <1>3, AllOnward, UpMono
<1>5. PICK t \in Up(live, parent, c) : Stops(live, parent, t)
  BY <1>3, <1>4, WalkEnds
<1>6. t \in Above(c) /\ Ends(t)
  BY <1>5, AboveIsUp
<1>7. QED
  BY <1>2, <1>6 DEF Cyclic

\* Of the entries that nobody outside of S lists, the one nearest to the end of its
\* walk is listed by its parent, which is nearer.
LEMMA InvNoLeak ==
    ASSUME IInv
    PROVE  NoLeak
<1> SUFFICES ASSUME careful, NEW S \in SUBSET (live \ (held \cup {Root})), S # {}
             PROVE  \E e \in S, p \in live \ S : e \in children[p]
  BY DEF NoLeak
<1>1. TypeOK /\ Linked /\ NoCycle /\ Kept
  BY DEF IInv
<1>2. parent \in Pointers /\ S \subseteq Entries /\ live \subseteq Entries /\ Nil \notin Entries
  BY <1>1, TypeFacts
<1> DEFINE T == {Place(live, parent, x) : x \in S}
<1>3. T \in SUBSET Nat /\ T # {}
  BY <1>2, PlaceType
<1>4. PICK k \in T : \A y \in T : k <= y
  <2> HIDE DEF T
  <2> QED
    BY <1>3, Least
<1>5. PICK e \in S : k = Place(live, parent, e)
  OBVIOUS
<1>6. PICK p \in live : e \in children[p]
  BY <1>1 DEF Kept
<1>7. parent[e] = p /\ e \in live
  BY <1>1, <1>6 DEF Linked
<1>8. ~Stops(live, parent, e)
  BY <1>2, <1>7 DEF Stops
<1>9. Place(live, parent, e) = Place(live, parent, p) + 1
  BY <1>1, <1>2, <1>7, <1>8, AllOnward, PlaceStep
<1>10. p \notin S
  <2>1. Place(live, parent, p) \in Nat /\ Place(live, parent, e) \in Nat
    BY <1>2, PlaceType
  <2>2. p \in S => k <= Place(live, parent, p)
    BY <1>4
  <2>3. QED
    BY <1>5, <1>9, <2>1, <2>2
<1>11. QED
  BY <1>6, <1>10

\* A path that has the names on the walk leads down along it.
LEMMA InvPathResolves ==
    ASSUME IInv
    PROVE  PathResolves
<1> SUFFICES ASSUME careful, NEW e \in live, path[e] # <<>>, e \notin stale, Root \in Above(e),
                    \A x \in Above(e) \ {Root} : x \in children[parent[x]]
             PROVE  Lookup(Root, Tail(path[e])) = e
  BY DEF PathResolves
<1> DEFINE N == Cardinality(Above(e))   q == Tail(path[e])   at == Along(Root, q)
<1>1. TypeOK /\ Linked /\ NoCycle /\ OneName /\ PathFresh
  BY DEF IInv
<1>2. /\ parent \in Pointers /\ e \in Entries /\ Root \in Entries /\ Nil \notin Entries
      /\ Root \in live /\ live \subseteq Entries
      /\ \A p \in Entries : children[p] \subseteq Entries /\ Nil \notin children[p]
  BY <1>1, TypeFacts
<1>3. \A x : /\ Above(x) = Up(live, parent, x)
             /\ Cardinality(Above(x)) = Place(live, parent, x)
             /\ Ends(x) <=> Stops(live, parent, x)
  BY AboveIsUp DEF Place
<1>4. \A x \in Above(e) : x \in Entries /\ Onward(live, parent, x)
  BY <1>1, <1>2, <1>3, AllOnward, UpMono
<1>5. /\ N \in Nat \ {0}
      /\ \A x \in Above(e) : /\ Cardinality(Above(x)) \in 1..N
                             /\ Chain(e)[Cardinality(Above(x))] = x
      /\ \A i \in 1..N : /\ Chain(e)[i] \in Above(e)
                         /\ Cardinality(Above(Chain(e)[i])) = i
  BY <1>2, <1>4, ChainFacts
<1>6. /\ Len(path[e]) = N /\ \A x \in Above(e) : path[e][Cardinality(Above(x))] = name[x]
  BY <1>1 DEF PathFresh
<1>7. path[e] \in Seq(Names \cup {RootName})
  BY <1>1, <1>2 DEF TypeOK
<1>8. Len(q) = N - 1 /\ \A i \in 1..(N - 1) : q[i] = path[e][i + 1]
  BY <1>5, <1>6, <1>7, HeadTailProperties
<1>9. Cardinality(Above(Root)) = 1 /\ Stops(live, parent, Root)
  <2>1. Stops(live, parent, Root)
    BY <1>1 DEF Linked, Stops
  <2>2. QED
    BY <1>2, <1>3, <1>4, <2>1, PlaceStep
<1>10. at[0] = Root /\ \A i \in 1..(N - 1) :
           at[i] = IF at[i - 1] = Nil THEN Nil ELSE childWithName(at[i - 1], q[i])
  <2>1. Len(q) \in Nat
    BY <1>5, <1>8
  <2> HIDE DEF q, N
  <2>2. at[0] = Root /\ \A i \in 1..Len(q) :
            at[i] = IF at[i - 1] = Nil THEN Nil ELSE childWithName(at[i - 1], q[i])
    BY <2>1, AlongSteps
  <2>3. QED
    BY <1>8, <2>2
<1> HIDE DEF N, q, at
<1>11. ASSUME NEW i \in 1..(N - 1), at[i - 1] = Chain(e)[i] PROVE at[i] = Chain(e)[i + 1]
  <2> DEFINE x == Chain(e)[i + 1]   y == Chain(e)[i]
  <2>0. i \in 1..N /\ i + 1 \in 1..N /\ i + 1 # 1 /\ i \in Nat
    BY <1>5
  <2>1. /\ x \in Above(e) /\ Cardinality(Above(x)) = i + 1
        /\ y \in Above(e) /\ Cardinality(Above(y)) = i
    BY <1>5, <2>0
  <2> HIDE DEF x, y
  <2>2. x \in Entries /\ y \in Entries /\ Onward(live, parent, x)
    BY <1>4, <2>1
  <2>3. ~Stops(live, parent, x) /\ Place(live, parent, parent[x]) + 1 = i + 1
    BY <1>2, <1>3, <2>0, <2>1, <2>2, PlaceStep
  <2>4. parent[x] \in Above(e)
    BY <1>2, <1>3, <2>1, <2>3, UpFacts
  <2>5. Cardinality(Above(parent[x])) = i
    <3>1. Place(live, parent, parent[x]) \in Nat
      BY <1>2, <1>4, <2>4, PlaceType
    <3>2. QED
      BY <1>3, <2>0, <2>3, <3>1
  <2>6. parent[x] = y
    BY <1>5, <2>4, <2>5 DEF y
  <2>7. x # Root
    BY <1>9, <2>0, <2>1
  <2>8. x \in children[y]
    BY <2>1, <2>6, <2>7
  <2>9. y \in live
    <3>1. Stops(live, parent, y) => y = Root
      BY <1>2, <1>3, <1>9, <2>1, OneEnd
    <3>2. QED
      BY <1>2, <3>1 DEF Stops
  <2>10. q[i] = name[x]
    BY <1>6, <1>8, <2>0, <2>1
  <2> DEFINE c == childWithName(y, q[i])
  <2>11. c = Nil \/ (c \in children[y] /\ name[c] = q[i])
    BY ChildFacts
  <2>12. c # Nil
    BY <1>2, <2>2, <2>8, <2>10, ChildFacts
  <2>13. c = x
    <3> HIDE DEF c
    <3> QED
      BY <1>1, <2>8, <2>9, <2>10, <2>11, <2>12 DEF OneName
  <2>14. at[i] = IF at[i - 1] = Nil THEN Nil ELSE childWithName(at[i - 1], q[i])
    BY <1>10
  <2>15. at[i - 1] = y /\ y # Nil
    BY <1>2, <1>11, <2>2 DEF y
  <2>16. QED
    BY <2>13, <2>14, <2>15 DEF x
<1> DEFINE Bad == {i \in 0..(N - 1) : at[i] # Chain(e)[i + 1]}
<1>12. Bad = {}
  <2>1. SUFFICES ASSUME Bad # {} PROVE FALSE
    OBVIOUS
  <2>2. PICK m \in Bad : \A y \in Bad : m <= y
    <3>1. Bad \in SUBSET Nat
      BY <1>5
    <3> HIDE DEF Bad
    <3>2. QED
      BY <2>1, <3>1, Least
  <2>3. m \in 0..(N - 1) /\ at[m] # Chain(e)[m + 1]
    OBVIOUS
  <2>4. m # 0
    <3>1. Chain(e)[1] = Root
      BY <1>5, <1>9
    <3>2. QED
      BY <1>10, <2>3, <3>1
  <2>5. m \in 1..(N - 1) /\ m - 1 \in 0..(N - 1) /\ ~(m <= m - 1) /\ (m - 1) + 1 = m
    BY <1>5, <2>3, <2>4
  <2>6. m - 1 \notin Bad
    <3> HIDE DEF Bad
    <3> QED
      BY <2>2, <2>5
  <2>7. at[m - 1] = Chain(e)[(m - 1) + 1]
    BY <2>5, <2>6
  <2>8. QED
    BY <1>11, <2>3, <2>5, <2>7
<1>13. e \in Above(e)
  BY <1>2, <1>3, UpFacts
<1>14. Chain(e)[N] = e
  BY <1>5, <1>13 DEF N
<1>15. at[N - 1] = e
  <2>1. N - 1 \in 0..(N - 1) /\ (N - 1) + 1 = N
    BY <1>5
  <2>2. N - 1 \notin Bad
    BY <1>12
  <2>3. QED
    BY <1>14, <2>1, <2>2
<1>16. QED
  BY <1>8, <1>15 DEF Lookup, at, q

-----------------------------------------------------------------------------
(* Steps.                                                                  *)

\* The root alone.
LEMMA InitIInv == Init => IInv
<1> SUFFICES ASSUME Init PROVE IInv
  OBVIOUS
<1>1. TypeOK
  <2>1. <<>> \in Seq(Names \cup {RootName})
    OBVIOUS
  <2>2. careful \in BOOLEAN
    BY Zenon DEF Init
  <2>3. QED
    BY <2>1, <2>2, RegistryAssumption DEF Init, TypeOK
<1>2. ListedLive /\ Blank
  BY RegistryAssumption DEF Init, ListedLive, Blank
<1>3. \A e \in Entries : Ends(e)
  BY DEF Init, Ends
<1>4. Linked /\ ParentsUsed /\ OneName /\ Kept
  BY RegistryAssumption DEF Init, Linked, ParentsUsed, OneName, Kept
<1>5. NoCycle /\ PathFresh
  BY <1>3, RegistryAssumption DEF Init, NoCycle, PathFresh
<1>6. QED
  BY <1>1, <1>2, <1>4, <1>5 DEF IInv

\* Walks do not depend on anything but live and parent.
LEMMA UnmovedWalks ==
    ASSUME UNCHANGED <<live, parent>>
    PROVE  \A e : Above(e)' = Above(e) /\ (Ends(e)' <=> Ends(e))
BY AboveIsUp, AboveIsUpPrime

\* A step that leaves the tree alone, and forgets paths at most.
LEMMA QuietStep ==
    ASSUME IInv, UNCHANGED <<live, used, name, parent, children>>,
           held \subseteq held', held' \subseteq live,
           fault' = fault, stale' \subseteq Entries, careful' \in BOOLEAN, careful' => careful,
           path' \in [Entries -> Seq(Names \cup {RootName})],
           \A e \in Entries : path'[e] = <<>> \/ (path'[e] = path[e] /\ (e \in stale => e \in stale'))
    PROVE  IInv'
<1>0. TypeOK /\ ListedLive /\ Blank
  BY DEF IInv
<1>1. TypeOK'
  BY <1>0 DEF TypeOK
<1>2. ListedLive' /\ Blank'
  BY <1>0 DEF ListedLive, Blank, TypeOK
<1>3. ASSUME careful'
      PROVE  (Linked /\ ParentsUsed /\ NoCycle /\ OneName /\ Kept /\ PathFresh)'
  <2>1. Linked /\ ParentsUsed /\ NoCycle /\ OneName /\ Kept /\ PathFresh
    BY <1>3 DEF IInv
  <2>2. \A e : Above(e)' = Above(e) /\ (Ends(e)' <=> Ends(e))
    BY UnmovedWalks
  <2>3. Linked' /\ ParentsUsed' /\ OneName' /\ Kept'
    BY <2>1 DEF Linked, ParentsUsed, OneName, Kept
  <2>4. NoCycle'
    BY <2>1, <2>2 DEF NoCycle
  <2>5. PathFresh'
    <3> SUFFICES ASSUME NEW e \in live', path'[e] # <<>>, e \notin stale', (Root \in Above(e))'
                 PROVE  /\ Len(path'[e]) = Cardinality(Above(e)')
                        /\ \A x \in Above(e)' : path'[e][Cardinality(Above(x)')] = name'[x]
      BY DEF PathFresh
    <3>1. e \in live /\ e \in Entries
      BY <1>0 DEF TypeOK
    <3>2. path'[e] = path[e] /\ e \notin stale /\ Root \in Above(e)
      BY <2>2, <3>1
    <3>3. QED
      BY <2>1, <2>2, <3>1, <3>2 DEF PathFresh
  <2>6. QED
    BY <2>3, <2>4, <2>5
<1>4. QED
  BY <1>1, <1>2, <1>3 DEF IInv

\* setProperty: forgets a path.
LEMMA setPropertyStep ==
    ASSUME IInv, NEW e \in Entries, setProperty(e)
    PROVE  IInv'
<1>1. TypeOK
  BY DEF IInv
<1>2. path' \in [Entries -> Seq(Names \cup {RootName})]
  <2>1. <<>> \in Seq(Names \cup {RootName})
    OBVIOUS
  <2>2. QED
    BY <1>1, <2>1 DEF setProperty, TypeOK
<1>3. careful' \in BOOLEAN /\ (careful' => careful)
  BY <1>1, Zenon DEF setProperty, Passes
<1>4. \A x \in Entries :
          path'[x] = <<>> \/ (path'[x] = path[x] /\ (x \in stale => x \in stale'))
  BY <1>1 DEF setProperty, TypeOK
<1>5. /\ UNCHANGED <<live, used, name, parent, children, held, fault>>
      /\ stale' \subseteq Entries /\ held \subseteq held' /\ held' \subseteq live
  BY <1>1 DEF setProperty, TypeOK
<1>6. QED
  BY <1>2, <1>3, <1>4, <1>5, QuietStep

\* A client that retains more changes nothing in the tree.
LEMMA RetainStep ==
    ASSUME IInv, NEW e \in Entries, Retain(e)
    PROVE  IInv'
<1>1. TypeOK
  BY DEF IInv
<1>2. /\ UNCHANGED <<live, used, name, parent, children, path, fault, stale, careful>>
      /\ held \subseteq held' /\ held' \subseteq live
  BY <1>1 DEF Retain, TypeOK
<1>3. careful' \in BOOLEAN /\ (careful' => careful)
  BY <1>1, <1>2, Zenon DEF TypeOK
<1>4. path' \in [Entries -> Seq(Names \cup {RootName})] /\ stale' \subseteq Entries
  BY <1>1, <1>2 DEF TypeOK
<1>5. QED
  BY <1>2, <1>3, <1>4, QuietStep

\* entryPath caches the names on a walk that ends, each at its place.
LEMMA entryPathStep ==
    ASSUME IInv, NEW e \in Entries, entryPath(e)
    PROVE  IInv'
<1> DEFINE Chars == Seq(Names \cup {RootName})
           spelled == [i \in 1..Len(Chain(e)) |-> name[Chain(e)[i]]]
<1>0. TypeOK /\ ListedLive /\ Blank /\ parent \in Pointers
  BY TypeFacts DEF IInv
<1>1. /\ UNCHANGED <<live, used, name, parent, children, held, stale>> /\ e \in live
      /\ careful' \in BOOLEAN /\ (careful' => careful)
  <2>1. careful' \in BOOLEAN /\ (careful' => careful)
    BY <1>0, Zenon DEF entryPath, Passes
  <2>2. QED
    BY <2>1 DEF entryPath, Passes
<1>2. \/ path' = path /\ fault' \in {"hang", "freed"}
      \/ ~Cyclic(e) /\ path' = [path EXCEPT ![e] = spelled] /\ fault' = fault
  BY DEF entryPath
<1>3. ASSUME ~Cyclic(e)
      PROVE  /\ spelled \in Chars /\ Len(spelled) = Cardinality(Above(e))
             /\ \A x \in Above(e) : spelled[Cardinality(Above(x))] = name[x]
  <2>1. PICK t \in Above(e) : Ends(t)
    BY <1>3 DEF Cyclic
  <2>2. \A x \in Above(e) : Onward(live, parent, x) /\ x \in Entries
    BY <1>0, <2>1, AboveIsUp, EndedWalk, UpMono
  <2> DEFINE N == Cardinality(Above(e))
  <2>3. /\ N \in Nat \ {0} /\ Len(Chain(e)) = N
        /\ \A x \in Above(e) : /\ Cardinality(Above(x)) \in 1..N
                               /\ Chain(e)[Cardinality(Above(x))] = x
        /\ \A i \in 1..N : Chain(e)[i] \in Above(e)
    BY <1>0, <2>2, ChainFacts
  <2> HIDE DEF N
  <2>4. spelled \in [1..N -> Names \cup {RootName}]
    BY <1>0, <2>2, <2>3 DEF TypeOK
  <2>5. spelled \in Chars /\ Len(spelled) = N
    BY <2>3, <2>4, SeqDef, LenProperties
  <2>6. \A x \in Above(e) : spelled[Cardinality(Above(x))] = name[x]
    BY <2>3
  <2>7. QED
    BY <2>5, <2>6 DEF N
<1> HIDE DEF spelled
<1>4. TypeOK'
  <2>1. path' \in [Entries -> Chars]
    BY <1>0, <1>2, <1>3 DEF TypeOK
  <2>2. fault' \in {"none", "hang", "freed"}
    BY <1>0, <1>2 DEF TypeOK
  <2>3. QED
    BY <1>0, <1>1, <2>1, <2>2 DEF TypeOK
<1>5. ListedLive' /\ Blank'
  <2>1. \A x \in Entries : x # e => path'[x] = path[x]
    BY <1>0, <1>2 DEF TypeOK
  <2>2. e \in used
    BY <1>0, <1>1 DEF TypeOK
  <2>3. QED
    BY <1>0, <1>1, <2>1, <2>2 DEF ListedLive, Blank
<1>6. ASSUME careful'
      PROVE  (Linked /\ ParentsUsed /\ NoCycle /\ OneName /\ Kept /\ PathFresh)'
  <2>1. Linked /\ ParentsUsed /\ NoCycle /\ OneName /\ Kept /\ PathFresh
    BY <1>1, <1>6 DEF IInv
  <2>2. \A x : Above(x)' = Above(x) /\ (Ends(x)' <=> Ends(x))
    BY <1>1, UnmovedWalks
  <2>3. Linked' /\ ParentsUsed' /\ OneName' /\ Kept'
    BY <1>1, <2>1 DEF Linked, ParentsUsed, OneName, Kept
  <2>4. NoCycle'
    BY <1>1, <2>1, <2>2 DEF NoCycle
  <2>5. PathFresh'
    <3> SUFFICES ASSUME NEW y \in live', path'[y] # <<>>, y \notin stale', (Root \in Above(y))'
                 PROVE  /\ Len(path'[y]) = Cardinality(Above(y)')
                        /\ \A x \in Above(y)' : path'[y][Cardinality(Above(x)')] = name'[x]
      BY DEF PathFresh
    <3>1. CASE path'[y] = path[y]
      BY <1>1, <2>1, <2>2, <3>1 DEF PathFresh
    <3>2. CASE path'[y] # path[y]
      <4>1. y = e /\ ~Cyclic(e) /\ path'[y] = spelled
        BY <1>0, <1>1, <1>2, <3>2 DEF TypeOK
      <4>2. QED
        BY <1>1, <1>3, <2>2, <4>1
    <3>3. QED
      BY <3>1, <3>2
  <2>6. QED
    BY <2>3, <2>4, <2>5
<1>7. QED
  BY <1>4, <1>5, <1>6 DEF IInv

\* Putting c below p: the walks that do not meet c are kept, and c is not above p.
LEMMA addChildStep ==
    ASSUME IInv, NEW p \in Entries, NEW c \in Entries, addChild(p, c)
    PROVE  IInv'
<1>0. /\ TypeOK /\ ListedLive /\ Blank /\ parent \in Pointers
      /\ live \subseteq Entries /\ Nil \notin Entries /\ Root \in live
      /\ \A q \in Entries : children[q] \subseteq Entries /\ Nil \notin children[q]
  BY TypeFacts DEF IInv
<1>1. /\ UNCHANGED <<live, used, name, held, fault>> /\ p \in live /\ c \in live
      /\ parent' = [parent EXCEPT ![c] = p]
      /\ children' = [children EXCEPT ![p] = @ \cup {c}]
      /\ path' = [path EXCEPT ![c] = <<>>]
      /\ stale' = (stale \cup {e \in live : path[e] # <<>> /\ c \in Above(e)}) \ {c}
      /\ childWithName(p, name[c]) = Nil
  BY DEF addChild, Passes, Moved
<1>2. careful' \in BOOLEAN
  BY Zenon DEF addChild, Passes
<1>3. ASSUME careful'
      PROVE  careful /\ c # Root /\ c \notin Above(p) /\ \A q \in live : c \notin children[q]
  BY <1>3 DEF addChild, Passes
<1>4. /\ parent' \in Pointers /\ parent'[c] = p
      /\ \A x \in Entries : x # c => parent'[x] = parent[x]
  BY <1>0, <1>1 DEF Pointers
<1>5. /\ \A q \in Entries : children'[q] = IF q = p THEN children[p] \cup {c} ELSE children[q]
      /\ children' \in [Entries -> SUBSET Entries]
  BY <1>0, <1>1 DEF TypeOK
<1>6. /\ \A x \in Entries : path'[x] = IF x = c THEN <<>> ELSE path[x]
      /\ path' \in [Entries -> Seq(Names \cup {RootName})]
  <2>1. <<>> \in Seq(Names \cup {RootName})
    OBVIOUS
  <2>2. QED
    BY <1>0, <1>1, <2>1 DEF TypeOK
<1>7. TypeOK'
  BY <1>0, <1>1, <1>2, <1>4, <1>5, <1>6 DEF TypeOK, Pointers
<1>8. ListedLive' /\ Blank'
  <2>1. p \in used /\ c \in used
    BY <1>0, <1>1 DEF TypeOK
  <2>2. QED
    BY <1>0, <1>1, <1>5, <1>6, <2>1 DEF ListedLive, Blank
<1>9. ASSUME careful'
      PROVE  (Linked /\ ParentsUsed /\ NoCycle /\ OneName /\ Kept /\ PathFresh)'
  <2>1. /\ Linked /\ ParentsUsed /\ NoCycle /\ OneName /\ Kept /\ PathFresh
        /\ c # Root /\ c \notin Above(p) /\ \A q \in live : c \notin children[q]
    BY <1>3, <1>9 DEF IInv
  <2>2. \A x : /\ Above(x) = Up(live, parent, x) /\ Above(x)' = Up(live, parent', x)
               /\ (Ends(x) <=> Stops(live, parent, x)) /\ (Ends(x)' <=> Stops(live, parent', x))
    BY <1>1, AboveIsUp, AboveIsUpPrime
  <2>3. ASSUME NEW x \in Entries, c \notin Above(x) PROVE Above(x)' = Above(x)
    <3>1. \A y \in Up(live, parent, x) : /\ Stops(live, parent', y) <=> Stops(live, parent, y)
                                         /\ ~Stops(live, parent, y) => parent'[y] = parent[y]
      BY <1>0, <1>4, <2>2, <2>3, UpMono DEF Stops
    <3>2. QED
      BY <1>0, <1>4, <2>2, <3>1, SameWalk
  <2>4. ASSUME NEW x \in Entries PROVE Above(x)' \subseteq Above(x) \cup Above(p)
    <3> DEFINE S == Above(x) \cup Above(p)
    <3>1. /\ Above(x) \in SUBSET Entries /\ x \in Above(x)
          /\ Above(p) \in SUBSET Entries /\ p \in Above(p)
          /\ \A y \in Above(x) : ~Stops(live, parent, y) => parent[y] \in Above(x)
          /\ \A y \in Above(p) : ~Stops(live, parent, y) => parent[y] \in Above(p)
      BY <1>0, <2>2, UpFacts
    <3>2. \A y \in S : ~Stops(live, parent', y) => parent'[y] \in S
      <4>1. \A y \in Entries : y # c /\ ~Stops(live, parent', y)
                                => ~Stops(live, parent, y) /\ parent'[y] = parent[y]
        BY <1>4 DEF Stops
      <4>2. QED
        BY <1>4, <3>1, <4>1
    <3>3. S \in SUBSET Entries /\ x \in S /\ Closes(live, parent', S)
      BY <3>1, <3>2 DEF Closes
    <3> HIDE DEF S
    <3>4. Up(live, parent', x) \subseteq S
      BY <3>3, UpLeast
    <3>5. QED
      BY <2>2, <3>4 DEF S
  <2>5. Linked'
    BY <1>0, <1>1, <1>4, <1>5, <2>1 DEF Linked
  <2>6. ParentsUsed'
    BY <1>0, <1>1, <1>4, <2>1 DEF ParentsUsed, TypeOK
  <2>7. NoCycle'
    <3> SUFFICES ASSUME NEW x \in live, ~Ends(x)' PROVE x \notin Up(live, parent', parent'[x])
      BY <1>1, <2>2 DEF NoCycle
    <3>1. x \in Entries
      BY <1>0
    <3>2. CASE x = c
      BY <1>4, <2>1, <2>2, <2>3, <3>2
    <3>3. CASE x # c
      <4>1. parent'[x] = parent[x] /\ ~Stops(live, parent, x)
        BY <1>4, <2>2, <3>1, <3>3 DEF Stops
      <4>2. x \notin Above(parent[x]) /\ parent[x] \in Entries
        BY <1>0, <2>1, <2>2, <3>1, <4>1, UpStep DEF NoCycle
      <4>3. CASE c \notin Above(parent[x])
        BY <2>2, <2>3, <4>1, <4>2, <4>3
      <4>4. CASE c \in Above(parent[x])
        <5>1. ASSUME x \in Above(p) PROVE FALSE
          <6>1. parent[x] \in Above(p)
            BY <1>0, <2>2, <4>1, <5>1, UpFacts
          <6>2. Above(parent[x]) \subseteq Above(p)
            BY <1>0, <2>2, <6>1, UpMono
          <6>3. QED
            BY <2>1, <4>4, <6>2
        <5>2. QED
          BY <2>2, <2>4, <4>1, <4>2, <5>1
      <4>5. QED
        BY <4>3, <4>4
    <3>4. QED
      BY <3>2, <3>3
  <2>8. OneName'
    <3>1. \A d \in children[p] : name[d] # name[c]
      BY <1>0, <1>1, ChildFacts
    <3>2. QED
      BY <1>0, <1>1, <1>5, <2>1, <3>1 DEF OneName
  <2>9. Kept'
    BY <1>0, <1>1, <1>5, <2>1 DEF Kept
  <2>10. PathFresh'
    <3> SUFFICES ASSUME NEW e \in live', path'[e] # <<>>, e \notin stale', (Root \in Above(e))'
                 PROVE  /\ Len(path'[e]) = Cardinality(Above(e)')
                        /\ \A x \in Above(e)' : path'[e][Cardinality(Above(x)')] = name'[x]
      BY DEF PathFresh
    <3>1. e \in live /\ e \in Entries
      BY <1>0, <1>1
    <3>2. e # c /\ path'[e] = path[e]
      BY <1>6, <3>1
    <3>3. e \notin stale /\ c \notin Above(e)
      BY <1>1, <3>1, <3>2
    <3>4. Above(e)' = Above(e)
      BY <2>3, <3>1, <3>3
    <3>5. ASSUME NEW x \in Above(e) PROVE Above(x)' = Above(x)
      <4>1. x \in Entries /\ Above(x) \subseteq Above(e)
        BY <1>0, <2>2, <3>1, UpMono
      <4>2. QED
        BY <2>3, <3>3, <4>1
    <3>6. QED
      BY <1>1, <2>1, <3>1, <3>2, <3>3, <3>4, <3>5 DEF PathFresh
  <2>11. QED
    BY <2>5, <2>6, <2>7, <2>8, <2>9, <2>10
<1>10. QED
  BY <1>7, <1>8, <1>9 DEF IInv

\* What stays allocated: the entries the client retains, and what entries that stay list.
LEMMA RetainedFacts ==
    ASSUME NEW h \in SUBSET live, NEW kids, Root \in live,
           \A p \in live : kids[p] \subseteq live
    PROVE  /\ Retained(h, kids) \subseteq live
           /\ h \subseteq Retained(h, kids) /\ Root \in Retained(h, kids)
           /\ \A p \in Retained(h, kids) : kids[p] \subseteq Retained(h, kids)
           /\ \A e \in Retained(h, kids) :
                 e = Root \/ e \in h \/ \E p \in Retained(h, kids) : e \in kids[p]
<1> DEFINE Supported(S) == \A e \in S : e = Root \/ e \in h \/ \E p \in S : e \in kids[p]
           R == {e \in live : \E S \in SUBSET live : e \in S /\ Supported(S)}
<1>1. Retained(h, kids) = R
  BY DEF Retained
<1>2. ASSUME NEW e \in h \cup {Root} PROVE e \in R
  <2>1. {e} \in SUBSET live /\ e \in {e} /\ Supported({e})
    OBVIOUS
  <2> HIDE DEF Supported
  <2>2. QED
    BY <2>1
<1>3. ASSUME NEW p \in R, NEW d \in kids[p] PROVE d \in R
  <2>1. PICK S \in SUBSET live : p \in S /\ Supported(S)
    OBVIOUS
  <2>2. d \in live
    OBVIOUS
  <2>3. S \cup {d} \in SUBSET live /\ d \in S \cup {d} /\ Supported(S \cup {d})
    BY <2>1, <2>2
  <2> HIDE DEF Supported
  <2>4. QED
    BY <2>2, <2>3
<1>4. ASSUME NEW e \in R PROVE e = Root \/ e \in h \/ \E p \in R : e \in kids[p]
  <2>1. PICK S \in SUBSET live : e \in S /\ Supported(S)
    OBVIOUS
  <2>2. \A p \in S : p \in R
    <3> HIDE DEF Supported
    <3> QED
      BY <2>1
  <2>3. e = Root \/ e \in h \/ \E p \in S : e \in kids[p]
    BY <2>1
  <2> HIDE DEF R
  <2>4. QED
    BY <2>2, <2>3
<1>5. R \subseteq live
  OBVIOUS
<1> HIDE DEF R
<1>6. QED
  BY <1>1, <1>2, <1>3, <1>4, <1>5

\* A step that releases entries and takes parents away: walks get shorter, and those
\* that still lead to the root are the ones they were.
LEMMA ShrinkStep ==
    ASSUME IInv, NEW h \in SUBSET held, NEW kids \in [Entries -> SUBSET Entries],
           \A p \in Entries : kids[p] \subseteq children[p],
           Settle(h, kids), UNCHANGED <<used, name>>,
           parent' \in Pointers,
           \A x \in Entries : parent'[x] = Nil \/ parent'[x] = parent[x],
           path' \in [Entries -> Seq(Names \cup {RootName})],
           \A x \in Entries : path'[x] = <<>> \/ (path'[x] = path[x] /\ (x \in stale => x \in stale')),
           fault' \in {"none", "hang", "freed"}, stale' \subseteq Entries,
           careful' \in BOOLEAN, careful' => careful,
           careful' => parent'[Root] = Nil /\ \A p \in live : \A d \in kids[p] : parent'[d] = p
    PROVE  IInv'
<1>0. /\ TypeOK /\ ListedLive /\ Blank /\ parent \in Pointers
      /\ live \subseteq Entries /\ Nil \notin Entries /\ Root \in live /\ Root \in Entries
      /\ held \subseteq live /\ live \subseteq used /\ used \subseteq Entries
  BY TypeFacts DEF IInv, TypeOK
<1>1. \A p \in live : kids[p] \subseteq live
  BY <1>0 DEF ListedLive
<1>2. /\ live' \subseteq live /\ h \subseteq live' /\ Root \in live'
      /\ \A p \in live' : kids[p] \subseteq live'
      /\ \A e \in live' : e = Root \/ e \in h \/ \E p \in live' : e \in kids[p]
  <2>1. live' = Retained(h, kids) /\ h \in SUBSET live
    BY <1>0 DEF Settle
  <2>2. QED
    BY <1>0, <1>1, <2>1, RetainedFacts
<1>3. /\ held' = h /\ \A x \in Entries : children'[x] = IF x \in live' THEN kids[x] ELSE {}
      /\ children' \in [Entries -> SUBSET Entries]
  BY DEF Settle
<1>4. TypeOK'
  <2>1. parent' \in [Entries -> Entries \cup {Nil}]
    BY DEF Pointers
  <2>2. QED
    BY <1>0, <1>2, <1>3, <2>1 DEF TypeOK
<1>5. ListedLive' /\ Blank'
  BY <1>0, <1>2, <1>3 DEF ListedLive, Blank
<1>6. ASSUME careful'
      PROVE  (Linked /\ ParentsUsed /\ NoCycle /\ OneName /\ Kept /\ PathFresh)'
  <2>1. /\ Linked /\ ParentsUsed /\ NoCycle /\ OneName /\ Kept /\ PathFresh
        /\ parent'[Root] = Nil /\ \A p \in live : \A d \in kids[p] : parent'[d] = p
    BY <1>6 DEF IInv
  <2>2. \A x : /\ Above(x) = Up(live, parent, x) /\ Above(x)' = Up(live', parent', x)
               /\ (Ends(x) <=> Stops(live, parent, x)) /\ (Ends(x)' <=> Stops(live', parent', x))
    BY AboveIsUp, AboveIsUpPrime
  <2>3. \A x \in Entries : ~Stops(live', parent', x)
                            => ~Stops(live, parent, x) /\ parent'[x] = parent[x]
    BY <1>0, <1>2 DEF Stops
  <2>4. Linked'
    BY <1>0, <1>2, <1>3, <2>1 DEF Linked
  <2>5. ParentsUsed'
    BY <1>0, <2>1 DEF ParentsUsed
  <2>6. NoCycle'
    <3> SUFFICES ASSUME NEW x \in live', ~Ends(x)' PROVE x \notin Up(live', parent', parent'[x])
      BY <2>2 DEF NoCycle
    <3>1. x \in live /\ x \in Entries /\ ~Ends(x) /\ parent'[x] = parent[x]
      BY <1>0, <1>2, <2>2, <2>3
    <3>2. x \notin Up(live, parent, parent[x]) /\ parent[x] \in Entries
      BY <1>0, <2>1, <2>2, <3>1, UpStep DEF NoCycle
    <3>3. Up(live', parent', parent[x]) \subseteq Up(live, parent, parent[x])
      BY <1>0, <2>3, <3>2, ShorterWalk
    <3>4. QED
      BY <3>1, <3>2, <3>3
  <2>7. OneName'
    <3>1. \A p \in live' : p \in live /\ children'[p] \subseteq children[p]
      BY <1>0, <1>2, <1>3
    <3>2. QED
      BY <2>1, <3>1 DEF OneName
  <2>8. Kept'
    BY <1>0, <1>2, <1>3 DEF Kept
  <2>9. PathFresh'
    <3> SUFFICES ASSUME NEW e \in live', path'[e] # <<>>, e \notin stale', (Root \in Above(e))'
                 PROVE  /\ Len(path'[e]) = Cardinality(Above(e)')
                        /\ \A x \in Above(e)' : path'[e][Cardinality(Above(x)')] = name'[x]
      BY DEF PathFresh
    <3>1. e \in live /\ e \in Entries
      BY <1>0, <1>2
    <3>2. path'[e] = path[e] /\ e \notin stale
      BY <3>1
    <3>3. Stops(live, parent, Root) /\ Root \in Up(live', parent', e)
      BY <2>1, <2>2 DEF Linked, Stops
    <3>4. \A x \in Above(e) : Above(x)' = Above(x)
      BY <1>0, <2>2, <2>3, <3>1, <3>3, RootWalk
    <3>5. e \in Above(e)
      BY <1>0, <2>2, <3>1, UpFacts
    <3>6. QED
      BY <2>1, <3>1, <3>2, <3>4, <3>5 DEF PathFresh
  <2>10. QED
    BY <2>4, <2>5, <2>6, <2>7, <2>8, <2>9
<1>7. QED
  BY <1>4, <1>5, <1>6 DEF IInv

\* release may free a subtree.
LEMMA ReleaseStep ==
    ASSUME IInv, NEW e \in Entries, Release(e)
    PROVE  IInv'
<1>0. TypeOK /\ live \subseteq Entries /\ parent \in Pointers
  BY TypeFacts DEF IInv
<1>1. Settle(held \ {e}, children) /\ UNCHANGED <<used, name, parent, path, fault, stale, careful>>
  BY DEF Release
<1>2. careful' \in BOOLEAN /\ (careful' => careful)
  BY <1>0, <1>1, Zenon DEF TypeOK
<1>3. /\ held \ {e} \in SUBSET held /\ children \in [Entries -> SUBSET Entries]
      /\ parent' \in Pointers /\ path' \in [Entries -> Seq(Names \cup {RootName})]
      /\ fault' \in {"none", "hang", "freed"} /\ stale' \subseteq Entries
  BY <1>0, <1>1 DEF TypeOK
<1>4. careful' => parent'[Root] = Nil /\ \A p \in live : \A d \in children[p] : parent'[d] = p
  BY <1>1, <1>2 DEF IInv, Linked
<1>5. /\ \A p \in Entries : children[p] \subseteq children[p]
      /\ \A x \in Entries : parent'[x] = Nil \/ parent'[x] = parent[x]
      /\ \A x \in Entries : path'[x] = <<>> \/ (path'[x] = path[x] /\ (x \in stale => x \in stale'))
  BY <1>1
<1>6. QED
  BY <1>1, <1>2, <1>3, <1>4, <1>5, ShrinkStep

\* removeChild: takes the parent of an entry that its parent listed away.
LEMMA removeChildStep ==
    ASSUME IInv, NEW p \in Entries, NEW c \in Entries, removeChild(p, c)
    PROVE  IInv'
<1> DEFINE kids == [children EXCEPT ![p] = @ \ {c}]
<1>0. TypeOK /\ live \subseteq Entries /\ parent \in Pointers
  BY TypeFacts DEF IInv
<1>1. /\ Settle(held, kids) /\ UNCHANGED <<used, name>>
      /\ parent' = [parent EXCEPT ![c] = Nil]
      /\ path' = [path EXCEPT ![c] = <<>>]
      /\ stale' = (stale \cup {e \in live : path[e] # <<>> /\ c \in Above(e)}) \ {c}
      /\ fault' = IF c \in live' THEN fault ELSE "freed"
  BY DEF removeChild, Moved
<1>2. careful' \in BOOLEAN /\ (careful' => careful /\ p \in live /\ c \in children[p])
  <2>1. careful' \in BOOLEAN
    BY Zenon DEF removeChild, Passes
  <2>2. QED
    BY <2>1 DEF removeChild, Passes
<1>3. /\ kids \in [Entries -> SUBSET Entries]
      /\ \A q \in Entries : kids[q] = IF q = p THEN children[p] \ {c} ELSE children[q]
  BY <1>0 DEF TypeOK
<1>4. /\ parent' \in Pointers /\ parent'[c] = Nil
      /\ \A x \in Entries : x # c => parent'[x] = parent[x]
  BY <1>0, <1>1 DEF Pointers
<1>5. /\ path' \in [Entries -> Seq(Names \cup {RootName})]
      /\ \A x \in Entries : path'[x] = <<>> \/ (path'[x] = path[x] /\ (x \in stale => x \in stale'))
  <2>1. <<>> \in Seq(Names \cup {RootName})
    OBVIOUS
  <2>2. \A x \in Entries : path'[x] = IF x = c THEN <<>> ELSE path[x]
    BY <1>0, <1>1 DEF TypeOK
  <2>3. QED
    BY <1>0, <1>1, <2>1, <2>2 DEF TypeOK
<1>6. fault' \in {"none", "hang", "freed"} /\ stale' \subseteq Entries
  BY <1>0, <1>1 DEF TypeOK
<1> HIDE DEF kids
<1>7. ASSUME careful'
      PROVE  parent'[Root] = Nil /\ \A q \in live : \A d \in kids[q] : parent'[d] = q
  <2>1. Linked /\ c \in children[p] /\ p \in live
    BY <1>2, <1>7 DEF IInv
  <2>2. c # Root /\ parent[c] = p /\ parent[Root] = Nil
    BY <2>1 DEF Linked
  <2>3. ASSUME NEW q \in live, NEW d \in kids[q] PROVE parent'[d] = q
    <3>1. d \in children[q] /\ q \in Entries /\ (q = p => d # c)
      BY <1>0, <1>3
    <3>2. parent[d] = q /\ d \in live
      BY <2>1, <3>1 DEF Linked
    <3>3. d # c
      BY <2>2, <3>1, <3>2
    <3>4. QED
      BY <1>0, <1>4, <3>2, <3>3
  <2>4. Root \in Entries
    BY RegistryAssumption
  <2>5. QED
    BY <1>4, <2>2, <2>3, <2>4
<1>8. /\ \A q \in Entries : kids[q] \subseteq children[q]
      /\ \A x \in Entries : parent'[x] = Nil \/ parent'[x] = parent[x]
      /\ held \in SUBSET held
  BY <1>3, <1>4
<1>9. QED
  BY <1>1, <1>2, <1>3, <1>4, <1>5, <1>6, <1>7, <1>8, ShrinkStep

\* New entries are on no walk from an entry that was ever allocated.
LEMMA GrowWalks ==
    ASSUME TypeOK, ParentsUsed, NEW new \in SUBSET (Entries \ used),
           NEW Q \in Pointers, \A x \in used : Q[x] = parent[x]
    PROVE  \A x \in used : /\ Up(live \cup new, Q, x) = Up(live, parent, x)
                           /\ Up(live, parent, x) \subseteq used
<1>0. used \in SUBSET Entries /\ parent \in Pointers /\ live \subseteq used
  BY TypeFacts DEF TypeOK
<1>1. Closes(live, parent, used)
  BY DEF ParentsUsed, Closes, Stops
<1>2. ASSUME NEW x \in used
      PROVE  /\ Up(live \cup new, Q, x) = Up(live, parent, x)
             /\ Up(live, parent, x) \subseteq used
  <2>1. x \in Entries /\ Up(live, parent, x) \subseteq used
    BY <1>0, <1>1, UpLeast
  <2> DEFINE M == live \cup new
  <2>2. \A y \in Up(live, parent, x) : /\ Stops(M, Q, y) <=> Stops(live, parent, y)
                                       /\ ~Stops(live, parent, y) => Q[y] = parent[y]
    BY <2>1 DEF Stops
  <2> HIDE DEF M
  <2>3. Up(M, Q, x) = Up(live, parent, x)
    BY <1>0, <2>1, <2>2, SameWalk
  <2>4. QED
    BY <2>1, <2>3 DEF M
<1>3. QED
  BY <1>2

\* A step that allocates: the entries in "new" have a parent, no walk comes back to
\* one of them, and nothing is known about the others' walks but what was.
LEMMA GrowStep ==
    ASSUME IInv, NEW new \in SUBSET (Entries \ used),
           live' = live \cup new, used' = used \cup new,
           name' \in [Entries -> Names \cup {RootName}],
           parent' \in Pointers, children' \in [Entries -> SUBSET Entries],
           \A x \in used : name'[x] = name[x] /\ parent'[x] = parent[x],
           \A p \in Entries : children[p] \subseteq children'[p],
           \A p \in Entries : \A d \in children'[p] \ children[p] :
               d \in new /\ parent'[d] = p /\ p \in live',
           held \subseteq held', held' \subseteq live',
           UNCHANGED <<path, fault, stale, careful>>,
           careful => /\ \A x \in new : parent'[x] \in used'
                      /\ \A x \in new : x \notin Up(live', parent', parent'[x])
                      /\ \A x \in new : x \in held' \/ \E p \in live' : x \in children'[p]
                      /\ OneName'
    PROVE  IInv'
<1>0. /\ TypeOK /\ ListedLive /\ Blank /\ parent \in Pointers
      /\ live \subseteq Entries /\ Nil \notin Entries /\ Root \in live /\ Root \in Entries
      /\ held \subseteq live /\ live \subseteq used /\ used \subseteq Entries
  BY TypeFacts DEF IInv, TypeOK
<1>1. TypeOK'
  <2>1. parent' \in [Entries -> Entries \cup {Nil}]
    BY DEF Pointers
  <2>2. careful' \in BOOLEAN
    BY <1>0, Zenon DEF TypeOK
  <2>3. QED
    BY <1>0, <2>1, <2>2 DEF TypeOK
<1>2. ListedLive'
  <2>1. \A p \in live' : children[p] \subseteq live'
    BY <1>0 DEF ListedLive, Blank
  <2>2. QED
    BY <1>0, <2>1 DEF ListedLive
<1>3. Blank'
  <2>1. ASSUME NEW e \in Entries \ used' PROVE children'[e] = {}
    <3>1. e \notin live' /\ children[e] = {} /\ e \in Entries
      BY <1>0 DEF Blank
    <3>2. QED
      BY <3>1
  <2>2. QED
    BY <1>0, <2>1 DEF Blank
<1>4. ASSUME careful'
      PROVE  (Linked /\ ParentsUsed /\ NoCycle /\ OneName /\ Kept /\ PathFresh)'
  <2>1. Linked /\ ParentsUsed /\ NoCycle /\ OneName /\ Kept /\ PathFresh
    BY <1>4 DEF IInv
  <2>2. \A x : /\ Above(x) = Up(live, parent, x) /\ Above(x)' = Up(live', parent', x)
               /\ (Ends(x) <=> Stops(live, parent, x)) /\ (Ends(x)' <=> Stops(live', parent', x))
    BY AboveIsUp, AboveIsUpPrime
  <2>3. \A x \in used : Above(x)' = Above(x) /\ Above(x) \subseteq used
    BY <1>0, <2>1, <2>2, GrowWalks
  <2>4. Linked'
    <3>1. parent'[Root] = Nil
      BY <1>0, <2>1 DEF Linked
    <3>2. ASSUME NEW p \in live', NEW c \in children'[p]
          PROVE  c \in live' /\ c # Root /\ parent'[c] = p
      <4>0. p \in Entries
        BY <1>0
      <4>1. CASE c \in children[p]
        <5>1. p \in live
          BY <1>0, <4>1 DEF Blank
        <5>2. QED
          BY <1>0, <2>1, <4>1, <5>1 DEF Linked
      <4>2. CASE c \notin children[p]
        BY <1>0, <4>0, <4>2
      <4>3. QED
        BY <4>1, <4>2
    <3>3. QED
      BY <3>1, <3>2 DEF Linked
  <2>5. ParentsUsed'
    BY <1>0, <1>4, <2>1 DEF ParentsUsed
  <2>6. NoCycle'
    <3> SUFFICES ASSUME NEW x \in live', ~Ends(x)' PROVE x \notin Up(live', parent', parent'[x])
      BY <2>2 DEF NoCycle
    <3>1. CASE x \in new
      BY <1>4, <3>1
    <3>2. CASE x \in live
      <4>1. x \in used /\ parent'[x] = parent[x] /\ ~Stops(live, parent, x) /\ parent[x] # Nil
        BY <1>0, <2>2, <3>2 DEF Stops
      <4>2. x \notin Above(parent[x]) /\ parent[x] \in used
        BY <2>1, <2>2, <3>2, <4>1 DEF NoCycle, ParentsUsed
      <4>3. QED
        BY <2>2, <2>3, <4>1, <4>2
    <3>3. QED
      BY <3>1, <3>2
  <2>7. OneName'
    BY <1>4
  <2>8. Kept'
    BY <1>0, <1>4, <2>1 DEF Kept
  <2>9. PathFresh'
    <3> SUFFICES ASSUME NEW e \in live', path'[e] # <<>>, e \notin stale', (Root \in Above(e))'
                 PROVE  /\ Len(path'[e]) = Cardinality(Above(e)')
                        /\ \A x \in Above(e)' : path'[e][Cardinality(Above(x)')] = name'[x]
      BY DEF PathFresh
    <3>1. e \in live /\ e \in used
      BY <1>0 DEF Blank
    <3>2. Above(e)' = Above(e) /\ \A x \in Above(e) : Above(x)' = Above(x) /\ name'[x] = name[x]
      BY <2>3, <3>1
    <3>3. QED
      BY <2>1, <3>1, <3>2 DEF PathFresh
  <2>10. QED
    BY <2>4, <2>5, <2>6, <2>7, <2>8, <2>9
<1>5. QED
  BY <1>1, <1>2, <1>3, <1>4 DEF IInv

\* entryWithName: hangs an entry below the root, unlisted.
LEMMA entryWithNameStep ==
    ASSUME IInv, NEW e \in Entries, NEW s \in Names, entryWithName(e, s)
    PROVE  IInv'
<1>0. /\ TypeOK /\ ListedLive /\ Blank /\ parent \in Pointers /\ Root \in Entries
      /\ held \subseteq live /\ live \subseteq used /\ used \subseteq Entries /\ Root \in live
  BY TypeFacts DEF IInv, TypeOK
<1>1. /\ e \notin used /\ live' = live \cup {e} /\ used' = used \cup {e}
      /\ held' = held \cup {e} /\ name' = [name EXCEPT ![e] = s]
      /\ parent' = [parent EXCEPT ![e] = Root]
      /\ UNCHANGED <<children, path, fault, stale, careful>>
  BY DEF entryWithName
<1>2. /\ parent' \in Pointers /\ parent'[e] = Root
      /\ \A x \in used : parent'[x] = parent[x]
  BY <1>0, <1>1 DEF Pointers
<1>3. /\ name' \in [Entries -> Names \cup {RootName}]
      /\ \A x \in used : name'[x] = name[x]
  BY <1>0, <1>1 DEF TypeOK
<1>4. children' \in [Entries -> SUBSET Entries]
  BY <1>0, <1>1 DEF TypeOK
<1>5. ASSUME careful
      PROVE  e \notin Up(live', parent', Root) /\ OneName'
  <2>1. ParentsUsed /\ OneName
    BY <1>5 DEF IInv
  <2>2. Up(live', parent', Root) \subseteq used
    BY <1>0, <1>1, <1>2, <2>1, GrowWalks
  <2>3. OneName'
    <3>1. \A p \in live' : \A c \in children'[p] : p \in live /\ c \in used
      BY <1>0, <1>1 DEF Blank, ListedLive
    <3>2. QED
      BY <1>0, <1>1, <1>3, <2>1, <3>1 DEF OneName
  <2>4. QED
    BY <1>1, <2>2, <2>3
<1> DEFINE new == {e}
<1>6. /\ new \in SUBSET (Entries \ used) /\ live' = live \cup new /\ used' = used \cup new
      /\ held \subseteq held' /\ held' \subseteq live' /\ e \in held'
      /\ \A x : x \in new <=> x = e
  BY <1>0, <1>1
<1>7. /\ \A p \in Entries : children[p] \subseteq children'[p]
      /\ \A p \in Entries : \A d \in children'[p] \ children[p] :
            d \in new /\ parent'[d] = p /\ p \in live'
  BY <1>1
<1> HIDE DEF new
<1>8. careful => /\ \A x \in new : parent'[x] \in used'
                 /\ \A x \in new : x \notin Up(live', parent', parent'[x])
                 /\ \A x \in new : x \in held' \/ \E p \in live' : x \in children'[p]
                 /\ OneName'
  BY <1>0, <1>2, <1>5, <1>6
<1>9. QED
  BY <1>1, <1>2, <1>3, <1>4, <1>6, <1>7, <1>8, GrowStep

\* The entries that entryWithPath creates hang below the last known one, each below
\* the one before.
LEMMA entryWithPathStep ==
    ASSUME IInv, NEW p \in Paths, NEW fresh \in FreshSeqs, entryWithPath(p, fresh)
    PROVE  IInv'
<1> DEFINE n == Len(p)
           A == Along(Root, p)
           Known(k) == A[k] # Nil /\ \A j \in (k + 1)..n : A[j] = Nil
           known == CHOOSE k \in 0..n : Known(k)
           at(i) == IF i <= known THEN A[i] ELSE fresh[i - known]
           m == n - known
           new == {fresh[i] : i \in 1..m}
           index(e) == CHOOSE i \in (known + 1)..n : fresh[i - known] = e
           b == A[known]
           above(j) == IF j = 1 THEN b ELSE fresh[j - 1]
<1>0. /\ TypeOK /\ ListedLive /\ Blank /\ parent \in Pointers /\ Root \in Entries
      /\ held \subseteq live /\ live \subseteq used /\ used \subseteq Entries /\ Root \in live
      /\ Nil \notin Entries
      /\ \A q \in Entries : children[q] \subseteq Entries /\ Nil \notin children[q]
  BY TypeFacts DEF IInv, TypeOK
<1>1. /\ Len(fresh) = m
      /\ live' = live \cup new /\ used' = used \cup new
      /\ name' = [e \in Entries |-> IF e \in new THEN p[index(e)] ELSE name[e]]
      /\ parent' = [e \in Entries |-> IF e \in new THEN at(index(e) - 1) ELSE parent[e]]
      /\ children' = [e \in Entries |->
                        children[e] \cup {c \in new : at(index(c) - 1) = e}]
      /\ held' = held \cup {at(n)}
      /\ UNCHANGED <<path, fault, stale, careful>>
  BY DEF entryWithPath
<1>2. n \in Nat /\ p \in [1..n -> Names]
  <2>1. PICK k \in 1..MaxDepth : p \in [1..k -> Names]
    BY DEF Paths
  <2>2. p \in Seq(Names) /\ k \in Nat
    BY <2>1, RegistryAssumption, SeqDef
  <2>3. QED
    BY <2>1, <2>2, LenProperties
<1>3. known \in 0..n /\ A[known] # Nil /\ \A j \in (known + 1)..n : A[j] = Nil
  <2>1. Root # Nil
    BY <1>0
  <2>2. \E k \in 0..n : Known(k)
    BY <1>2, <2>1, KnownExists
  <2>3. known \in 0..n /\ Known(known)
    <3> HIDE DEF Known, n
    <3> QED
      BY <2>2
  <2>4. QED
    BY <2>3
<1>4. b \in live /\ b \in Entries /\ b \in used
  BY <1>0, <1>2, <1>3, AlongLive
<1>5. known + 1 \in 1..n => childWithName(b, p[known + 1]) = Nil
  <2>1. ASSUME known + 1 \in 1..n PROVE childWithName(b, p[known + 1]) = Nil
    <3>1. A[known + 1] = Nil /\ (known + 1) - 1 = known
      BY <1>2, <1>3, <2>1
    <3>2. A[known + 1] = IF A[(known + 1) - 1] = Nil THEN Nil
                         ELSE childWithName(A[(known + 1) - 1], p[known + 1])
      <4> HIDE DEF known
      <4> QED
        BY <1>2, <2>1, AlongSteps
    <3>3. QED
      BY <1>3, <3>1, <3>2
  <2>2. QED
    BY <2>1
<1> HIDE DEF n, A, Known, known, b
<1>6. m \in Nat /\ \A j \in 1..m : j + known \in (known + 1)..n /\ (j + known) - known = j
  BY <1>2, <1>3
<1>7. /\ fresh \in [1..m -> Entries \ used]
      /\ \A i, j \in 1..m : fresh[i] = fresh[j] => i = j
  <2>1. PICK k \in 0..MaxDepth : fresh \in [1..k -> Entries \ used]
    BY DEF FreshSeqs
  <2>2. fresh \in Seq(Entries \ used) /\ k \in Nat
    BY <2>1, RegistryAssumption, SeqDef
  <2>3. Len(fresh) = k /\ k = m
    BY <1>1, <2>1, <2>2, LenProperties
  <2>4. \A i, j \in DOMAIN fresh : fresh[i] = fresh[j] => i = j
    BY DEF FreshSeqs, IsInjective
  <2>5. QED
    BY <2>1, <2>3, <2>4
<1>8. ASSUME NEW j \in 1..m PROVE index(fresh[j]) = j + known
  <2>1. j + known \in (known + 1)..n /\ fresh[(j + known) - known] = fresh[j]
    BY <1>6
  <2>2. \A i \in (known + 1)..n : fresh[i - known] = fresh[j] => i = j + known
    <3>1. \A i \in (known + 1)..n : i - known \in 1..m /\ (i - known = j => i = j + known)
      BY <1>2, <1>3
    <3> HIDE DEF m
    <3>2. QED
      BY <1>7, <3>1
  <2>3. \E i \in (known + 1)..n : fresh[i - known] = fresh[j]
    BY <2>1
  <2>4. index(fresh[j]) \in (known + 1)..n /\ fresh[index(fresh[j]) - known] = fresh[j]
    BY <2>3
  <2> HIDE DEF index
  <2>5. QED
    BY <2>2, <2>4
<1>9. ASSUME NEW j \in 1..m PROVE at(index(fresh[j]) - 1) = above(j)
  <2>1. index(fresh[j]) - 1 = (j + known) - 1
    BY <1>8
  <2> HIDE DEF index
  <2>2. CASE j = 1
    <3>1. (j + known) - 1 = known
      BY <1>2, <1>3, <2>2
    <3>2. QED
      BY <1>2, <1>3, <2>1, <2>2, <3>1 DEF b
  <2>3. CASE j # 1
    <3>1. ~((j + known) - 1 <= known) /\ ((j + known) - 1) - known = j - 1
      BY <1>2, <1>3, <1>6, <2>3
    <3>2. QED
      BY <2>1, <2>3, <3>1
  <2>4. QED
    BY <2>2, <2>3
<1>10. at(n) = b \/ (m \in 1..m /\ at(n) = fresh[m])
  <2>1. CASE known = n
    BY <1>2, <2>1 DEF b
  <2>2. CASE known # n
    BY <1>2, <1>3, <2>2
  <2>3. QED
    BY <2>1, <2>2
<1>11. \A x \in new : \E j \in 1..m : x = fresh[j]
  OBVIOUS
<1>12. \A j \in 1..m : fresh[j] \in new
  OBVIOUS
<1>13. new \in SUBSET (Entries \ used)
  BY <1>7
<1>14. \A j \in 1..m : p[index(fresh[j])] \in Names
  <2>1. \A j \in 1..m : j + known \in 1..n
    BY <1>2, <1>3
  <2> HIDE DEF index, m
  <2>2. QED
    BY <1>2, <1>8, <2>1
<1>15. 1 \in 1..m => known + 1 \in 1..n
  BY <1>2, <1>3
<1>16. \A j \in 1..m : j # 1 => j - 1 \in 1..m
  BY <1>6
<1> HIDE DEF m, new, index, at
<1>17. \A j \in 1..m : above(j) \in live \cup new
  BY <1>4, <1>12, <1>16
<1>18. /\ parent' \in Pointers /\ \A x \in used : parent'[x] = parent[x]
       /\ \A j \in 1..m : parent'[fresh[j]] = above(j)
  <2>1. \A x \in new : at(index(x) - 1) \in live \cup new
    BY <1>9, <1>11, <1>17
  <2>2. \A x \in Entries : parent'[x] = IF x \in new THEN at(index(x) - 1) ELSE parent[x]
    BY <1>1
  <2>3. parent' \in Pointers
    BY <1>0, <1>1, <1>13, <2>1 DEF Pointers
  <2> HIDE DEF above
  <2>4. QED
    BY <1>0, <1>9, <1>12, <1>13, <2>2, <2>3
<1>19. /\ name' \in [Entries -> Names \cup {RootName}] /\ \A x \in used : name'[x] = name[x]
       /\ 1 \in 1..m => name'[fresh[1]] = p[known + 1]
  <2>1. \A x \in new : p[index(x)] \in Names
    BY <1>11, <1>14
  <2>2. name' \in [Entries -> Names \cup {RootName}]
    BY <1>0, <1>1, <2>1 DEF TypeOK
  <2>3. 1 \in 1..m => index(fresh[1]) = known + 1
    BY <1>2, <1>3, <1>8
  <2>4. \A x \in Entries : name'[x] = IF x \in new THEN p[index(x)] ELSE name[x]
    BY <1>1
  <2>5. QED
    BY <1>0, <1>12, <1>13, <2>2, <2>3, <2>4
<1>20. \A q \in Entries : children'[q] = children[q] \cup {c \in new : parent'[c] = q}
  <2>1. \A x \in new : parent'[x] = at(index(x) - 1)
    BY <1>1, <1>13
  <2>2. QED
    BY <1>1, <2>1
<1>21. children' \in [Entries -> SUBSET Entries]
  <2>1. \A q \in Entries : children'[q] \subseteq Entries
    BY <1>0, <1>13, <1>20
  <2>2. children' = [q \in Entries |-> children'[q]]
    BY <1>1
  <2>3. QED
    BY <2>1, <2>2
<1>22. held \subseteq held' /\ held' \subseteq live'
  BY <1>0, <1>1, <1>4, <1>10, <1>12
<1>23. \A x \in new : parent'[x] \in live' /\ parent'[x] \in used'
  <2>1. live' = live \cup new /\ live' \subseteq used'
    BY <1>0, <1>1
  <2> HIDE DEF above
  <2>2. \A x \in new : parent'[x] \in live \cup new
    BY <1>11, <1>17, <1>18
  <2>3. QED
    BY <2>1, <2>2
<1>24. ASSUME careful
       PROVE  /\ \A x \in new : parent'[x] \in used'
              /\ \A x \in new : x \notin Up(live', parent', parent'[x])
              /\ \A x \in new : x \in held' \/ \E q \in live' : x \in children'[q]
              /\ OneName'
  <2>1. ParentsUsed /\ OneName
    BY <1>24 DEF IInv
  <2>2. \A x \in used : Up(live', parent', x) \subseteq used
    <3>1. \A x \in used : Up(live \cup new, parent', x) \subseteq used
      BY <1>0, <1>13, <1>18, <2>1, GrowWalks
    <3>2. live' = live \cup new
      BY <1>1
    <3>3. QED
      BY <3>1, <3>2
  <2>3. ASSUME NEW j \in 1..m PROVE fresh[j] \notin Up(live', parent', parent'[fresh[j]])
    <3> DEFINE S == {fresh[i] : i \in 1..(j - 1)} \cup Up(live', parent', b)
    <3>1. /\ Up(live', parent', b) \in SUBSET Entries /\ b \in Up(live', parent', b)
          /\ \A x \in Up(live', parent', b) :
                ~Stops(live', parent', x) => parent'[x] \in Up(live', parent', b)
      BY <1>4, <1>18, UpFacts
    <3>2. \A i \in 1..(j - 1) : i \in 1..m /\ i # j /\ (i # 1 => i - 1 \in 1..(j - 1))
      BY <1>6
    <3>3. S \in SUBSET Entries
      BY <1>7, <3>1, <3>2
    <3>4. above(j) \in S
      <4>1. j # 1 => j - 1 \in 1..(j - 1)
        BY <1>6
      <4>2. QED
        BY <3>1, <4>1
    <3>5. Closes(live', parent', S)
      <4>1. ASSUME NEW i \in 1..(j - 1) PROVE parent'[fresh[i]] \in S
        <5>1. parent'[fresh[i]] = above(i)
          BY <1>18, <3>2
        <5>2. above(i) \in S
          BY <3>1, <3>2
        <5>3. QED
          BY <5>1, <5>2
      <4>2. QED
        BY <3>1, <4>1 DEF Closes
    <3>6. fresh[j] \notin S
      <4>1. fresh[j] \notin used
        BY <1>7
      <4>2. fresh[j] \notin Up(live', parent', b)
        BY <1>4, <2>2, <4>1
      <4>3. QED
        BY <1>7, <3>2, <4>2
    <3> HIDE DEF S, above
    <3>7. Up(live', parent', above(j)) \subseteq S
      BY <3>3, <3>4, <3>5, UpLeast
    <3>8. QED
      BY <1>18, <3>6, <3>7
  <2>4. \A i, j \in 1..m : above(i) = above(j) => i = j
    <3>1. \A i \in 1..m : i # 1 => above(i) \notin used
      BY <1>7, <1>16
    <3>2. \A i, j \in 1..m : i # 1 /\ j # 1 /\ fresh[i - 1] = fresh[j - 1] => i - 1 = j - 1
      BY <1>7, <1>16
    <3>3. \A i, j \in 1..m : i - 1 = j - 1 => i = j
      BY <1>6
    <3>4. QED
      BY <1>4, <3>1, <3>2, <3>3
  <2>5. OneName'
    <3> SUFFICES ASSUME NEW q \in live', NEW c \in children'[q], NEW d \in children'[q],
                        name'[c] = name'[d]
                 PROVE  c = d
      BY DEF OneName
    <3>0. q \in Entries
      BY <1>0, <1>1, <1>13
    <3>1. CASE c \in children[q] /\ d \in children[q]
      <4>1. q \in live /\ c \in used /\ d \in used
        BY <1>0, <1>1, <1>13, <3>1 DEF Blank, ListedLive
      <4>2. QED
        BY <1>19, <2>1, <3>1, <4>1 DEF OneName
    <3>2. ASSUME NEW x \in children[q], NEW y \in new, parent'[y] = q, name'[x] = name'[y]
          PROVE  FALSE
      <4>1. q \in live /\ x \in used
        BY <1>0, <1>1, <1>13, <3>2 DEF Blank, ListedLive
      <4>2. PICK j \in 1..m : y = fresh[j]
        BY <1>11
      <4>3. above(j) \in used
        BY <1>0, <1>18, <3>2, <4>1, <4>2
      <4>4. j = 1 /\ q = b
        BY <1>7, <1>16, <1>18, <3>2, <4>2, <4>3
      <4>5. name[x] = p[known + 1] /\ childWithName(b, p[known + 1]) = Nil
        BY <1>5, <1>15, <1>19, <3>2, <4>1, <4>2, <4>4
      <4>6. \A z \in children[b] : name[z] # p[known + 1]
        BY <1>0, <1>4, <4>5, ChildFacts
      <4>7. QED
        BY <3>2, <4>4, <4>5, <4>6
    <3>3. ASSUME NEW x \in new, NEW y \in new, parent'[x] = q, parent'[y] = q PROVE x = y
      <4>1. PICK i \in 1..m : x = fresh[i]
        BY <1>11
      <4>2. PICK j \in 1..m : y = fresh[j]
        BY <1>11
      <4> HIDE DEF above
      <4>3. QED
        BY <1>18, <2>4, <3>3, <4>1, <4>2
    <3>4. /\ c \in children[q] \/ (c \in new /\ parent'[c] = q)
          /\ d \in children[q] \/ (d \in new /\ parent'[d] = q)
      BY <1>20, <3>0
    <3>5. QED
      BY <3>1, <3>2, <3>3, <3>4
  <2>6. \A x \in new : x \notin Up(live', parent', parent'[x])
    BY <1>11, <2>3
  <2>7. \A x \in new : \E q \in live' : x \in children'[q]
    BY <1>0, <1>1, <1>13, <1>20, <1>23
  <2>8. \A x \in new : parent'[x] \in used'
    BY <1>23
  <2>9. QED
    BY <2>5, <2>6, <2>7, <2>8
<1>25. \A q \in Entries : /\ children[q] \subseteq children'[q]
                          /\ \A d \in children'[q] \ children[q] :
                                d \in new /\ parent'[d] = q /\ q \in live'
  BY <1>20, <1>23
<1>26. QED
  BY <1>1, <1>13, <1>18, <1>19, <1>21, <1>22, <1>24, <1>25, GrowStep

-----------------------------------------------------------------------------
(* The theorems.                                                           *)

\* IInv is an invariant of the registry, whatever the client does.
THEOREM InductiveInvariant == Spec => []IInv
<1>1. IInv /\ [Next]_vars => IInv'
  <2> SUFFICES ASSUME IInv, [Next]_vars PROVE IInv'
    OBVIOUS
  <2>1. CASE \E e \in Entries, s \in Names : entryWithName(e, s)
    BY <2>1, entryWithNameStep
  <2>2. CASE \E p \in Paths, fresh \in FreshSeqs : entryWithPath(p, fresh)
    BY <2>2, entryWithPathStep
  <2>3. CASE \E e \in Entries : entryPath(e)
    BY <2>3, entryPathStep
  <2>4. CASE \E e \in Entries : setProperty(e)
    BY <2>4, setPropertyStep
  <2>5. CASE \E e \in Entries : Retain(e)
    BY <2>5, RetainStep
  <2>6. CASE \E e \in Entries : Release(e)
    BY <2>6, ReleaseStep
  <2>7. CASE \E p, c \in Entries : addChild(p, c)
    BY <2>7, addChildStep
  <2>8. CASE \E p, c \in Entries : removeChild(p, c)
    BY <2>8, removeChildStep
  <2>9. CASE UNCHANGED vars
    <3>1. TypeOK /\ UNCHANGED <<live, used, name, parent, children, path, held, fault, stale>>
          /\ careful' \in BOOLEAN /\ (careful' => careful)
      <4>1. TypeOK /\ UNCHANGED <<live, used, name, parent, children, path, held, fault, stale>>
        BY <2>9 DEF IInv, vars
      <4>2. careful' = careful /\ careful \in BOOLEAN
        BY <2>9, Zenon DEF IInv, TypeOK, vars
      <4>3. QED
        BY <4>1, <4>2
    <3>2. /\ path' \in [Entries -> Seq(Names \cup {RootName})] /\ stale' \subseteq Entries
          /\ held \subseteq held' /\ held' \subseteq live
      BY <3>1 DEF TypeOK
    <3>3. QED
      BY <3>1, <3>2, QuietStep
  <2>10. QED
    BY <2>1, <2>2, <2>3, <2>4, <2>5, <2>6, <2>7, <2>8, <2>9 DEF Next
<1>2. QED
  BY <1>1, InitIInv, PTL DEF Spec

\* With a careful client the arrays and the parent pointers describe one tree without
\* cycles, whatever is allocated is retained, and nothing is leaked.
THEOREM TreeIsSound == Spec => []TreeSound
<1>1. IInv => TreeSound
  BY InvTreeShape, InvNoLeak DEF TreeSound, IInv
<1>2. QED
  BY <1>1, InductiveInvariant, PTL

\* With a careful client a cached path leads back to its entry, unless an ancestor
\* moved since or is not listed by its parent.
THEOREM PathsResolve == Spec => []PathResolves
<1>1. IInv => PathResolves
  BY InvPathResolves
<1>2. QED
  BY <1>1, InductiveInvariant, PTL
=============================================================================
