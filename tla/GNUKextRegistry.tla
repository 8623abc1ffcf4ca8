---------------------------- MODULE GNUKextRegistry ----------------------------
(***************************************************************************)
(* Frameworks/GNUKext/GNUKextRegistry.m: the tree of registry entries.     *)
(*                                                                         *)
(* An entry retains its children and points back at its parent without     *)
(* retaining it.  entryPath is computed by walking up and is cached in the *)
(* entry; only a step on the entry itself forgets it.  The order of        *)
(* _childEntries is left out: childWithName: is its only reader and the    *)
(* names in it differ.                                                     *)
(*                                                                         *)
(* Entries are used by one thread.  The client is external.  The code asks *)
(* nothing of it; a careful one retains the entries it passes, takes an    *)
(* entry from its parent before it gives it to another, and never puts an  *)
(* entry below itself.                                                     *)
(***************************************************************************)
EXTENDS Integers, Sequences, FiniteSets, Functions

CONSTANTS Entries,    \* the objects there is memory for, Root among them
          Root, Nil,
          Names, RootName,
          MaxDepth    \* bound: components of a path given to entryWithPath:

ASSUME RegistryAssumption ==
    /\ Root \in Entries /\ Nil \notin Entries /\ IsFiniteSet(Entries)
    /\ MaxDepth \in Nat

VARIABLES
    live,       \* entries that are allocated
    used,       \* entries that were ever allocated: memory is not used twice
    name,       \* _name
    parent,     \* _parentEntry, not retained
    children,   \* _childEntries
    path,       \* _entryPath; empty: not cached
    held,       \* entries the client has retained
    fault,      \* what a walk or a write met: "none", "hang" or "freed"
    stale,      \* history: an ancestor moved after the path was cached
    careful     \* history: the client has kept the rules above so far

vars == <<live, used, name, parent, children, path, held, fault, stale, careful>>

TypeOK ==
    /\ Root \in live /\ live \subseteq used /\ used \subseteq Entries
    /\ name \in [Entries -> Names \cup {RootName}]
    /\ parent \in [Entries -> Entries \cup {Nil}]
    /\ children \in [Entries -> SUBSET Entries]
    /\ path \in [Entries -> Seq(Names \cup {RootName})]
    /\ held \subseteq live
    /\ fault \in {"none", "hang", "freed"}
    /\ stale \subseteq Entries /\ careful \in BOOLEAN

\* initialize: the root is created while _rootEntry is still nil.
Init ==
    /\ live = {Root} /\ used = {Root}
    /\ name = [e \in Entries |-> RootName]
    /\ parent = [e \in Entries |-> Nil]
    /\ children = [e \in Entries |-> {}]
    /\ path = [e \in Entries |-> <<>>]
    /\ held = {} /\ fault = "none" /\ stale = {} /\ careful = TRUE

-----------------------------------------------------------------------------
(* Walking the tree.                                                       *)

\* A walk up ends at an entry without a parent, or in freed memory.
Ends(x) == x \notin live \/ parent[x] = Nil

\* The entries that a walk up from e meets, e among them: the least set that has e
\* and, with every entry where the walk does not end, its parent.
Closed(S) == \A x \in S : ~Ends(x) => parent[x] \in S
Above(e) == LET sets == {S \in SUBSET Entries : e \in S /\ Closed(S)}
            IN  {x \in Entries : \A S \in sets : x \in S}

\* The walk goes round for ever.
Cyclic(e) == \A x \in Above(e) : ~Ends(x)

\* A walk that ends, from its end down to e: the place of an entry on it is the
\* number of entries on its own walk.
Chain(e) == LET up == Above(e)
            IN  [i \in 1..Cardinality(up) |-> CHOOSE x \in up : Cardinality(Above(x)) = i]

childWithName(e, s) ==
    LET found == {c \in children[e] : name[c] = s}
    IN  IF found = {} THEN Nil ELSE CHOOSE c \in found : TRUE

\* The entries met on the way along the path p, Nil from the first that is missing.
Along(e, p) ==
    LET at[i \in 0..Len(p)] ==
            IF i = 0 THEN e
            ELSE IF at[i - 1] = Nil THEN Nil ELSE childWithName(at[i - 1], p[i])
    IN  at

\* - entryWithPath:, a lookup that creates nothing.
Lookup(e, p) == Along(e, p)[Len(p)]

-----------------------------------------------------------------------------
(* Memory.                                                                 *)

\* What stays allocated: reference counts reach zero in no entry that the
\* client, or the array of an entry that stays, retains.
Retained(h, kids) ==
    LET Supported(S) == \A e \in S : e = Root \/ e \in h \/ \E p \in S : e \in kids[p]
    IN  {e \in live : \E S \in SUBSET live : e \in S /\ Supported(S)}

\* Slip: dealloc does not release the array of children.
SettleLeaking(h, kids) ==
    /\ live' = {e \in live : \/ e = Root \/ e \in h
                            \/ \E p \in live : e \in kids[p]}
    /\ held' = h
    /\ children' = [e \in Entries |-> IF e \in live' THEN kids[e] ELSE {}]

\* dealloc of the others releases their arrays; parents are not told, and the
\* parent pointers of their children are not cleared.
Settle(h, kids) ==
    /\ live' = Retained(h, kids)
    /\ held' = h
    /\ children' = [e \in Entries |-> IF e \in live' THEN kids[e] ELSE {}]

-----------------------------------------------------------------------------
(* Operations.                                                             *)

\* The client calls a method of, or with, the entries in S; rules: it keeps those
\* of this method.
Passes(S, rules) ==
    /\ S \subseteq live
    /\ careful' = (careful /\ S \subseteq held \cup {Root} /\ rules)

\* + entryWithName:, retained by the client.  The root is its parent, but it is
\* not among the children of the root.
entryWithName(e, s) ==
    /\ e \notin used
    /\ live' = live \cup {e} /\ used' = used \cup {e} /\ held' = held \cup {e}
    /\ name' = [name EXCEPT ![e] = s]
    /\ parent' = [parent EXCEPT ![e] = Root]
    /\ UNCHANGED <<children, path, fault, stale, careful>>

\* + entryWithPath: follows the path from the root and creates what is missing
\* on it.  The client retains the entry it is given.
entryWithPath(p, fresh) ==
    LET known == CHOOSE k \in 0..Len(p) :
                   /\ Along(Root, p)[k] # Nil
                   /\ \A j \in (k + 1)..Len(p) : Along(Root, p)[j] = Nil
        at(i) == IF i <= known THEN Along(Root, p)[i] ELSE fresh[i - known]
        new == {fresh[i] : i \in 1..(Len(p) - known)}
        index(e) == CHOOSE i \in (known + 1)..Len(p) : fresh[i - known] = e
    IN  /\ Len(fresh) = Len(p) - known
        /\ live' = live \cup new /\ used' = used \cup new
        /\ name' = [e \in Entries |-> IF e \in new THEN p[index(e)] ELSE name[e]]
        /\ parent' = [e \in Entries |->
                        IF e \in new THEN at(index(e) - 1) ELSE parent[e]]
        /\ children' = [e \in Entries |->
                          children[e] \cup {c \in new : at(index(c) - 1) = e}]
        /\ held' = held \cup {at(Len(p))}
        /\ UNCHANGED <<path, fault, stale, careful>>

\* A walk that meets a cycle never ends; one that meets an entry that was
\* freed reads freed memory.
entryPath(e) ==
    /\ Passes({e}, TRUE)
    /\ path[e] = <<>>
    /\ IF Cyclic(e) THEN fault' = "hang" /\ UNCHANGED path
       ELSE IF \E x \in Above(e) : x \notin live THEN fault' = "freed" /\ UNCHANGED path
       ELSE /\ path' = [path EXCEPT ![e] = [i \in 1..Len(Chain(e)) |-> name[Chain(e)[i]]]]
            /\ UNCHANGED fault
    /\ UNCHANGED <<live, used, name, parent, children, held, stale>>

setProperty(e) ==
    /\ Passes({e}, TRUE)
    /\ path' = [path EXCEPT ![e] = <<>>] /\ stale' = stale \ {e}
    /\ UNCHANGED <<live, used, name, parent, children, held, fault>>

\* The path of c is forgotten; the cached paths below it are not.
Moved(c) ==
    /\ path' = [path EXCEPT ![c] = <<>>]
    /\ stale' = (stale \cup {e \in live : path[e] # <<>> /\ c \in Above(e)}) \ {c}

\* Slip: the cached path of the child is kept.
addChildCached(p, c) ==
    /\ Passes({p, c}, /\ c # Root /\ c \notin Above(p)
                      /\ \A q \in live : c \notin children[q])
    /\ childWithName(p, name[c]) = Nil
    /\ parent' = [parent EXCEPT ![c] = p]
    /\ children' = [children EXCEPT ![p] = @ \cup {c}]
    /\ stale' = stale \ {c}
    /\ UNCHANGED <<live, used, name, path, held, fault>>

\* A child of that name is there already: nothing happens.
addChild(p, c) ==
    /\ Passes({p, c}, /\ c # Root /\ c \notin Above(p)
                      /\ \A q \in live : c \notin children[q])
    /\ childWithName(p, name[c]) = Nil
    /\ parent' = [parent EXCEPT ![c] = p]
    /\ Moved(c)
    /\ children' = [children EXCEPT ![p] = @ \cup {c}]
    /\ UNCHANGED <<live, used, name, held, fault>>

\* Slip: the child loses its parent, but stays in the array.
removeChildListed(p, c) ==
    /\ Passes({p, c}, c \in children[p])
    /\ parent' = [parent EXCEPT ![c] = Nil]
    /\ Moved(c)
    /\ UNCHANGED <<live, used, name, children, held, fault>>

\* Slip: the child is released once more than the array has retained it.
removeChildReleased(p, c) ==
    /\ Passes({p, c}, c \in children[p])
    /\ children' = [children EXCEPT ![p] = @ \ {c}]
    /\ live' = Retained(held \ {c}, children')
    /\ parent' = [parent EXCEPT ![c] = Nil]
    /\ Moved(c)
    /\ UNCHANGED <<used, name, held, fault>>

\* The array may have held the last reference: the writes that follow are then
\* to freed memory.  That c is not a child of p is not noticed.
removeChild(p, c) ==
    /\ Passes({p, c}, c \in children[p])
    /\ Settle(held, [children EXCEPT ![p] = @ \ {c}])
    /\ parent' = [parent EXCEPT ![c] = Nil]
    /\ Moved(c)
    /\ fault' = IF c \in live' THEN fault ELSE "freed"
    /\ UNCHANGED <<used, name>>

-----------------------------------------------------------------------------
(* The client's own retain (of a child it was shown) and release.          *)

Retain(e) ==
    /\ e \in live \ held
    /\ \E p \in held \cup {Root} : e \in children[p]
    /\ held' = held \cup {e}
    /\ UNCHANGED <<live, used, name, parent, children, path, fault, stale, careful>>

Release(e) ==
    /\ e \in held
    /\ Settle(held \ {e}, children)
    /\ UNCHANGED <<used, name, parent, path, fault, stale, careful>>

\* An empty path leads to the root and creates nothing.
Paths == UNION {[1..n -> Names] : n \in 1..MaxDepth}
FreshSeqs == {s \in UNION {[1..n -> Entries \ used] : n \in 0..MaxDepth} : IsInjective(s)}

Next ==
    /\ fault = "none"
    /\ \/ \E e \in Entries, s \in Names : entryWithName(e, s)
       \/ \E p \in Paths, fresh \in FreshSeqs : entryWithPath(p, fresh)
       \/ \E e \in Entries : entryPath(e) \/ setProperty(e) \/ Retain(e) \/ Release(e)
       \/ \E p, c \in Entries : addChild(p, c) \/ removeChild(p, c)

Spec == Init /\ [][Next]_vars

-----------------------------------------------------------------------------
(* Properties.                                                             *)

\* With a careful client the arrays and the parent pointers describe the same
\* tree: whoever lists an entry is its parent, so walks up from a listed entry
\* go through the entries that list it and end.
TreeShape ==
    careful => \A p \in live : \A c \in children[p] :
        c \in live /\ parent[c] = p /\ ~Cyclic(c)

\* A path handed out by entryPath leads back to the entry when it is followed
\* from the root (after the name of the root itself), unless an ancestor moved
\* since it was cached, or is not listed by its parent.
PathResolves ==
    careful => \A e \in live :
        /\ path[e] # <<>> /\ e \notin stale
        /\ Root \in Above(e) /\ \A x \in Above(e) \ {Root} : x \in children[parent[x]]
        => Lookup(Root, Tail(path[e])) = e

\* Nothing is leaked: an entry that is allocated is the root, is retained by
\* the client, or is listed by an entry that is not leaked; arrays that retain
\* each other would be.
NoLeak ==
    careful => \A S \in SUBSET (live \ (held \cup {Root})) :
        S # {} => \E e \in S, p \in live \ S : e \in children[p]

\* Reference counts, arrays and parent pointers describe one tree, and what is not
\* in it is retained by the client.
TreeSound == TypeOK /\ TreeShape /\ NoLeak
=============================================================================
