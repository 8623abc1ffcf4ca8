---------------------------- MODULE RegisterSet ----------------------------
(***************************************************************************)
(* APRegisterSet of drivers/AndroidPlatform.framework/Headers/APBitfield.h:*)
(* a client reads a register into its set, changes fields of the set and   *)
(* writes it back.  Several clients have sets of one register.             *)
(*                                                                         *)
(* A word is the set of its bits that are one.                             *)
(***************************************************************************)
CONSTANTS Clients,   \* drivers with an APRegisterSet of the register
          Bits       \* bits of the register

VARIABLES
    word,       \* the register
    shadow,     \* of each client: shadow
    open,       \* clients that have read the register, as the usage asks
    clr, set,   \* history, of each client: what it changed since it was in step
    stale,      \* history: clients whose shadow another's write has overtaken
    want,       \* history: the word if every write applied its changes only
    undone      \* history: some write was of a stale shadow

vars == <<word, shadow, open, clr, set, stale, want, undone>>

Words == SUBSET Bits

TypeOK ==
    /\ word \in Words /\ want \in Words /\ undone \in BOOLEAN
    /\ shadow \in [Clients -> Words]
    /\ clr \in [Clients -> Words] /\ set \in [Clients -> Words]
    /\ open \subseteq Clients /\ stale \subseteq open

\* init leaves the shadow as it is: anything.
Init ==
    /\ word \in Words /\ want = word /\ undone = FALSE
    /\ shadow \in [Clients -> Words] /\ open = {} /\ stale = {}
    /\ clr = [c \in Clients |-> {}] /\ set = [c \in Clients |-> {}]

\* Slip: what is changed already is kept.
ReadKeeps(c) ==
    /\ shadow' = [shadow EXCEPT ![c] = @ \cup word]
    /\ open' = open \cup {c} /\ stale' = stale \ {c}
    /\ clr' = [clr EXCEPT ![c] = {}] /\ set' = [set EXCEPT ![c] = {}]
    /\ UNCHANGED <<word, want, undone>>

read(c) ==
    /\ shadow' = [shadow EXCEPT ![c] = word]
    /\ open' = open \cup {c} /\ stale' = stale \ {c}
    /\ clr' = [clr EXCEPT ![c] = {}] /\ set' = [set EXCEPT ![c] = {}]
    /\ UNCHANGED <<word, want, undone>>

Change(w, x, y) == (w \ x) \cup y

\* setBit is modify(c, {}, field), clearBit is modify(c, field, {}), and put is
\* modify(c, field, value).
modify(c, x, y) ==
    /\ c \in open
    /\ shadow' = [shadow EXCEPT ![c] = Change(@, x, y)]
    /\ clr' = [clr EXCEPT ![c] = @ \cup x] /\ set' = [set EXCEPT ![c] = Change(@, x, y)]
    /\ UNCHANGED <<word, open, stale, want, undone>>

write(c) ==
    /\ c \in open
    /\ word' = shadow[c]
    /\ want' = Change(want, clr[c], set[c])
    /\ undone' = (undone \/ c \in stale)
    /\ stale' = open \ {c}
    /\ clr' = [clr EXCEPT ![c] = {}] /\ set' = [set EXCEPT ![c] = {}]
    /\ UNCHANGED <<shadow, open>>

Next == \E c \in Clients : read(c) \/ write(c) \/ \E x, y \in Words : modify(c, x, y)

Spec == Init /\ [][Next]_vars

-----------------------------------------------------------------------------
(* Properties.                                                             *)

\* "read/modify/write a group of bitfields atomically" (APBitfield.h:69): the
\* register is as if every write had applied the changes of its set at once, until
\* a client writes a set that it read before the last write of
\* another: a read before every change, and no other client in between, is what
\* the usage has to see to.
AtomicUntilStale == ~undone => word = want
=============================================================================
