------------------------------- MODULE Mindyld -------------------------------
(***************************************************************************)
(* mindyld: mindyld_core.c and elf_loader.c, the loader of ELF files, as   *)
(* built for Linux and BSD.                                                *)
(*                                                                         *)
(* A load goes through a dozen system calls, each of which may fail, with  *)
(* the file, the table of program headers and the mapping in its hands.    *)
(* What is loaded hangs in a list of handles linked through their "next"   *)
(* fields; malloc hands out the memory of a freed handle again.  One       *)
(* thread uses the library, and it unloads only what it has loaded and not *)
(* unloaded yet.                                                           *)
(*                                                                         *)
(* mmap reports failure as MAP_FAILED, which elf_map_segments compares     *)
(* with NULL.  Reading into that address fails with EFAULT; clearing       *)
(* memory there kills the process.  A file need not have a PT_LOAD         *)
(* segment: elf_map_segments then asks for one byte (0 minus the greatest  *)
(* address) and loads nothing.  Segments lie on pages of their own.        *)
(***************************************************************************)
EXTENDS Naturals, Sequences, FiniteSets

CONSTANTS
    Handles,     \* the memory malloc has for handles
    Regions,     \* the address ranges mmap has to give
    Null,
    MapFailed,   \* MAP_FAILED
    PageZero,    \* the range at address 0
    Files,       \* the files there are
    Executable,  \* those of type ET_EXEC
    Segments     \* Segments[f]: the PT_LOAD segments of f, records of
                 \* bytes (p_filesz > 0) and bss (p_memsz > p_filesz)

ASSUME MindyldAssumption ==
    /\ IsFiniteSet(Handles)
    /\ Null \notin Handles \cup Regions
    /\ MapFailed \notin Regions \cup {Null}
    /\ PageZero \notin Regions \cup {Null, MapFailed}
    /\ Executable \subseteq Files
    /\ Segments \in [Files -> Seq([bytes : BOOLEAN, bss : BOOLEAN])]

VARIABLES
    pc,         \* where mindyld_load is, "idle" between two calls
    file,       \* the file being loaded
    k,          \* the segment being loaded
    fd,         \* elf_load has the file open
    phdrs,      \* elf_map_segments holds its table of program headers
    base,       \* base_address of the load in progress
    mapped,     \* ranges that are mapped
    head,       \* _mindyld_linker_map.loaded_objects
    next,       \* next[h]: the field of handle h
    address,    \* address[h]: h->base_address
    held,       \* handles that are allocated; the client holds all of them
    result,     \* what the last call returned
    bare,       \* history: handles whose file has no PT_LOAD segment
    order,      \* history: handles loaded since mindyld_init, not yet unloaded
    abandoned,  \* history: ranges whose last pointer was dropped unmapped
    sound       \* history: every system call of this load succeeded

loading == <<file, k, fd, phdrs, base>>
list == <<head, next, address, held, bare, order>>
vars == <<pc, file, k, fd, phdrs, base, mapped, head, next, address, held,
          result, bare, order, abandoned, sound>>

TypeOK ==
    /\ pc \in {"idle", "open", "header", "table", "map", "segment", "unmapped",
               "handle", "register", "killed"}
    /\ file \in Files /\ k \in Nat
    /\ pc = "segment" => k \in DOMAIN Segments[file]
    /\ fd \in BOOLEAN /\ phdrs \in BOOLEAN
    /\ base \in Regions \cup {Null, MapFailed}
    /\ mapped \subseteq Regions \cup {PageZero}
    /\ head \in Handles \cup {Null}
    /\ next \in [Handles -> Handles \cup {Null}]
    /\ address \in [Handles -> Regions \cup {Null, MapFailed}]
    /\ held \subseteq Handles
    /\ result \in Handles \cup {Null}
    /\ bare \subseteq held
    /\ order \in Seq(Handles)
    /\ abandoned \subseteq mapped
    /\ sound \in BOOLEAN

Init ==
    /\ pc = "idle" /\ file \in Files /\ k = 1
    /\ fd = FALSE /\ phdrs = FALSE /\ base = Null
    /\ mapped = {} /\ head = Null
    /\ next = [h \in Handles |-> Null] /\ address = [h \in Handles |-> Null]
    /\ held = {} /\ result = Null
    /\ bare = {} /\ order = <<>> /\ abandoned = {} /\ sound = TRUE

-----------------------------------------------------------------------------
(* elf_load.                                                               *)

\* The call returns NULL.
ReturnNull == pc' = "idle" /\ base' = Null /\ result' = Null

\* mindyld_load: the magic bytes are read through a descriptor of their own.
mindyld_load(f) ==
    /\ pc = "idle"
    /\ file' = f /\ result' = Null
    /\ \/ pc' = "open" /\ sound' = TRUE      \* ELF
       \/ pc' = "idle" /\ sound' = FALSE     \* unreadable, or no ELF file
    /\ UNCHANGED <<k, fd, phdrs, base, mapped, list, abandoned>>

Open ==
    /\ pc = "open"
    /\ \/ fd' = TRUE /\ pc' = "header" /\ UNCHANGED <<base, result, sound>>
       \/ ReturnNull /\ sound' = FALSE /\ UNCHANGED fd
    /\ UNCHANGED <<file, k, phdrs, mapped, list, abandoned>>

\* The header is read and validated.
Header ==
    /\ pc = "header"
    /\ \/ pc' = "table" /\ UNCHANGED <<fd, base, result, sound>>
       \/ ReturnNull /\ fd' = FALSE /\ sound' = FALSE
    /\ UNCHANGED <<file, k, phdrs, mapped, list, abandoned>>

\* elf_map_segments reads the program headers into a table, or gives up.
Table ==
    /\ pc = "table"
    /\ \/ phdrs' = TRUE /\ pc' = "map" /\ UNCHANGED sound
       \/ pc' = "unmapped" /\ sound' = FALSE /\ UNCHANGED phdrs
    /\ UNCHANGED <<file, k, fd, base, mapped, list, result, abandoned>>

\* Slip: the loop runs one header too far.
LoadedTooFar(j) ==
    IF j > Len(Segments[file])
    THEN pc' = "handle" /\ phdrs' = FALSE /\ UNCHANGED k
    ELSE pc' = "segment" /\ k' = j + 1 /\ UNCHANGED phdrs

\* Where elf_map_segments goes once segments 1 to j are loaded.
Loaded(j) ==
    IF j = Len(Segments[file])
    THEN pc' = "handle" /\ phdrs' = FALSE /\ UNCHANGED k
    ELSE pc' = "segment" /\ k' = j + 1 /\ UNCHANGED phdrs

\* mmap of the whole.  An executable asks for MAP_FIXED at address 0: the
\* kernel refuses, or the mapping is there and its address is taken for NULL.
Map ==
    /\ pc = "map"
    /\ \/ /\ file \notin Executable
          /\ \E r \in Regions \ mapped : base' = r /\ mapped' = mapped \cup {r}
          /\ Loaded(0)
          /\ UNCHANGED <<abandoned, sound>>
       \/ /\ base' = MapFailed /\ sound' = FALSE
          /\ Loaded(0)
          /\ UNCHANGED <<mapped, abandoned>>
       \/ /\ file \in Executable
          /\ mapped' = mapped \cup {PageZero}
          /\ abandoned' = abandoned \cup {PageZero}
          /\ pc' = "unmapped" /\ phdrs' = FALSE
          /\ UNCHANGED <<k, base, sound>>
    /\ UNCHANGED <<file, fd, list, result>>

\* Slip: the mapping is not given back.
SegmentFailsLeaving ==
    /\ phdrs' = FALSE
    /\ pc' = "unmapped" /\ base' = Null /\ sound' = FALSE
    /\ UNCHANGED <<k, mapped>>

\* lseek, read or mprotect failed: munmap, which refuses MAP_FAILED.
SegmentFails ==
    /\ mapped' = mapped \ {base} /\ phdrs' = FALSE
    /\ pc' = "unmapped" /\ base' = Null /\ sound' = FALSE
    /\ UNCHANGED k

\* Slip: a read that failed is not noticed.
SegmentUnread ==
    /\ pc = "segment"
    /\ \/ Loaded(k) /\ UNCHANGED <<base, mapped, sound>>
       \/ SegmentFails
    /\ UNCHANGED <<file, fd, list, result, abandoned>>

\* One PT_LOAD segment: read its bytes, clear the rest, protect it.
Segment ==
    LET s == Segments[file][k]
    IN  /\ pc = "segment"
        /\ \/ /\ base # MapFailed
              /\ Loaded(k)
              /\ UNCHANGED <<base, mapped, sound>>
           \/ SegmentFails
           \/ /\ base = MapFailed /\ ~s.bytes /\ s.bss   \* memset
              /\ pc' = "killed"
              /\ UNCHANGED <<k, phdrs, base, mapped, sound>>
        /\ UNCHANGED <<file, fd, list, result, abandoned>>

\* elf_load was given NULL by elf_map_segments.
Unmapped ==
    /\ pc = "unmapped"
    /\ fd' = FALSE
    /\ ReturnNull
    /\ UNCHANGED <<file, k, phdrs, mapped, list, abandoned, sound>>

\* The handle; its size is left 0.  Without memory for it the mapping stays.
Handle ==
    /\ pc = "handle"
    /\ fd' = FALSE
    /\ \/ \E h \in Handles \ held :
             /\ held' = held \cup {h}
             /\ address' = [address EXCEPT ![h] = base]
             /\ next' = [next EXCEPT ![h] = Null]
             /\ bare' = IF Segments[file] = <<>> THEN bare \cup {h} ELSE bare
             /\ result' = h /\ pc' = "register" /\ base' = Null
             /\ UNCHANGED <<abandoned, sound>>
       \/ /\ ReturnNull /\ sound' = FALSE
          /\ abandoned' = abandoned \cup ({base} \cap mapped)
          /\ UNCHANGED <<held, address, next, bare>>
    /\ UNCHANGED <<file, k, phdrs, mapped, head, order>>

-----------------------------------------------------------------------------
(* The list of loaded objects.                                             *)

\* The handles met by following "next" from loaded_objects, in this order.
Walk ==
    LET at[n \in Nat] ==
            IF n = 0 THEN head
            ELSE IF at[n - 1] = Null THEN Null ELSE next[at[n - 1]]
        Steps == {n \in 0..Cardinality(Handles) : at[n] # Null}
    IN  [n \in {m + 1 : m \in Steps} |-> at[n - 1]]

Last(s) == s[Len(s)]

register_loaded_object(h) ==
    IF head = Null
    THEN head' = h /\ UNCHANGED next
    ELSE next' = [next EXCEPT ![Last(Walk)] = h] /\ UNCHANGED head

Register ==
    /\ pc = "register"
    /\ register_loaded_object(result)
    /\ order' = Append(order, result)
    /\ pc' = "idle"
    /\ UNCHANGED <<loading, address, held, bare, mapped, result, abandoned, sound>>

\* Slip: the list is not repaired when its first handle goes.
UnlinkInner(h) ==
    LET before == {n \in DOMAIN Walk : n > 1 /\ Walk[n] = h}
    IN  /\ next' = [p \in Handles |->
                       IF \E n \in before : p = Walk[n - 1] THEN next[h]
                       ELSE next[p]]
        /\ UNCHANGED head

\* Take h out of the list, if it is in it.
Unlink(h) ==
    LET before == {n \in DOMAIN Walk : n > 1 /\ Walk[n] = h}
    IN  /\ next' = [p \in Handles |->
                       IF \E n \in before : p = Walk[n - 1] THEN next[h]
                       ELSE next[p]]
        /\ head' = IF head = h THEN next[h] ELSE head

\* The history without h.
Without(s, h) ==
    LET at == CHOOSE n \in DOMAIN s : s[n] = h
    IN  IF \E n \in DOMAIN s : s[n] = h
        THEN [n \in 1..(Len(s) - 1) |-> IF n < at THEN s[n] ELSE s[n + 1]]
        ELSE s

\* The mapping is kept, because no handle has a size (elf_load, line 289).
mindyld_unload(h) ==
    /\ pc = "idle"
    /\ h \in held
    /\ Unlink(h)
    /\ held' = held \ {h} /\ bare' = bare \ {h}
    /\ order' = Without(order, h)
    /\ abandoned' = abandoned \cup ({address[h]} \cap mapped)
    /\ result' = Null /\ sound' = TRUE
    /\ UNCHANGED <<pc, loading, mapped, address>>

\* Nothing is unloaded: the handles there are drop out of the list.
mindyld_init ==
    /\ pc = "idle"
    /\ head' = Null /\ order' = <<>>
    /\ result' = Null /\ sound' = TRUE
    /\ UNCHANGED <<pc, loading, mapped, next, address, held, bare,
                   abandoned>>

Killed == pc = "killed" /\ UNCHANGED vars

Next ==
    \/ \E f \in Files : mindyld_load(f)
    \/ Open \/ Header \/ Table \/ Map \/ Segment \/ Unmapped
    \/ Handle \/ Register
    \/ \E h \in Handles : mindyld_unload(h)
    \/ mindyld_init
    \/ Killed

Spec == Init /\ [][Next]_vars

-----------------------------------------------------------------------------
(* Properties.                                                             *)

\* Between two calls the list of loaded objects is exactly the handles that
\* were loaded since the last mindyld_init and not unloaded, oldest first, and
\* all of them are allocated: mindyld_resolve_symbol follows no freed pointer,
\* also when mindyld_init has dropped handles that still point into the list
\* and malloc has reused the memory of others.
ListSound ==
    pc = "idle" => /\ Walk = order
                   /\ \A n \in DOMAIN Walk : Walk[n] \in held

\* Between two calls no descriptor and no table is left, and a mapping that is
\* neither that of a handle nor of a load in progress was lost where the code
\* loses one, never by a segment that failed.  The code loses one in three
\* places: mindyld_unload, whose handles have size 0; elf_load without memory
\* for the handle (line 283); an executable mapped at address 0 (line 94).
Accounted ==
    /\ pc = "idle" => ~fd /\ ~phdrs
    /\ mapped \subseteq abandoned \cup {base} \cup {address[h] : h \in held}

\* The mapping of a handle is its own.  That mmap failed is noticed only when a
\* segment is read to MAP_FAILED, cleared there or protected: a handle has
\* that address only if its file has no segment, and every other handle has a
\* mapping nobody has dropped.
OwnMapping ==
    \A h \in held :
       \/ /\ address[h] \in mapped \ abandoned
          /\ \A g \in held : address[g] = address[h] => g = h
       \/ address[h] = MapFailed /\ h \in bare

\* Descriptors, tables and mappings: a load leaves none behind but the mappings
\* that Accounted names, and no two handles share one.
MappingsSound == TypeOK /\ Accounted /\ OwnMapping

\* mindyld.h, line 25: "Load a shared library or executable", and line 29:
\* "Returns: Handle to loaded binary, or NULL on error".  A load none of whose
\* system calls failed returns a handle.
LoadsUnlessError ==
    [][pc # "idle" /\ pc' = "idle" /\ sound' => result' # Null]_vars
=============================================================================
