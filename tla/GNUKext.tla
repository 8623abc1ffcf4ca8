------------------------------- MODULE GNUKext -------------------------------
(***************************************************************************)
(* Frameworks/GNUKext: GNUKext.m, GNUKextDriver.m and libkern.m, loading   *)
(* kernel extensions as Linux kernel modules.                              *)
(*                                                                         *)
(* "Is this kext loaded" is recorded five times: the _loaded flag of the   *)
(* GNUKext object, the class's list _globalLoadedKexts, the state of the   *)
(* object's KextInfo, libkern's list _loadedKexts, and the kernel's own    *)
(* table of modules.  _loadedKexts holds plain pointers to KextInfos; the  *)
(* only thing that keeps those alive is that _globalLoadedKexts retains    *)
(* the object that owns them.                                              *)
(*                                                                         *)
(* Two layers use the records: clients of the Objective-C class, and       *)
(* clients of the C functions, who make KextInfos of their own and may     *)
(* find those of others by identifier.  The library is not thread safe and *)
(* each call is one step.  Clients of the C functions free a KextInfo they *)
(* made, and only while it is not loaded.                                  *)
(***************************************************************************)
EXTENDS Naturals, Sequences, FiniteSets, SequencesExt

CONSTANTS
    Objects,       \* the memory for KextInfos, and GNUKext objects around them
    Bundles,       \* bundles on disk
    NoBundle,      \* an unused element of Objects
    Ids,           \* bundle identifiers
    Id,            \* CFBundleIdentifier of each bundle, NoId if it has none
    NoId,
    Deps,          \* OSBundleLibraries of each bundle
    Module,        \* name of the module in CFBundleExecutable, NoModule: no file
    NoModule,
    FileName,      \* name of that file, without its last two extensions
    Personalities, \* names of IOKitPersonalities
    Providers,     \* the children of the registry's root
    Match          \* Match[b]: pairs of a personality of b and a provider

ASSUME GNUKextAssumption ==
    /\ NoBundle \notin Bundles /\ NoId \notin Ids
    /\ Id \in [Bundles -> Ids \cup {NoId}]
    /\ Deps \in [Bundles -> SUBSET Ids]
    /\ Match \in [Bundles -> SUBSET (Personalities \X Providers)]

VARIABLES
    bundle,    \* bundle[o]: what object o was made from, NoBundle: unused
    wrapped,   \* objects that are GNUKexts; the others are bare KextInfos
    held,      \* objects a client holds a reference to (owns, if bare)
    loaded,    \* GNUKexts whose _loaded is YES
    global,    \* _globalLoadedKexts
    state,     \* state[o]: info->state
    infos,     \* _loadedKexts
    kernel,    \* names of the modules in the kernel
    struck,    \* history: names deleted for a kext whose own module has another
    started,   \* started[o]: matches of o for which some driver is started
    result,    \* what the last call returned
    foreign,   \* history: a C client has unloaded a KextInfo that it looked up
    direct     \* history: a client has called startMatchingWithProvider: itself

vars == <<bundle, wrapped, held, loaded, global, state, infos, kernel,
          struck, started, result, foreign, direct>>
history == <<foreign, direct>>

Pairs == Personalities \X Providers
Live == {o \in Objects : bundle[o] # NoBundle}
IdOf(o) == Id[bundle[o]]
ModuleOf(o) == Module[bundle[o]]
FileOf(o) == FileName[bundle[o]]

TypeOK ==
    /\ bundle \in [Objects -> Bundles \cup {NoBundle}]
    /\ wrapped \subseteq Live /\ held \subseteq Live
    /\ loaded \subseteq Objects
    /\ global \in Seq(Objects) /\ infos \in Seq(Objects)
    /\ state \in [Objects -> {"Unloaded", "Loaded", "Failed"}]
    /\ kernel \subseteq {Module[b] : b \in Bundles}
    /\ struck \subseteq {FileName[b] : b \in Bundles}
    /\ started \in [Objects -> SUBSET Pairs]
    /\ result \in {"YES", "NO", "void"}
    /\ foreign \in BOOLEAN /\ direct \in BOOLEAN

Init ==
    /\ bundle = [o \in Objects |-> NoBundle]
    /\ wrapped = {} /\ held = {} /\ loaded = {}
    /\ global = <<>> /\ infos = <<>>
    /\ state = [o \in Objects |-> "Unloaded"]
    /\ kernel = {} /\ struck = {}
    /\ started = [o \in Objects |-> {}]
    /\ result = "void" /\ foreign = FALSE /\ direct = FALSE

-----------------------------------------------------------------------------
(* libkern.m: the KextInfo functions.                                      *)

\* A KextInfo (isKext: and a GNUKext around it) for bundle b.
Create(o, b, isKext) ==
    /\ bundle[o] = NoBundle
    /\ bundle' = [bundle EXCEPT ![o] = b]
    /\ wrapped' = IF isKext THEN wrapped \cup {o} ELSE wrapped
    /\ held' = held \cup {o}
    /\ state' = [state EXCEPT ![o] = "Unloaded"]
    /\ result' = "void"
    /\ UNCHANGED <<loaded, global, infos, kernel, struck, started>>

\* GNUKextDriver's start: and stop:, for the drivers of the matches "new" of o
\* and for all drivers of o.
start(o, new) == started' = [started EXCEPT ![o] = @ \cup new]
stop(o) == started' = [started EXCEPT ![o] = {}]

\* The memory of o is given back, its drivers' too; the pointer in _loadedKexts, if any, stays.
Destroy(o) ==
    /\ bundle' = [bundle EXCEPT ![o] = NoBundle]
    /\ wrapped' = wrapped \ {o}
    /\ loaded' = loaded \ {o}
    /\ stop(o)

\* The identifiers found in a list of objects.
Found(list) == {IdOf(list[k]) : k \in DOMAIN list}

CheckDependencies(o) == Deps[bundle[o]] \subseteq Found(infos)

\* Slip: a module that is there already counts as loaded.
InsertModuleAgain(o, ok) ==
    /\ IF ModuleOf(o) = NoModule
       THEN ok /\ UNCHANGED kernel
       ELSE \/ ok /\ kernel' = kernel \cup {ModuleOf(o)}
            \/ ~ok /\ UNCHANGED kernel
    /\ UNCHANGED struck

\* init_module takes the name of the module from the image.  It is refused when
\* the kernel has a module of that name, and for reasons of the kernel's own.
InsertModule(o, ok) ==
    /\ IF ModuleOf(o) = NoModule
       THEN ok /\ UNCHANGED kernel
       ELSE \/ ok /\ ModuleOf(o) \notin kernel /\ kernel' = kernel \cup {ModuleOf(o)}
            \/ ~ok /\ UNCHANGED kernel
    /\ UNCHANGED struck

\* delete_module is given the file's name instead, and deletes whatever module has
\* it.  It may be refused (the module is in use); nobody looks.
DeleteModule(o) ==
    \/ /\ ModuleOf(o) # NoModule
       /\ kernel' = kernel \ {FileOf(o)}
       /\ struck' = IF FileOf(o) = ModuleOf(o) THEN struck ELSE struck \cup {FileOf(o)}
    \/ UNCHANGED <<kernel, struck>>

\* KextInfoLoad with its outcome r.
KextInfoLoad(o, r) ==
    \/ /\ state[o] = "Loaded"
       /\ r = "AlreadyLoaded"
       /\ UNCHANGED <<state, infos, kernel, struck>>
    \/ /\ state[o] # "Loaded"
       /\ IdOf(o) = NoId
       /\ r = "InvalidInfo"
       /\ UNCHANGED <<state, infos, kernel, struck>>
    \/ /\ state[o] # "Loaded"
       /\ IdOf(o) # NoId
       /\ ~CheckDependencies(o)
       /\ r = "MissingDependencies"
       /\ UNCHANGED <<state, infos, kernel, struck>>
    \/ /\ state[o] # "Loaded"
       /\ IdOf(o) # NoId
       /\ CheckDependencies(o)
       /\ \/ /\ InsertModule(o, TRUE)
             /\ r = "Success"
             /\ state' = [state EXCEPT ![o] = "Loaded"]
             /\ infos' = Append(infos, o)
          \/ /\ InsertModule(o, FALSE)
             /\ r = "FailedToLoad"
             /\ state' = [state EXCEPT ![o] = "Failed"]
             /\ UNCHANGED infos

\* KextInfoUnload with its outcome r.
KextInfoUnload(o, r) ==
    \/ /\ state[o] # "Loaded"
       /\ r = "FailedToLoad"
       /\ UNCHANGED <<state, infos, kernel, struck>>
    \/ /\ state[o] = "Loaded"
       /\ r = "Success"
       /\ DeleteModule(o)
       /\ state' = [state EXCEPT ![o] = "Unloaded"]
       /\ infos' = RemoveFirst(infos, o)

Results == {"Success", "InvalidInfo", "MissingDependencies", "FailedToLoad",
            "AlreadyLoaded"}

-----------------------------------------------------------------------------
(* Clients of the C functions.                                             *)

KextInfoCreateFromPath(o, b) == Create(o, b, FALSE)

InfoLoad(o) ==
    /\ o \in held \ wrapped
    /\ \E r \in Results : KextInfoLoad(o, r)
    /\ result' = "void"
    /\ UNCHANGED <<bundle, wrapped, held, loaded, global, started>>

InfoUnload(o) ==
    /\ o \in held \ wrapped
    /\ \E r \in Results : KextInfoUnload(o, r)
    /\ result' = "void"
    /\ UNCHANGED <<bundle, wrapped, held, loaded, global, started>>

KextInfoFree(o) ==
    /\ o \in held \ wrapped
    /\ state[o] # "Loaded"
    /\ Destroy(o)
    /\ held' = held \ {o}
    /\ result' = "void"
    /\ UNCHANGED <<global, state, infos, kernel, struck>>

\* The first object of a list with identifier id, if there is one.
First(list, id) ==
    LET hits == {k \in DOMAIN list : IdOf(list[k]) = id}
    IN  IF hits = {} THEN {}
        ELSE {list[CHOOSE k \in hits : \A j \in hits : k <= j]}

\* KextInfoUnload(KextInfoFindWithIdentifier(id)).
FindAndUnload(id) ==
    /\ \E o \in First(infos, id) :
          \E r \in Results : KextInfoUnload(o, r)
    /\ result' = "void"
    /\ foreign' = TRUE
    /\ UNCHANGED <<bundle, wrapped, held, loaded, global, started, direct>>

-----------------------------------------------------------------------------
(* GNUKext.m.                                                              *)

kextWithPath(o, b) == Create(o, b, TRUE)

\* A client keeps the kext it looked up.
kextWithIdentifier(id) ==
    /\ \E o \in First(global, id) : o \notin held /\ held' = held \cup {o}
    /\ result' = "void"
    /\ UNCHANGED <<bundle, wrapped, loaded, global, state, infos, kernel, struck,
                   started>>

\* Slip: the list of loaded kexts does not retain them.
releaseUnretained(o) ==
    /\ o \in held \cap wrapped
    /\ held' = held \ {o}
    /\ Destroy(o)
    /\ result' = "void"
    /\ UNCHANGED <<global, state, infos, kernel, struck>>

\* A client lets go of a kext; dealloc runs when nobody else retains it.
release(o) ==
    /\ o \in held \cap wrapped
    /\ held' = held \ {o}
    /\ \/ o \in Range(global) /\ UNCHANGED <<bundle, wrapped, loaded, started>>
       \/ o \notin Range(global) /\ Destroy(o)
    /\ result' = "void"
    /\ UNCHANGED <<global, state, infos, kernel, struck>>

\* Slip: what libkern says is not looked at.
LoadUnloadedBlindly(o) ==
    /\ IdOf(o) # NoId
    /\ Deps[bundle[o]] \subseteq Found(global)
    /\ \E r \in Results : KextInfoLoad(o, r)
    /\ loaded' = loaded \cup {o}
    /\ global' = Append(global, o)
    /\ result' = "YES"

\* [o load] on an object that is not loaded yet.
LoadUnloaded(o) ==
    \/ /\ IdOf(o) = NoId \/ ~(Deps[bundle[o]] \subseteq Found(global))
       /\ result' = "NO"
       /\ UNCHANGED <<loaded, global, state, infos, kernel, struck>>
    \/ /\ IdOf(o) # NoId
       /\ Deps[bundle[o]] \subseteq Found(global)
       /\ \E r \in Results :
             /\ KextInfoLoad(o, r)
             /\ IF r = "Success"
                THEN /\ loaded' = loaded \cup {o}
                     /\ global' = Append(global, o)
                     /\ result' = "YES"
                ELSE /\ result' = "NO"
                     /\ UNCHANGED <<loaded, global>>

Load(o) ==
    /\ \/ o \in loaded /\ result' = "YES"
          /\ UNCHANGED <<loaded, global, state, infos, kernel, struck>>
       \/ o \notin loaded /\ LoadUnloaded(o)
    /\ UNCHANGED <<bundle, wrapped, held, started>>

\* removeObject: of NSMutableArray, which takes out every occurrence.
removeObject(array, o) ==
    LET kept[i \in 0..Len(array)] ==
            IF i = 0 THEN <<>>
            ELSE IF array[i] = o THEN kept[i - 1]
            ELSE Append(kept[i - 1], array[i])
    IN  kept[Len(array)]

\* Slip: the kext is released once too often.
UnloadLoadedOverReleased(o) ==
    /\ KextInfoUnload(o, "Success")
    /\ global' = removeObject(global, o)
    /\ result' = "YES"
    /\ Destroy(o)

\* Slip: the drivers keep running.
UnloadLoadedRunning(o) ==
    /\ KextInfoUnload(o, "Success")
    /\ global' = removeObject(global, o)
    /\ result' = "YES"
    /\ loaded' = loaded \ {o}
    /\ UNCHANGED <<bundle, wrapped, started>>

\* [o unload] on a loaded object: its drivers are stopped first and stay
\* stopped even when libkern then refuses.  Leaving _globalLoadedKexts may
\* drop the last reference; the flag and the identifier of the object are still
\* touched after that (lines 252 and 254).
UnloadLoaded(o) ==
    \E r \in Results :
        /\ KextInfoUnload(o, r)
        /\ IF r = "Success"
           THEN /\ global' = removeObject(global, o)
                /\ result' = "YES"
                /\ IF o \in held
                   THEN /\ loaded' = loaded \ {o}
                        /\ stop(o)
                        /\ UNCHANGED <<bundle, wrapped>>
                   ELSE Destroy(o)
           ELSE /\ result' = "NO"
                /\ stop(o)
                /\ UNCHANGED <<bundle, wrapped, loaded, global>>

Unload(o) ==
    /\ \/ /\ o \notin loaded /\ result' = "YES"
          /\ UNCHANGED <<bundle, wrapped, loaded, global, state, infos, kernel, struck,
                         started>>
       \/ o \in loaded /\ UnloadLoaded(o)
    /\ UNCHANGED held

load(o) == o \in held \cap wrapped /\ Load(o)
unload(o) == o \in held \cap wrapped /\ Unload(o)

loadKextWithIdentifier(id) ==
    \/ \E o \in First(global, id) : Load(o)
    \/ /\ First(global, id) = {}
       /\ result' = "NO"
       /\ UNCHANGED <<bundle, wrapped, held, loaded, global, state, infos,
                      kernel, struck, started>>

unloadKextWithIdentifier(id) ==
    \/ \E o \in First(global, id) : Unload(o)
    \/ /\ First(global, id) = {}
       /\ result' = "NO"
       /\ UNCHANGED <<bundle, wrapped, held, loaded, global, state, infos,
                      kernel, struck, started>>

\* startMatchingWithProvider: for each personality of o that matches p a class
\* is looked up and a driver made, whose start may fail.
Startable(o, p) == {m \in Match[bundle[o]] : m[2] = p}

startMatchingWithProvider(o, p) ==
    /\ o \in held \cap wrapped
    /\ \E new \in SUBSET Startable(o, p) : start(o, new)
    /\ result' = "YES"
    /\ direct' = TRUE
    /\ UNCHANGED <<bundle, wrapped, held, loaded, global, state, infos, kernel, struck,
                   foreign>>

matchAndStartDrivers ==
    /\ \E new \in [Range(global) -> SUBSET Pairs] :
          /\ \A o \in Range(global) : new[o] \subseteq Match[bundle[o]]
          /\ started' = [o \in Objects |->
                             IF o \in Range(global) THEN started[o] \cup new[o]
                             ELSE started[o]]
    /\ result' = "void"
    /\ UNCHANGED <<bundle, wrapped, held, loaded, global, state, infos, kernel, struck>>

CClient ==
    \/ \E o \in Objects, b \in Bundles : KextInfoCreateFromPath(o, b) /\ UNCHANGED history
    \/ \E o \in Objects : (InfoLoad(o) \/ InfoUnload(o) \/ KextInfoFree(o)) /\ UNCHANGED history
    \/ \E id \in Ids : FindAndUnload(id)

KextClient ==
    \/ \E o \in Objects, b \in Bundles : kextWithPath(o, b) /\ UNCHANGED history
    \/ \E o \in Objects : (load(o) \/ unload(o) \/ release(o)) /\ UNCHANGED history
    \/ \E id \in Ids :
          /\ \/ kextWithIdentifier(id)
             \/ loadKextWithIdentifier(id) \/ unloadKextWithIdentifier(id)
          /\ UNCHANGED history
    \/ \E o \in Objects, p \in Providers : startMatchingWithProvider(o, p)
    \/ matchAndStartDrivers /\ UNCHANGED history

Next == CClient \/ KextClient

Spec == Init /\ [][Next]_vars

-----------------------------------------------------------------------------
(* Properties.                                                             *)

\* No pointer in _loadedKexts dangles and none is there twice, although
\* dealloc and KextInfoFree never look at that list: what is in it is
\* retained by _globalLoadedKexts or owned by a client of the C functions.
NoDangling ==
    /\ Range(infos) \subseteq Live
    /\ IsInjective(infos)
    /\ \A o \in Range(infos) : state[o] = "Loaded"

\* The records of the two layers agree: a GNUKext is in _globalLoadedKexts
\* exactly when its _loaded is YES, and then libkern has it loaded.  This
\* ends when a C client unloads what it found with KextInfoFindWithIdentifier:
\* the class is not told, and only its own two records still agree.
RecordsAgree ==
    /\ Range(global) = loaded /\ IsInjective(global)
    /\ ~foreign => loaded = Range(infos) \cap wrapped

\* libkern never refuses what unload asks of it, so that the drivers which unload
\* has stopped by then are not those of a kext that stays loaded; again until a C
\* client unloads what is not its own.
UnloadSucceeds ==
    [][~foreign => \A o \in loaded : unload(o) => result' = "YES"]_vars

\* A KextInfo that is loaded has its module in the kernel, and shares it with
\* no other loaded one: a second load of the same module is refused by the
\* kernel, and only the one that inserted a module deletes it.  It is lost
\* when a kext whose file is not named after its module is unloaded and the
\* name of that file is the module's (unloadModuleAtPath:).
ModuleHeld ==
    \A o \in Live : state[o] = "Loaded" /\ ModuleOf(o) \notin struck \cup {NoModule} =>
        /\ ModuleOf(o) \in kernel
        /\ \A q \in Live : state[q] = "Loaded" /\ ModuleOf(q) = ModuleOf(o) => q = o

\* A kext that is not loaded has no started driver, as long as drivers are
\* started by matchAndStartDrivers only.
UnloadedIsQuiet == ~direct => \A o \in Live : o \notin loaded => started[o] = {}

\* The five records of what is loaded: none dangles, they agree between the two
\* layers, and the kernel has the module of whatever counts as loaded unless the
\* unload of a misnamed file took it away.
RecordsSound == TypeOK /\ NoDangling /\ RecordsAgree /\ ModuleHeld
=============================================================================
