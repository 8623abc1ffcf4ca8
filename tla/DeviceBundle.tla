---------------------------- MODULE DeviceBundle ----------------------------
(***************************************************************************)
(* Library/libDeviceBundle: DeviceBundle.cpp and DeviceInfo.cpp, the       *)
(* description of a device read from a directory.                          *)
(*                                                                         *)
(* loadBundle goes through four steps, each of which may end it: it        *)
(* neither clears what an earlier load has left nor takes back what it has *)
(* stored itself.  The directory is walked in an order that the C++        *)
(* library leaves open, and the walk may throw half way, which is caught;  *)
(* what asking for the path itself throws leaves loadBundle.  An object    *)
(* made with the default constructor has no value in valid_.               *)
(***************************************************************************)
EXTENDS Naturals, FiniteSets

CONSTANTS
    Paths,         \* paths a client may name
    Bundles,       \* those that are directories
    Files,         \* the files in them
    Of,            \* Of[f]: the bundle f is in
    Kind,          \* Kind[f]: "plist", "dts", "config", or "listed": a driver or resource
    Good,          \* the property lists that parse and have a CFBundleName
    Settings,      \* files a client gives loadConfiguration, of a bundle or not
    MaxLoads,      \* bound: calls of loadBundle
    None

VARIABLES
    path,           \* bundlePath_
    contents,       \* infoPlist, dtsFile and configFile of contents_
    listed,         \* how often a file is in contents_.drivers or .resources
    info,           \* deviceInfo_: the property list it was made from
    configuration,  \* files whose settings configuration_ holds
    valid,          \* valid_
    result,         \* what the last loadBundle returned, None if it threw
    loads,          \* calls of loadBundle so far
    since,          \* history: since[b], those of path b since the object was
                    \* made or unloaded
    assigned        \* history: valid_ has been given a value

vars == <<path, contents, listed, info, configuration, valid, result, loads,
          since, assigned>>

Slots == {"plist", "dts", "config"}

TypeOK ==
    /\ path \in Paths \cup {None}
    /\ contents \in [Slots -> Files \cup {None}]
    /\ \A k \in Slots : contents[k] # None => Kind[contents[k]] = k
    /\ listed \in [Files -> 0..MaxLoads]
    /\ info \in Files \cup {None}
    /\ configuration \subseteq Settings
    /\ valid \in BOOLEAN /\ result \in BOOLEAN \cup {None}
    /\ loads \in 0..MaxLoads
    /\ since \in [Paths -> 0..MaxLoads] /\ assigned \in BOOLEAN

\* The default constructor leaves valid_ without a value; the one that is given a
\* path clears it and calls loadBundle, which comes next.
Init ==
    /\ path = None /\ contents = [k \in Slots |-> None]
    /\ listed = [f \in Files |-> 0]
    /\ info = None /\ configuration = {}
    /\ valid \in BOOLEAN /\ assigned \in BOOLEAN /\ (assigned => ~valid)
    /\ result = None /\ loads = 0 /\ since = [b \in Paths |-> 0]

-----------------------------------------------------------------------------
(* loadBundle.                                                             *)

\* Slip: a field that is set is not set again.
LastUnlessSet(k, seen) ==
    LET found == {f \in seen : Kind[f] = k}
    IN  IF found = {} \/ contents[k] # None THEN {contents[k]} ELSE found

\* What a field of contents_ holds after the files in seen: the last of its kind.
Last(k, seen) ==
    LET found == {f \in seen : Kind[f] = k}
    IN  IF found = {} THEN {contents[k]} ELSE found

\* _scanBundleContents, after it has met the files in seen.
Scan(seen) ==
    /\ \E p \in Last("plist", seen), d \in Last("dts", seen), c \in Last("config", seen) :
          contents' = [contents EXCEPT !["plist"] = p, !["dts"] = d, !["config"] = c]
    /\ listed' = [f \in Files |->
                     IF f \in seen /\ Kind[f] = "listed" THEN listed[f] + 1 ELSE listed[f]]

\* _loadInfoPlist and _validateBundle: there is a property list, and what is
\* made of it is valid.
Described ==
    /\ contents'["plist"] # None
    /\ info' = contents'["plist"]
    /\ info' \in Good

\* What an attempt that fails at the property list leaves in deviceInfo_.
Undescribed ==
    /\ info' = IF contents'["plist"] = None THEN info ELSE contents'["plist"]
    /\ contents'["plist"] \notin Good

Begin(b) ==
    /\ loads < MaxLoads /\ loads' = loads + 1
    /\ path' = b
    /\ since' = [since EXCEPT ![b] = @ + 1]
    /\ UNCHANGED configuration

\* fs::exists or fs::is_directory throws, and nothing here catches it.
Throws(b) ==
    /\ Begin(b)
    /\ result' = None
    /\ UNCHANGED <<contents, listed, info, valid, assigned>>

NotThere(b) ==
    /\ Begin(b) /\ b \notin Bundles
    /\ result' = FALSE
    /\ UNCHANGED <<contents, listed, info, valid, assigned>>

\* The walk throws: some files have been seen.
ScanThrows(b) ==
    /\ Begin(b) /\ b \in Bundles
    /\ \E seen \in SUBSET {f \in Files : Of[f] = b} : Scan(seen)
    /\ result' = FALSE
    /\ UNCHANGED <<info, valid, assigned>>

NotDescribed(b) ==
    /\ Begin(b) /\ b \in Bundles
    /\ Scan({f \in Files : Of[f] = b})
    /\ Undescribed
    /\ result' = FALSE
    /\ UNCHANGED <<valid, assigned>>

Loaded(b) ==
    /\ Begin(b) /\ b \in Bundles
    /\ Scan({f \in Files : Of[f] = b})
    /\ Described
    /\ result' = TRUE /\ valid' = TRUE /\ assigned' = TRUE

loadBundle(b) == Throws(b) \/ NotThere(b) \/ ScanThrows(b) \/ NotDescribed(b) \/ Loaded(b)

-----------------------------------------------------------------------------
(* The other operations.                                                   *)

\* Slip: the lists of files are not cleared.
unloadBundleKeeping ==
    /\ path' = None /\ contents' = [k \in Slots |-> None]
    /\ info' = None /\ configuration' = {} /\ valid' = FALSE
    /\ since' = [b \in Paths |-> 0] /\ assigned' = TRUE
    /\ UNCHANGED <<listed, result, loads>>

\* Slip: the object stays valid.
unloadBundleStillValid ==
    /\ path' = None /\ contents' = [k \in Slots |-> None]
    /\ listed' = [f \in Files |-> 0]
    /\ info' = None /\ configuration' = {}
    /\ since' = [b \in Paths |-> 0]
    /\ UNCHANGED <<valid, assigned, result, loads>>

unloadBundle ==
    /\ path' = None /\ contents' = [k \in Slots |-> None]
    /\ listed' = [f \in Files |-> 0]
    /\ info' = None /\ configuration' = {} /\ valid' = FALSE
    /\ since' = [b \in Paths |-> 0] /\ assigned' = TRUE
    /\ UNCHANGED <<result, loads>>

\* Any file, also without a bundle; settings of earlier files stay.  A file
\* that cannot be opened changes nothing.
loadConfiguration(f) ==
    /\ configuration' \in {configuration, configuration \cup {f}}
    /\ UNCHANGED <<path, contents, listed, info, valid, result, loads, since, assigned>>

Next ==
    \/ \E b \in Paths : loadBundle(b)
    \/ unloadBundle
    \/ \E f \in Settings : loadConfiguration(f)

Spec == Init /\ [][Next]_vars

-----------------------------------------------------------------------------
(* Properties.                                                             *)

\* All the files of bundles that the object knows of.
Known == {contents[k] : k \in Slots} \cup {info} \cup {f \in Files : listed[f] > 0}

\* What failed loads leave behind, and what loads without an unload between them
\* pile up, is bounded: every file the object knows is in a bundle loadBundle
\* was called for since the object was made or unloaded, and a driver or
\* resource is listed no more often than that.  With one load since, all is
\* of the bundle it names, and once.
FilesTraced ==
    /\ \A f \in Known \ {None} : since[Of[f]] > 0
    /\ \A f \in Files : listed[f] <= since[Of[f]]

\* After a loadBundle that succeeded the description is one of a property list
\* with a name, and of each kind of file the bundle has, the one on record is
\* its own, whatever loads before it have left.  Of a kind it has not, the
\* property list included, the file of an earlier bundle stays on record.
SuccessIsOwn ==
    result = TRUE /\ path # None =>
       /\ info \in Good /\ info = contents["plist"]
       /\ \A k \in Slots :
             LET own == {f \in Files : Of[f] = path /\ Kind[f] = k}
             IN  own # {} => contents[k] \in own

\* A client that asks isValid before it calls getDeviceInfo is not thrown at, also
\* when a load after the one that succeeded has failed or thrown, and valid_
\* still holds; an object whose valid_ was never given a value is excepted.
ValidIsDescribed == assigned /\ valid => info # None
=============================================================================
