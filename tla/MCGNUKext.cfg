SPECIFICATION Spec
CONSTANTS
    o1 = o1
    o2 = o2
    o3 = o3
    Objects = {o1, o2, o3}
    Bundles <- MCBundles
    NoBundle = "unused"
    Ids <- MCIds
    Id <- MCId
    NoId = "nil"
    Deps <- MCDeps
    Module <- MCModule
    NoModule = "none"
    FileName <- MCFileName
    Personalities = {"pers"}
    Providers = {"dev"}
    Match <- MCMatch
SYMMETRY MCSymmetry
PROPERTY UnloadSucceeds
INVARIANTS RecordsSound UnloadedIsQuiet
