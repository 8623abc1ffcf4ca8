SPECIFICATION Spec
CONSTANTS
    h1 = h1
    h2 = h2
    h3 = h3
    r1 = r1
    r2 = r2
    r3 = r3
    r4 = r4
    Handles = {h1, h2, h3}
    Regions = {r1, r2, r3, r4}
    Null = Null
    MapFailed = MapFailed
    PageZero = PageZero
    Files = {"lib", "exec"}
    Executable = {"exec"}
    Segments <- MCSegments
PROPERTY LoadsUnlessError
