------------------------------ MODULE MCParts ------------------------------
(***************************************************************************)
(* Bounds: two clients with sets of a register of two bits; a map of four  *)
(* registers of one bit on three addresses, so that the first and the last *)
(* share one, which is volatile as well; two threads that set fields of    *)
(* two pins and of one too large, with values that do not fit among them;  *)
(* a device with offsets of four bits and registers of six bytes, so that  *)
(* accesses end before, at and behind the end, and wrap; three loads of a  *)
(* complete bundle, of one with a second property list in a subdirectory,  *)
(* of one without any, of one whose list does not parse, and of a path     *)
(* that is no directory.                                                   *)
(***************************************************************************)
EXTENDS Parts, TLC

MCOf == "a.plist" :> "a" @@ "a.dts" :> "a" @@ "a.conf" :> "a" @@ "a.so" :> "a"
        @@ "b.plist" :> "b" @@ "b/x.plist" :> "b" @@ "b.so" :> "b"
        @@ "c.conf" :> "c" @@ "c.so" :> "c" @@ "d.plist" :> "d"
MCKind == "a.plist" :> "plist" @@ "a.dts" :> "dts" @@ "a.conf" :> "config" @@ "a.so" :> "listed"
          @@ "b.plist" :> "plist" @@ "b/x.plist" :> "plist" @@ "b.so" :> "listed"
          @@ "c.conf" :> "config" @@ "c.so" :> "listed" @@ "d.plist" :> "plist"
MCFiles == DOMAIN MCOf

\* A field as TLMM has it: FUNC is at bit 2, DRV at 6, OE at 9, PULL at 10.
Config(at, bits) == [of |-> "cfg", shift |-> at, width |-> bits]
MCRequests ==
    {[pin |-> 0, field |-> Config(2, 3), value |-> 9], [pin |-> 0, field |-> Config(6, 3), value |-> 16],
     [pin |-> 0, field |-> Config(9, 1), value |-> 1], [pin |-> 1, field |-> Config(10, 2), value |-> 7],
     [pin |-> 2, field |-> Config(9, 1), value |-> 1],
     [pin |-> 1, field |-> [of |-> "io", shift |-> 0, width |-> 1], value |-> 1]}

ThreadSymmetry == Permutations(Threads)
=============================================================================
