------------------------------ MODULE MCGNUKext ------------------------------
(***************************************************************************)
(* Four bundles: a library with the kernel module usb, in usb.ko; a driver *)
(* that depends on it and has no executable; one with the module usb_audio *)
(* in usb.audio.ko, whose name loses ".audio" too; and a bundle without an *)
(* identifier.                                                             *)
(***************************************************************************)
EXTENDS GNUKext

CONSTANTS o1, o2, o3

MCBundles == {"lib", "drv", "audio", "anon"}
MCIds == {"com.lib", "com.drv", "com.audio"}
MCId == [b \in MCBundles |->
            CASE b = "lib" -> "com.lib" [] b = "drv" -> "com.drv"
              [] b = "audio" -> "com.audio" [] b = "anon" -> "nil"]
MCDeps == [b \in MCBundles |-> IF b = "drv" THEN {"com.lib"} ELSE {}]
MCModule == [b \in MCBundles |->
                CASE b = "lib" -> "usb" [] b = "audio" -> "usb_audio" [] OTHER -> "none"]
MCFileName == [b \in MCBundles |->
                  IF b \in {"lib", "audio"} THEN "usb" ELSE "none"]
MCMatch == [b \in MCBundles |->
               IF b \in {"lib", "drv"} THEN {<<"pers", "dev">>} ELSE {}]
MCSymmetry == Permutations({o1, o2, o3})
=============================================================================
