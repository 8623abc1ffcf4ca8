----------------------------- MODULE MCKickstart -----------------------------
(* Bounds for TLC: twelve pages in the order of the Harpia layout (loader,  *)
(* image, room for the kernel, device tree, frame buffer), images of two    *)
(* segments, among them ones that overlap everything there is.              *)
EXTENDS Kickstart

Segment(v, n, o, f, w) ==
    [cmd |-> "segment", vmaddr |-> v, vmsize |-> n, fileoff |-> o, filesize |-> f, is64 |-> w,
     off |-> 0]
Start(kind, o) ==
    [cmd |-> kind, vmaddr |-> 0, vmsize |-> 0, fileoff |-> 0, filesize |-> 0, is64 |-> TRUE,
     off |-> o]

MCImages ==
    {[magic |-> TRUE, is64 |-> TRUE, cmds |-> <<s, t, e>>] :
        s \in {Segment(v, 2, 0, f, TRUE) : v \in {2, 5, 6}, f \in {1, 2}},
        t \in {Segment(v, n, 1, f, w) : v \in {0, 1, 3, 7, 8}, n \in {1, 2}, f \in {0, 1}, w \in BOOLEAN},
        e \in {Start("main", 1), Start("thread", 0)}}
    \cup {[magic |-> FALSE, is64 |-> TRUE, cmds |-> <<>>]}
=============================================================================
