------------------------------ MODULE Kickstart ------------------------------
(***************************************************************************)
(* boot/kickstart/boot.c: from power on to the jump into the kernel.       *)
(*                                                                         *)
(* The boot loader picks the functions of its board, copies the device     *)
(* tree to its place, goes through the load commands of the kernel image   *)
(* that lies at KERNEL_LOAD_BASE, copies every segment to its address and  *)
(* jumps.  Memory is counted in pages, and a page holds a pair: what it is *)
(* of and which page of it.  Nothing compares the segments with the memory *)
(* they are copied to: the load commands themselves may be overwritten,    *)
(* after which anything may happen ("lost").                               *)
(***************************************************************************)
EXTENDS Integers, Sequences

CONSTANTS Targets,       \* values of TARGET_PLATFORM
          Images,        \* kernel images
          DtSizes,       \* sizes of the embedded device tree
          MemPages,      \* pages of memory
          BOOTLOADER_BASE, KERNEL_LOAD_BASE, DEVICE_TREE_BASE, FBMEM_BASE,
          MAX_KERNEL_SIZE, MAX_DEVICETREE_SIZE

VARIABLES
    pc,        \* where bootloader_main is
    target,    \* TARGET_PLATFORM
    board,     \* the entry of board_configs that is used
    dtSize,    \* size of the embedded device tree
    image,     \* the kernel image
    mem,       \* what every page holds
    i,         \* load commands done
    entry      \* kernel.entry_point

vars == <<pc, target, board, dtSize, image, mem, i, entry>>

Pages == 0..(MemPages - 1)
Region(base, n) == base..(base + n - 1)
Loader == Region(BOOTLOADER_BASE, 1)
Image == Region(KERNEL_LOAD_BASE, MAX_KERNEL_SIZE)
DeviceTree == Region(DEVICE_TREE_BASE, MAX_DEVICETREE_SIZE)
Framebuffer == Region(FBMEM_BASE, 1)
Kinds == {"loader", "image", "dt", "fb", "zero", "old"}

\* Load commands: what they name in the file was put in memory with it.
Commands ==
    {c \in [cmd : {"segment", "main", "thread"}, vmaddr : Nat, vmsize : Nat, fileoff : Nat,
            filesize : Nat, is64 : BOOLEAN, off : Nat] :
        KERNEL_LOAD_BASE + c.fileoff + c.filesize <= MemPages /\ KERNEL_LOAD_BASE + c.off < MemPages}

\* The layout that boot.c defines for a platform: regions of memory that do not overlap.
ASSUME KickstartAssumption ==
    /\ Targets \subseteq Nat /\ DtSizes \subseteq Nat
    /\ MemPages \in Nat /\ BOOTLOADER_BASE \in Nat /\ KERNEL_LOAD_BASE \in Nat
    /\ DEVICE_TREE_BASE \in Nat /\ FBMEM_BASE \in Nat
    /\ MAX_KERNEL_SIZE \in Nat \ {0} /\ MAX_DEVICETREE_SIZE \in Nat
    /\ Loader \cup Image \cup DeviceTree \cup Framebuffer \subseteq Pages
    /\ Loader \cap (Image \cup DeviceTree \cup Framebuffer) = {}
    /\ Image \cap (DeviceTree \cup Framebuffer) = {} /\ DeviceTree \cap Framebuffer = {}
    /\ Images \subseteq [magic : BOOLEAN, is64 : BOOLEAN, cmds : Seq(Commands)]

PLATFORM_HARPIA == 1
PLATFORM_QEMU_ARM64 == 3
board_configs == <<PLATFORM_HARPIA, PLATFORM_QEMU_ARM64>>
NoBoard == 0

TypeOK ==
    /\ pc \in {"start", "board", "dt", "header", "commands", "jump", "kernel", "halt", "lost"}
    /\ target \in Targets /\ board \in {NoBoard, PLATFORM_HARPIA, PLATFORM_QEMU_ARM64}
    /\ dtSize \in DtSizes /\ image \in Images
    /\ mem \in [Pages -> Kinds \X Pages]
    /\ i \in 0..Len(image.cmds) /\ entry \in Pages

\* The kernel image has been put at its place by whatever started the loader.
Init ==
    /\ pc = "start" /\ target \in Targets /\ board = NoBoard
    /\ dtSize \in DtSizes /\ image \in Images
    /\ mem = [p \in Pages |-> IF p \in Loader THEN <<"loader", p - BOOTLOADER_BASE>>
                              ELSE IF p \in Image THEN <<"image", p - KERNEL_LOAD_BASE>>
                              ELSE <<"old", p>>]
    /\ i = 0 /\ entry = 0

Drawn(m) == [p \in Pages |-> IF p \in Framebuffer THEN <<"fb", 0>> ELSE m[p]]

-----------------------------------------------------------------------------
\* display_clear and the first display_puts.
Display ==
    /\ pc = "start" /\ pc' = "board"
    /\ mem' = Drawn(mem)
    /\ UNCHANGED <<target, board, dtSize, image, i, entry>>

\* Slip: the index is kept, not the entry.
BoardIndex ==
    /\ pc = "board"
    /\ IF target + 1 \in DOMAIN board_configs
       THEN board' = target + 1 /\ pc' = "dt"
       ELSE board' = NoBoard /\ pc' \in {"dt", "lost"}
    /\ mem' = Drawn(mem)
    /\ UNCHANGED <<target, dtSize, image, i, entry>>

\* The table is indexed with TARGET_PLATFORM, which counts from one and knows a
\* platform that the table lacks: past the end there is no board, and the pointers
\* found there may lead anywhere.
Board ==
    /\ pc = "board"
    /\ IF target + 1 \in DOMAIN board_configs
       THEN board' = board_configs[target + 1] /\ pc' = "dt"
       ELSE board' = NoBoard /\ pc' \in {"dt", "lost"}
    /\ mem' = Drawn(mem)
    /\ UNCHANGED <<target, dtSize, image, i, entry>>

\* A tree that is missing or too large is not copied, and the boot goes on.
embed_device_tree ==
    /\ pc = "dt" /\ pc' = "header"
    /\ mem' = IF dtSize = 0 \/ dtSize > MAX_DEVICETREE_SIZE THEN mem
              ELSE [p \in Pages |-> IF p \in Region(DEVICE_TREE_BASE, dtSize)
                                    THEN <<"dt", p - DEVICE_TREE_BASE>> ELSE mem[p]]
    /\ UNCHANGED <<target, board, dtSize, image, i, entry>>

\* macho_load, which refuses a wrong magic number; the boot then halts.
Header ==
    /\ pc = "header"
    /\ pc' = IF image.magic THEN "commands" ELSE "halt"
    /\ mem' = IF image.magic THEN mem ELSE Drawn(mem)
    /\ UNCHANGED <<target, board, dtSize, image, i, entry>>

\* Slip: the zeros begin at the start of the segment.
PlacedZero(m, s) ==
    [p \in Pages |->
        IF s.filesize > 0 /\ p \in Region(s.vmaddr, s.vmsize - s.filesize) THEN <<"zero", 0>>
        ELSE IF s.filesize > 0 /\ p \in Region(s.vmaddr, s.filesize)
        THEN m[KERNEL_LOAD_BASE + s.fileoff + (p - s.vmaddr)]
        ELSE m[p]]

\* Slip: as many zeros as the segment is long.
PlacedLong(m, s) ==
    [p \in Pages |->
        IF s.filesize > 0 /\ p \in Region(s.vmaddr, s.filesize)
        THEN m[KERNEL_LOAD_BASE + s.fileoff + (p - s.vmaddr)]
        ELSE IF s.filesize > 0 /\ s.vmsize > s.filesize
                /\ p \in Region(s.vmaddr + s.filesize, s.vmsize) THEN <<"zero", 0>>
        ELSE m[p]]

\* memcpy of the file's pages and memset of the rest, if there are any of the
\* file's pages.  A page copied onto the source of a later one is copied again:
\* d is how far the segment lies behind its source.
Placed(m, s) ==
    LET d == s.vmaddr - (KERNEL_LOAD_BASE + s.fileoff)
        From(k) == KERNEL_LOAD_BASE + s.fileoff + (IF d > 0 THEN k % d ELSE k)
    IN [p \in Pages |->
          IF s.filesize > 0 /\ p \in Region(s.vmaddr, s.filesize) THEN m[From(p - s.vmaddr)]
          ELSE IF s.filesize > 0 /\ p \in Region(s.vmaddr + s.filesize, s.vmsize - s.filesize)
          THEN <<"zero", 0>>
          ELSE m[p]]

\* The load commands and the loader that reads them are still there.
Intact(m) == /\ m[KERNEL_LOAD_BASE] = <<"image", 0>>
             /\ \A p \in Loader : m[p] = <<"loader", p - BOOTLOADER_BASE>>

\* Slip: an LC_MAIN does not advance to the next command.
CommandStuck ==
    /\ pc = "commands" /\ i < Len(image.cmds)
    /\ LET c == image.cmds[i + 1] IN
       /\ mem' = IF c.cmd = "segment" /\ c.is64 = image.is64 THEN Placed(mem, c) ELSE mem
       /\ entry' = IF c.cmd = "main" THEN KERNEL_LOAD_BASE + c.off ELSE entry
       /\ i' = IF c.cmd = "main" THEN i ELSE i + 1
    /\ pc' = IF Intact(mem') THEN pc ELSE "lost"
    /\ UNCHANGED <<target, board, dtSize, image>>

\* One turn of the loop.  A segment of the other width is skipped, LC_UNIXTHREAD
\* is taken notice of and nothing else.
Command ==
    /\ pc = "commands" /\ i < Len(image.cmds)
    /\ LET c == image.cmds[i + 1] IN
       /\ mem' = IF c.cmd = "segment" /\ c.is64 = image.is64 THEN Placed(mem, c) ELSE mem
       /\ entry' = IF c.cmd = "main" THEN KERNEL_LOAD_BASE + c.off ELSE entry
    /\ i' = i + 1
    /\ pc' = IF Intact(mem') THEN pc ELSE "lost"
    /\ UNCHANGED <<target, board, dtSize, image>>

\* is_valid, whatever was found.
Loaded ==
    /\ pc = "commands" /\ i = Len(image.cmds) /\ pc' = "jump"
    /\ UNCHANGED <<target, board, dtSize, image, mem, i, entry>>

Jump ==
    /\ pc = "jump" /\ pc' = "kernel"
    /\ mem' = Drawn(mem)
    /\ UNCHANGED <<target, board, dtSize, image, i, entry>>

Next == Display \/ Board \/ embed_device_tree \/ Header \/ Command \/ Loaded \/ Jump

Spec == Init /\ [][Next]_vars
\* One processor that runs on, with a serial line that takes every character.
FairSpec == Spec /\ WF_vars(Next)

-----------------------------------------------------------------------------
(* Properties.                                                             *)

Segments == {image.cmds[k] : k \in {k \in 1..Len(image.cmds) :
                image.cmds[k].cmd = "segment" /\ image.cmds[k].is64 = image.is64}}
Span(s) == Region(s.vmaddr, s.vmsize)

\* What the loader takes for granted of an image: its segments lie in memory,
\* where nothing else is that is needed, and do not overlap.
Sound ==
    /\ \A s \in Segments :
          /\ s.filesize <= s.vmsize /\ s.fileoff + s.filesize <= MAX_KERNEL_SIZE
          /\ Span(s) \subseteq Pages \ (Loader \cup Image \cup DeviceTree \cup Framebuffer)
    /\ \A s, t \in Segments : s # t => Span(s) \cap Span(t) = {}

\* When the loader jumps, every segment of a sound image that has pages in the
\* file is in memory as it was linked, the rest of it zero: no segment, tree or
\* drawing has disturbed another.
KernelAsLinked ==
    pc = "kernel" /\ Sound =>
        \A s \in Segments : s.filesize > 0 =>
            \A k \in 0..(s.vmsize - 1) :
                mem[s.vmaddr + k] = IF k < s.filesize THEN <<"image", s.fileoff + k>>
                                                      ELSE <<"zero", 0>>

\* Loading a sound image leaves the loader, the image and the device tree alone.
OthersKept ==
    pc = "kernel" /\ Sound =>
        /\ \A p \in Loader : mem[p] = <<"loader", p - BOOTLOADER_BASE>>
        /\ \A p \in Image : mem[p] = <<"image", p - KERNEL_LOAD_BASE>>
        /\ dtSize <= MAX_DEVICETREE_SIZE =>
              \A p \in Region(DEVICE_TREE_BASE, dtSize) : mem[p] = <<"dt", p - DEVICE_TREE_BASE>>

\* A sound image is in memory as it was linked when the loader jumps, and all that
\* the kernel is given with it.
BootSound == TypeOK /\ KernelAsLinked /\ OthersKept

\* The boot comes to an end: in the kernel, in the halt after a wrong image, or
\* lost.
BootEnds == <>(pc \in {"kernel", "halt", "lost"})
=============================================================================
