--------------------------- MODULE KickstartProofs ---------------------------
(***************************************************************************)
(* Proofs about Kickstart: when the loader jumps, a sound image is in      *)
(* memory as it was linked, and nothing the kernel is given was disturbed. *)
(***************************************************************************)
EXTENDS Kickstart, TLAPS

\* Segment s is in memory as it was linked.
InPlace(s) ==
    \A k \in 0..(s.vmsize - 1) :
        mem[s.vmaddr + k] = IF k < s.filesize THEN <<"image", s.fileoff + k>> ELSE <<"zero", 0>>

\* The loader and the image that it reads are as they were.
Kept ==
    /\ \A p \in Loader : mem[p] = <<"loader", p - BOOTLOADER_BASE>>
    /\ \A p \in Image : mem[p] = <<"image", p - KERNEL_LOAD_BASE>>

\* The device tree is in its place once it has been copied.
TreeKept ==
    pc \in {"header", "commands", "jump", "kernel", "halt"} /\ dtSize <= MAX_DEVICETREE_SIZE =>
        \A p \in Region(DEVICE_TREE_BASE, dtSize) : mem[p] = <<"dt", p - DEVICE_TREE_BASE>>

\* The segments of the commands that are done are in place.
DoneInPlace ==
    \A k \in 1..i : image.cmds[k] \in Segments /\ image.cmds[k].filesize > 0
                        => InPlace(image.cmds[k])

AllDone == pc \in {"jump", "kernel"} => i = Len(image.cmds)

IInv ==
    /\ TypeOK /\ AllDone
    /\ Sound => Kept /\ TreeKept /\ DoneInPlace

-----------------------------------------------------------------------------
(* Facts about the layout.                                                 *)

USE DEF Region

LEMMA ZeroInPages == 0 \in Pages /\ KERNEL_LOAD_BASE \in Image /\ Pages \subseteq Nat
BY KickstartAssumption DEF Pages, Image

LEMMA Numbers ==
    /\ MemPages \in Nat /\ BOOTLOADER_BASE \in Nat /\ KERNEL_LOAD_BASE \in Nat
    /\ DEVICE_TREE_BASE \in Nat /\ FBMEM_BASE \in Nat
    /\ MAX_KERNEL_SIZE \in Nat \ {0} /\ MAX_DEVICETREE_SIZE \in Nat
BY KickstartAssumption

LEMMA CommandFacts ==
    ASSUME TypeOK, NEW k \in 1..Len(image.cmds)
    PROVE  image.cmds[k] \in Commands
BY KickstartAssumption DEF TypeOK

\* The copy of a file's pages reads pages of memory.
LEMMA Remainder ==
    ASSUME NEW k \in Nat, NEW d \in Nat \ {0}
    PROVE  k % d \in 0..k /\ (k < d => k % d = k)
BY SMT

LEMMA SourceInPages ==
    ASSUME NEW a \in Nat, NEW n \in Nat, NEW v \in Nat, a + n <= MemPages,
           NEW p \in Nat, v <= p, p < v + n
    PROVE  a + (IF v - a > 0 THEN (p - v) % (v - a) ELSE p - v) \in Pages
<1> DEFINE k == p - v
           d == v - a
           e == IF d > 0 THEN k % d ELSE k
<1>1. k \in Nat /\ k < n /\ d \in Int
  OBVIOUS
<1> HIDE DEF k, d
<1>2. d > 0 => k % d \in 0..k
  BY <1>1, Remainder
<1>3. e \in 0..k
  BY <1>1, <1>2
<1> HIDE DEF e
<1>4. a + e \in Pages
  BY <1>1, <1>3, Numbers DEF Pages
<1>5. QED
  BY <1>4 DEF e, d, k

LEMMA PlacedType ==
    ASSUME NEW m \in [Pages -> Kinds \X Pages], NEW s \in Commands
    PROVE  Placed(m, s) \in [Pages -> Kinds \X Pages]
<1> DEFINE a == KERNEL_LOAD_BASE + s.fileoff
           From(k) == a + (IF s.vmaddr - a > 0 THEN k % (s.vmaddr - a) ELSE k)
<1>0. /\ s.vmaddr \in Nat /\ s.fileoff \in Nat /\ s.filesize \in Nat /\ s.vmsize \in Nat
      /\ KERNEL_LOAD_BASE + s.fileoff + s.filesize <= MemPages
  BY DEF Commands
<1>1. a \in Nat /\ a + s.filesize <= MemPages
  BY <1>0, Numbers
<1>2. Placed(m, s) = [p \in Pages |->
          IF s.filesize > 0 /\ p \in Region(s.vmaddr, s.filesize) THEN m[From(p - s.vmaddr)]
          ELSE IF s.filesize > 0 /\ p \in Region(s.vmaddr + s.filesize, s.vmsize - s.filesize)
          THEN <<"zero", 0>> ELSE m[p]]
  BY DEF Placed
<1> HIDE DEF a
<1>3. ASSUME NEW p \in Pages, p \in Region(s.vmaddr, s.filesize)
      PROVE  From(p - s.vmaddr) \in Pages
  <2>1. p \in Nat /\ s.vmaddr <= p /\ p < s.vmaddr + s.filesize
    BY <1>0, <1>3, ZeroInPages
  <2>2. QED
    BY <1>0, <1>1, <2>1, SourceInPages
<1> HIDE DEF From
<1>4. <<"zero", 0>> \in Kinds \X Pages
  BY ZeroInPages DEF Kinds
<1>5. ASSUME NEW p \in Pages PROVE Placed(m, s)[p] \in Kinds \X Pages
  BY <1>2, <1>3, <1>4
<1>6. QED
  BY <1>2, <1>5

\* The regions lie apart in memory.
LEMMA Layout ==
    /\ Loader \subseteq Pages /\ Image \subseteq Pages /\ DeviceTree \subseteq Pages
    /\ \A p \in Loader : p \notin Image /\ p \notin DeviceTree /\ p \notin Framebuffer
    /\ \A p \in Image : p \notin DeviceTree /\ p \notin Framebuffer
    /\ \A p \in DeviceTree : p \notin Framebuffer
BY KickstartAssumption

LEMMA SegmentFacts ==
    ASSUME TypeOK, NEW s \in Segments
    PROVE  /\ s.vmaddr \in Nat /\ s.vmsize \in Nat /\ s.fileoff \in Nat /\ s.filesize \in Nat
           /\ s.cmd = "segment" /\ s.is64 = image.is64
<1>1. PICK k \in 1..Len(image.cmds) :
         s = image.cmds[k] /\ image.cmds[k].cmd = "segment" /\ image.cmds[k].is64 = image.is64
  BY DEF Segments
<1>2. s \in Commands
  BY <1>1, CommandFacts
<1>3. QED
  BY <1>1, <1>2 DEF Commands

\* A segment of a sound image lies where nothing else does.
LEMMA SoundSpan ==
    ASSUME TypeOK, Sound, NEW s \in Segments, NEW k \in 0..(s.vmsize - 1)
    PROVE  /\ s.vmaddr + k \in Span(s) /\ s.vmaddr + k \in Pages
           /\ s.vmaddr + k \notin Loader /\ s.vmaddr + k \notin Image
           /\ s.vmaddr + k \notin DeviceTree /\ s.vmaddr + k \notin Framebuffer
<1>1. s.vmaddr + k \in Span(s)
  BY SegmentFacts DEF Span
<1>2. Span(s) \subseteq Pages \ (Loader \cup Image \cup DeviceTree \cup Framebuffer)
  BY DEF Sound
<1>3. QED
  BY <1>1, <1>2

\* What a step leaves alone outside the device tree and the frame buffer stays sound.
LEMMA Elsewhere ==
    ASSUME TypeOK, Sound, Kept, DoneInPlace, image' = image, i' = i,
           \A p \in Pages : p \notin DeviceTree /\ p \notin Framebuffer => mem'[p] = mem[p]
    PROVE  Kept' /\ DoneInPlace'
<1>1. Kept'
  BY Layout DEF Kept
<1>2. ASSUME NEW k \in 1..i', (image.cmds[k] \in Segments)', image'.cmds[k].filesize > 0
      PROVE  InPlace(image.cmds[k])'
  <2> DEFINE s == image.cmds[k]
  <2>1. s \in Segments
    BY <1>2 DEF Segments
  <2>2. InPlace(s)
    BY <1>2, <2>1 DEF DoneInPlace
  <2> HIDE DEF s
  <2>3. \A n \in 0..(s.vmsize - 1) : mem'[s.vmaddr + n] = mem[s.vmaddr + n]
    BY <2>1, SoundSpan
  <2>4. QED
    BY <2>2, <2>3 DEF InPlace, s
<1>3. QED
  BY <1>1, <1>2 DEF DoneInPlace

\* Placing a segment of a sound image puts it in place, and changes nothing else.
LEMMA PlacedSound ==
    ASSUME TypeOK, Sound, Kept, NEW s \in Segments, s.filesize > 0
    PROVE  /\ \A p \in Pages : p \notin Span(s) => Placed(mem, s)[p] = mem[p]
           /\ \A k \in 0..(s.vmsize - 1) :
                 Placed(mem, s)[s.vmaddr + k] =
                     IF k < s.filesize THEN <<"image", s.fileoff + k>> ELSE <<"zero", 0>>
<1> DEFINE a == KERNEL_LOAD_BASE + s.fileoff
           From(k) == a + (IF s.vmaddr - a > 0 THEN k % (s.vmaddr - a) ELSE k)
<1>1. /\ s.vmaddr \in Nat /\ s.vmsize \in Nat /\ s.fileoff \in Nat /\ s.filesize \in Nat
      /\ s.filesize <= s.vmsize /\ s.fileoff + s.filesize <= MAX_KERNEL_SIZE /\ a \in Nat
  BY SegmentFacts, Numbers DEF Sound
<1>2. Placed(mem, s) = [p \in Pages |->
          IF p \in Region(s.vmaddr, s.filesize) THEN mem[From(p - s.vmaddr)]
          ELSE IF p \in Region(s.vmaddr + s.filesize, s.vmsize - s.filesize)
          THEN <<"zero", 0>> ELSE mem[p]]
  BY DEF Placed
<1>3. ASSUME NEW k \in 0..(s.vmsize - 1), k < s.filesize
      PROVE  mem[From(k)] = <<"image", s.fileoff + k>>
  <2>1. s.vmaddr + 0 \notin Image
    BY <1>1, SoundSpan, 0 \in 0..(s.vmsize - 1)
  <2>2. s.vmaddr - a > 0 => k < s.vmaddr - a
    BY <1>1, <1>3, <2>1, Numbers DEF Image
  <2>3. s.vmaddr - a > 0 => k % (s.vmaddr - a) = k
    <3>1. ASSUME s.vmaddr - a > 0 PROVE k % (s.vmaddr - a) = k
      <4> DEFINE d == s.vmaddr - a
      <4>1. d \in Nat \ {0} /\ k \in Nat /\ k < d
        BY <1>1, <2>2, <3>1
      <4> HIDE DEF d
      <4>2. k % d = k
        BY <4>1, Remainder
      <4>3. QED
        BY <4>2 DEF d
    <3>2. QED
      BY <3>1
  <2> HIDE DEF a
  <2>4. From(k) = a + k
    BY <2>3
  <2>5. a + k \in Image /\ (a + k) - KERNEL_LOAD_BASE = s.fileoff + k
    BY <1>1, <1>3, Numbers DEF Image, a
  <2>6. QED
    BY <2>4, <2>5 DEF Kept
<1> HIDE DEF From, a
<1>4. ASSUME NEW p \in Pages, p \notin Span(s)
      PROVE  Placed(mem, s)[p] = mem[p]
  <2>1. p \notin Region(s.vmaddr, s.filesize)
        /\ p \notin Region(s.vmaddr + s.filesize, s.vmsize - s.filesize)
    BY <1>1, <1>4, ZeroInPages DEF Span
  <2>2. QED
    BY <1>2, <2>1
<1>5. ASSUME NEW k \in 0..(s.vmsize - 1)
      PROVE  Placed(mem, s)[s.vmaddr + k] =
                 IF k < s.filesize THEN <<"image", s.fileoff + k>> ELSE <<"zero", 0>>
  <2>1. s.vmaddr + k \in Pages
    BY SoundSpan
  <2>2. CASE k < s.filesize
    <3>1. s.vmaddr + k \in Region(s.vmaddr, s.filesize) /\ (s.vmaddr + k) - s.vmaddr = k
      BY <1>1, <2>2
    <3>2. QED
      BY <1>2, <1>3, <2>1, <2>2, <3>1
  <2>3. CASE ~(k < s.filesize)
    <3>1. /\ s.vmaddr + k \notin Region(s.vmaddr, s.filesize)
          /\ s.vmaddr + k \in Region(s.vmaddr + s.filesize, s.vmsize - s.filesize)
      BY <1>1, <2>3
    <3>2. QED
      BY <1>2, <2>1, <2>3, <3>1
  <2>4. QED
    BY <2>2, <2>3
<1>6. QED
  BY <1>4, <1>5

-----------------------------------------------------------------------------
(* The invariant holds at the start, and every step keeps it.              *)

LEMMA InitIInv == Init => IInv
<1> SUFFICES ASSUME Init PROVE IInv
  OBVIOUS
<1>1. mem \in [Pages -> Kinds \X Pages]
  <2>1. \A p \in Loader : p - BOOTLOADER_BASE = 0
    BY Numbers DEF Loader
  <2>2. \A p \in Image : p - KERNEL_LOAD_BASE \in Pages
    BY Numbers, Layout DEF Image, Pages
  <2>3. QED
    BY <2>1, <2>2, ZeroInPages DEF Init, Kinds
<1>2. image \in Images /\ Len(image.cmds) \in Nat
  BY KickstartAssumption DEF Init
<1>3. TypeOK
  BY <1>1, <1>2, ZeroInPages DEF Init, TypeOK
<1>4. Kept
  BY Layout DEF Init, Kept
<1>5. QED
  BY <1>3, <1>4 DEF Init, IInv, AllDone, TreeKept, DoneInPlace

\* Drawing keeps what is claimed of the memory.
LEMMA DrawnStep ==
    ASSUME IInv, image' = image, i' = i, dtSize' = dtSize, mem' = mem \/ mem' = Drawn(mem),
           pc' \in {"header", "commands", "jump", "kernel", "halt"}
               => pc \in {"header", "commands", "jump", "kernel", "halt"}
    PROVE  /\ mem' \in [Pages -> Kinds \X Pages]
           /\ Sound' => (Kept /\ TreeKept /\ DoneInPlace)'
<1>1. mem \in [Pages -> Kinds \X Pages]
  BY DEF IInv, TypeOK
<1>2. mem' \in [Pages -> Kinds \X Pages]
  <2>1. <<"fb", 0>> \in Kinds \X Pages
    BY ZeroInPages DEF Kinds
  <2>2. QED
    BY <1>1, <2>1 DEF Drawn
<1>3. \A p \in Pages : p \notin Framebuffer => mem'[p] = mem[p]
  BY DEF Drawn
<1>4. ASSUME Sound' PROVE (Kept /\ TreeKept /\ DoneInPlace)'
  <2>1. Sound
    BY <1>4 DEF Sound, Segments, Span
  <2>2. TypeOK /\ Kept /\ TreeKept /\ DoneInPlace
    BY <2>1 DEF IInv
  <2>3. (Kept /\ DoneInPlace)'
    BY <1>3, <2>1, <2>2, Elsewhere
  <2>4. ASSUME dtSize <= MAX_DEVICETREE_SIZE, NEW p \in Region(DEVICE_TREE_BASE, dtSize)
        PROVE  mem'[p] = mem[p]
    <3>1. dtSize \in Nat
      BY <2>2, KickstartAssumption DEF TypeOK
    <3>2. p \in DeviceTree
      BY <2>4, <3>1, Numbers DEF DeviceTree
    <3>3. QED
      BY <1>3, <3>2, Layout
  <2>5. TreeKept'
    BY <2>2, <2>4 DEF TreeKept
  <2>6. QED
    BY <2>3, <2>5
<1>5. QED
  BY <1>2, <1>4

LEMMA TreeStep == ASSUME IInv, embed_device_tree PROVE IInv'
<1> USE DEF embed_device_tree
<1>0. TypeOK /\ dtSize \in Nat
  BY KickstartAssumption DEF IInv, TypeOK
<1>1. \A p \in Region(DEVICE_TREE_BASE, dtSize) : dtSize <= MAX_DEVICETREE_SIZE =>
          p \in DeviceTree /\ p - DEVICE_TREE_BASE \in Pages
  BY <1>0, Numbers, Layout DEF DeviceTree, Pages
<1>2. mem' \in [Pages -> Kinds \X Pages]
  <2>1. mem \in [Pages -> Kinds \X Pages]
    BY <1>0 DEF TypeOK
  <2>2. CASE dtSize = 0 \/ dtSize > MAX_DEVICETREE_SIZE
    BY <2>1, <2>2
  <2>3. CASE ~(dtSize = 0 \/ dtSize > MAX_DEVICETREE_SIZE)
    <3>1. dtSize <= MAX_DEVICETREE_SIZE
      BY <1>0, <2>3, Numbers
    <3>2. ASSUME NEW p \in Pages
          PROVE  (IF p \in Region(DEVICE_TREE_BASE, dtSize)
                  THEN <<"dt", p - DEVICE_TREE_BASE>> ELSE mem[p]) \in Kinds \X Pages
      BY <1>1, <2>1, <3>1 DEF Kinds
    <3>3. QED
      BY <2>3, <3>2
  <2>4. QED
    BY <2>2, <2>3
<1>3. TypeOK'
  BY <1>0, <1>2 DEF TypeOK
<1>4. ASSUME Sound' PROVE (Kept /\ TreeKept /\ DoneInPlace)'
  <2>1. Sound
    BY <1>4 DEF Sound, Segments, Span
  <2>2. Kept /\ DoneInPlace
    BY <2>1 DEF IInv
  <2>3. \A p \in Pages : p \notin DeviceTree => mem'[p] = mem[p]
    <3>1. CASE dtSize = 0 \/ dtSize > MAX_DEVICETREE_SIZE
      BY <3>1
    <3>2. CASE ~(dtSize = 0 \/ dtSize > MAX_DEVICETREE_SIZE)
      <4>1. dtSize <= MAX_DEVICETREE_SIZE
        BY <1>0, <3>2, Numbers
      <4>2. QED
        BY <1>1, <3>2, <4>1
    <3>3. QED
      BY <3>1, <3>2
  <2>4. (Kept /\ DoneInPlace)'
    BY <1>0, <2>1, <2>2, <2>3, Elsewhere
  <2>5. TreeKept'
    <3>1. ASSUME dtSize <= MAX_DEVICETREE_SIZE, NEW p \in Region(DEVICE_TREE_BASE, dtSize)
          PROVE  mem'[p] = <<"dt", p - DEVICE_TREE_BASE>>
      <4>1. p \in Pages
        BY <1>1, <3>1, Layout
      <4>2. ~(dtSize = 0 \/ dtSize > MAX_DEVICETREE_SIZE)
        BY <1>0, <3>1, Numbers
      <4>3. QED
        BY <3>1, <4>1, <4>2
    <3>2. QED
      BY <3>1 DEF TreeKept
  <2>6. QED
    BY <2>4, <2>5
<1>5. AllDone'
  BY DEF AllDone
<1>6. QED
  BY <1>3, <1>4, <1>5 DEF IInv

\* One turn of the loop: the segment it places is apart from those already in
\* place, from the image that they are read from and from the device tree.
LEMMA CommandStep == ASSUME IInv, Command PROVE IInv'
<1> DEFINE c == image.cmds[i + 1]
<1>0. TypeOK /\ pc = "commands" /\ i \in Nat /\ Len(image.cmds) \in Nat /\ i + 1 \in 1..Len(image.cmds)
  BY KickstartAssumption DEF IInv, TypeOK, Command
<1>1. c \in Commands
  BY <1>0, CommandFacts
<1>2. /\ mem' = IF c.cmd = "segment" /\ c.is64 = image.is64 THEN Placed(mem, c) ELSE mem
      /\ entry' = IF c.cmd = "main" THEN KERNEL_LOAD_BASE + c.off ELSE entry
      /\ i' = i + 1 /\ pc' = (IF Intact(mem') THEN pc ELSE "lost")
      /\ UNCHANGED <<target, board, dtSize, image>>
  BY DEF Command
<1>3. \A s : s \in Segments' <=> s \in Segments
  BY <1>2 DEF Segments
<1>4. c \in Segments <=> c.cmd = "segment" /\ c.is64 = image.is64
  BY <1>0, SegmentFacts DEF Segments
<1> HIDE DEF c
<1>5. TypeOK'
  <2>1. mem' \in [Pages -> Kinds \X Pages]
    BY <1>0, <1>1, <1>2, PlacedType DEF TypeOK
  <2>2. entry' \in Pages
    <3>1. KERNEL_LOAD_BASE + c.off \in Pages
      BY <1>1, Numbers DEF Commands, Pages
    <3>2. QED
      BY <1>0, <1>2, <3>1 DEF TypeOK
  <2>3. i' \in 0..Len(image'.cmds)
    BY <1>0, <1>2
  <2>4. pc' \in {"commands", "lost"}
    BY <1>0, <1>2
  <2>5. QED
    BY <1>0, <1>2, <2>1, <2>2, <2>3, <2>4 DEF TypeOK
<1>6. ASSUME Sound' PROVE (Kept /\ TreeKept /\ DoneInPlace)'
  <2>1. Sound
    BY <1>2, <1>6 DEF Sound, Segments, Span
  <2>2. Kept /\ TreeKept /\ DoneInPlace
    BY <2>1 DEF IInv
  <2>3. CASE c \in Segments /\ c.filesize > 0
    <3>1. mem' = Placed(mem, c)
      BY <1>2, <1>4, <2>3
    <3>2. \A p \in Pages : p \notin Span(c) => mem'[p] = mem[p]
      BY <1>0, <2>1, <2>2, <2>3, <3>1, PlacedSound
    <3>3. \A k \in 0..(c.vmsize - 1) :
             mem'[c.vmaddr + k] = IF k < c.filesize THEN <<"image", c.fileoff + k>> ELSE <<"zero", 0>>
      BY <1>0, <2>1, <2>2, <2>3, <3>1, PlacedSound
    <3>4. \A p : p \in Span(c) => p \notin Loader /\ p \notin Image /\ p \notin DeviceTree
      BY <2>1, <2>3 DEF Sound
    <3>5. Kept'
      BY <2>2, <3>2, <3>4, Layout DEF Kept
    <3>6. TreeKept'
      <4>1. ASSUME dtSize <= MAX_DEVICETREE_SIZE, NEW p \in Region(DEVICE_TREE_BASE, dtSize)
            PROVE  mem'[p] = mem[p]
        <5>1. dtSize \in Nat
          BY <1>0, KickstartAssumption DEF TypeOK
        <5>2. p \in DeviceTree
          BY <4>1, <5>1, Numbers DEF DeviceTree
        <5>3. QED
          BY <3>2, <3>4, <5>2, Layout
      <4>2. QED
        BY <1>0, <1>2, <2>2, <4>1 DEF TreeKept
    <3>7. ASSUME NEW k \in 1..(i + 1), image.cmds[k] \in Segments, image.cmds[k].filesize > 0
          PROVE  InPlace(image.cmds[k])'
      <4> DEFINE s == image.cmds[k]
      <4>0. s \in Segments /\ image'.cmds[k] = s
        BY <1>2, <3>7
      <4>1. CASE s = c
        BY <1>2, <3>3, <4>0, <4>1 DEF InPlace
      <4>2. CASE s # c
        <5>1. k \in 1..i
          BY <1>0, <4>2 DEF c
        <5>2. InPlace(s)
          BY <2>2, <3>7, <5>1 DEF DoneInPlace
        <5> HIDE DEF s
        <5>3. \A n \in 0..(s.vmsize - 1) : mem'[s.vmaddr + n] = mem[s.vmaddr + n]
          <6>1. Span(s) \cap Span(c) = {}
            BY <2>1, <2>3, <4>0, <4>2 DEF Sound
          <6>2. \A n \in 0..(s.vmsize - 1) : s.vmaddr + n \in Span(s) /\ s.vmaddr + n \in Pages
            BY <1>0, <2>1, <4>0, SoundSpan
          <6>3. QED
            BY <3>2, <6>1, <6>2
        <5>4. QED
          BY <4>0, <5>2, <5>3 DEF InPlace
      <4>3. QED
        BY <4>1, <4>2
    <3>8. DoneInPlace'
      BY <1>2, <1>3, <3>7 DEF DoneInPlace
    <3>9. QED
      BY <3>5, <3>6, <3>8
  <2>4. CASE ~(c \in Segments /\ c.filesize > 0)
    <3>1. mem' = mem
      <4>1. CASE c \in Segments
        <5>1. ~(c.filesize > 0)
          BY <2>4, <4>1
        <5>2. Placed(mem, c) = [p \in Pages |-> mem[p]]
          BY <5>1 DEF Placed
        <5>3. QED
          BY <1>0, <1>2, <1>4, <4>1, <5>2 DEF TypeOK
      <4>2. CASE c \notin Segments
        BY <1>2, <1>4, <4>2
      <4>3. QED
        BY <4>1, <4>2
    <3>2. Kept' /\ TreeKept'
      BY <1>0, <1>2, <2>2, <3>1 DEF Kept, TreeKept
    <3>3. ASSUME NEW k \in 1..(i + 1), image.cmds[k] \in Segments, image.cmds[k].filesize > 0
          PROVE  InPlace(image.cmds[k])'
      <4>1. k \in 1..i
        BY <1>0, <2>4, <3>3 DEF c
      <4>2. InPlace(image.cmds[k])
        BY <2>2, <3>3, <4>1 DEF DoneInPlace
      <4>3. QED
        BY <1>2, <3>1, <4>2 DEF InPlace
    <3>4. DoneInPlace'
      BY <1>2, <1>3, <3>3 DEF DoneInPlace
    <3>5. QED
      BY <3>2, <3>4
  <2>5. QED
    BY <2>3, <2>4
<1>7. AllDone'
  BY <1>0, <1>2 DEF AllDone
<1>8. QED
  BY <1>5, <1>6, <1>7 DEF IInv

LEMMA NextIInv == IInv /\ [Next]_vars => IInv'
<1> SUFFICES ASSUME IInv, [Next]_vars PROVE IInv'
  OBVIOUS
<1>0. TypeOK /\ AllDone
  BY DEF IInv
<1>1. CASE Display
  <2>1. /\ mem' \in [Pages -> Kinds \X Pages]
        /\ Sound' => (Kept /\ TreeKept /\ DoneInPlace)'
    BY <1>1, DrawnStep DEF Display
  <2>2. QED
    BY <1>0, <1>1, <2>1 DEF Display, IInv, TypeOK, AllDone
<1>2. CASE Board
  <2>1. /\ mem' \in [Pages -> Kinds \X Pages]
        /\ Sound' => (Kept /\ TreeKept /\ DoneInPlace)'
    BY <1>2, DrawnStep DEF Board
  <2>2. board' \in {NoBoard, PLATFORM_HARPIA, PLATFORM_QEMU_ARM64} /\ pc' \in {"dt", "lost"}
    BY <1>2 DEF Board, board_configs
  <2>3. QED
    BY <1>0, <1>2, <2>1, <2>2 DEF Board, IInv, TypeOK, AllDone
<1>3. CASE embed_device_tree
  BY <1>3, TreeStep
<1>4. CASE Header
  <2>1. /\ mem' \in [Pages -> Kinds \X Pages]
        /\ Sound' => (Kept /\ TreeKept /\ DoneInPlace)'
    BY <1>4, DrawnStep DEF Header
  <2>2. QED
    BY <1>0, <1>4, <2>1 DEF Header, IInv, TypeOK, AllDone
<1>5. CASE Command
  BY <1>5, CommandStep
<1>6. CASE Loaded
  <2>1. /\ mem' \in [Pages -> Kinds \X Pages]
        /\ Sound' => (Kept /\ TreeKept /\ DoneInPlace)'
    BY <1>6, DrawnStep DEF Loaded
  <2>2. QED
    BY <1>0, <1>6, <2>1 DEF Loaded, IInv, TypeOK, AllDone
<1>7. CASE Jump
  <2>1. /\ mem' \in [Pages -> Kinds \X Pages]
        /\ Sound' => (Kept /\ TreeKept /\ DoneInPlace)'
    BY <1>7, DrawnStep DEF Jump
  <2>2. QED
    BY <1>0, <1>7, <2>1 DEF Jump, IInv, TypeOK, AllDone
<1>8. CASE UNCHANGED vars
  <2>1. /\ mem' \in [Pages -> Kinds \X Pages]
        /\ Sound' => (Kept /\ TreeKept /\ DoneInPlace)'
    BY <1>8, DrawnStep DEF vars
  <2>2. QED
    BY <1>0, <1>8, <2>1 DEF vars, IInv, TypeOK, AllDone
<1>9. QED
  BY <1>1, <1>2, <1>3, <1>4, <1>5, <1>6, <1>7, <1>8 DEF Next

LEMMA Meaning == IInv => BootSound
<1> SUFFICES ASSUME IInv PROVE BootSound
  OBVIOUS
<1>0. TypeOK
  BY DEF IInv
<1>1. KernelAsLinked
  <2> SUFFICES ASSUME pc = "kernel", Sound, NEW s \in Segments, s.filesize > 0 PROVE InPlace(s)
    BY DEF KernelAsLinked, InPlace
  <2>1. i = Len(image.cmds) /\ DoneInPlace
    BY DEF IInv, AllDone
  <2>2. PICK k \in 1..Len(image.cmds) : s = image.cmds[k]
    BY DEF Segments
  <2>3. QED
    BY <2>1, <2>2 DEF DoneInPlace
<1>2. OthersKept
  BY DEF IInv, OthersKept, Kept, TreeKept
<1>3. QED
  BY <1>0, <1>1, <1>2 DEF BootSound

\* macho_load, embed_device_tree and the drawing: whatever the layout, the size of the
\* tree and the number and order of the load commands, a kernel whose segments lie in
\* free memory and apart is in memory as it was linked when bootloader_main jumps,
\* and the loader, the image and the device tree are as they should be.
THEOREM BootIsSound == Spec => []BootSound
<1>1. Spec => []IInv
  BY InitIInv, NextIInv, PTL DEF Spec
<1>2. QED
  BY <1>1, Meaning, PTL
=============================================================================
