# A TLA+ verification of PocketDarwin

PocketDarwin is a Darwin-like system for phones with a Qualcomm MSM8916. Most of
its tree is third-party (XNU, Apple's libraries and frameworks, compilers). This
project is about the code that is its own: the boot loader, the init process, the
drivers of the harpia board and their base classes, the kernel-extension library
GNUKext, the dynamic loader mindyld and the device bundles. The modules here model
these parts, TLC checks them on small instances, and TLAPS proves the main results
for every value of the constants.

Components that share no state and never call each other are checked side by side
in one run: `PolledDrivers` (run `polled`) holds SDHCI and SPMI, `Harpia` (run
`harpia`, whose values `MCHarpia` gives) the regulators, I2C, SPI and the UART, `Parts`
(run `parts`, values in `MCParts`) the register sets and maps, the pins, the base class
of a device and the device bundles. Steps of two of them commute, so a behaviour in
which one of them moves (`part`) shows all that can happen to it, and the properties of
each are those of its module, restated for the run.

Where the invariants of a module belong together the run checks their conjunction,
type invariant included, under one name:

| Conjunction | Parts |
|---|---|
| `TransfersSound` (SPMI, PolledDrivers) | `BytesAreOwn`, `NothingLeft` |
| `VoltageSound` (PMICRegulator) | `RoundsUp`, `HighBitsGiven`, `OwnerKept` |
| `I2CSound`, `I2CTransfers` | `NothingLeft`; `SuccessIsDone`, `BytesAreOwn` of `I2C` |
| `SPISound`, `UARTSound` | `SuccessIsDone`, `BytesAreOwn` of `SPI`; `SentInOrder`, `ReadsArrived` of `UART` |
| `RegistersSound` (RegisterMap) | `Coherent`, `AsAsked` |
| `PinsSound`, `DeviceSound`, `BundleSound` | `FieldsAsAsked`, `ReadIsFresh`; `Balanced`, `AccessInside`; `FilesTraced`, `SuccessIsOwn`, `ValidIsDescribed` |
| `RecordsSound` (GNUKext) | `NoDangling`, `RecordsAgree`, `ModuleHeld` |
| `TreeSound` (GNUKextRegistry) | `TreeShape`, `NoLeak` |
| `MappingsSound` (Mindyld) | `Accounted`, `OwnMapping` |
| `BootSound` (Kickstart) | `KernelAsLinked`, `OthersKept` |

## 1. Inventory

| Part | State it keeps | Operations | What is hard | What makes it correct |
|---|---|---|---|---|
| `bin/launchd.m` (PID 1) | a pid per terminal, three signal flags, the kernel's process table | run scripts, spawn and respawn sessions, reap, shut down | signals between any two system calls, pids reused, orphans handed to init, bounded waits | one session per terminal, requests served, clean power off |
| `drivers/harpia/MSM8916SDHCI.cpp` | the controller's registers, a poll counter | `sendCommand`, `resetCmdData` | a card that answers late, fails, or never answers; resets that do not finish | a caller gets the answer of its own command; every call returns |
| `drivers/harpia/MSM8916SPMI.cpp` | the arbiter's registers, a poll counter | `pmicRead`, `pmicWrite` | late completions, the last poll | a caller gets its own bytes; nothing is left behind |
| `Frameworks/GNUKext` (`GNUKext.m`, `libkern.m`, `GNUKextDriver.m`, `LinuxModule.m`) | five records of what is loaded, reference counts, kernel modules, started drivers | create, load, unload, release, look up, match, start, stop | two layers of clients, plain pointers into objects with reference counts, ignored failures | the records agree, none dangles |
| `mindyld` (`mindyld_core.c`, `elf_loader.c`) | a linked list of handles, mappings | load, unload, init, resolve | a dozen ways out of a load, memory reuse | the list is sound; what is taken is given back |
| `GNUKextRegistry.m` | a tree of entries with reference counts, plain parent pointers, cached paths | add, remove, look up, path | staleness of cached paths, re-parenting, the last reference | a tree; paths that are right; no leak |
| `MSM8916SPMI.cpp`, regulators | the words of a payload | set a voltage, enable | rounding, limits of the ranges, overlapping registers | the least step that reaches what is asked; what of it the arbiter is given; no payload in the owner register |
| `MSM8916I2C.cpp`, `MSM8916SPI.cpp` | the controllers' registers, queues and fifos | `i2cTransfer`, `spiTransfer` | several threads and no lock, transfers given up, stale status bits, bytes left in a fifo | success means done; bytes are the caller's own; every call returns |
| `MSM8916UART.cpp` | two fifos | `uartPuts`, `uartPutc`, `uartGetc` | check, then act, by several threads | order; only characters given up are lost |
| `MSM8916TLMM.cpp` | two registers per pin | five setters, `start` | read-modify-write without a lock, clients before `start` has ended | fields are as asked |
| `AndroidPlatform.cpp`, `APBitfield.h` | a shadow of a device's registers | load, store, modify | transfers that fail half way, addresses cut to eight bits, sets overtaken by others | shadow and device agree; no lost update |
| `AndroidPlatformDevice.cpp` | retained objects, a mapping, an interrupt | probe, start, stop, free, register access | partial starts, wrap-around at the end of a mapping, interrupts after `free` | what start took is given back once |
| `boot/kickstart/boot.c` | memory layout, load commands | choose the board, place device tree and kernel, jump | overlapping placement, segments copied over their own source | the kernel is in memory as linked |
| `Library/libDeviceBundle` | paths, file lists, a description, a flag | load, unload, configuration | loads that fail half way or throw, an object loaded again | after a success the bundle's own files are on record; what failures leave is bounded; a valid object has a description |
| tools, user interface, shell, vendored code | - | - | - | not modelled, see section 13 |

How the parts interact: launchd starts the scripts and sessions and knows nothing
of drivers. The bus drivers are called by other drivers of the board on the
caller's thread, and share nothing but hardware registers with the device; all
drivers are `AndroidPlatformDevice`s, which map those registers and publish the
service, and the drivers of devices on a bus may keep an `APRegisterMap`.
`GNUKext` calls `libkern.m`, which calls the kernel through `LinuxModule.m`, and
`GNUKextDriver`. mindyld is a library used by one thread.
kickstart runs before all of them; the device bundles are read by host tools.

`PROJECT.json` lists the hazards of this code, each at its line, with the
properties that are aimed at it.

## 2. launchd: `Launchd`, `SessionKeeper`

**State.** `pc` is the place in `main`, `run_wait`, `maybe_shutdown` or
`wait_for_children_ms`; `svc[s]` is the `pid` field of a `TTYService`, `i` the
loop index, `rpid` the result of `waitpid` or `fork`; the flags have their names
in the code. `proc`, `parent` and `tenant` are the kernel's process table
(external): a pid that was reaped may be given away again, and the children of a
process that exits become init's. `dirty`: something was written since the last
`sync`.

**Actions.** One per system call of init: `RcBoot`, `RcBootDone`, `LoadTtys`,
`SpawnAll`, `Reap`, `Block`, `Interrupted`, `EChild`, `RespawnAll`, `FindService`,
`Respawn`, `MaybeShutdown`, `RcShutdown`, `RcShutdownDone`, `Kill`, `Drain`,
`Probe`, `Sync`, `Unmount`, `Choose`, `Reboot`. Between any two of them other
processes may `Fork`, `Exit`, `UserWait` and `Write`, and a signal may arrive
(`on_signal`), which ends a sleeping `waitpid` and nothing else.

**Checked.** `launchd_safety` (3 pids, 2 terminals, one round per wait, pids
symmetric): `SessionTracked`, `NoStalePid`, `QuietMeansEmpty`, `CleanPowerOff`,
and that Launchd implements `SessionKeeper` (`KeepsSessions`). Three pids are
enough for two sessions and a stranger that takes over a reused pid, or a
session, its child and a script. `launchd_liveness` (2 pids, 2 terminals):
`ShutdownEnds`, `RequestServed`, `WakeupServed`, `RebootWins`. The liveness
properties name the circumstances in which the code does *not* deliver: a signal
that comes just before `waitpid` waits for the next child to exit; while no
terminal can be opened the ECHILD branch never looks at the flags; a script that
never ends, or children that never stop forking, hold up the shutdown.

**Fairness.** Weak fairness of init's own step, and of nothing else: init is a
runnable process of the kernel. Whether other processes exit, or signals come, is
left open.

**Proved** (`LaunchdProofs`, any finite or infinite set of pids, any number of
terminals and rounds): `TypeCorrect`, `SessionsTracked`, `PidsFresh`,
`QuietIsEmpty`, `PowerOffIsClean`, `ImplementsKeeper`. The inductive invariant is
`IInv`: types; facts about the process table, in particular `Forest`, that any
set of processes whose members all have their parent in the set is empty, which
is what turns "init has no child" into "there is no process"; `ControlInv`,
which ties `pc` to the flags, indices and pids in use; `SessionTracked` and
`NoStalePid`, which need each other because a reused pid must not be in a pid
field; `Distinct`, that no two services have the same pid; and `QuietInv` for
the end of the shutdown. The refinement is a step simulation under `IInv`.

## 3. Polled buses: `PolledBus`, `SDHCI`, `SPMI`, `PolledDrivers`

`PolledBus` says what a driver that polls can promise: a request ends with its
own answer or with a failure; after a wait was given up, and until the controller
has been reset, it may also end with the answer of the request just before, but
never with an older one. `SDHCI` and `SPMI` are shown to implement it.

**State.** `pc` and `n` are the place in the driver and the polls left; each
register access of the driver is a step. `issued` numbers the commands, and
`resp`, `answer`, `data`, `bytes` name the command whose answer a register or the
caller holds. `trusted`, and of SDHCI `lapsed`, `lost`, `timeouts` and `poisoned`, are
history variables.

**The hardware** is external, as the drivers use it. SD controller: a command
ends with RESPONSE, or with TIMEOUT, CRC, END_BIT or several of them, and after a
failure CMD_INHIBIT may stay set; a command whose answer was damaged may raise
RESPONSE too. These four bits of INT_STATUS are cleared by writing them back; bit 15,
which the driver calls ERROR, is the summary of the last three, and writing it clears
nothing. `sendCommand` acknowledges RESPONSE and TIMEOUT, and of CRC and END_BIT the
summary only, so that one of these stays set. SRST_CMD, some time after it is written,
ends the command and clears CMD_INHIBIT and RESPONSE. SPMI arbiter: it is BUSY from the
last register write to DONE or ERROR, which stay until they are written back; a read
puts its byte into `SPMI_RD_DATA_REG`. The two words around that register are the
driver's: `pmicWrite` stores its payload from `SPMI_DATA_REG` on and its length over the
second word, `pmicRead` takes byte i from the i-th word after `SPMI_RD_DATA_REG`, so its
second byte is `SPMI_OWNER_REG` (`data`, `owner`).

**Checked** in run `polled`. Of `SDHCI`: `OwnAnswer`, `Accepting`, `ErrorsTraced`,
`AnswersRequests` (the refinement), `CallReturns`. Of `SPMI`: `BytesAreOwn` and
`NothingLeft` (`TransfersSound`), the refinement (`SPMIAnswers`) and
`SPMICallReturns`. Two polls per loop distinguish
the first, a middle and the last poll; four commands are enough for an answer
that is one command late to stay late, to be repaired by a reset and to become
late again. The run does not check for deadlock: once the bound on commands is
used up nothing needs to happen any more.

The properties show limits of the code that a reader should know. A wait that is
given up in `sendCommand` (line 187) leaves the command running without a reset, and
the next command then returns success with the earlier answer (`OwnAnswer`). After a
CRC or END_BIT error the bit stays: `Accepting` promises an empty INT_STATUS only while
there was none, and `ErrorsTraced` says what is left of later commands, which succeed
only if their answer is there at the first poll, while timeouts, which are
acknowledged, are never reported for more commands than had one. Of a read only the
first byte is the PMIC's (`BytesAreOwn`); the run has transfers of
no byte, of one and of three.

**Fairness.** The thread inside the driver keeps running. Nothing is assumed of
the hardware: the calls return with a device that is dead.

**Proved** (`PolledDriverProofs`, for any number of polls and commands). Of `SDHCI`:
`TypeCorrect`, `AnswersAreOwn`, `ReadyBetweenCalls`, `ErrorsAreTraced`,
`SDHCIImplementsBus`. The
inductive invariant relates, for each place of the driver, which command the
controller is working on, which event bits can be set, whose response the
register holds and whether a reset is pending, and counts a TIMEOUT that is set as one
not yet reported; "one late" needs that at most one
answer is ever outstanding, because the driver waits for CMD_INHIBIT first.

Of `SPMI`, as part of `PolledDrivers`: `TransfersAreSound` and
`SPMIImplementsBus`. The invariant says what a DONE bit stands for at each place of the
driver (`SPMIPending`): the last command, or the one before it while a loop polls; and
that without a loop given up the arbiter is clean between two commands and a DONE is
that of the command polled for, with its byte (`SPMITrust`). `TransfersSound` alone is
not inductive: a DONE left behind is only known to be one command old because the
driver waits for BUSY to clear before it issues.

### `PMICRegulator`: what a SPMI command carries

`SPMI` says when a command is performed and whose answer a caller gets,
`PMICRegulator` what is in it: `reg` are the three words from `SPMI_DATA_REG` on,
`asked` and `step` the voltage the last payload was for and its step.
The actions are `pmicRegulatorSetVoltage`, `pmicRegulatorSetEnabled` and a call
that finds the arbiter busy; integers have their C types (a difference of `int`,
a quotient towards zero, a step of 16 bits, bytes of 8). Run `harpia` takes the
voltages on both sides of every limit of the arithmetic and three calls, so that
each kind of payload follows each other. `RoundsUp` is exact: from 371 to 1140 mV and
from 1500 to 4340 mV the step is the least that reaches the voltage; everywhere else
it is 255, below 371 mV because the difference wraps round, from 1141 to 1499 mV and
above 4340 mV because the steps are used up, and there the voltage is set too low.
`HighBitsGiven` is about what reaches the arbiter: the second byte has been overwritten
with the length, so the step arrives without its low four bits. `regulator_range` is
expected to fail, see section 11.

**Proved** (`HarpiaProofs`, for every set of 16-bit voltages and any number
of calls): `VoltagesSound`, from an inductive invariant `RegulatorInv` that ties the
registers to `step` and `step` to `asked`. The arithmetic (the least step that reaches
the voltage, what the first byte says of a step) is in lemmas about `vStep` and
`Encode`.

## 4. GNUKext: `GNUKext`

**State.** An element of `Objects` is the memory of a `KextInfo`, and of a
`GNUKext` object around it if it is in `wrapped`. The five records of "loaded"
are `loaded` (the `_loaded` flag), `global` (`_globalLoadedKexts`, which retains),
`state` (of the KextInfo), `infos` (`_loadedKexts`, plain pointers) and `kernel`
(the kernel's modules by name, external). `held` are the references of clients, `started`
the matches that have a started driver.

**Actions** have the names of the methods and functions; each call is one step,
since the library is not thread safe. `init_module` may fail for reasons of the
kernel's own and does when the module is there; `delete_module` may fail, and the
code does not look. The kernel takes the name of a module from its image (`Module`);
what is deleted is named by the file without its last two extensions (`FileName`).

**Assumptions on clients.** A client of the C functions frees only KextInfos that
it made and that are not loaded.

`foreign` records that a C client has unloaded a kext that it found by identifier
and that belongs to a `GNUKext` object, `direct` that matching was started on a kext
that is not loaded, `struck` which names were deleted for a kext whose own module has
another: the code lets all three happen.

**Checked.** `gnukext` (3 objects, 4 bundles: a library with the module `usb`, a driver
that depends on it, one with the module `usb_audio` in `usb.audio.ko`, a bundle without
identifier): `NoDangling` whatever clients do; `ModuleHeld` for every module whose name
is not in `struck`; `RecordsAgree` between the two layers and `UnloadSucceeds`
(unload, which stops the drivers before it asks libkern, is never refused) until
`foreign`, `UnloadedIsQuiet` until `direct`.

**Proved** (`GNUKextProofs`, any objects, bundles, identifiers and drivers):
`RecordsAreSound`, `UnloadedStaysQuiet`, `UnloadAlwaysSucceeds`. The inductive
invariant adds who is in which record. `infos` holds exactly the live objects whose
state is Loaded, once each, and `global` exactly those with the `_loaded` flag, which
are `GNUKext` objects: that is why `dealloc`, which frees a `KextInfo` without taking it
off libkern's list, never frees one that is listed. Free memory has no started driver,
or the next object made in it would. The two lists are sequences; the lemmas before
say what `Append`, `RemoveFirst` (the loop of `KextInfoUnload` that ends at the first
match) and `removeObject:` (a loop over the whole array) do to the contents of a list of
any length.

## 5. mindyld: `Mindyld`

**State.** `pc`, `file`, `k`, `fd`, `phdrs`, `base` are the load in progress;
`head`, `next`, `address` the linked list of handles as it is in memory; `mapped`
the kernel's mappings (external); `order`, `abandoned`, `bare` (handles of files
without a segment) and `sound` are history variables.

**Actions.** `mindyld_load`, then one per stage of `elf_load` and
`elf_map_segments` with the failures of its system calls (`Open`, `Header`,
`Table`, `Map`, `Segment`, `Unmapped`, `Handle`, `Register`); `mindyld_unload`;
`mindyld_init`. A segment is reduced to whether it has bytes in the file and
memory to clear, which is what decides whether a failed `mmap` is noticed.
`mindyld_resolve_symbol` changes nothing; the list it walks is `Walk`.

**Checked.** `mindyld` (3 handles, 4 ranges, a library of two segments, one that
begins with cleared memory, a file without PT_LOAD, an executable): `ListSound`,
`Accounted`, `OwnMapping`. Four ranges allow a handle's memory to be reused while two others
are in use and a range is already lost. `mindyld_executable` is expected to fail,
see section 11.

**Proved** (`MindyldProofs`, any finite set of handles, any ranges, files and
segments): `ListIsSound` and `MappingsAreSound`. `ListInv` says position by position how
`head` and the `next` fields spell `order`; `WalkIsOrder` shows that what is spelled so
is what following the pointers meets and where it ends, and `RegisterStep` and
`UnloadStep` that linking behind the last handle and bridging the one that goes keep the
spelling, also when `mindyld_init` has dropped handles that still point into the list.
For the mappings the invariant adds `BaseInv`: a load that has come to its handle has a
range of its own, or its file has no PT_LOAD segment; then nothing touches the address
that `mmap` returned, and the handle may have MAP_FAILED, as `OwnMapping` says. A range
that nobody has any more was lost at one of three places: `mindyld_unload` (size 0),
`elf_load` without memory for the handle (line 283), an executable mapped at 0 (line 94).

## 6. Drivers called by several threads: `I2C`, `SPI`, `UART`, `TLMM`

None of these drivers takes a lock, and every driver of a device on a bus may be
in them. Each access to a register that another thread or the hardware may change
is a step; what a thread does between two of them is part of the step. The
modules say how much a caller may rely on, with the conditions that the code
itself does not see to as history variables.

**`I2C`**: `pc`, `n`, `rxLen`, `mine`, `ret`, `bytes` are those of each client;
`queue`, `busy`, `nack`, `fifo`, `enabled` are the controller (external), which
begins a transfer some time after it was written, and only then raises BUSY.
Actions: `Call`, `WaitBefore`, `Fill`, `WaitAfter`, `Status`, `Reset`, `Copy`;
the controller's `Start`, `Complete`, `Nack`, `ArbLost`. `trusted` is lost when a
wait gives up, arbitration is lost, two threads overlap or the second wait looked
before BUSY was set, and comes back with the reset after a NACK. While it holds,
`SuccessIsDone`, `BytesAreOwn` and `NothingLeft` do.
Bounds in `harpia`: two threads, two polls, three transfers (one that goes wrong, one that
inherits its remains, one after the reset), reads of none and of two bytes.

**`SPI`**: the same structure without a first wait and without a reset. COMPLETE
and ERROR stay until the next transfer begins. `calm[c]`: nobody met the transfer
of `c`; `empty[c]`: the fifo was empty when it began. `SuccessIsDone`,
`BytesAreOwn`. Bounds in `harpia`: two threads, two polls, two transfers, a fifo
of one byte against transfers of none, one, two and (refused) three bytes.

**`UART`**: `todo[w]` are the characters of `uartPuts` that are still to be
written, with the CR that goes before each NL; `tx`, `line` and `rx` are the
controller. Actions `PutcPoll`, `PutcWrite`, `Getc`, `GetcPoll`, `GetcRead`; the
controller's `Send`, `Arrive`. `SentInOrder` shows that two writers that both saw
the transmitter empty lose nothing *because* its fifo takes as many characters as
there are writers; `ReadsArrived` that a reader alone in the driver never reads an
empty fifo. Bounds in `harpia`: two writers of three and of one character (the
CR of an NL included), two readers, fifos of two, two polls, one character that
arrives, for which both readers may come.

**`TLMM`**: `word` are the registers, as integers with the fields of the code;
`job`, `got` the setter each thread is in and the word it has read; `booting`,
`bootRead` the loop of `start`, which runs after the service was published.
`FieldsAsAsked` and `ReadIsFresh` hold for every register that only one was
changing and that `start` had already been through; `mixed` collects the others.
Bounds in `parts`: two threads (symmetric), two pins and one that is too large, values
that do not fit their field.

**Proved** (`HarpiaProofs`, for any finite set of threads, any number of polls and
transfers, any lengths and texts, about the composition `HarpiaSpec`; each driver has
an inductive invariant of its own, which the steps of the others leave alone):

- `I2CIsSound` and `I2CTransfersAreSound`, from `I2CInv`. What a caller relies on
  follows from `TrustInv`: while the driver is trusted one thread at most is in it, the
  controller holds the transfer of that thread and no other (`Underway`, `Over`), and
  with no thread in it, it holds nothing (`Clean`). `ResetInv` is needed because
  the end of a reset gives trust back to a driver that had lost it: trusted or not, a
  controller in reset is disabled and empty, and one thread at most is resetting it.
- `SPIIsSound`, from `SPIInv`. `CalmInv`: a thread that nobody met has the controller to
  itself, so a thread that leaves the loop on COMPLETE with nothing queued has seen
  its own COMPLETE (`AtBus`, `Finished`) and not the one that stays from the transfer
  before.
- `UARTIsSound`, from `UARTInv`, with the hypothesis `FifoTakesAll`: the fifo has room
  for a character of each writer, which is what the driver, polling "transmitter
  empty" without a lock, relies on. The characters in the fifo and the writers that
  saw it empty and have not written are together at most `TxDepth`; what a writer has
  to do is the end of its whole text (`TodoInv`); of a writer that gave up on no
  character, the nth on the line is the nth of its text (`OrderInv`); a reader that nobody met
  finds the character that it polled (`AloneInv`).

**Proved** (`PartsProofs`, for any number of pins and any set of threads, requests and
words left by the firmware): `PinsAreSound`, from `PinsInv`. `Apart`: two threads that
are changing one register are recorded as mixed. `Ahead`: a pin that `start` has not
been through yet, and that nobody was early for, is as the firmware left it and nobody
is changing it, which is what makes the write of `start` harmless. Below them is
arithmetic on the words: a setter puts its value, cut to the width of the field, into
its own field and leaves the four others alone (`PutFacts`).

`CallsReturn` of run `harpia` is the liveness of the first three: each call returns
in every thread, whatever the controllers and the other threads do.

**Fairness.** Weak fairness of each thread inside a driver, which the kernel
schedules; nothing is assumed of the controllers. The runs `harpia` and `parts` do
not check for deadlock: when the bound on transfers, calls or loads is used up, or a
device has been freed, nothing more needs to happen.

## 7. Base classes: `RegisterMap`, `RegisterSet`, `PlatformDevice`

**`RegisterMap`** is `APRegisterMap`. `device` is what the device holds by address,
`shadow` is `fShadow`; the value of a register is the set of its bits. Actions:
`Load`, `Store` and `StoreFails` (a transfer that fails may have written any
number of its bytes) for the single and the block form, `Set8`, `Set16`, `Modify`,
and changes by the device itself. A load that fails changes nothing. `Coherent`
and `AsAsked` say when shadow and device agree and that a store writes what was
asked for; they except registers that share an address after the cut to eight bits
and those the device changes. Bounds in `parts`: four registers on three addresses,
of which one is volatile, and one bit, since the operations treat all bits alike.

**`RegisterSet`** is `APRegisterSet` with several clients of one register.
`AtomicUntilStale` holds until a client writes a set that another's write has
overtaken. Bounds in `parts`: two clients, two bits.

**`PlatformDevice`** is `AndroidPlatformDevice` from `probe` to `free`. `refs`
counts what was taken, `fields` are the members that are set; memory may run out
at the descriptor and at the mapping. `Balanced`: one reference to each object the
device knows and none to any other, on every path. `AccessInside`: no access past
the mapping, except where offset + size wraps around, which the code's test does
not see. Bounds in `parts`: every set of properties, offsets of four bits and a space
of six bytes, accesses of 1, 2 and 4.

**Proved** (`PartsProofs`, about the composition `PartsSpec`, for every size).
`RegistersAreSound`: the inductive invariant `MapInv` is `Coherent` with `MapKept`, that the
shadow of every known register is what the clients made of it, which a store that fails
half way leaves alone; `AsAsked` follows from the two. `AtomicIfFresh`: the invariant
`InStep` says that the set of a client that was not overtaken is the register with that
client's changes applied. `DeviceIsSound`: `DeviceInv` adds to the property that a device holds nothing
before `start` and after `free`, so that what `start` takes it takes once. Offsets are
counted by `OffsetSpace`, two to the width of an offset.

## 8. The registry: `GNUKextRegistry`

`live` are the allocated entries, `parent` and `children` the two directions of the
tree, `path` the cached `_entryPath`, `held` what the client has retained. `Settle`
computes what the reference counts leave allocated after each step. Actions have the
names of the methods (`entryWithName`, `entryWithPath`, `entryPath`, `setProperty`,
`addChild`, `removeChild`), with `Retain` and `Release` of the client. `careful`
records that the client has so far retained the entries it passed, taken an entry
from its parent before it gave it to another, and put none below itself; while it
holds, `TreeShape`, `PathResolves` (a path leads back to its entry unless an
ancestor moved since it was cached) and `NoLeak` hold. Run `registry`: the root and
three entries, two names, symmetric; three are enough for an entry that moves with
one below it, and for a cycle. The run stops at the first step that breaks a rule (a
constraint on `careful`), after which nothing is claimed. Entries are never reused,
so it does not check for deadlock.

Walks are sets: `Above(e)` is the least set that has `e` and, with an entry where the
walk does not end (`Ends`), its parent; the walk is `Cyclic` if no entry of it ends it,
and otherwise the place of an entry on it is the size of its own walk (`Chain`). That
is what the loop of `entryPath` meets, without a recursion that would have to stop at
some length. `MaxDepth` bounds the paths given to `entryWithPath:`.

**Proved** (`GNUKextRegistryProofs`, for any finite memory, any names and paths of any
length): `TreeIsSound` and `PathsResolve`. The inductive invariant `IInv` has, besides
the types, that arrays list allocated entries and that memory never allocated is blank,
whatever the client does; and for a careful one: whoever lists an entry is its parent
(`Linked`), parents were allocated (`ParentsUsed`: a parent may be freed before its
child, but a new entry is on no old walk), no walk comes back (`NoCycle`), the children
of an entry differ in name (`OneName`), everything is retained by somebody (`Kept`), and
a cached path that is not stale spells the walk, place by place, if that leads to the
root (`PathFresh`). `PathFresh` says nothing of walks that end elsewhere: freeing a
parent shortens them, and their paths are those of a tree that is gone. The proof rests
on lemmas about walks for any allocated set and any pointers: a step that changes
nothing on a walk keeps it (`SameWalk`), one that frees entries and takes parents away
shortens it and keeps those that still lead to the root (`ShorterWalk`, `RootWalk`), and
a set that is closed after the step bounds the rest (`UpLeast`: for `addChild:` the old
walk and that of the new parent). `NoLeak` follows from `Kept` with the entry of the
set that has the lowest place; that a path leads down along the walk
(`InvPathResolves`) goes by the first place at which it would not.

## 9. The boot loader: `Kickstart`

Memory is a function from pages to what they hold and which page of it; the image,
the loader, the device tree and the frame buffer are regions. Actions: `Display`,
`Board`, `embed_device_tree`, `Header`, `Command` (one load command), `Loaded`,
`Jump`. A copy onto its own source is modelled as the `memcpy` of the code does it,
page by page upwards. When the load commands or the loader itself are overwritten
the boot is `lost`. `KernelAsLinked` and `OthersKept` hold for a `Sound` image, one
whose segments lie in free memory and do not overlap, and `BootEnds` for every
image. Run `kickstart`: twelve pages, images of up to two segments placed over
loader, image, tree, frame buffer and each other. Fairness: one processor that
runs on, with a serial line that takes every character.

**Proved** (`KickstartProofs`, for every layout of regions that do not overlap and any
number and order of load commands): `BootIsSound`. The inductive invariant says of a
sound image that the loader and the image are as they were (`Kept`), that the device
tree is in its place once it was copied (`TreeKept`), and that the segments of the
commands that are done are in place (`DoneInPlace`). Each step needs the others: a
segment is copied from an image that nothing before it has touched, which takes the
`memcpy` that runs into its own source out of the picture (`PlacedSound`), and what it
writes is apart from the segments before it. `KickstartAssumption` is the layout that
`boot.c` defines, and that what a load command names in the file is in memory.

## 10. Device bundles: `DeviceBundle`

The variables are the members of the class with the files they were read from.
`loadBundle` has five outcomes, one per step that may end it (`Throws`, `NotThere`,
`ScanThrows`, `NotDescribed`, `Loaded`); the walk of the directory is in any order
and may throw half way, which is caught, while what `fs::exists` and `fs::is_directory`
throw leaves `loadBundle`. `loadConfiguration` takes any file, with or without a bundle.
`valid_` of an object made with the default constructor may
have either value until it is assigned (`assigned`). `since` counts the loads of each
path since the object was made or unloaded. `FilesTraced` bounds what failed and repeated loads pile
up, `SuccessIsOwn` says what of it a later success replaces and what it does not, and
`ValidIsDescribed` that `isValid` is a sufficient test before `getDeviceInfo`.
Bounds in `parts`: four bundles (one complete, one with a second property list in a
subdirectory, one without any, one whose property list does not parse) and a path
that is no directory, a configuration of a bundle and one that is in none, three loads
with and without `unloadBundle`.

**Proved** (`PartsProofs`, for any bundles, files and number of loads):
`BundleIsSound`, from `BundleInv`, in which `Traced` says of each record by itself that
its file is in a bundle loaded since the object was unloaded, and that a file is listed
at most once per load. A walk that throws half way, or finds the
files in any order, is covered by what is true of every part of the walk
(`ScanFacts`, `LoadFacts`).

## 11. Disagreements between the code and its documentation

Two are runs of their own. `mindyld_executable` (`LoadsUnlessError`, expected to
fail): for ET_EXEC `mindyld/elf_loader.c:91` asks for a mapping with MAP_FIXED at
address NULL, and line 94 takes the address 0 for a failure, so no executable is ever
loaded although no call failed; `mindyld/mindyld.h:25` says "Load a shared library or
executable". `regulator_range` (`ReachesRange`, expected to fail): from 1141 to 1499 mV
the 256 steps of the lowest range are used up and `MSM8916SPMI.cpp:188` sets 1140 mV;
`APClockPower.h:70` says "0.375V–1.525V" of the first regulator, and the lines up to 87
of the others.

The others were met while modelling. In each case the model does what the code does,
and the properties are stated with the conditions that this leaves:

| Where | What the code does | What is said of it |
|---|---|---|
| `mindyld_core.c:214` | no handle is ever given a size, so unloading never unmaps (`abandoned` in `Accounted`) | the comment "Unmap memory" on line 213 |
| `GNUKext.m:69` | `loadKextWithIdentifier:` looks among the loaded kexts only and never loads one | its name, and "Load kext by identifier" of the introduction |
| `GNUKextRegistry.m:176` | `addChild:` lists an entry twice, or below itself (`careful`) | the API calls it a tree |
| `MSM8916SPMI.cpp:145` | the length is stored over the second byte of the payload before it is sent, and a step loses its low four bits (`HighBitsGiven`) | `APClockPower.h:44`: "a unified API for setting regulator voltages" |
| `MSM8916SPMI.cpp:124` | the second byte of a read is `SPMI_OWNER_REG` (`BytesAreOwn` is about the first) | the signature `pmicRead(slaveId, addr, buf, len)` |
| `MSM8916SDHCI.cpp:182` | of a CRC or END_BIT error, which line 222 enables, the summary is written back and the cause stays (`Accepting`, `ErrorsTraced`) | line 176 acknowledges the cause of a timeout |
| `LinuxModule.m:106` | two extensions are taken off the file name: unloading `usb.audio.ko` deletes the module `usb` (`struck` in `ModuleHeld`) | the name `unloadModuleAtPath:` |
| `AndroidPlatform.cpp:227` | the shadow starts as zeros and `modify` does not look whether it was loaded (`AsAsked` excepts registers never loaded) | `APBus.h:64`: "avoids bus traffic on read-modify-write sequences" |
| `APBitfield.h:95` | `write` stores a word that was read some time before (`stale` in `AtomicUntilStale`) | `APBitfield.h:69`: "read/modify/write a group of bitfields atomically" |
| `AndroidPlatformDevice.cpp:188` | `stop` only logs; the handler of the object freed next stays registered | line 186: "Disable interrupts if registered." |
| `MSM8916SPI.cpp:136` | a transfer without `rxBuf` leaves its bytes to the next one (`empty` in `BytesAreOwn`) | `APBus.h:41`: "full-duplex transfer to a chip select" |
| `boot.c:825` | the table of boards is indexed with a number that counts from one | line 655: ".platform_id = PLATFORM_HARPIA" of the first entry |
| `boot.c:563` | a segment without bytes in the file is not cleared | line 568: "Zero out BSS" |
| `boot.c:598` | `LC_MAIN` leads into the image instead of the segments, `LC_UNIXTHREAD` to 0 | line 5: "Loads and executes Mach-O XNU kernels" |
| `DeviceBundle.hpp:24`, `DeviceBundle.cpp:14` | `valid_` has no value at first, and is not cleared by a load that fails | libDeviceBundle's `README.md:82` tests for a failure with `isValid()` |
| `DeviceBundle.cpp:63` | a second load keeps the files of the first where it has none of its own (`since` in `FilesTraced`, `SuccessIsOwn`) | `README.md:29`: "Represents a complete device bundle." |
| `DeviceBundle.cpp:79` | any file named `Info.plist` below the bundle is taken for its own | `README.md:42` has it at the top |

## 12. What is proved and what is only checked

Proved with TLAPS: `Launchd` (section 2), `SDHCI`, `SPMI` and `PMICRegulator` (section
3), `GNUKext` (section 4), `Mindyld` (section 5), `I2C`, `SPI`, `UART` and `TLMM`
(section 6), `RegisterMap`, `RegisterSet` and `PlatformDevice` (section 7),
`GNUKextRegistry` (section 8), `Kickstart` (section 9) and `DeviceBundle` (section 10). The assumptions are the `ASSUME`s of the modules: init's pid is not among
the pids, at least one terminal, at least one poll, voltages of 16 bits, at least one
register and address, the waits and bounds are natural numbers; null pointers and
MAP_FAILED are no objects, handles or ranges, and the memory for handles is finite;
the threads of a driver are finitely many, the UART's writers and readers are
different threads, and no text is empty; the requests to the pin controller are for
fields that a pin has, what the firmware left are words, a bundle is a directory
that can be named, and every file is in one; the regions of the boot loader lie in
memory and do not overlap, and what the load commands name in the file is in memory; the
memory for registry entries is finite and has the root. One theorem has a hypothesis of its own:
`UARTIsSound` has `FifoTakesAll`.

Facts about lists of any length (`WalkIsOrder`, `RemoveObjectFacts`,
`JoinExists`, `JoinType`, `AlongSteps`, `PlaceTaken`) are proved by the
least counterexample: `Least`, that a nonempty set of naturals has a least element,
follows from the well-foundedness of `<`, and the position at which a claim fails first
contradicts it. The same way gives the recursive functions of the modules their
defining equations.

Only model-checked: liveness under fairness, which is out of the prover's reach
(`ShutdownEnds`, `RequestServed`, `WakeupServed`, `CallReturns`, `SPMICallReturns`, `CallsReturn`,
`BootEnds`; `RebootWins`, a nested temporal formula). Every safety property of a
passing run has a theorem.

Every property has a "slip" in its module, a definition next to the one it
replaces that shows a plausible mistake in the code under which the property
fails. A conjunction has one for each of its parts.

## 13. Not modelled

The third-party trees (UIKit is GNUstep's libs-uikit); the collection and wrapper
classes; the shell and the commands that print; the build tools; the simulator; the
stubs of libSystem and minlibc. The clock controller (GCC): each method is one or
two register writes, nothing is kept and nobody calls it. The USB driver: it
programs the controller and transfers nothing. `DeviceTree` and the parser of
property lists only transform text. Personality matching compares dictionaries
without state; `GNUKext` takes its outcome as a constant. Inside the modelled parts:
console output, stdio and environment variables of launchd; register writes of the
drivers' `start`; the SD clock divider and the baud rate; the number of drivers per
match in GNUKext; file contents in mindyld; the MMU registers that kickstart sets.
The Mach-O half of mindyld has the structure of the ELF half.

## 14. Plan

Every component that has state of its own is modelled, and every safety property that
a run checks is proved. What a change of the code needs: the action or lemma of the
method that changed, the slips of its properties, and the lines in `PROJECT.json`.
