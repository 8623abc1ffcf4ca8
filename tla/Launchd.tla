------------------------------- MODULE Launchd -------------------------------
(***************************************************************************)
(* bin/launchd.m: the init process (PID 1) of the system.                  *)
(*                                                                         *)
(* init runs rc.boot, reads /etc/ttys, keeps one session process per       *)
(* terminal and reaps every process whose parent it is.  SIGTERM and       *)
(* SIGINT ask for a power off, SIGUSR1 for a reboot; the handlers only set *)
(* a flag, which maybe_shutdown reads at a few places of the main loop.    *)
(*                                                                         *)
(* The actors are init itself (one step per system call it makes), the     *)
(* processes of the machine, which fork, exit, write files and inherit     *)
(* init as their parent when theirs exits, and the sender of signals.      *)
(* Process identifiers are reused as soon as a process has been reaped.    *)
(***************************************************************************)
EXTENDS Naturals

CONSTANTS Pids,        \* the identifiers the kernel may give to a process
          InitPid,     \* PID 1
          NoPid,       \* the -1 of svc.pid; also "no process" in the table
          MaxTtys,     \* bound: most entries of /etc/ttys
          TermRounds,  \* 50 ms rounds granted after SIGTERM (1000 / 50)
          KillRounds   \* 50 ms rounds granted after SIGKILL (500 / 50)

ASSUME LaunchdAssumption ==
    /\ InitPid \notin Pids
    /\ NoPid \notin Pids
    /\ InitPid # NoPid
    /\ MaxTtys \in Nat \ {0}
    /\ TermRounds \in Nat
    /\ KillRounds \in Nat

VARIABLES
    pc,             \* where init is
    i,              \* index of the service being (re)spawned
    rpid,           \* result of waitpid in main and of fork in run_wait
    nsvc,           \* [ttyServices count]
    svc,            \* svc[s]: the pid field of service s, for s <= nsvc
    want_poweroff, want_reboot, shutting_down,
    phase,          \* which wait_for_children_ms call: "term" or "kill"
    waited,         \* rounds spent in it
    quiet,          \* the last such call ended because waitpid said ECHILD
    how,            \* argument given to reboot, "none" before
    proc,           \* process table: "free", "run" or "zombie"
    parent,         \* process table: parent of each process
    tenant,         \* the service a process was spawned for, 0 for none
    dirty           \* some file was written since the last sync

killing == <<phase, waited, quiet, how>>
loop == <<i, rpid, nsvc, svc>>
init == <<pc, loop, shutting_down, killing>>
flags == <<want_poweroff, want_reboot>>
table == <<proc, parent, tenant>>
vars == <<pc, i, rpid, nsvc, svc, want_poweroff, want_reboot, shutting_down,
          phase, waited, quiet, how, proc, parent, tenant, dirty>>

Labels == {"rcboot", "bootwait", "ttys", "spawn", "call", "blocked", "eintr",
           "sleepall", "reaped", "respawn", "check", "rcshut", "shutwait",
           "kill", "drain", "probe", "sync", "unmount", "choose", "reboot",
           "halt", "down"}

Services == 1..nsvc
Wanted == want_poweroff \/ want_reboot
Running == {p \in Pids : proc[p] = "run"}
Free == {p \in Pids : proc[p] = "free"}
\* What waitpid(-1) sees: the children of init that nobody has waited for.
Children == {p \in Pids : parent[p] = InitPid}
Zombies == {p \in Children : proc[p] = "zombie"}

TypeOK ==
    /\ pc \in Labels
    /\ nsvc \in 0..MaxTtys
    /\ svc \in [1..MaxTtys -> Pids \cup {NoPid}]
    /\ i \in Nat
    /\ pc \in {"spawn", "respawn"} => i \in Services
    /\ rpid \in Pids \cup {NoPid}
    /\ want_poweroff \in BOOLEAN /\ want_reboot \in BOOLEAN
    /\ shutting_down \in BOOLEAN
    /\ phase \in {"term", "kill"}
    /\ waited \in Nat
    /\ quiet \in BOOLEAN
    /\ how \in {"none", "RB_AUTOBOOT", "RB_POWER_OFF"}
    /\ proc \in [Pids -> {"free", "run", "zombie"}]
    /\ parent \in [Pids -> Pids \cup {InitPid, NoPid}]
    /\ tenant \in [Pids -> Nat]
    /\ dirty \in BOOLEAN

\* main has installed its handlers and mounted /dev; no other process exists.
Init ==
    /\ pc = "rcboot"
    /\ i = 1
    /\ rpid = NoPid
    /\ nsvc = 0
    /\ svc = [s \in 1..MaxTtys |-> NoPid]
    /\ want_poweroff = FALSE /\ want_reboot = FALSE /\ shutting_down = FALSE
    /\ phase = "term" /\ waited = 0 /\ quiet = FALSE /\ how = "none"
    /\ proc = [p \in Pids |-> "free"]
    /\ parent = [p \in Pids |-> NoPid]
    /\ tenant = [p \in Pids |-> 0]
    /\ dirty = FALSE

-----------------------------------------------------------------------------
(* The process table.                                                      *)

\* fork: p becomes a running child of who, working for service s (0: none).
Create(p, who, s) ==
    /\ proc[p] = "free"
    /\ proc' = [proc EXCEPT ![p] = "run"]
    /\ parent' = [parent EXCEPT ![p] = who]
    /\ tenant' = [tenant EXCEPT ![p] = s]

\* waitpid collects zombie p: the identifier may be given away again.
Collect(p) ==
    /\ proc' = [proc EXCEPT ![p] = "free"]
    /\ parent' = [parent EXCEPT ![p] = NoPid]
    /\ tenant' = [tenant EXCEPT ![p] = 0]

-----------------------------------------------------------------------------
(* Processes other than init; none of them runs once the machine is down.  *)

Fork(p, q) ==
    /\ pc # "down"
    /\ proc[p] = "run"
    /\ Create(q, p, 0)
    /\ UNCHANGED <<init, flags, dirty>>

\* p exits, by itself or killed; its children are handed to init.
Exit(p) ==
    /\ pc # "down"
    /\ proc[p] = "run"
    /\ proc' = [proc EXCEPT ![p] = "zombie"]
    /\ parent' = [q \in Pids |-> IF parent[q] = p THEN InitPid ELSE parent[q]]
    /\ UNCHANGED <<init, flags, tenant, dirty>>

\* The parent of zombie p, a process other than init, waits for it.
UserWait(p) ==
    /\ pc # "down"
    /\ proc[p] = "zombie"
    /\ parent[p] \in Pids
    /\ Collect(p)
    /\ UNCHANGED <<init, flags, dirty>>

Write(p) ==
    /\ pc # "down"
    /\ proc[p] = "run"
    /\ dirty' = TRUE
    /\ UNCHANGED <<init, flags, table>>

(* on_signal.  The handlers are installed without SA_RESTART: a signal that
   arrives while init sleeps in waitpid(-1) also ends that call with EINTR
   (the call may still prefer a child that has exited meanwhile).  A signal
   that arrives anywhere else leaves its flag and nothing more: run_wait
   retries its waitpid, and a shortened sleep changes nothing.             *)
on_signal(sig) ==
    /\ pc # "down"
    /\ want_poweroff' = (want_poweroff \/ sig \in {"SIGTERM", "SIGINT"})
    /\ want_reboot' = (want_reboot \/ sig = "SIGUSR1")
    /\ IF pc = "blocked"
       THEN pc' \in {"eintr"} \cup (IF Zombies = {} THEN {} ELSE {"blocked"})
       ELSE UNCHANGED pc
    /\ UNCHANGED <<loop, shutting_down, killing, table, dirty>>

-----------------------------------------------------------------------------
(* init: starting up.                                                      *)

\* run_wait up to its waitpid: skipped when the script cannot be executed,
\* abandoned when fork fails.
StartScript(here, waiting, after) ==
    /\ pc = here
    /\ \/ \E p \in Pids : /\ Create(p, InitPid, 0)
                          /\ rpid' = p
                          /\ pc' = waiting
       \/ /\ pc' = after
          /\ UNCHANGED <<rpid, table>>
    /\ UNCHANGED <<nsvc, i, svc, shutting_down, killing, flags, dirty>>

\* run_wait: waitpid(pid) returns the script, whatever else has exited.
FinishScript(waiting, after) ==
    /\ pc = waiting
    /\ proc[rpid] = "zombie"
    /\ Collect(rpid)
    /\ pc' = after
    /\ UNCHANGED <<loop, shutting_down, killing, flags, dirty>>

RcBoot == StartScript("rcboot", "bootwait", "ttys")
RcBootDone == FinishScript("bootwait", "ttys")

\* load_ttys: n lines of /etc/ttys name a terminal.  A missing file and one
\* without entries both give the one default service.
LoadTtys ==
    /\ pc = "ttys"
    /\ \E n \in 0..MaxTtys : nsvc' = IF n = 0 THEN 1 ELSE n
    /\ i' = 1
    /\ pc' = "spawn"
    /\ UNCHANGED <<rpid, svc, shutting_down, killing, flags, table, dirty>>

\* Slip: a failed spawn keeps the old pid.
SpawnTtyKeepsPid(s) ==
    \/ \E p \in Pids : /\ Create(p, InitPid, s)
                       /\ svc' = [svc EXCEPT ![s] = p]
    \/ UNCHANGED <<svc, table>>

\* svc.pid = spawn_tty(svc): a new session, or -1 when the terminal cannot
\* be opened or fork fails.
SpawnTty(s) ==
    \/ \E p \in Pids : /\ Create(p, InitPid, s)
                       /\ svc' = [svc EXCEPT ![s] = p]
    \/ /\ svc' = [svc EXCEPT ![s] = NoPid]
       /\ UNCHANGED table

\* Slip: the loop runs one service too far.
SpawnAllTooFar ==
    /\ pc = "spawn"
    /\ SpawnTty(i)
    /\ IF i > nsvc THEN i' = 1 /\ pc' = "call"
                       ELSE i' = i + 1 /\ UNCHANGED pc
    /\ UNCHANGED <<nsvc, rpid, shutting_down, killing, flags, dirty>>

\* One turn of the loop that spawns every service.
SpawnAll ==
    /\ pc = "spawn"
    /\ SpawnTty(i)
    /\ IF i = nsvc THEN i' = 1 /\ pc' = "call"
                       ELSE i' = i + 1 /\ UNCHANGED pc
    /\ UNCHANGED <<nsvc, rpid, shutting_down, killing, flags, dirty>>

-----------------------------------------------------------------------------
(* init: the main loop.                                                    *)

\* waitpid(-1) reaps a child, at once or after sleeping.
Reap ==
    /\ pc \in {"call", "blocked"}
    /\ \E p \in Zombies : Collect(p) /\ rpid' = p
    /\ pc' = "reaped"
    /\ UNCHANGED <<nsvc, i, svc, shutting_down, killing, flags, dirty>>

\* waitpid(-1) finds children, none of which has exited, and sleeps.
Block ==
    /\ pc = "call"
    /\ Children # {} /\ Zombies = {}
    /\ pc' = "blocked"
    /\ UNCHANGED <<loop, shutting_down, killing, flags, table, dirty>>

\* Slip: EINTR is retried, as run_wait does.
InterruptedRetries ==
    /\ pc = "eintr"
    /\ pc' = "call"
    /\ UNCHANGED <<loop, shutting_down, killing, flags, table, dirty>>

\* waitpid(-1) fails with EINTR: maybe_shutdown is next.
Interrupted ==
    /\ pc = "eintr"
    /\ pc' = "check"
    /\ UNCHANGED <<loop, shutting_down, killing, flags, table, dirty>>

\* Slip: "no child has exited" is taken for "no child".
EChildWhenBusy ==
    /\ pc = "call"
    /\ Zombies = {}
    /\ pc' = IF shutting_down THEN "call" ELSE "sleepall"
    /\ UNCHANGED <<loop, shutting_down, killing, flags, table, dirty>>

\* waitpid(-1) fails with ECHILD: maybe_shutdown is not called.
EChild ==
    /\ pc = "call"
    /\ Children = {}
    /\ pc' = IF shutting_down THEN "call" ELSE "sleepall"
    /\ UNCHANGED <<loop, shutting_down, killing, flags, table, dirty>>

\* sleep(1) is over: every service is spawned again.
RespawnAll ==
    /\ pc = "sleepall"
    /\ i' = 1
    /\ pc' = "spawn"
    /\ UNCHANGED <<rpid, nsvc, svc, shutting_down, killing, flags, table,
                   dirty>>

\* Slip: a process that is no service skips maybe_shutdown.
FindServiceOrLoop ==
    /\ pc = "reaped"
    /\ LET owners == {s \in Services : svc[s] = rpid}
       IN IF owners # {} /\ ~shutting_down
          THEN /\ i' \in {s \in owners : \A t \in owners : s <= t}
               /\ pc' = "respawn"
          ELSE /\ pc' = "call"
               /\ UNCHANGED i
    /\ UNCHANGED <<rpid, nsvc, svc, shutting_down, killing, flags, table,
                   dirty>>

\* Look for the first service with the reaped pid.
FindService ==
    /\ pc = "reaped"
    /\ LET owners == {s \in Services : svc[s] = rpid}
       IN IF owners # {} /\ ~shutting_down
          THEN /\ i' \in {s \in owners : \A t \in owners : s <= t}
               /\ pc' = "respawn"
          ELSE /\ pc' = "check"
               /\ UNCHANGED i
    /\ UNCHANGED <<rpid, nsvc, svc, shutting_down, killing, flags, table,
                   dirty>>

\* sleep(1) is over: the service gets a new session.
Respawn ==
    /\ pc = "respawn"
    /\ SpawnTty(i)
    /\ pc' = "check"
    /\ UNCHANGED <<nsvc, i, rpid, shutting_down, killing, flags, dirty>>

-----------------------------------------------------------------------------
(* init: maybe_shutdown.                                                   *)

MaybeShutdown ==
    /\ pc = "check"
    /\ pc' = IF Wanted THEN "rcshut" ELSE "call"
    /\ shutting_down' = (shutting_down \/ Wanted)
    /\ UNCHANGED <<loop, killing, flags, table, dirty>>

RcShutdown == StartScript("rcshut", "shutwait", "kill")
RcShutdownDone == FinishScript("shutwait", "kill")

\* kill_everything: kill(-1, SIGTERM), later kill(-1, SIGKILL).  Any process
\* may exit at any moment, so only the start of the wait shows here.
Kill ==
    /\ pc = "kill"
    /\ waited' = 0
    /\ quiet' = FALSE
    /\ pc' = "drain"
    /\ UNCHANGED <<loop, shutting_down, phase, how, flags, table, dirty>>

Rounds == IF phase = "term" THEN TermRounds ELSE KillRounds

\* Slip: once everything is killed the syncs are skipped.
WaitOverSkipsSync ==
    IF phase = "term" THEN phase' = "kill" /\ pc' = "kill"
                      ELSE UNCHANGED phase /\ pc' = "choose"

\* wait_for_children_ms returns: SIGKILL is next, or the file systems.
WaitOver ==
    IF phase = "term" THEN phase' = "kill" /\ pc' = "kill"
                      ELSE UNCHANGED phase /\ pc' = "sync"

\* The loop condition, and reap_some_children until there is none to reap.
Drain ==
    /\ pc = "drain"
    /\ \/ /\ waited < Rounds
          /\ \E p \in Zombies : Collect(p)
          /\ UNCHANGED <<phase, pc>>
       \/ /\ waited < Rounds
          /\ Zombies = {}
          /\ pc' = "probe"
          /\ UNCHANGED <<phase, table>>
       \/ /\ waited >= Rounds
          /\ WaitOver
          /\ UNCHANGED table
    /\ UNCHANGED <<loop, shutting_down, waited, quiet, how, flags, dirty>>

\* Slip: any failure to find an exited child ends the wait.
NoneReady == Zombies = {}

\* waitpid(-1, WNOHANG) fails with ECHILD.
NoneLeft == Children = {}

\* Slip: the time slept is not added up.
TickForgotten == UNCHANGED waited

\* waited_ms += 50
Tick == waited' = waited + 1

\* The second waitpid(-1, WNOHANG): ECHILD ends the wait; a child that has
\* exited since reap_some_children looked is collected; then usleep(50 ms).
Probe ==
    /\ pc = "probe"
    /\ \/ /\ NoneLeft
          /\ quiet' = TRUE
          /\ WaitOver
          /\ UNCHANGED <<waited, table>>
       \/ /\ ~NoneLeft
          /\ IF Zombies = {} THEN UNCHANGED table
                             ELSE \E p \in Zombies : Collect(p)
          /\ Tick
          /\ pc' = "drain"
          /\ UNCHANGED <<phase, quiet>>
    /\ UNCHANGED <<loop, shutting_down, how, flags, dirty>>

\* sync, unmount("/dev") and the second sync.
Sync ==
    /\ pc = "sync"
    /\ dirty' = FALSE
    /\ pc' = "unmount"
    /\ UNCHANGED <<loop, shutting_down, killing, flags, table>>

Unmount ==
    /\ pc = "unmount"
    /\ dirty' = FALSE
    /\ pc' = "choose"
    /\ UNCHANGED <<loop, shutting_down, killing, flags, table>>

\* Slip: the last signal decides, not the flags.
RebootArgumentSwapped ==
    IF want_poweroff THEN "RB_POWER_OFF" ELSE "RB_AUTOBOOT"

RebootArgument == IF want_reboot THEN "RB_AUTOBOOT" ELSE "RB_POWER_OFF"

\* A reboot request wins over a power-off request, even one that came while
\* the machine was already going down.
Choose ==
    /\ pc = "choose"
    /\ how' = RebootArgument
    /\ pc' = "reboot"
    /\ UNCHANGED <<loop, shutting_down, phase, waited, quiet, flags, table,
                   dirty>>

\* reboot takes the machine down, or returns and init pauses for ever.
Reboot ==
    /\ pc = "reboot"
    /\ pc' \in {"down", "halt"}
    /\ UNCHANGED <<loop, shutting_down, killing, flags, table, dirty>>

\* Nothing happens on a machine that is down, and init only pauses in "halt".
Stopped == pc \in {"down", "halt"} /\ UNCHANGED vars

-----------------------------------------------------------------------------
InitStep ==
    \/ RcBoot \/ RcBootDone \/ LoadTtys \/ SpawnAll
    \/ Reap \/ Block \/ Interrupted \/ EChild \/ RespawnAll
    \/ FindService \/ Respawn
    \/ MaybeShutdown \/ RcShutdown \/ RcShutdownDone
    \/ Kill \/ Drain \/ Probe \/ Sync \/ Unmount \/ Choose \/ Reboot

Others ==
    \/ \E p \in Pids : Exit(p) \/ UserWait(p) \/ Write(p)
    \/ \E p, q \in Pids : Fork(p, q)
    \/ \E sig \in {"SIGTERM", "SIGINT", "SIGUSR1"} : on_signal(sig)

Next == InitStep \/ Others \/ Stopped

Spec == Init /\ [][Next]_vars

\* init is an ordinary runnable process: it keeps taking the steps it can.
\* Nothing is assumed of other processes or of the sender of signals.
FairSpec == Spec /\ WF_vars(InitStep)

-----------------------------------------------------------------------------
(* Safety.                                                                 *)

\* init never loses track of a session: as long as a process that was spawned
\* for a service has not been reaped, that service's pid field names it.  In
\* particular no service ever has two session processes (two getty's on one
\* terminal), although the ECHILD branch respawns every service unasked.
SessionTracked ==
    \A p \in Pids : tenant[p] # 0 =>
        tenant[p] \in Services /\ svc[tenant[p]] = p

\* Services whose process main has reaped and not yet replaced.
BeingReplaced ==
    {s \in Services : \/ pc = "reaped" /\ svc[s] = rpid
                      \/ pc = "respawn" /\ i = s}

\* A pid field is never stale in the main loop: outside the moment between
\* reaping a session and replacing it, a pid other than -1 is that of the
\* service's own process.  A reused pid would otherwise make init restart a
\* terminal because a stranger exited.
NoStalePid ==
    ~shutting_down =>
        \A s \in Services \ BeingReplaced :
            svc[s] # NoPid => tenant[svc[s]] = s

\* When wait_for_children_ms returns early, on ECHILD, there is no process
\* left on the whole machine, not only no child of init: every process has
\* init among its ancestors, and one with a dead parent is a child of init.
QuietMeansEmpty == quiet => Free = Pids

\* After such a return nothing written is lost: the syncs come after the last
\* process is gone, and the machine goes down with clean disks.
CleanPowerOff ==
    quiet /\ pc \in {"choose", "reboot", "halt", "down"} => ~dirty

\* The promise of SessionKeeper, read off the process table: Launchd implements
\* it.  Every spawn_tty that creates a process finds its service without one,
\* whichever of the three places of main it is called from, and once shutting
\* down init never gets back to a place that spawns sessions.
Keeper == INSTANCE SessionKeeper
          WITH Names <- 1..MaxTtys,
               session <- tenant,
               stage <- IF pc \in {"down", "halt"} THEN "off"
                        ELSE IF shutting_down THEN "stopping" ELSE "up"

KeepsSessions == Keeper!Spec

-----------------------------------------------------------------------------
(* Liveness.                                                               *)

\* From some point on no process forks any more.
ForksStop == <>[][\A p, q \in Pids : ~Fork(p, q)]_vars

\* A shutdown that has begun comes to its end, however many processes ignore
\* the signals: only a rc.shutdown that never exits (run_wait has no timeout)
\* or processes that keep forking and exiting (reap_some_children loops as
\* long as it finds a zombie) can hold it up.
ShutdownEnds ==
    ForksStop =>
        (shutting_down ~> (\/ pc \in {"down", "halt"}
                           \/ [](pc = "shutwait")))

\* What becomes of a request: it is served, unless rc.boot never ends, init
\* sleeps in waitpid and no child ever exits (the signal came before the
\* call), or there is never again a child (no terminal can be opened: the
\* ECHILD branch does not look at the flags).
RequestServed ==
    Wanted ~> (\/ shutting_down
               \/ [](pc = "bootwait")
               \/ [](pc = "blocked")
               \/ [](Children = {}))

\* A request for a reboot is never turned into a power off, whether it comes
\* before, after or instead of a power-off request, and even in the seconds the
\* shutdown takes: only one that comes after the last look at the flag loses.
RebootWins == [](want_reboot /\ how = "none" => [](how # "RB_POWER_OFF"))

\* A signal that finds init asleep in waitpid is served without any child
\* having to exit.
WakeupServed == pc = "eintr" ~> shutting_down
==============================================================================
