---------------------------- MODULE LaunchdProofs ----------------------------
(***************************************************************************)
(* Proofs about Launchd for any set of process identifiers, any number of  *)
(* services and any lengths of the two waits.                              *)
(*                                                                         *)
(* The inductive invariant IInv adds to the properties to be proved what   *)
(* init's control state says of the process table (ControlInv), the shape  *)
(* of the table (TableInv) and that the parent relation is a forest rooted *)
(* at init (Forest), the reason why "no child left" means "no process      *)
(* left".                                                                  *)
(***************************************************************************)
EXTENDS Launchd, TLAPS

Early == {"rcboot", "bootwait", "ttys"}
Late == {"rcshut", "shutwait", "kill", "drain", "probe", "sync", "unmount",
         "choose", "reboot", "halt", "down"}

TableInv ==
    /\ \A p \in Pids : proc[p] = "free" <=> parent[p] = NoPid
    /\ \A p \in Pids : parent[p] \in Pids => proc[parent[p]] = "run"
    /\ \A p \in Pids : tenant[p] # 0 => parent[p] = InitPid

\* Every nonempty set of processes has one whose parent is outside the set.
Forest ==
    \A S \in SUBSET Pids :
        S # {} /\ (\A p \in S : proc[p] # "free")
            => \E p \in S : parent[p] \notin S

ControlInv ==
    /\ pc \in Early \cup {"sleepall"} => \A p \in Pids : tenant[p] = 0
    /\ pc \in Early => \A s \in 1..MaxTtys : svc[s] = NoPid
    /\ pc \notin Early => nsvc # 0
    /\ pc = "spawn" => \A p \in Pids : tenant[p] < i
    /\ pc = "spawn" => \A s \in Services : s >= i => svc[s] = NoPid
    /\ pc = "sleepall" => \A s \in Services : svc[s] = NoPid
    /\ pc = "respawn" => \A p \in Pids : tenant[p] # i
    /\ pc = "reaped" => rpid \in Pids /\ tenant[rpid] = 0
    /\ pc \in {"bootwait", "shutwait"} => rpid \in Pids
    /\ shutting_down <=> pc \in Late

\* No two services have the same pid: FindService replaces the right one.
Distinct ==
    ~shutting_down =>
        \A s, t \in Services : svc[s] = svc[t] /\ svc[s] # NoPid => s = t

QuietInv ==
    /\ quiet => pc \in {"kill", "sync", "unmount", "choose", "reboot", "halt",
                        "down"}
    /\ QuietMeansEmpty
    /\ CleanPowerOff

IInv ==
    /\ TypeOK
    /\ TableInv
    /\ Forest
    /\ ControlInv
    /\ SessionTracked
    /\ NoStalePid
    /\ Distinct
    /\ QuietInv

-----------------------------------------------------------------------------
(* The three ways the process table changes.                               *)

TableType ==
    /\ proc \in [Pids -> {"free", "run", "zombie"}]
    /\ parent \in [Pids -> Pids \cup {InitPid, NoPid}]
    /\ tenant \in [Pids -> Nat]

Table == TableType /\ TableInv /\ Forest

\* A fork by a running process or by init keeps the table a forest: the new
\* process has no children, so it can be left out of any set it is in.
LEMMA CreateTable ==
    ASSUME Table, NEW p \in Pids, NEW who \in Pids \cup {InitPid},
           who \in Pids => proc[who] = "run",
           NEW s \in Nat, s # 0 => who = InitPid, Create(p, who, s)
    PROVE  Table'
<1> USE DEF Table
<1>1. TableType'
  BY DEF TableType, Create
<1>2. TableInv'
  BY LaunchdAssumption DEF TableType, TableInv, Create
<1>3. Forest'
  <2> SUFFICES ASSUME NEW S \in SUBSET Pids, S # {},
                      \A q \in S : proc'[q] # "free"
               PROVE  \E q \in S : parent'[q] \notin S
    BY DEF Forest
  <2>1. CASE S \ {p} = {}
    <3>1. S = {p} /\ who # p
      BY <2>1, LaunchdAssumption DEF Create
    <3>2. QED
      BY <3>1 DEF TableType, Create
  <2>2. CASE S \ {p} # {}
    <3>1. \A q \in S \ {p} : proc[q] # "free"
      BY DEF TableType, Create
    <3>2. PICK q \in S \ {p} : parent[q] \notin S \ {p}
      BY <2>2, <3>1 DEF Forest
    <3>3. parent[q] # p
      BY <3>2 DEF TableType, TableInv, Create
    <3>4. parent'[q] = parent[q]
      BY DEF TableType, Create
    <3>5. QED
      BY <3>2, <3>3, <3>4
  <2>3. QED
    BY <2>1, <2>2
<1>4. QED
  BY <1>1, <1>2, <1>3

\* Collecting a zombie takes a leaf out of the forest.
LEMMA CollectTable ==
    ASSUME Table, NEW p \in Pids, proc[p] = "zombie", Collect(p)
    PROVE  Table'
<1> USE DEF Table
<1>1. TableType'
  BY DEF TableType, Collect
<1>2. TableInv'
  BY LaunchdAssumption DEF TableType, TableInv, Collect
<1>3. Forest'
  <2> SUFFICES ASSUME NEW S \in SUBSET Pids, S # {},
                      \A q \in S : proc'[q] # "free"
               PROVE  \E q \in S : parent'[q] \notin S
    BY DEF Forest
  <2>1. p \notin S
    BY DEF TableType, Collect
  <2>2. \A q \in S : proc[q] # "free" /\ parent'[q] = parent[q]
    BY <2>1 DEF TableType, Collect
  <2>3. QED
    BY <2>2 DEF Forest
<1>4. QED
  BY <1>1, <1>2, <1>3

\* An exit moves the children of the process directly under init.
LEMMA ExitTable ==
    ASSUME Table, NEW p \in Pids, Exit(p)
    PROVE  Table'
<1> USE DEF Table
<1>1. TableType'
  BY DEF TableType, Exit
<1>2. TableInv'
  BY LaunchdAssumption DEF TableType, TableInv, Exit
<1>3. Forest'
  <2> SUFFICES ASSUME NEW S \in SUBSET Pids, S # {},
                      \A q \in S : proc'[q] # "free"
               PROVE  \E q \in S : parent'[q] \notin S
    BY DEF Forest
  <2>1. \A q \in S : proc[q] # "free"
    BY DEF TableType, Exit
  <2>2. PICK q \in S : parent[q] \notin S
    BY <2>1 DEF Forest
  <2>3. parent'[q] \in {parent[q], InitPid}
    BY DEF Exit
  <2>4. QED
    BY <2>2, <2>3, LaunchdAssumption
<1>4. QED
  BY <1>1, <1>2, <1>3

\* A table in which init has no child is empty.
LEMMA NoChildNoProcess ==
    ASSUME Table, Children = {}
    PROVE  Free = Pids
<1> DEFINE S == {p \in Pids : proc[p] # "free"}
<1>1. ASSUME S # {}
      PROVE  FALSE
  <2>1. PICK p \in S : parent[p] \notin S
    BY <1>1 DEF Table, Forest
  <2>2. parent[p] \in Pids
    BY <2>1 DEF Table, TableType, TableInv, Children
  <2>3. QED
    BY <2>1, <2>2 DEF Table, TableInv
<1>2. QED
  BY <1>1 DEF Free

-----------------------------------------------------------------------------
(* Each part of the inductive invariant, one step per action.              *)

\* The actions of init that leave the process table alone.
Calm == \/ LoadTtys \/ Block \/ Interrupted \/ EChild \/ RespawnAll
        \/ FindService \/ MaybeShutdown \/ Kill \/ Sync \/ Unmount
        \/ Choose \/ Reboot \/ Stopped

LEMMA CalmTable == Calm => UNCHANGED table
  BY DEF Calm, LoadTtys, Block, Interrupted, EChild, RespawnAll, FindService,
         MaybeShutdown, Kill, Sync, Unmount, Choose, Reboot, Stopped, vars,
         table

LEMMA SameTable == Table /\ UNCHANGED table => Table'
  BY DEF Table, TableType, TableInv, Forest, table

LEMMA TypeOKTable == TypeOK /\ TableInv /\ Forest <=> TypeOK /\ Table
  BY DEF TypeOK, Table, TableType

LEMMA TableStep ==
    ASSUME TypeOK, Table, ControlInv, [Next]_vars
    PROVE  Table'
<1>1. CASE \E p \in Pids : Exit(p)
  BY <1>1, ExitTable
<1>2. CASE \E p \in Pids : UserWait(p)
  BY <1>2, CollectTable DEF UserWait
<1>3. CASE \E p \in Pids : Write(p)
  BY <1>3, SameTable DEF Write
<1>4. CASE \E p, q \in Pids : Fork(p, q)
  BY <1>4, CreateTable DEF Fork
<1>5. CASE \E sig \in {"SIGTERM", "SIGINT", "SIGUSR1"} : on_signal(sig)
  BY <1>5, SameTable DEF on_signal
<1>6. CASE RcBoot \/ RcShutdown
  BY <1>6, CreateTable, SameTable, LaunchdAssumption
  DEF RcBoot, RcShutdown, StartScript
<1>7. CASE RcBootDone \/ RcShutdownDone
  BY <1>7, CollectTable
  DEF RcBootDone, RcShutdownDone, FinishScript, ControlInv
<1>8. CASE SpawnAll \/ Respawn
  <2>1. i \in Nat
    BY DEF TypeOK
  <2>2. SpawnTty(i)
    BY <1>8 DEF SpawnAll, Respawn
  <2>3. QED
    BY <2>1, <2>2, CreateTable, SameTable, LaunchdAssumption DEF SpawnTty
<1>9. CASE Reap
  BY <1>9, CollectTable DEF Reap, Zombies, Children
<1>10. CASE Drain
  BY <1>10, CollectTable, SameTable DEF Drain, Zombies, Children
<1>11. CASE Probe
  BY <1>11, CollectTable, SameTable DEF Probe, Zombies, Children
<1>12. CASE Calm
  BY <1>12, CalmTable, SameTable
<1>13. CASE UNCHANGED vars
  BY <1>13, SameTable DEF vars, table
<1>14. QED
  BY <1>1, <1>2, <1>3, <1>4, <1>5, <1>6, <1>7, <1>8, <1>9, <1>10, <1>11,
     <1>12, <1>13 DEF Next, InitStep, Others, Calm

LEMMA TypeStep ==
    ASSUME TypeOK, Table, Table', ControlInv, [Next]_vars
    PROVE  TypeOK'
<1> USE DEF Table, TableType, loop, init, killing, flags
<1>1. CASE \E p \in Pids : Exit(p)
  BY <1>1 DEF Exit, TypeOK, Services
<1>2. CASE \E p \in Pids : UserWait(p)
  BY <1>2 DEF UserWait, TypeOK, Services
<1>3. CASE \E p \in Pids : Write(p)
  BY <1>3 DEF Write, TypeOK, Services
<1>4. CASE \E p, q \in Pids : Fork(p, q)
  BY <1>4 DEF Fork, TypeOK, Services
<1>5. CASE \E sig \in {"SIGTERM", "SIGINT", "SIGUSR1"} : on_signal(sig)
  BY <1>5 DEF on_signal, TypeOK, Services, Labels
<1>6. CASE RcBoot \/ RcShutdown
  BY <1>6 DEF RcBoot, RcShutdown, StartScript, TypeOK, Services, Labels
<1>7. CASE RcBootDone \/ RcShutdownDone
  BY <1>7 DEF RcBootDone, RcShutdownDone, FinishScript, TypeOK, Services,
              Labels
<1>8. CASE SpawnAll
  <2>1. i \in Services /\ nsvc \in 0..MaxTtys /\ nsvc' = nsvc /\ i \in Nat
    BY <1>8 DEF SpawnAll, TypeOK
  <2>2. svc' \in [1..MaxTtys -> Pids \cup {NoPid}]
    BY <1>8 DEF SpawnAll, SpawnTty, TypeOK
  <2>3. i' \in Nat /\ (pc' \in {"spawn", "respawn"} => i' \in Services')
    BY <1>8, <2>1, LaunchdAssumption DEF SpawnAll, TypeOK, Services
  <2>4. QED
    BY <1>8, <2>2, <2>3 DEF SpawnAll, TypeOK, Labels
<1>9. CASE Respawn
  BY <1>9 DEF Respawn, SpawnTty, TypeOK, Services, Labels
<1>10. CASE Reap
  BY <1>10 DEF Reap, Zombies, Children, TypeOK, Services, Labels
<1>11. CASE Drain
  BY <1>11 DEF Drain, WaitOver, TypeOK, Services, Labels
<1>12. CASE Probe
  <2>1. pc' \in Labels \ {"spawn", "respawn"} /\ phase' \in {"term", "kill"}
    BY <1>12 DEF Probe, WaitOver, TypeOK, Labels
  <2>2. waited' \in Nat
    BY <1>12 DEF Probe, Tick, TypeOK
  <2>3. quiet' = TRUE \/ quiet' = quiet
    BY <1>12, Zenon DEF Probe
  <2>4. quiet' \in BOOLEAN
    BY <2>3, Zenon DEF TypeOK
  <2>5. QED
    BY <1>12, <2>1, <2>2, <2>4 DEF Probe, TypeOK
<1>13. CASE LoadTtys
  BY <1>13, LaunchdAssumption DEF LoadTtys, TypeOK, Services, Labels
<1>14. CASE RespawnAll
  BY <1>14 DEF RespawnAll, TypeOK, ControlInv, Early, Services, Labels
<1>15. CASE FindService
  BY <1>15 DEF FindService, TypeOK, Services, Labels
<1>16. CASE Block \/ Interrupted \/ EChild \/ MaybeShutdown
  BY <1>16 DEF Block, Interrupted, EChild, MaybeShutdown, Wanted, TypeOK,
               Services, Labels
<1>17. CASE Kill
  BY <1>17 DEF Kill, TypeOK, Services, Labels
<1>18. CASE Sync \/ Unmount
  BY <1>18 DEF Sync, Unmount, TypeOK, Services, Labels
<1>19. CASE Choose
  BY <1>19 DEF Choose, RebootArgument, TypeOK, Services, Labels
<1>20. CASE Reboot
  BY <1>20 DEF Reboot, TypeOK, Services, Labels
<1>21. CASE Stopped \/ UNCHANGED vars
  BY <1>21 DEF Stopped, vars, TypeOK, Services
<1>22. QED
  BY <1>1, <1>2, <1>3, <1>4, <1>5, <1>6, <1>7, <1>8, <1>9, <1>10, <1>11,
     <1>12, <1>13, <1>14, <1>15, <1>16, <1>17, <1>18, <1>19, <1>20, <1>21
  DEF Next, InitStep, Others

LEMMA ControlStep ==
    ASSUME TypeOK, Table, ControlInv, SessionTracked, NoStalePid, [Next]_vars
    PROVE  ControlInv'
<1> USE DEF loop, init, killing, flags, table, Early, Late
<1>1. CASE \E p \in Pids : Exit(p)
  BY <1>1 DEF Exit, ControlInv, Services
<1>2. CASE \E p \in Pids : UserWait(p)
  BY <1>2, LaunchdAssumption
  DEF UserWait, Collect, ControlInv, Services, TypeOK
<1>3. CASE \E p \in Pids : Write(p)
  BY <1>3 DEF Write, ControlInv, Services
<1>4. CASE \E p, q \in Pids : Fork(p, q)
  BY <1>4 DEF Fork, Create, ControlInv, Services, TypeOK
<1>5. CASE \E sig \in {"SIGTERM", "SIGINT", "SIGUSR1"} : on_signal(sig)
  BY <1>5 DEF on_signal, ControlInv, Services
<1>6. CASE RcBoot \/ RcShutdown
  <2>1. CASE RcBoot
    BY <2>1 DEF RcBoot, StartScript, Create, ControlInv, Services, TypeOK
  <2>2. CASE RcShutdown
    BY <2>2 DEF RcShutdown, StartScript, ControlInv, Services
  <2>3. QED
    BY <1>6, <2>1, <2>2
<1>7. CASE RcBootDone \/ RcShutdownDone
  <2>1. CASE RcBootDone
    BY <2>1 DEF RcBootDone, FinishScript, Collect, ControlInv, Services, TypeOK
  <2>2. CASE RcShutdownDone
    BY <2>2 DEF RcShutdownDone, FinishScript, ControlInv, Services
  <2>3. QED
    BY <1>7, <2>1, <2>2
<1>8. CASE SpawnAll
  BY <1>8, LaunchdAssumption
  DEF SpawnAll, SpawnTty, Create, ControlInv, Services, TypeOK
<1>9. CASE Respawn
  BY <1>9 DEF Respawn, ControlInv, Services
<1>10. CASE Reap
  BY <1>10 DEF Reap, Zombies, Children, Collect, ControlInv, Services, TypeOK
<1>11. CASE Drain
  BY <1>11 DEF Drain, WaitOver, ControlInv, Services
<1>12. CASE Probe
  BY <1>12 DEF Probe, WaitOver, ControlInv, Services
<1>13. CASE LoadTtys
  BY <1>13, LaunchdAssumption DEF LoadTtys, ControlInv, Services, TypeOK
<1>14. CASE RespawnAll
  BY <1>14 DEF RespawnAll, ControlInv, Services, TypeOK
<1>15. CASE FindService
  <2>1. ASSUME pc' = "respawn", NEW p \in Pids, tenant[p] = i'
        PROVE  FALSE
    BY <1>15, <2>1
    DEF FindService, ControlInv, SessionTracked, Services, TypeOK
  <2>2. QED
    BY <1>15, <2>1 DEF FindService, ControlInv, Services
<1>16. CASE EChild
  <2>1. \A p \in Pids : tenant[p] = 0
    BY <1>16 DEF EChild, Children, Table, TableInv
  <2>2. \A s \in Services : svc[s] = NoPid
    BY <1>16, <2>1, LaunchdAssumption
    DEF EChild, ControlInv, NoStalePid, BeingReplaced, Services, TypeOK
  <2>3. QED
    BY <1>16, <2>1, <2>2 DEF EChild, ControlInv, Services
<1>17. CASE Block \/ Interrupted \/ MaybeShutdown
  <2>1. CASE Block \/ Interrupted
    BY <2>1 DEF Block, Interrupted, ControlInv, Services
  <2>2. CASE MaybeShutdown
    <3>1. CASE Wanted
      BY <2>2, <3>1 DEF MaybeShutdown, ControlInv, Services
    <3>2. CASE ~Wanted
      BY <2>2, <3>2 DEF MaybeShutdown, ControlInv, Services
    <3>3. QED
      BY <3>1, <3>2
  <2>3. QED
    BY <1>17, <2>1, <2>2
<1>18. CASE Kill \/ Sync \/ Unmount \/ Choose \/ Reboot
  BY <1>18 DEF Kill, Sync, Unmount, Choose, Reboot, ControlInv, Services
<1>19. CASE Stopped \/ UNCHANGED vars
  BY <1>19 DEF Stopped, vars, ControlInv, Services
<1>20. QED
  BY <1>1, <1>2, <1>3, <1>4, <1>5, <1>6, <1>7, <1>8, <1>9, <1>10, <1>11,
     <1>12, <1>13, <1>14, <1>15, <1>16, <1>17, <1>18, <1>19
  DEF Next, InitStep, Others

LEMMA SessionStep ==
    ASSUME TypeOK, Table, ControlInv, SessionTracked, [Next]_vars
    PROVE  SessionTracked'
<1> USE DEF loop, init, killing, flags, table, SessionTracked, Services
<1>1. CASE \E p \in Pids : Exit(p)
  BY <1>1 DEF Exit
<1>2. CASE \E p \in Pids : UserWait(p)
  BY <1>2 DEF UserWait, Collect, TypeOK
<1>3. CASE \E p \in Pids : Write(p)
  BY <1>3 DEF Write
<1>4. CASE \E p, q \in Pids : Fork(p, q)
  BY <1>4 DEF Fork, Create, TypeOK
<1>5. CASE \E sig \in {"SIGTERM", "SIGINT", "SIGUSR1"} : on_signal(sig)
  BY <1>5 DEF on_signal
<1>6. CASE RcBoot \/ RcShutdown
  BY <1>6 DEF RcBoot, RcShutdown, StartScript, Create, TypeOK
<1>7. CASE RcBootDone \/ RcShutdownDone
  BY <1>7 DEF RcBootDone, RcShutdownDone, FinishScript, Collect, TypeOK
<1>8. CASE SpawnAll \/ Respawn
  <2>1. i \in 1..nsvc /\ nsvc' = nsvc /\ nsvc \in 0..MaxTtys /\ SpawnTty(i)
    BY <1>8 DEF SpawnAll, Respawn, TypeOK
  <2>2. \A p \in Pids : tenant[p] # i
    BY <1>8 DEF SpawnAll, Respawn, ControlInv, TypeOK
  <2>3. QED
    BY <2>1, <2>2, LaunchdAssumption DEF SpawnTty, Create, TypeOK
<1>9. CASE Reap
  BY <1>9 DEF Reap, Zombies, Children, Collect, TypeOK
<1>10. CASE Drain
  BY <1>10 DEF Drain, Zombies, Children, Collect, TypeOK
<1>11. CASE Probe
  BY <1>11 DEF Probe, Zombies, Children, Collect, TypeOK
<1>12. CASE LoadTtys
  BY <1>12 DEF LoadTtys, ControlInv, Early
<1>13. CASE Block \/ Interrupted \/ EChild \/ RespawnAll \/ FindService
  BY <1>13 DEF Block, Interrupted, EChild, RespawnAll, FindService
<1>14. CASE MaybeShutdown \/ Kill \/ Sync \/ Unmount \/ Choose \/ Reboot
  BY <1>14 DEF MaybeShutdown, Kill, Sync, Unmount, Choose, Reboot
<1>15. CASE Stopped \/ UNCHANGED vars
  BY <1>15 DEF Stopped, vars
<1>16. QED
  BY <1>1, <1>2, <1>3, <1>4, <1>5, <1>6, <1>7, <1>8, <1>9, <1>10, <1>11,
     <1>12, <1>13, <1>14, <1>15 DEF Next, InitStep, Others

LEMMA StaleStep ==
    ASSUME TypeOK, Table, ControlInv, ControlInv', SessionTracked, NoStalePid,
           Distinct, [Next]_vars
    PROVE  NoStalePid'
<1> USE DEF loop, init, killing, flags, table, NoStalePid, Services,
            BeingReplaced
<1>1. CASE \E p \in Pids : Exit(p)
  BY <1>1 DEF Exit
<1>2. CASE \E p \in Pids : UserWait(p)
  <2>1. PICK p \in Pids : UserWait(p)
    BY <1>2
  <2>2. tenant[p] = 0
    BY <2>1, LaunchdAssumption DEF UserWait, Table, TableInv
  <2>3. QED
    BY <2>1, <2>2 DEF UserWait, Collect, TypeOK
<1>3. CASE \E p \in Pids : Write(p)
  BY <1>3 DEF Write
<1>4. CASE \E p, q \in Pids : Fork(p, q)
  <2>1. PICK p \in Pids, q \in Pids : Fork(p, q)
    BY <1>4
  <2>2. tenant[q] = 0
    BY <2>1, LaunchdAssumption DEF Fork, Create, Table, TableInv
  <2>3. QED
    BY <2>1, <2>2 DEF Fork, Create, TypeOK
<1>5. CASE \E sig \in {"SIGTERM", "SIGINT", "SIGUSR1"} : on_signal(sig)
  BY <1>5 DEF on_signal
<1>6. CASE RcBoot
  BY <1>6, LaunchdAssumption DEF RcBoot, StartScript, ControlInv, Early, TypeOK
<1>7. CASE RcBootDone
  BY <1>7, LaunchdAssumption
  DEF RcBootDone, FinishScript, ControlInv, Early, TypeOK
<1>8. CASE SpawnAll \/ Respawn
  <2>1. /\ i \in 1..nsvc /\ nsvc' = nsvc /\ nsvc \in 0..MaxTtys
        /\ SpawnTty(i) /\ shutting_down' = shutting_down
        /\ pc' \notin {"reaped", "respawn"}
        /\ pc \notin {"reaped"}
    BY <1>8 DEF SpawnAll, Respawn, TypeOK
  <2>2. \A s \in Services : s # i /\ ~shutting_down =>
            (svc[s] # NoPid => tenant[svc[s]] = s)
    BY <1>8 DEF SpawnAll, Respawn
  <2>3. CASE \E p \in Pids : /\ Create(p, InitPid, i)
                             /\ svc' = [svc EXCEPT ![i] = p]
    <3>1. PICK p \in Pids : /\ Create(p, InitPid, i)
                            /\ svc' = [svc EXCEPT ![i] = p]
      BY <2>3
    <3>2. tenant[p] = 0
      BY <3>1, LaunchdAssumption DEF Create, Table, TableInv
    <3>3. QED
      BY <2>1, <2>2, <3>1, <3>2, LaunchdAssumption DEF Create, TypeOK
  <2>4. CASE svc' = [svc EXCEPT ![i] = NoPid] /\ UNCHANGED table
    BY <2>1, <2>2, <2>4, LaunchdAssumption DEF TypeOK
  <2>5. QED
    BY <2>1, <2>3, <2>4 DEF SpawnTty
<1>9. CASE Reap
  BY <1>9 DEF Reap, Zombies, Children, Collect, TypeOK
<1>10. CASE LoadTtys
  BY <1>10, LaunchdAssumption DEF LoadTtys, ControlInv, Early, TypeOK
<1>11. CASE Block \/ Interrupted \/ EChild \/ RespawnAll
  BY <1>11 DEF Block, Interrupted, EChild, RespawnAll
<1>12. CASE FindService
  <2>1. CASE pc' = "check"
    BY <1>12, <2>1 DEF FindService
  <2>2. CASE pc' = "respawn"
    <3>1. ASSUME NEW s \in Services, svc[s] # NoPid, s # i', ~shutting_down
          PROVE  tenant[svc[s]] = s
      <4>1. i' \in Services /\ svc[i'] = rpid /\ pc = "reaped"
            /\ (svc[s] = rpid => i' <= s)
        BY <1>12, <2>2, <3>1 DEF FindService
      <4>2. CASE svc[s] # rpid
        BY <3>1, <4>1, <4>2
      <4>3. CASE svc[s] = rpid
        BY <3>1, <4>1, <4>3 DEF Distinct
      <4>4. QED
        BY <4>2, <4>3
    <3>2. QED
      BY <1>12, <2>2, <3>1 DEF FindService
  <2>3. QED
    BY <1>12, <2>1, <2>2 DEF FindService
<1>13. CASE MaybeShutdown
  BY <1>13 DEF MaybeShutdown, ControlInv, Late
<1>14. CASE RcShutdown \/ RcShutdownDone \/ Kill \/ Drain \/ Probe \/ Sync
            \/ Unmount \/ Choose \/ Reboot
  <2>1. pc \in Late /\ shutting_down' = shutting_down
    BY <1>14 DEF RcShutdown, RcShutdownDone, StartScript, FinishScript, Kill,
                 Drain, Probe, Sync, Unmount, Choose, Reboot, Late
  <2>2. QED
    BY <2>1 DEF ControlInv
<1>15. CASE Stopped \/ UNCHANGED vars
  BY <1>15 DEF Stopped, vars
<1>16. QED
  BY <1>1, <1>2, <1>3, <1>4, <1>5, <1>6, <1>7, <1>8, <1>9, <1>10, <1>11,
     <1>12, <1>13, <1>14, <1>15 DEF Next, InitStep, Others

LEMMA DistinctStep ==
    ASSUME TypeOK, Table, ControlInv, NoStalePid, Distinct, [Next]_vars
    PROVE  Distinct'
<1> USE DEF loop, init, killing, flags, table, Distinct, Services
<1>1. CASE UNCHANGED <<nsvc, svc, shutting_down>>
  BY <1>1
<1>2. CASE SpawnAll \/ Respawn
  <2>1. /\ i \in 1..nsvc /\ nsvc' = nsvc /\ nsvc \in 0..MaxTtys
        /\ SpawnTty(i) /\ shutting_down' = shutting_down
    BY <1>2 DEF SpawnAll, Respawn, TypeOK
  <2>2. \A s \in Services : s # i /\ ~shutting_down =>
            (svc[s] # NoPid => tenant[svc[s]] = s)
    BY <1>2 DEF SpawnAll, Respawn, NoStalePid, BeingReplaced
  <2>3. CASE \E p \in Pids : /\ Create(p, InitPid, i)
                             /\ svc' = [svc EXCEPT ![i] = p]
    <3>1. PICK p \in Pids : /\ Create(p, InitPid, i)
                            /\ svc' = [svc EXCEPT ![i] = p]
      BY <2>3
    <3>2. tenant[p] = 0
      BY <3>1, LaunchdAssumption DEF Create, Table, TableInv
    <3>3. ~shutting_down => \A s \in Services : s # i => svc[s] # p
      BY <2>2, <3>2, LaunchdAssumption
    <3>4. QED
      BY <2>1, <3>1, <3>3, LaunchdAssumption DEF TypeOK
  <2>4. CASE svc' = [svc EXCEPT ![i] = NoPid]
    BY <2>1, <2>4, LaunchdAssumption DEF TypeOK
  <2>5. QED
    BY <2>1, <2>3, <2>4 DEF SpawnTty
<1>3. CASE LoadTtys
  BY <1>3, LaunchdAssumption DEF LoadTtys, ControlInv, Early, TypeOK
<1>4. CASE MaybeShutdown
  <2>1. shutting_down => shutting_down'
    BY <1>4 DEF MaybeShutdown
  <2>2. QED
    BY <1>4, <2>1 DEF MaybeShutdown
<1>5. CASE Others
  BY <1>1, <1>5 DEF Others, Exit, UserWait, Write, Fork, on_signal
<1>6. CASE RcBoot \/ RcBootDone \/ RcShutdown \/ RcShutdownDone
  BY <1>1, <1>6 DEF RcBoot, RcBootDone, RcShutdown, RcShutdownDone,
                    StartScript, FinishScript
<1>7. CASE Reap \/ Block \/ Interrupted \/ EChild \/ RespawnAll \/ FindService
  BY <1>1, <1>7 DEF Reap, Block, Interrupted, EChild, RespawnAll, FindService
<1>8. CASE Kill \/ Drain \/ Probe \/ Sync \/ Unmount \/ Choose \/ Reboot
  BY <1>1, <1>8 DEF Kill, Drain, Probe, Sync, Unmount, Choose, Reboot
<1>9. CASE Stopped \/ UNCHANGED vars
  BY <1>1, <1>9 DEF Stopped, vars
<1>10. QED
  BY <1>2, <1>3, <1>4, <1>5, <1>6, <1>7, <1>8, <1>9 DEF Next, InitStep

LEMMA QuietStep ==
    ASSUME TypeOK, Table, ControlInv, QuietInv, [Next]_vars
    PROVE  QuietInv'
<1> USE DEF loop, init, killing, flags, table, QuietInv, QuietMeansEmpty,
            CleanPowerOff, Free
<1>1. CASE \E p \in Pids : Exit(p)
  BY <1>1 DEF Exit
<1>2. CASE \E p \in Pids : UserWait(p)
  BY <1>2 DEF UserWait
<1>3. CASE \E p \in Pids : Write(p)
  BY <1>3 DEF Write
<1>4. CASE \E p, q \in Pids : Fork(p, q)
  BY <1>4 DEF Fork
<1>5. CASE \E sig \in {"SIGTERM", "SIGINT", "SIGUSR1"} : on_signal(sig)
  BY <1>5 DEF on_signal
<1>6. CASE RcBoot \/ RcShutdown
  BY <1>6 DEF RcBoot, RcShutdown, StartScript
<1>7. CASE RcBootDone \/ RcShutdownDone
  BY <1>7 DEF RcBootDone, RcShutdownDone, FinishScript
<1>8. CASE SpawnAll \/ Respawn \/ Reap \/ FindService \/ LoadTtys
  BY <1>8 DEF SpawnAll, Respawn, Reap, FindService, LoadTtys
<1>9. CASE Block \/ Interrupted \/ EChild \/ RespawnAll \/ MaybeShutdown
  BY <1>9 DEF Block, Interrupted, EChild, RespawnAll, MaybeShutdown
<1>10. CASE Kill
  BY <1>10 DEF Kill
<1>11. CASE Drain
  BY <1>11 DEF Drain
<1>12. CASE Probe
  <2>1. CASE NoneLeft
    <3>1. Free = Pids
      BY <2>1, NoChildNoProcess DEF NoneLeft
    <3>2. UNCHANGED table /\ pc' \in {"kill", "sync"}
      BY <1>12, <2>1 DEF Probe, WaitOver
    <3>3. QED
      BY <3>1, <3>2
  <2>2. CASE ~NoneLeft
    BY <1>12, <2>2 DEF Probe
  <2>3. QED
    BY <2>1, <2>2
<1>13. CASE Sync \/ Unmount \/ Choose \/ Reboot
  BY <1>13 DEF Sync, Unmount, Choose, Reboot
<1>14. CASE Stopped \/ UNCHANGED vars
  BY <1>14 DEF Stopped, vars
<1>15. QED
  BY <1>1, <1>2, <1>3, <1>4, <1>5, <1>6, <1>7, <1>8, <1>9, <1>10, <1>11,
     <1>12, <1>13, <1>14 DEF Next, InitStep, Others

-----------------------------------------------------------------------------
(* The theorems.                                                           *)

\* IInv holds in every reachable state of init.
THEOREM InductiveInvariant == Spec => []IInv
<1>1. Init => IInv
  <2> SUFFICES ASSUME Init PROVE IInv
    OBVIOUS
  <2> USE DEF Init
  <2>1. TypeOK
    <3>1. TableType
      BY DEF TableType
    <3>2. /\ pc \in Labels /\ i \in Nat /\ nsvc \in 0..MaxTtys
          /\ svc \in [1..MaxTtys -> Pids \cup {NoPid}] /\ waited \in Nat
      BY LaunchdAssumption DEF Labels
    <3>3. QED
      BY <3>1, <3>2 DEF TypeOK, TableType
  <2>2. TableInv /\ Forest
    BY LaunchdAssumption DEF TableInv, Forest
  <2>3. ControlInv
    BY DEF ControlInv, Early, Late
  <2>4. SessionTracked /\ NoStalePid /\ Distinct
    BY DEF SessionTracked, NoStalePid, Distinct, Services
  <2>5. QuietInv
    BY DEF QuietInv, QuietMeansEmpty, CleanPowerOff
  <2>6. QED
    BY <2>1, <2>2, <2>3, <2>4, <2>5 DEF IInv
<1>2. IInv /\ [Next]_vars => IInv'
  <2> SUFFICES ASSUME IInv, [Next]_vars PROVE IInv'
    OBVIOUS
  <2> USE DEF IInv
  <2>1. Table
    BY TypeOKTable
  <2>2. Table'
    BY <2>1, TableStep
  <2>3. TypeOK'
    BY <2>1, <2>2, TypeStep
  <2>4. ControlInv' /\ SessionTracked'
    BY <2>1, ControlStep, SessionStep
  <2>5. NoStalePid' /\ Distinct'
    BY <2>1, <2>4, StaleStep, DistinctStep
  <2>6. QuietInv'
    BY <2>1, QuietStep
  <2>7. QED
    BY <2>2, <2>3, <2>4, <2>5, <2>6 DEF Table
<1>3. QED
  BY <1>1, <1>2, PTL DEF Spec

\* Every variable of init and of the process table keeps its type; in
\* particular the spawning loops stay inside the array of services.
THEOREM TypeCorrect == Spec => []TypeOK
  BY InductiveInvariant, PTL DEF IInv

\* init never loses track of a session process it spawned.
THEOREM SessionsTracked == Spec => []SessionTracked
  BY InductiveInvariant, PTL DEF IInv

\* A pid field of a service is never stale in the main loop.
THEOREM PidsFresh == Spec => []NoStalePid
  BY InductiveInvariant, PTL DEF IInv

\* If the wait after a kill ends on ECHILD, no process is left on the machine.
THEOREM QuietIsEmpty == Spec => []QuietMeansEmpty
  BY InductiveInvariant, PTL DEF IInv, QuietInv

\* If it ends on ECHILD, the machine goes down with clean disks.
THEOREM PowerOffIsClean == Spec => []CleanPowerOff
  BY InductiveInvariant, PTL DEF IInv, QuietInv

\* An entry of the table that is set to the value it has does not change.
LEMMA SameEntry ==
    ASSUME TypeOK, NEW p \in Pids, tenant[p] = 0
    PROVE  [tenant EXCEPT ![p] = 0] = tenant
  BY DEF TypeOK

\* A step of init or of the machine is a step of SessionKeeper or none at all.
LEMMA KeeperStep ==
    ASSUME IInv, IInv', [Next]_vars
    PROVE  [Keeper!Next]_<<tenant, IF pc \in {"down", "halt"} THEN "off"
                                  ELSE IF shutting_down THEN "stopping"
                                       ELSE "up">>
<1> DEFINE Stage == IF pc \in {"down", "halt"} THEN "off"
                    ELSE IF shutting_down THEN "stopping" ELSE "up"
<1> USE DEF loop, init, killing, flags, table
<1>a. TypeOK /\ Table /\ ControlInv /\ SessionTracked
  BY TypeOKTable DEF IInv
<1>b. \A p \in Pids : proc[p] = "free" => tenant[p] = 0
  BY <1>a, LaunchdAssumption DEF Table, TableInv
<1>1. CASE UNCHANGED <<tenant, Stage>>
  BY <1>1
<1>2. ASSUME NEW p \in Pids, NEW who, Create(p, who, 0)
      PROVE  UNCHANGED tenant
  BY <1>2, <1>a, <1>b, SameEntry DEF Create
<1>3. ASSUME NEW p \in Pids, Collect(p), Stage # "off", Stage' = Stage
      PROVE  Keeper!Next
  BY <1>3 DEF Keeper!Next, Keeper!End, Collect
<1>4. CASE \E p \in Pids : UserWait(p)
  <2>1. PICK p \in Pids : UserWait(p)
    BY <1>4
  <2>2. tenant[p] = 0
    BY <2>1, <1>a, LaunchdAssumption DEF UserWait, Table, TableInv
  <2>3. UNCHANGED tenant
    BY <2>1, <2>2, <1>a, SameEntry DEF UserWait, Collect
  <2>4. QED
    BY <1>1, <2>1, <2>3 DEF UserWait
<1>5. CASE \E p, q \in Pids : Fork(p, q)
  BY <1>1, <1>2, <1>5 DEF Fork
<1>6. CASE \E p \in Pids : Exit(p) \/ Write(p)
  BY <1>1, <1>6 DEF Exit, Write
<1>7. CASE \E sig \in {"SIGTERM", "SIGINT", "SIGUSR1"} : on_signal(sig)
  BY <1>1, <1>7 DEF on_signal
<1>8. CASE RcBoot \/ RcShutdown
  <2>1. UNCHANGED tenant
    BY <1>2, <1>8 DEF RcBoot, RcShutdown, StartScript
  <2>2. QED
    BY <1>1, <1>8, <2>1 DEF RcBoot, RcShutdown, StartScript
<1>9. CASE RcBootDone \/ RcShutdownDone
  BY <1>3, <1>9, <1>a
  DEF RcBootDone, RcShutdownDone, FinishScript, ControlInv
<1>10. CASE SpawnAll \/ Respawn
  <2>1. /\ i \in 1..MaxTtys /\ SpawnTty(i) /\ Stage = "up" /\ Stage' = "up"
        /\ \A p \in Pids : tenant[p] # i
    BY <1>10, <1>a, LaunchdAssumption
    DEF SpawnAll, Respawn, ControlInv, Late, TypeOK, Services
  <2>2. CASE \E p \in Pids : Create(p, InitPid, i)
    BY <2>1, <2>2, <1>b DEF Create, Keeper!Next, Keeper!Start
  <2>3. CASE UNCHANGED table
    BY <1>1, <2>1, <2>3
  <2>4. QED
    BY <2>1, <2>2, <2>3 DEF SpawnTty
<1>11. CASE Reap
  BY <1>3, <1>11 DEF Reap, Zombies, Children
<1>12. CASE Drain
  BY <1>1, <1>3, <1>12 DEF Drain, WaitOver, Zombies, Children
<1>13. CASE Probe
  BY <1>1, <1>3, <1>13 DEF Probe, WaitOver, Zombies, Children
<1>14. CASE LoadTtys \/ Block \/ Interrupted \/ EChild \/ RespawnAll
            \/ FindService
  BY <1>1, <1>14
  DEF LoadTtys, Block, Interrupted, EChild, RespawnAll, FindService
<1>15. CASE MaybeShutdown
  <2>1. Stage \in {"up", "stopping"} /\ Stage' \in {Stage, "stopping"}
    BY <1>15 DEF MaybeShutdown
  <2>2. CASE Stage' = Stage
    BY <1>1, <1>15, <2>2 DEF MaybeShutdown
  <2>3. CASE Stage = "up" /\ Stage' = "stopping"
    BY <1>15, <2>3 DEF MaybeShutdown, Keeper!Next, Keeper!Stop
  <2>4. QED
    BY <2>1, <2>2, <2>3
<1>16. CASE Kill \/ Sync \/ Unmount \/ Choose
  BY <1>1, <1>16 DEF Kill, Sync, Unmount, Choose
<1>17. CASE Reboot
  <2>1. Stage = "stopping" /\ Stage' = "off" /\ UNCHANGED tenant
    BY <1>17, <1>a DEF Reboot, ControlInv, Late
  <2>2. QED
    BY <2>1 DEF Keeper!Next, Keeper!PowerOff
<1>18. CASE Stopped \/ UNCHANGED vars
  BY <1>1, <1>18 DEF Stopped, vars
<1>19. QED
  BY <1>4, <1>5, <1>6, <1>7, <1>8, <1>9, <1>10, <1>11, <1>12, <1>13, <1>14,
     <1>15, <1>16, <1>17, <1>18 DEF Next, InitStep, Others

\* Launchd implements SessionKeeper: at most one session per service, none
\* started once the machine is going down.
THEOREM ImplementsKeeper == Spec => KeepsSessions
<1>1. Init => Keeper!Init
  BY DEF Init, Keeper!Init
<1>2. IInv /\ IInv' /\ [Next]_vars =>
        [Keeper!Next]_<<tenant, IF pc \in {"down", "halt"} THEN "off"
                               ELSE IF shutting_down THEN "stopping"
                                    ELSE "up">>
  BY KeeperStep
<1>3. QED
  BY <1>1, <1>2, InductiveInvariant, PTL DEF Spec, KeepsSessions, Keeper!Spec
==============================================================================
