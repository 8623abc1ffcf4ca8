-------------------------------- MODULE SPMI --------------------------------
(***************************************************************************)
(* drivers/harpia/MSM8916SPMI.cpp: registers of the PMIC, over the SPMI    *)
(* arbiter.                                                                *)
(*                                                                         *)
(* pmicRead and pmicWrite wait for the arbiter to be idle, write a command *)
(* and poll SPMI_STATUS_REG a bounded number of times.  Nothing resets the *)
(* arbiter after a failure.  A read whose completion is seen by the very   *)
(* last poll is reported as a timeout (the counter is 0 by then); a write  *)
(* is not.  The driver is used by one thread; the class has no lock.       *)
(*                                                                         *)
(* The arbiter is external: it starts at the last register written, and    *)
(* ends with DONE or with ERROR, BUSY being set in between; the two bits   *)
(* stay until they are written back.                                       *)
(*                                                                         *)
(* SPMI_DATA_REG, SPMI_RD_DATA_REG and SPMI_OWNER_REG are three words in a *)
(* row.  pmicWrite stores byte i of its buffer at SPMI_DATA_REG + 4 * i,   *)
(* and then the length over byte 1, which is SPMI_RD_DATA_REG; pmicRead    *)
(* takes byte i from SPMI_RD_DATA_REG + 4 * i, so that only its first byte *)
(* is one the arbiter put there: the next is SPMI_OWNER_REG.               *)
(***************************************************************************)
EXTENDS Integers, Sequences

CONSTANTS Polls,         \* polls of a loop before it gives up (10000), at least one
          MaxTransfers,  \* bound: commands given to the arbiter
          Lengths        \* the lengths that callers ask for

VARIABLES
    pc,        \* where pmicRead or pmicWrite is; "idle" between two calls
    op,        \* which of the two: "read" or "write"
    len,       \* its length
    n,         \* polls left in the current loop
    issued,    \* number of the last command given to the arbiter
    busy,      \* SPMI_STATUS_BUSY: the arbiter works on command "issued"
    kind,      \* what that command is: "read" or "write"
    status,    \* which of SPMI_STATUS_DONE and _ERROR are set
    served,    \* the last command the arbiter completed with DONE
    data,      \* SPMI_RD_DATA_REG: the command whose byte it holds, or Stored
    owner,     \* SPMI_OWNER_REG: Owner, or Stored
    answer,    \* the completion that the caller was told as Success
    bytes,     \* what pmicRead copied to the caller, byte by byte
    trusted    \* history: no poll loop ran out

driver == <<pc, op, len, n, issued, answer, bytes>>
arbiter == <<busy, kind, status, served, data, owner>>
vars == <<pc, op, len, n, issued, busy, kind, status, served, data, owner, answer,
          bytes, trusted>>

\* What a word holds that is not the byte of a command: a word of pmicWrite, what
\* start wrote to SPMI_OWNER_REG, what the registers behind it read as.
Stored == -2
Owner == -3
Elsewhere == -4

Bus == INSTANCE PolledBus WITH
    MaxRequests <- MaxTransfers, calling <- pc # "idle", request <- issued

TypeOK ==
    /\ pc \in {"idle", "wait", "issue", "poll", "copy"}
    /\ op \in {"read", "write"} /\ kind \in {"read", "write"}
    /\ n \in 0..Polls
    /\ pc \in {"wait", "poll"} => n > 0
    /\ issued \in 0..MaxTransfers
    /\ busy \in BOOLEAN
    /\ status \subseteq {"DONE", "ERROR"}
    /\ len \in Lengths \cup {0}
    /\ served \in 0..MaxTransfers /\ data \in 0..MaxTransfers \cup {Stored}
    /\ owner \in {Owner, Stored}
    /\ answer \in 0..MaxTransfers \cup {Bus!None}
    /\ bytes \in Seq(0..MaxTransfers \cup {Stored, Owner, Elsewhere})
    /\ trusted \in BOOLEAN

\* start has enabled the arbiter and its channels.
Init ==
    /\ pc = "idle" /\ op = "read" /\ len = 0 /\ n = 0 /\ issued = 0
    /\ busy = FALSE /\ kind = "read" /\ status = {} /\ served = 0 /\ data = 0
    /\ owner = Owner /\ answer = Bus!None /\ bytes = <<>>
    /\ trusted = TRUE

-----------------------------------------------------------------------------
(* The driver.                                                             *)

Call(which, l) ==
    /\ pc = "idle"
    /\ issued < MaxTransfers
    /\ pc' = "wait" /\ n' = Polls /\ op' = which /\ len' = l
    /\ answer' = Bus!None /\ bytes' = <<>>
    /\ UNCHANGED <<issued, arbiter, trusted>>

\* Slip: the counter is tested before it is decremented.
AgainLate == n' = n - 1 /\ pc' = IF n = 0 THEN "idle" ELSE pc

\* A poll that did not find what it waits for.
Again ==
    /\ n' = n - 1
    /\ pc' = IF n = 1 THEN "idle" ELSE pc

waitForIdle ==
    /\ pc = "wait"
    /\ \/ ~busy /\ pc' = "issue" /\ UNCHANGED n
       \/ busy /\ Again
    /\ UNCHANGED <<op, len, issued, answer, bytes, arbiter, trusted>>

\* SPMI_CMD_REG, SPMI_ADDR_REG and the words from SPMI_DATA_REG on; with the
\* last of them the arbiter starts.  A read stores its length in the first word;
\* a write its bytes, and its length in the second word.
Issue ==
    /\ pc = "issue"
    /\ issued' = issued + 1
    /\ busy' = TRUE /\ kind' = op
    /\ data' = IF op = "write" THEN Stored ELSE data
    /\ owner' = IF op = "write" /\ len > 2 THEN Stored ELSE owner
    /\ pc' = "poll" /\ n' = Polls
    /\ UNCHANGED <<op, len, status, served, answer, bytes, trusted>>

\* Slip: the DONE that the last poll of a read finds is not acknowledged.
SawDoneUnacked ==
    /\ pc = "poll"
    /\ "DONE" \in status
    /\ status' = IF op = "read" /\ n = 1 THEN status ELSE status \ {"DONE"}
    /\ pc' = IF op = "read" /\ n > 1 THEN "copy" ELSE "idle"
    /\ answer' = IF op = "write" THEN served ELSE answer
    /\ UNCHANGED <<op, len, n, issued, bytes, busy, kind, served, data, owner, trusted>>

\* Slip: a write does not acknowledge its completion.
SawDoneOfRead ==
    /\ pc = "poll"
    /\ "DONE" \in status
    /\ status' = IF op = "write" THEN status ELSE status \ {"DONE"}
    /\ pc' = IF op = "read" /\ n > 1 THEN "copy" ELSE "idle"
    /\ answer' = IF op = "write" THEN served ELSE answer
    /\ UNCHANGED <<op, len, n, issued, bytes, busy, kind, served, data, owner, trusted>>

\* DONE is acknowledged; a read goes on to copy the bytes, but fails if this
\* was its last poll.
SawDone ==
    /\ pc = "poll"
    /\ "DONE" \in status
    /\ status' = status \ {"DONE"}
    /\ pc' = IF op = "read" /\ n > 1 THEN "copy" ELSE "idle"
    /\ answer' = IF op = "write" THEN served ELSE answer
    /\ UNCHANGED <<op, len, n, issued, bytes, busy, kind, served, data, owner, trusted>>

\* Byte i is read from SPMI_RD_DATA_REG + 4 * i (counted from 0).
Copy ==
    /\ pc = "copy"
    /\ pc' = "idle"
    /\ answer' = served
    /\ bytes' = [i \in 1..len |->
                    IF i = 1 THEN data ELSE IF i = 2 THEN owner ELSE Elsewhere]
    /\ UNCHANGED <<op, len, n, issued, arbiter, trusted>>

\* Slip: the error is acknowledged and the loop left as if it were DONE.
SawErrorAsDone ==
    /\ pc = "poll"
    /\ status = {"ERROR"}
    /\ status' = {}
    /\ pc' = IF op = "read" /\ n > 1 THEN "copy" ELSE "idle"
    /\ UNCHANGED <<op, len, n, issued, answer, bytes, busy, kind, served, data,
                   owner, trusted>>

SawError ==
    /\ pc = "poll"
    /\ status = {"ERROR"}
    /\ status' = {}
    /\ pc' = "idle"
    /\ UNCHANGED <<op, len, n, issued, answer, bytes, busy, kind, served, data,
                   owner, trusted>>

\* Slip: the loop never ends.
SawNothingRetries ==
    /\ pc = "poll"
    /\ status = {}
    /\ n' = IF n = 1 THEN Polls ELSE n - 1
    /\ UNCHANGED <<pc, op, len, issued, answer, bytes, arbiter, trusted>>

SawNothing ==
    /\ pc = "poll"
    /\ status = {}
    /\ Again
    /\ trusted' = (trusted /\ n # 1)
    /\ UNCHANGED <<op, len, issued, answer, bytes, arbiter>>

Transfer ==
    waitForIdle \/ Issue \/ SawDone \/ Copy \/ SawError \/ SawNothing

-----------------------------------------------------------------------------
(* The arbiter and the PMIC.                                               *)

Complete ==
    /\ busy
    /\ busy' = FALSE
    /\ served' = issued
    /\ data' = IF kind = "read" THEN issued ELSE data
    /\ status' = status \cup {"DONE"}
    /\ UNCHANGED <<driver, kind, owner, trusted>>

Fault ==
    /\ busy
    /\ busy' = FALSE
    /\ status' = status \cup {"ERROR"}
    /\ UNCHANGED <<driver, kind, served, data, owner, trusted>>

Next ==
    \/ \E which \in {"read", "write"}, l \in Lengths : Call(which, l)
    \/ Transfer
    \/ Complete \/ Fault

Spec == Init /\ [][Next]_vars
\* The calling thread keeps running; nothing is assumed of the arbiter.
FairSpec == Spec /\ WF_vars(Transfer)

-----------------------------------------------------------------------------
(* Properties.                                                             *)

\* The first byte that pmicRead hands to its caller is that of this very read,
\* unless a poll loop ran out before: then a late DONE makes it copy the byte of
\* the read before, or the length of the write before, but nothing older.  Only
\* the first byte is the PMIC's, whatever the length (line 124).
BytesAreOwn ==
    bytes # <<>> => \/ bytes[1] = issued
                    \/ ~trusted /\ bytes[1] \in {issued - 1, Stored}

\* Between two calls no completion is left in the status register unless a
\* poll loop ran out: also the DONE that came with the last poll, which
\* pmicRead reports as a timeout, was acknowledged.
NothingLeft == pc = "idle" /\ trusted => status = {} /\ ~busy

\* The driver completes or fails every request as PolledBus says: a write that
\* returned kIOReturnSuccess has been performed, as long as it is trusted.
AnswersRequests == Bus!Spec

\* pmicRead and pmicWrite return whatever the arbiter does.
CallReturns == pc # "idle" ~> pc = "idle"

\* What holds at any time of pmicRead and pmicWrite: the types, whose byte
\* a read returns, and nothing left behind.
TransfersSound == TypeOK /\ BytesAreOwn /\ NothingLeft
=============================================================================
