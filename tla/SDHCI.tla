-------------------------------- MODULE SDHCI --------------------------------
(***************************************************************************)
(* drivers/harpia/MSM8916SDHCI.cpp: commands to the eMMC or SD card.       *)
(*                                                                         *)
(* sendCommand waits for CMD_INHIBIT to clear, writes the command and      *)
(* polls INT_STATUS a bounded number of times.  The controller and the     *)
(* card work at their own pace: every register access of the driver is a   *)
(* step, and the controller may answer, fail or finish a reset between any *)
(* two of them.  The driver is used by one thread; the class has no lock.  *)
(*                                                                         *)
(* The controller is external.  start enables RESPONSE, TIMEOUT, CRC and   *)
(* END_BIT in INT_STATUS; each is cleared by writing it back.  ERROR (bit  *)
(* 15) is the summary of the last three: it reads as set while one of them *)
(* is, and writing it clears nothing.  sendCommand acknowledges RESPONSE   *)
(* and TIMEOUT, but of CRC and END_BIT only the summary, so that a bit of  *)
(* these two stays for good.  SRST_CMD ends the command in progress and    *)
(* clears CMD_INHIBIT and RESPONSE, some time after it is written.         *)
(***************************************************************************)
EXTENDS Integers

CONSTANTS Polls,        \* polls of a loop before it gives up (100000, 10000)
          MaxCommands   \* bound: commands written to the controller

ASSUME SDHCIAssumption == Polls \in Nat \ {0} /\ MaxCommands \in Nat

VARIABLES
    pc,        \* where sendCommand is; "idle" between two calls
    n,         \* polls left in the current loop
    issued,    \* number of the last command written to SDHCI_COMMAND
    ret,       \* value to be returned, or returned, by sendCommand
    active,    \* the controller is working on command "issued"
    inhibit,   \* SDHCI_STATE_CMD_INHIBIT
    status,    \* bits set in SDHCI_INT_STATUS
    resp,      \* the command whose answer is in SDHCI_RESPONSE_0..3
    srst,      \* bits set in SDHCI_SOFTWARE_RESET
    answer,    \* the command whose answer the caller read after Success
    trusted,   \* history: no loop ran out since the last SRST_CMD seen done
    lapsed,    \* history: some loop has run out
    lost,      \* history: commands that raised TIMEOUT
    timeouts,  \* history: timeouts of the card reported to a caller
    poisoned   \* history: an error bit was set when the last command was written

driver == <<pc, n, issued, ret, answer>>
controller == <<active, inhibit, status, resp, srst>>
history == <<trusted, lapsed, lost, timeouts, poisoned>>
vars == <<pc, n, issued, ret, active, inhibit, status, resp, srst, answer,
          trusted, lapsed, lost, timeouts, poisoned>>

\* The bits that SDHCI_INT_ERROR summarises; the last two are never cleared.
Errors == {"TIMEOUT", "CRC", "END_BIT"}
Damage == {"CRC", "END_BIT"}

Bus == INSTANCE PolledBus WITH
    MaxRequests <- MaxCommands, calling <- pc # "idle", request <- issued

TypeOK ==
    /\ pc \in {"idle", "inhibit", "issue", "poll", "srst_cmd", "cmd_wait",
               "srst_data", "data_wait", "read"}
    /\ n \in 0..Polls
    /\ pc \in {"inhibit", "poll", "cmd_wait", "data_wait"} => n > 0
    /\ issued \in 0..MaxCommands
    /\ ret \in {"none", "Success", "Timeout", "IOError"}
    /\ active \in BOOLEAN /\ inhibit \in BOOLEAN
    /\ status \subseteq {"RESPONSE"} \cup Errors
    /\ resp \in 0..MaxCommands
    /\ srst \subseteq {"CMD", "DATA"}
    /\ answer \in 0..MaxCommands \cup {Bus!None}
    /\ trusted \in BOOLEAN /\ lapsed \in BOOLEAN /\ poisoned \in BOOLEAN
    /\ lost \in Nat /\ timeouts \in Nat

\* start has reset the controller, set its clock and powered the card.
Init ==
    /\ pc = "idle" /\ n = 0 /\ issued = 0 /\ ret = "none"
    /\ active = FALSE /\ inhibit = FALSE /\ status = {} /\ resp = 0
    /\ srst = {} /\ answer = Bus!None
    /\ trusted = TRUE /\ lapsed = FALSE /\ poisoned = FALSE
    /\ lost = 0 /\ timeouts = 0

-----------------------------------------------------------------------------
(* The driver.                                                             *)

sendCmd ==
    /\ pc = "idle"
    /\ issued < MaxCommands
    /\ pc' = "inhibit" /\ n' = Polls /\ ret' = "none" /\ answer' = Bus!None
    /\ UNCHANGED <<issued, controller, history>>

\* Slip: the counter is tested before it is decremented.
AgainLate(next) == n' = n - 1 /\ pc' = IF n = 0 THEN next ELSE pc

\* A poll that did not find what it waits for: the loop goes on, or, when it
\* has run out of polls, continues at "next".
Again(next) ==
    /\ n' = n - 1
    /\ pc' = IF n = 1 THEN next ELSE pc

waitCmdInhibit ==
    /\ pc = "inhibit"
    /\ \/ ~inhibit /\ pc' = "issue" /\ UNCHANGED <<n, ret>>
       \/ inhibit /\ Again("idle") /\ ret' = IF n = 1 THEN "Timeout" ELSE ret
    /\ UNCHANGED <<issued, answer, controller, history>>

\* SDHCI_ARGUMENT, then SDHCI_COMMAND: the controller starts.
Issue ==
    /\ pc = "issue"
    /\ issued' = issued + 1
    /\ active' = TRUE /\ inhibit' = TRUE
    /\ pc' = "poll" /\ n' = Polls
    /\ poisoned' = (status \cap Errors # {})
    /\ UNCHANGED <<ret, answer, status, resp, srst, trusted, lapsed, lost, timeouts>>

\* Writing bit b to SDHCI_INT_STATUS.
Acknowledge(b) == status' = status \ {b}

\* Slip: the event is left in INT_STATUS.
SawResponseUnacked ==
    /\ pc = "poll"
    /\ "RESPONSE" \in status
    /\ ret' = "Success" /\ pc' = "read"
    /\ UNCHANGED <<n, issued, answer, controller, history>>

SawResponse ==
    /\ pc = "poll"
    /\ "RESPONSE" \in status
    /\ Acknowledge("RESPONSE")
    /\ ret' = "Success" /\ pc' = "read"
    /\ UNCHANGED <<n, issued, answer, active, inhibit, resp, srst, history>>

\* The caller reads the response once it has been told Success.
getResponse ==
    /\ pc = "read"
    /\ answer' = resp /\ pc' = "idle"
    /\ UNCHANGED <<n, issued, ret, controller, history>>

\* Slip: the path leaves without resetCmdData.
SawTimeoutNoReset ==
    /\ pc = "poll"
    /\ "RESPONSE" \notin status /\ "TIMEOUT" \in status
    /\ Acknowledge("TIMEOUT")
    /\ ret' = "Timeout" /\ pc' = "idle"
    /\ timeouts' = timeouts + 1
    /\ UNCHANGED <<n, issued, answer, active, inhibit, resp, srst, trusted, lapsed,
                   lost, poisoned>>

\* Slip: the event is left in INT_STATUS.
SawTimeoutUnacked ==
    /\ pc = "poll"
    /\ "RESPONSE" \notin status /\ "TIMEOUT" \in status
    /\ ret' = "Timeout" /\ pc' = "srst_cmd"
    /\ timeouts' = timeouts + 1
    /\ UNCHANGED <<n, issued, answer, controller, trusted, lapsed, lost, poisoned>>

SawTimeout ==
    /\ pc = "poll"
    /\ "RESPONSE" \notin status /\ "TIMEOUT" \in status
    /\ Acknowledge("TIMEOUT")
    /\ ret' = "Timeout" /\ pc' = "srst_cmd"
    /\ timeouts' = timeouts + 1
    /\ UNCHANGED <<n, issued, answer, active, inhibit, resp, srst, trusted, lapsed,
                   lost, poisoned>>

\* SDHCI_INT_ERROR alone: CRC or END_BIT.
OnlyDamage == "RESPONSE" \notin status /\ "TIMEOUT" \notin status /\ status # {}

\* Slip: the path leaves without resetCmdData.
SawErrorNoReset ==
    /\ pc = "poll"
    /\ OnlyDamage
    /\ ret' = "IOError" /\ pc' = "idle"
    /\ UNCHANGED <<n, issued, answer, controller, history>>

\* What is written back is the summary bit: INT_STATUS stays as it is.
SawError ==
    /\ pc = "poll"
    /\ OnlyDamage
    /\ ret' = "IOError" /\ pc' = "srst_cmd"
    /\ UNCHANGED <<n, issued, answer, controller, history>>

SawNothing ==
    /\ pc = "poll"
    /\ status = {}
    /\ Again("idle")
    /\ ret' = IF n = 1 THEN "Timeout" ELSE ret
    /\ trusted' = (trusted /\ n # 1) /\ lapsed' = (lapsed \/ n = 1)
    /\ UNCHANGED <<issued, answer, controller, lost, timeouts, poisoned>>

\* resetCmdData: a reset of the command line, then one of the data line; the
\* end of a loop by exhaustion is not told from its success.
ResetCmd ==
    /\ pc = "srst_cmd"
    /\ srst' = srst \cup {"CMD"}
    /\ pc' = "cmd_wait" /\ n' = Polls
    /\ UNCHANGED <<issued, answer, ret, active, inhibit, status, resp,
                   history>>

ResetCmdWait ==
    /\ pc = "cmd_wait"
    /\ \/ /\ "CMD" \notin srst
          /\ pc' = "srst_data" /\ trusted' = TRUE /\ UNCHANGED <<n, lapsed>>
       \/ /\ "CMD" \in srst
          /\ Again("srst_data")
          /\ trusted' = (trusted /\ n # 1) /\ lapsed' = (lapsed \/ n = 1)
    /\ UNCHANGED <<issued, answer, ret, controller, lost, timeouts, poisoned>>

ResetData ==
    /\ pc = "srst_data"
    /\ srst' = srst \cup {"DATA"}
    /\ pc' = "data_wait" /\ n' = Polls
    /\ UNCHANGED <<issued, answer, ret, active, inhibit, status, resp,
                   history>>

\* Slip: the loop has no bound.
ResetDataWaitForever ==
    /\ pc = "data_wait"
    /\ "DATA" \notin srst /\ pc' = "idle"
    /\ UNCHANGED <<n, issued, answer, ret, controller, history>>

ResetDataWait ==
    /\ pc = "data_wait"
    /\ \/ "DATA" \notin srst /\ pc' = "idle" /\ UNCHANGED n
       \/ "DATA" \in srst /\ Again("idle")
    /\ UNCHANGED <<issued, answer, ret, controller, history>>

resetCmdData == ResetCmd \/ ResetCmdWait \/ ResetData \/ ResetDataWait

sendCommand ==
    \/ waitCmdInhibit \/ Issue \/ getResponse
    \/ SawResponse \/ SawTimeout \/ SawError \/ SawNothing
    \/ resetCmdData

-----------------------------------------------------------------------------
(* The controller and the card.                                            *)

Respond ==
    /\ active
    /\ active' = FALSE /\ inhibit' = FALSE
    /\ resp' = issued
    /\ status' = status \cup {"RESPONSE"}
    /\ UNCHANGED <<driver, srst, history>>

\* A failed command may keep CMD_INHIBIT set until the next SRST_CMD.  One that
\* failed for its CRC or its end bit was answered: RESPONSE may come with it,
\* and what is in the response registers then is that answer, damaged.
CardFails ==
    /\ active
    /\ active' = FALSE
    /\ \E bits \in SUBSET Errors \ {{}} :
          /\ lost' = IF "TIMEOUT" \in bits THEN lost + 1 ELSE lost
          /\ \/ /\ status' = status \cup bits
                /\ inhibit' \in BOOLEAN /\ UNCHANGED resp
             \/ /\ bits \cap Damage # {}
                /\ status' = status \cup bits \cup {"RESPONSE"}
                /\ inhibit' = FALSE /\ resp' = issued
    /\ UNCHANGED <<driver, srst, trusted, lapsed, timeouts, poisoned>>

ResetCmdDone ==
    /\ "CMD" \in srst
    /\ srst' = srst \ {"CMD"}
    /\ active' = FALSE /\ inhibit' = FALSE
    /\ status' = status \ {"RESPONSE"}
    /\ UNCHANGED <<driver, resp, history>>

ResetDataDone ==
    /\ "DATA" \in srst
    /\ srst' = srst \ {"DATA"}
    /\ UNCHANGED <<driver, active, inhibit, status, resp, history>>

Next ==
    \/ sendCmd \/ sendCommand
    \/ Respond \/ CardFails \/ ResetCmdDone \/ ResetDataDone

Spec == Init /\ [][Next]_vars
\* The thread inside sendCommand keeps running; nothing is assumed of the card.
FairSpec == Spec /\ WF_vars(sendCommand)

-----------------------------------------------------------------------------
(* Properties.                                                             *)

\* The caller that was told Success holds the answer of the command it sent,
\* damaged or not, as long as no loop of the driver ran out since the last
\* completed reset; after that it may hold the answer of the command before,
\* but none older: a late answer is taken for the next command's (line 172).
OwnAnswer ==
    answer # Bus!None =>
        answer = issued \/ (~trusted /\ answer = issued - 1)

\* Between two calls the controller is ready for the next command and holds no
\* RESPONSE, unless a loop ran out since the last completed reset: the error
\* paths of sendCommand leave through resetCmdData.  INT_STATUS is empty then,
\* unless a CRC or END_BIT error has occurred (lines 181-182 do not clear it) or
\* a loop has ever run out.
Accepting ==
    pc = "idle" /\ trusted =>
        /\ ~inhibit /\ ~active /\ "RESPONSE" \notin status
        /\ status = {} \/ status \cap Damage # {} \/ lapsed

\* What a reported failure goes back to.  Every timeout that line 176 reports is
\* that of a command of its own, its own or an earlier one.  An I/O error is not:
\* its CRC or END_BIT bit is still there when it has been reported, and from
\* then on a command succeeds only if its answer is there at the first poll.
ErrorsTraced ==
    /\ timeouts <= lost
    /\ ret = "IOError" => status \cap Damage # {}
    /\ poisoned /\ pc = "read" => n = Polls

\* The driver answers or fails every request as PolledBus says.
AnswersRequests == Bus!Spec

\* sendCommand returns whatever the controller does.
CallReturns == pc # "idle" ~> pc = "idle"
=============================================================================
