------------------------- MODULE PolledDriverProofs -------------------------
(***************************************************************************)
(* Proofs about SDHCI and SPMI, the two drivers that poll a controller,    *)
(* for any number of polls and of commands.                                *)
(*                                                                         *)
(* An inductive invariant says what a RESPONSE bit, or a DONE bit, that is *)
(* set stands for at each place of the driver: the last command, or, while *)
(* the loop polls, possibly the one before.  As long as no loop ran out    *)
(* the controller is clean between two commands and the bit is that of the *)
(* command polled for.  The failures that SDHCI reports need more: that a  *)
(* TIMEOUT still set is not counted yet (Unreported), that an error bit    *)
(* found set when a command is written is seen by its first poll (Poison), *)
(* and that without a damaged answer and without a loop that ran out a     *)
(* TIMEOUT ends its command and is there to be polled only (Settled).      *)
(*                                                                         *)
(* The theorems of SDHCI are about its own specification, which            *)
(* DriversSpec implies, as it does that of SPMI (DriversAreDrivers).       *)
(***************************************************************************)
EXTENDS PolledDrivers, TLAPS

-----------------------------------------------------------------------------
(* SDHCI.                                                                  *)

\* The places where the controller is clean unless some loop ran out.
Rest == {"idle", "inhibit", "issue", "read", "srst_data", "data_wait"}
Clean == ~active /\ ~inhibit /\ "RESPONSE" \notin status

ControlInv ==
    /\ active => inhibit
    /\ pc = "issue" => ~inhibit /\ issued < MaxCommands
    /\ pc = "inhibit" => issued < MaxCommands
    /\ pc # "idle" => answer = Bus!None

TrustInv ==
    /\ trusted /\ pc \in Rest => Clean
    /\ pc = "cmd_wait" /\ "CMD" \notin srst => Clean
    /\ trusted /\ pc = "read" => resp = issued
    /\ trusted /\ pc = "poll" /\ "RESPONSE" \in status =>
          resp = issued /\ ~active /\ ~inhibit

Pending ==
    /\ "RESPONSE" \in status => resp = issued \/ (pc = "poll" /\ resp = issued - 1)
    /\ pc = "read" => resp = issued \/ resp = issued - 1

Unreported == "TIMEOUT" \in status => timeouts + 1 <= lost

Poison == pc = "poll" /\ poisoned => n = Polls /\ status \cap Errors # {}

Settled ==
    ~lapsed /\ status \cap Damage = {} =>
        /\ trusted
        /\ pc # "poll" => ~active /\ "TIMEOUT" \notin status
        /\ "TIMEOUT" \in status => ~active /\ "RESPONSE" \notin status

IInv ==
    /\ TypeOK
    /\ ControlInv
    /\ TrustInv
    /\ Pending
    /\ OwnAnswer
    /\ ErrorsTraced
    /\ Unreported
    /\ Poison
    /\ Settled

LEMMA InitIInv == Init => IInv
<1>1. ASSUME Init PROVE TypeOK
  <2>1. n \in 0..Polls /\ issued \in 0..MaxCommands /\ resp \in 0..MaxCommands
    BY <1>1, SDHCIAssumption DEF Init
  <2>2. /\ active \in BOOLEAN /\ inhibit \in BOOLEAN /\ trusted \in BOOLEAN
        /\ lapsed \in BOOLEAN /\ poisoned \in BOOLEAN
        /\ status \subseteq {"RESPONSE"} \cup Errors
        /\ srst \subseteq {"CMD", "DATA"}
    BY <1>1, Zenon DEF Init
  <2>3. lost \in Nat /\ timeouts \in Nat
    BY <1>1 DEF Init
  <2>4. QED
    BY <1>1, <2>1, <2>2, <2>3 DEF Init, TypeOK
<1>2. Init => ControlInv /\ TrustInv /\ Pending
  BY DEF Init, ControlInv, TrustInv, Pending, Rest, Clean
<1>3. Init => OwnAnswer /\ ErrorsTraced /\ Unreported /\ Poison /\ Settled
  BY DEF Init, OwnAnswer, ErrorsTraced, Unreported, Poison, Settled
<1>4. QED
  BY <1>1, <1>2, <1>3 DEF IInv

\* Each group of conjuncts is preserved by a step.
LEMMA TypeStep == IInv /\ [Next]_vars => TypeOK'
<1> USE SDHCIAssumption DEF Bus!None
<1> SUFFICES ASSUME IInv, [Next]_vars PROVE TypeOK'
  OBVIOUS
<1>1. CASE sendCmd
  BY <1>1 DEF IInv, TypeOK, sendCmd, controller, history
<1>2. CASE waitCmdInhibit
  BY <1>2 DEF IInv, TypeOK, waitCmdInhibit, Again, controller, history
<1>3. CASE Issue
  <2>1. active' \in BOOLEAN /\ inhibit' \in BOOLEAN /\ poisoned' \in BOOLEAN
    BY <1>3, Zenon DEF Issue
  <2>2. QED
    BY <1>3, <2>1 DEF IInv, TypeOK, ControlInv, Issue
<1>4. CASE SawResponse
  BY <1>4 DEF IInv, TypeOK, SawResponse, Acknowledge, history
<1>5. CASE getResponse
  BY <1>5 DEF IInv, TypeOK, getResponse, controller, history
<1>6. CASE SawTimeout
  BY <1>6 DEF IInv, TypeOK, SawTimeout, Acknowledge, history
<1>7. CASE SawError
  BY <1>7 DEF IInv, TypeOK, SawError, OnlyDamage, controller, history
<1>8. CASE SawNothing
  <2>1. trusted' \in BOOLEAN /\ lapsed' \in BOOLEAN
    BY <1>8, Zenon DEF SawNothing
  <2>2. QED
    BY <1>8, <2>1 DEF IInv, TypeOK, SawNothing, Again, controller
<1>9. CASE ResetCmd
  BY <1>9 DEF IInv, TypeOK, ResetCmd, history
<1>10. CASE ResetCmdWait
  <2>1. trusted' \in BOOLEAN /\ lapsed' \in BOOLEAN
    BY <1>10, Zenon DEF IInv, TypeOK, ResetCmdWait
  <2>2. QED
    BY <1>10, <2>1 DEF IInv, TypeOK, ResetCmdWait, Again, controller
<1>11. CASE ResetData
  BY <1>11 DEF IInv, TypeOK, ResetData, history
<1>12. CASE ResetDataWait
  BY <1>12 DEF IInv, TypeOK, ResetDataWait, Again, controller, history
<1>13. CASE Respond
  BY <1>13 DEF IInv, TypeOK, Respond, driver, history
<1>14. CASE CardFails
  <2>1. active' \in BOOLEAN /\ inhibit' \in BOOLEAN
    BY <1>14, Zenon DEF CardFails
  <2>2. status' \subseteq {"RESPONSE"} \cup Errors
    BY <1>14, Zenon DEF IInv, TypeOK, CardFails
  <2>3. lost' \in Nat /\ resp' \in 0..MaxCommands
    BY <1>14 DEF IInv, TypeOK, CardFails
  <2>4. QED
    BY <1>14, <2>1, <2>2, <2>3 DEF IInv, TypeOK, CardFails, driver
<1>15. CASE ResetCmdDone
  BY <1>15 DEF IInv, TypeOK, ResetCmdDone, driver, history
<1>16. CASE ResetDataDone
  BY <1>16 DEF IInv, TypeOK, ResetDataDone, driver, history
<1>17. CASE UNCHANGED vars
  BY <1>17 DEF IInv, TypeOK, vars
<1>18. QED
  BY <1>1, <1>2, <1>3, <1>4, <1>5, <1>6, <1>7, <1>8, <1>9, <1>10, <1>11,
     <1>12, <1>13, <1>14, <1>15, <1>16, <1>17
  DEF Next, sendCommand, resetCmdData

\* Where the driver is, and what that says of the controller.
LEMMA ControlStep == IInv /\ [Next]_vars => ControlInv'
<1> USE SDHCIAssumption DEF Bus!None
<1> SUFFICES ASSUME IInv, [Next]_vars PROVE ControlInv'
  OBVIOUS
<1>1. CASE sendCmd
  BY <1>1 DEF IInv, TypeOK, ControlInv, sendCmd, controller, history
<1>2. CASE waitCmdInhibit
  BY <1>2 DEF IInv, TypeOK, ControlInv, waitCmdInhibit, Again, controller,
      history
<1>3. CASE Issue
  BY <1>3 DEF IInv, TypeOK, ControlInv, Issue, history
<1>4. CASE SawResponse
  BY <1>4 DEF IInv, TypeOK, ControlInv, SawResponse, Acknowledge, history
<1>5. CASE getResponse
  BY <1>5 DEF IInv, TypeOK, ControlInv, getResponse, controller, history
<1>6. CASE SawTimeout
  BY <1>6 DEF IInv, TypeOK, ControlInv, SawTimeout, Acknowledge, history
<1>7. CASE SawError
  BY <1>7 DEF IInv, TypeOK, ControlInv, SawError, OnlyDamage, controller, history
<1>8. CASE SawNothing
  BY <1>8 DEF IInv, TypeOK, ControlInv, SawNothing, Again, controller
<1>9. CASE ResetCmd
  BY <1>9 DEF IInv, TypeOK, ControlInv, ResetCmd, history
<1>10. CASE ResetCmdWait
  BY <1>10 DEF IInv, TypeOK, ControlInv, ResetCmdWait, Again, controller
<1>11. CASE ResetData
  BY <1>11 DEF IInv, TypeOK, ControlInv, ResetData, history
<1>12. CASE ResetDataWait
  BY <1>12 DEF IInv, TypeOK, ControlInv, ResetDataWait, Again, controller,
      history
<1>13. CASE Respond
  BY <1>13 DEF IInv, TypeOK, ControlInv, Respond, driver, history
<1>14. CASE CardFails
  BY <1>14 DEF IInv, TypeOK, ControlInv, CardFails, driver
<1>15. CASE ResetCmdDone
  BY <1>15 DEF IInv, TypeOK, ControlInv, ResetCmdDone, driver, history
<1>16. CASE ResetDataDone
  BY <1>16 DEF IInv, TypeOK, ControlInv, ResetDataDone, driver, history
<1>17. CASE UNCHANGED vars
  BY <1>17 DEF IInv, TypeOK, ControlInv, vars
<1>18. QED
  BY <1>1, <1>2, <1>3, <1>4, <1>5, <1>6, <1>7, <1>8, <1>9, <1>10, <1>11,
     <1>12, <1>13, <1>14, <1>15, <1>16, <1>17
  DEF Next, sendCommand, resetCmdData

\* What a RESPONSE bit stands for.
LEMMA TrustStep == IInv /\ [Next]_vars => (TrustInv /\ Pending)'
<1> USE SDHCIAssumption DEF Bus!None
<1> SUFFICES ASSUME IInv, [Next]_vars PROVE (TrustInv /\ Pending)'
  OBVIOUS
<1>1. CASE sendCmd
  BY <1>1 DEF IInv, TypeOK, ControlInv, TrustInv, Pending, Rest, Clean,
      sendCmd, controller, history
<1>2. CASE waitCmdInhibit
  BY <1>2 DEF IInv, TypeOK, ControlInv, TrustInv, Pending, Rest, Clean,
      waitCmdInhibit, Again, controller, history
<1>3. CASE Issue
  BY <1>3 DEF IInv, TypeOK, ControlInv, TrustInv, Pending, Rest, Clean,
      Issue, history
<1>4. CASE SawResponse
  BY <1>4 DEF IInv, TypeOK, ControlInv, TrustInv, Pending, Rest, Clean,
      SawResponse, Acknowledge, history
<1>5. CASE getResponse
  BY <1>5 DEF IInv, TypeOK, ControlInv, TrustInv, Pending, Rest, Clean,
      getResponse, controller, history
<1>6. CASE SawTimeout
  BY <1>6 DEF IInv, TypeOK, ControlInv, TrustInv, Pending, Rest, Clean,
      SawTimeout, Acknowledge, history
<1>7. CASE SawError
  BY <1>7 DEF IInv, TypeOK, ControlInv, TrustInv, Pending, Rest, Clean,
      SawError, OnlyDamage, controller, history
<1>8. CASE SawNothing
  BY <1>8 DEF IInv, TypeOK, ControlInv, TrustInv, Pending, Rest, Clean,
      SawNothing, Again, controller
<1>9. CASE ResetCmd
  BY <1>9 DEF IInv, TypeOK, ControlInv, TrustInv, Pending, Rest, Clean,
      ResetCmd, history
<1>10. CASE ResetCmdWait
  BY <1>10 DEF IInv, TypeOK, ControlInv, TrustInv, Pending, Rest, Clean,
      ResetCmdWait, Again, controller
<1>11. CASE ResetData
  BY <1>11 DEF IInv, TypeOK, ControlInv, TrustInv, Pending, Rest, Clean,
      ResetData, history
<1>12. CASE ResetDataWait
  BY <1>12 DEF IInv, TypeOK, ControlInv, TrustInv, Pending, Rest, Clean,
      ResetDataWait, Again, controller, history
<1>13. CASE Respond
  BY <1>13 DEF IInv, TypeOK, ControlInv, TrustInv, Pending, Rest, Clean,
      Respond, driver, history
<1>14. CASE CardFails
  <2>1. UNCHANGED <<pc, n, issued, srst, trusted>> /\ active /\ ~active'
    BY <1>14 DEF CardFails, driver
  <2>2. \/ /\ "RESPONSE" \in status' <=> "RESPONSE" \in status
           /\ resp' = resp
        \/ resp' = issued /\ ~inhibit'
    BY <1>14 DEF CardFails, Errors
  <2>3. QED
    BY <2>1, <2>2 DEF IInv, TypeOK, ControlInv, TrustInv, Pending, Rest, Clean
<1>15. CASE ResetCmdDone
  BY <1>15 DEF IInv, TypeOK, ControlInv, TrustInv, Pending, Rest, Clean,
      ResetCmdDone, driver, history
<1>16. CASE ResetDataDone
  BY <1>16 DEF IInv, TypeOK, ControlInv, TrustInv, Pending, Rest, Clean,
      ResetDataDone, driver, history
<1>17. CASE UNCHANGED vars
  BY <1>17 DEF IInv, TypeOK, ControlInv, TrustInv, Pending, Rest, Clean, vars
<1>18. QED
  BY <1>1, <1>2, <1>3, <1>4, <1>5, <1>6, <1>7, <1>8, <1>9, <1>10, <1>11,
     <1>12, <1>13, <1>14, <1>15, <1>16, <1>17
  DEF Next, sendCommand, resetCmdData

\* What the caller holds.
LEMMA AnswerStep == IInv /\ [Next]_vars => OwnAnswer'
<1> USE SDHCIAssumption DEF Bus!None
<1> SUFFICES ASSUME IInv, [Next]_vars PROVE OwnAnswer'
  OBVIOUS
<1>1. CASE sendCmd
  BY <1>1 DEF IInv, TypeOK, ControlInv, TrustInv, Pending, OwnAnswer,
      sendCmd, controller, history
<1>2. CASE waitCmdInhibit
  BY <1>2 DEF IInv, TypeOK, ControlInv, TrustInv, Pending, OwnAnswer,
      waitCmdInhibit, Again, controller, history
<1>3. CASE Issue
  BY <1>3 DEF IInv, TypeOK, ControlInv, TrustInv, Pending, OwnAnswer, Issue,
      history
<1>4. CASE SawResponse
  BY <1>4 DEF IInv, TypeOK, ControlInv, TrustInv, Pending, OwnAnswer,
      SawResponse, Acknowledge, history
<1>5. CASE getResponse
  BY <1>5 DEF IInv, TypeOK, ControlInv, TrustInv, Pending, OwnAnswer,
      getResponse, controller, history
<1>6. CASE SawTimeout
  BY <1>6 DEF IInv, TypeOK, ControlInv, TrustInv, Pending, OwnAnswer,
      SawTimeout, Acknowledge, history
<1>7. CASE SawError
  BY <1>7 DEF IInv, TypeOK, ControlInv, TrustInv, Pending, OwnAnswer,
      SawError, OnlyDamage, controller, history
<1>8. CASE SawNothing
  BY <1>8 DEF IInv, TypeOK, ControlInv, TrustInv, Pending, OwnAnswer,
      SawNothing, Again, controller
<1>9. CASE ResetCmd
  BY <1>9 DEF IInv, TypeOK, ControlInv, TrustInv, Pending, OwnAnswer,
      ResetCmd, history
<1>10. CASE ResetCmdWait
  BY <1>10 DEF IInv, TypeOK, ControlInv, TrustInv, Pending, OwnAnswer,
      ResetCmdWait, Again, controller
<1>11. CASE ResetData
  BY <1>11 DEF IInv, TypeOK, ControlInv, TrustInv, Pending, OwnAnswer,
      ResetData, history
<1>12. CASE ResetDataWait
  BY <1>12 DEF IInv, TypeOK, ControlInv, TrustInv, Pending, OwnAnswer,
      ResetDataWait, Again, controller, history
<1>13. CASE Respond
  BY <1>13 DEF IInv, TypeOK, ControlInv, TrustInv, Pending, OwnAnswer,
      Respond, driver, history
<1>14. CASE CardFails
  BY <1>14 DEF IInv, TypeOK, ControlInv, TrustInv, Pending, OwnAnswer,
      CardFails, driver
<1>15. CASE ResetCmdDone
  BY <1>15 DEF IInv, TypeOK, ControlInv, TrustInv, Pending, OwnAnswer,
      ResetCmdDone, driver, history
<1>16. CASE ResetDataDone
  BY <1>16 DEF IInv, TypeOK, ControlInv, TrustInv, Pending, OwnAnswer,
      ResetDataDone, driver, history
<1>17. CASE UNCHANGED vars
  BY <1>17 DEF IInv, TypeOK, ControlInv, TrustInv, Pending, OwnAnswer, vars
<1>18. QED
  BY <1>1, <1>2, <1>3, <1>4, <1>5, <1>6, <1>7, <1>8, <1>9, <1>10, <1>11,
     <1>12, <1>13, <1>14, <1>15, <1>16, <1>17
  DEF Next, sendCommand, resetCmdData

\* What a reported failure goes back to.
LEMMA ErrorStep ==
    IInv /\ [Next]_vars => (ErrorsTraced /\ Unreported /\ Poison /\ Settled)'
<1> USE SDHCIAssumption DEF Bus!None
<1> SUFFICES ASSUME IInv, [Next]_vars PROVE (ErrorsTraced /\ Unreported /\ Poison /\ Settled)'
  OBVIOUS
<1>1. CASE sendCmd
  BY <1>1 DEF IInv, TypeOK, ControlInv, TrustInv, Rest, Clean, ErrorsTraced,
      Unreported, Poison, Settled, Errors, Damage, sendCmd, controller,
      history
<1>2. CASE waitCmdInhibit
  BY <1>2 DEF IInv, TypeOK, ControlInv, TrustInv, Rest, Clean, ErrorsTraced,
      Unreported, Poison, Settled, Errors, Damage, waitCmdInhibit, Again,
      controller, history
<1>3. CASE Issue
  BY <1>3 DEF IInv, TypeOK, ControlInv, TrustInv, Rest, Clean, ErrorsTraced,
      Unreported, Poison, Settled, Errors, Damage, Issue, history
<1>4. CASE SawResponse
  BY <1>4 DEF IInv, TypeOK, ControlInv, TrustInv, Rest, Clean, ErrorsTraced,
      Unreported, Poison, Settled, Errors, Damage, SawResponse,
      Acknowledge, history
<1>5. CASE getResponse
  BY <1>5 DEF IInv, TypeOK, ControlInv, TrustInv, Rest, Clean, ErrorsTraced,
      Unreported, Poison, Settled, Errors, Damage, getResponse,
      controller, history
<1>6. CASE SawTimeout
  BY <1>6 DEF IInv, TypeOK, ControlInv, TrustInv, Rest, Clean, ErrorsTraced,
      Unreported, Poison, Settled, Errors, Damage, SawTimeout,
      Acknowledge, history
<1>7. CASE SawError
  BY <1>7 DEF IInv, TypeOK, ControlInv, TrustInv, Rest, Clean, ErrorsTraced,
      Unreported, Poison, Settled, Errors, Damage, SawError, OnlyDamage, controller, history
<1>8. CASE SawNothing
  BY <1>8 DEF IInv, TypeOK, ControlInv, TrustInv, Rest, Clean, ErrorsTraced,
      Unreported, Poison, Settled, Errors, Damage, SawNothing, Again,
      controller
<1>9. CASE ResetCmd
  BY <1>9 DEF IInv, TypeOK, ControlInv, TrustInv, Rest, Clean, ErrorsTraced,
      Unreported, Poison, Settled, Errors, Damage, ResetCmd, history
<1>10. CASE ResetCmdWait
  BY <1>10 DEF IInv, TypeOK, ControlInv, TrustInv, Rest, Clean, ErrorsTraced,
      Unreported, Poison, Settled, Errors, Damage, ResetCmdWait, Again,
      controller
<1>11. CASE ResetData
  BY <1>11 DEF IInv, TypeOK, ControlInv, TrustInv, Rest, Clean, ErrorsTraced,
      Unreported, Poison, Settled, Errors, Damage, ResetData, history
<1>12. CASE ResetDataWait
  BY <1>12 DEF IInv, TypeOK, ControlInv, TrustInv, Rest, Clean, ErrorsTraced,
      Unreported, Poison, Settled, Errors, Damage, ResetDataWait, Again,
      controller, history
<1>13. CASE Respond
  BY <1>13 DEF IInv, TypeOK, ControlInv, TrustInv, Rest, Clean, ErrorsTraced,
      Unreported, Poison, Settled, Errors, Damage, Respond, driver,
      history
<1>14. CASE CardFails
  BY <1>14 DEF IInv, TypeOK, ControlInv, TrustInv, Rest, Clean, ErrorsTraced,
      Unreported, Poison, Settled, Errors, Damage, CardFails, driver
<1>15. CASE ResetCmdDone
  BY <1>15 DEF IInv, TypeOK, ControlInv, TrustInv, Rest, Clean, ErrorsTraced,
      Unreported, Poison, Settled, Errors, Damage, ResetCmdDone, driver,
      history
<1>16. CASE ResetDataDone
  BY <1>16 DEF IInv, TypeOK, ControlInv, TrustInv, Rest, Clean, ErrorsTraced,
      Unreported, Poison, Settled, Errors, Damage, ResetDataDone,
      driver, history
<1>17. CASE UNCHANGED vars
  BY <1>17 DEF IInv, TypeOK, ControlInv, TrustInv, Rest, Clean, ErrorsTraced,
      Unreported, Poison, Settled, Errors, Damage, vars
<1>18. QED
  BY <1>1, <1>2, <1>3, <1>4, <1>5, <1>6, <1>7, <1>8, <1>9, <1>10, <1>11,
     <1>12, <1>13, <1>14, <1>15, <1>16, <1>17
  DEF Next, sendCommand, resetCmdData

\* IInv is an invariant of the driver and its controller.
THEOREM InductiveInvariant == Spec => []IInv
<1>1. IInv /\ [Next]_vars => IInv'
  BY TypeStep, ControlStep, TrustStep, AnswerStep, ErrorStep DEF IInv
<1>2. QED
  BY <1>1, InitIInv, PTL DEF Spec

\* Types, and that no loop polls more often than its bound.
THEOREM TypeCorrect == Spec => []TypeOK
  BY InductiveInvariant, PTL DEF IInv

\* A caller told Success holds its own answer unless a loop of the driver ran
\* out, and never one older than the command before its own.
THEOREM AnswersAreOwn == Spec => []OwnAnswer
  BY InductiveInvariant, PTL DEF IInv

\* Between two calls the controller is ready and holds no RESPONSE, unless a loop of
\* the driver ran out since the last completed reset; INT_STATUS is empty, unless
\* a CRC or END_BIT error has occurred or a loop has ever run out.
THEOREM ReadyBetweenCalls == Spec => []Accepting
<1>1. ASSUME IInv PROVE Accepting
  <2>1. pc = "idle" /\ trusted => Clean
    BY <1>1 DEF IInv, TrustInv, Rest
  <2>2. pc = "idle" /\ trusted /\ ~lapsed /\ status \cap Damage = {} => status = {}
    <3>1. ASSUME pc = "idle", trusted, ~lapsed, status \cap Damage = {}
          PROVE  "RESPONSE" \notin status /\ "TIMEOUT" \notin status
      BY <1>1, <2>1, <3>1 DEF IInv, Settled, Clean
    <3>2. QED
      BY <1>1, <3>1 DEF IInv, TypeOK, Errors, Damage
  <2>3. QED
    BY <2>1, <2>2 DEF Accepting, Clean
<1>2. QED
  BY <1>1, InductiveInvariant, PTL

\* Every timeout of the card is reported once at most; an I/O error leaves its bit
\* behind, and with it only a command answered by its first poll succeeds.
THEOREM ErrorsAreTraced == Spec => []ErrorsTraced
  BY InductiveInvariant, PTL DEF IInv

\* Every step of the driver and the controller is a step of PolledBus.
LEMMA BusStep ==
    IInv /\ [Next]_vars =>
        [Bus!Next]_<<pc # "idle", issued, answer, trusted>>
<1> USE SDHCIAssumption
<1> SUFFICES ASSUME IInv, [Next]_vars, ~UNCHANGED <<pc # "idle", issued, answer, trusted>>
             PROVE  Bus!Next
  OBVIOUS
<1>1. CASE sendCmd
  BY <1>1 DEF IInv, TypeOK, ControlInv, TrustInv, Pending, sendCmd,
      controller, history, Bus!Next, Bus!Call
<1>2. CASE waitCmdInhibit
  BY <1>2 DEF IInv, TypeOK, ControlInv, TrustInv, Pending, waitCmdInhibit,
      Again, controller, history, Bus!Next, Bus!Fail
<1>3. CASE Issue
  BY <1>3 DEF IInv, TypeOK, ControlInv, TrustInv, Pending, Issue, history,
      Bus!Next, Bus!Submit
<1>4. CASE SawResponse
  BY <1>4 DEF IInv, TypeOK, ControlInv, TrustInv, Pending, SawResponse,
      Acknowledge, history
<1>5. CASE getResponse
  BY <1>5 DEF IInv, TypeOK, ControlInv, TrustInv, Pending, getResponse,
      controller, history, Bus!Next, Bus!Answer
<1>6. CASE SawTimeout
  BY <1>6 DEF IInv, TypeOK, ControlInv, TrustInv, Pending, SawTimeout,
      Acknowledge, history
<1>7. CASE SawError
  BY <1>7 DEF IInv, TypeOK, ControlInv, TrustInv, Pending, SawError, OnlyDamage, controller, history
<1>8. CASE SawNothing
  BY <1>8 DEF IInv, TypeOK, ControlInv, TrustInv, Pending, SawNothing,
      Again, controller, Bus!Next, Bus!GiveUp
<1>9. CASE ResetCmd
  BY <1>9 DEF IInv, TypeOK, ControlInv, TrustInv, Pending, ResetCmd, history
<1>10. CASE ResetCmdWait
  BY <1>10 DEF IInv, TypeOK, ControlInv, TrustInv, Pending, ResetCmdWait,
      Again, controller, Bus!Next, Bus!GiveUp, Bus!Recover
<1>11. CASE ResetData
  BY <1>11 DEF IInv, TypeOK, ControlInv, TrustInv, Pending, ResetData, history
<1>12. CASE ResetDataWait
  BY <1>12 DEF IInv, TypeOK, ControlInv, TrustInv, Pending, ResetDataWait,
      Again, controller, history, Bus!Next, Bus!Fail
<1>13. CASE Respond
  BY <1>13 DEF IInv, TypeOK, ControlInv, TrustInv, Pending, Respond, driver,
      history
<1>14. CASE CardFails
  BY <1>14 DEF IInv, TypeOK, ControlInv, TrustInv, Pending, CardFails, driver
<1>15. CASE ResetCmdDone
  BY <1>15 DEF IInv, TypeOK, ControlInv, TrustInv, Pending, ResetCmdDone,
      driver, history
<1>16. CASE ResetDataDone
  BY <1>16 DEF IInv, TypeOK, ControlInv, TrustInv, Pending, ResetDataDone,
      driver, history
<1>17. CASE UNCHANGED vars
  BY <1>17 DEF IInv, TypeOK, ControlInv, TrustInv, Pending, vars
<1>18. QED
  BY <1>1, <1>2, <1>3, <1>4, <1>5, <1>6, <1>7, <1>8, <1>9, <1>10, <1>11,
     <1>12, <1>13, <1>14, <1>15, <1>16, <1>17
  DEF Next, sendCommand, resetCmdData

\* The driver implements PolledBus.
THEOREM SDHCIImplementsBus == Spec => AnswersRequests
<1>1. Init => Bus!Init
  BY DEF Init, Bus!Init
<1>2. QED
  BY <1>1, BusStep, InductiveInvariant, PTL
  DEF Spec, AnswersRequests, Bus!Spec, Bus!vars

-----------------------------------------------------------------------------
(* SPMI.                                                                   *)

SPMIControl ==
    /\ apc \in {"wait", "issue"} => transfer < MaxCommands
    /\ apc = "issue" => ~busy
    /\ apc # "idle" => completion = spmi!Bus!None /\ bytes = <<>>
    /\ apc = "copy" => op = "read"
    /\ apc = "poll" => kind = op

\* The arbiter has nothing to do and nothing to tell.
SPMIClean == astatus = {} /\ ~busy

SPMITrust ==
    atrusted =>
        /\ apc # "poll" => SPMIClean
        /\ apc = "poll" =>
              \/ busy /\ astatus = {}
              \/ ~busy /\ astatus = {"ERROR"}
              \/ /\ ~busy /\ astatus = {"DONE"} /\ served = transfer
                 /\ op = "read" => data = transfer
        /\ apc = "copy" => served = transfer /\ data = transfer

SPMIPending ==
    /\ "DONE" \in astatus /\ apc # "poll" => ~busy /\ served = transfer
    /\ "DONE" \in astatus /\ apc = "poll" =>
          served = transfer - 1 \/ (served = transfer /\ ~busy)
    /\ apc = "copy" => served = transfer - 1 \/ served = transfer
    /\ data = served \/ data = spmi!Stored
    /\ busy /\ kind = "write" => data = spmi!Stored

SPMIInv == spmi!TypeOK /\ SPMIControl /\ SPMITrust /\ SPMIPending /\ spmi!BytesAreOwn

\* start leaves the driver in a state of the invariant.
LEMMA SPMIInit == spmi!Init => SPMIInv
<1>1. ASSUME spmi!Init PROVE spmi!TypeOK
  <2>1. /\ an \in 0..Polls /\ transfer \in 0..MaxCommands
        /\ served \in 0..MaxCommands /\ data \in 0..MaxCommands
        /\ bytes \in Seq(0..MaxCommands \cup {spmi!Stored, spmi!Owner, spmi!Elsewhere})
    BY <1>1, SDHCIAssumption DEF spmi!Init
  <2>2. /\ busy \in BOOLEAN /\ atrusted \in BOOLEAN
        /\ astatus \subseteq {"DONE", "ERROR"}
    BY <1>1, Zenon DEF spmi!Init
  <2>3. QED
    BY <1>1, <2>1, <2>2 DEF spmi!Init, spmi!TypeOK
<1>2. spmi!Init => SPMIControl /\ SPMITrust /\ SPMIPending /\ spmi!BytesAreOwn
  BY DEF spmi!Init, SPMIControl, SPMITrust, SPMIClean, SPMIPending, spmi!BytesAreOwn
<1>3. QED
  BY <1>1, <1>2 DEF SPMIInv

\* Every loop polls within its bound, and the registers keep their types.
LEMMA SPMITypeStep == SPMIInv /\ [spmi!Next]_spmi!vars => spmi!TypeOK'
<1> USE SDHCIAssumption, LengthsAssumption DEF spmi!Bus!None, spmi!Stored
<1> SUFFICES ASSUME SPMIInv, [spmi!Next]_spmi!vars PROVE spmi!TypeOK'
  OBVIOUS
<1>1. CASE \E which \in {"read", "write"}, l \in Lengths : spmi!Call(which, l)
  BY <1>1 DEF SPMIInv, spmi!TypeOK, SPMIControl, spmi!Call, spmi!arbiter
<1>2. CASE spmi!waitForIdle
  BY <1>2 DEF SPMIInv, spmi!TypeOK, SPMIControl, spmi!waitForIdle, spmi!Again,
     spmi!arbiter
<1>3. CASE spmi!Issue
  BY <1>3 DEF SPMIInv, spmi!TypeOK, SPMIControl, spmi!Issue
<1>4. CASE spmi!SawDone
  BY <1>4 DEF SPMIInv, spmi!TypeOK, SPMIControl, spmi!SawDone
<1>5. CASE spmi!Copy
  <2>1. bytes' \in Seq(0..MaxCommands \cup {spmi!Stored, spmi!Owner, spmi!Elsewhere})
    BY <1>5 DEF SPMIInv, spmi!TypeOK, spmi!Copy
  <2>2. QED
    BY <1>5, <2>1 DEF SPMIInv, spmi!TypeOK, SPMIControl, spmi!Copy, spmi!arbiter
<1>6. CASE spmi!SawError
  BY <1>6 DEF SPMIInv, spmi!TypeOK, SPMIControl, spmi!SawError
<1>7. CASE spmi!SawNothing
  <2>1. atrusted' \in BOOLEAN
    BY <1>7, Zenon DEF spmi!SawNothing
  <2>2. QED
    BY <1>7, <2>1 DEF SPMIInv, spmi!TypeOK, spmi!SawNothing, spmi!Again,
       spmi!arbiter
<1>8. CASE spmi!Complete
  BY <1>8 DEF SPMIInv, spmi!TypeOK, SPMIControl, spmi!Complete, spmi!driver
<1>9. CASE spmi!Fault
  BY <1>9 DEF SPMIInv, spmi!TypeOK, SPMIControl, spmi!Fault, spmi!driver
<1>10. CASE UNCHANGED spmi!vars
  BY <1>10 DEF SPMIInv, spmi!TypeOK, SPMIControl, spmi!vars
<1>11. QED
  BY <1>1, <1>2, <1>3, <1>4, <1>5, <1>6, <1>7, <1>8, <1>9, <1>10 DEF spmi!Next,
     spmi!Transfer

\* Where the driver is, and what that says of its command.
LEMMA SPMIControlStep == SPMIInv /\ [spmi!Next]_spmi!vars => SPMIControl'
<1> USE SDHCIAssumption, LengthsAssumption DEF spmi!Bus!None, spmi!Stored
<1> SUFFICES ASSUME SPMIInv, [spmi!Next]_spmi!vars PROVE SPMIControl'
  OBVIOUS
<1>1. CASE \E which \in {"read", "write"}, l \in Lengths : spmi!Call(which, l)
  BY <1>1 DEF SPMIInv, spmi!TypeOK, SPMIControl, spmi!Call, spmi!arbiter
<1>2. CASE spmi!waitForIdle
  BY <1>2 DEF SPMIInv, spmi!TypeOK, SPMIControl, spmi!waitForIdle, spmi!Again,
     spmi!arbiter
<1>3. CASE spmi!Issue
  BY <1>3 DEF SPMIInv, spmi!TypeOK, SPMIControl, spmi!Issue
<1>4. CASE spmi!SawDone
  BY <1>4 DEF SPMIInv, spmi!TypeOK, SPMIControl, spmi!SawDone
<1>5. CASE spmi!Copy
  BY <1>5 DEF SPMIInv, spmi!TypeOK, SPMIControl, spmi!Copy, spmi!arbiter
<1>6. CASE spmi!SawError
  BY <1>6 DEF SPMIInv, spmi!TypeOK, SPMIControl, spmi!SawError
<1>7. CASE spmi!SawNothing
  BY <1>7 DEF SPMIInv, spmi!TypeOK, SPMIControl, spmi!SawNothing, spmi!Again,
     spmi!arbiter
<1>8. CASE spmi!Complete
  BY <1>8 DEF SPMIInv, spmi!TypeOK, SPMIControl, spmi!Complete, spmi!driver
<1>9. CASE spmi!Fault
  BY <1>9 DEF SPMIInv, spmi!TypeOK, SPMIControl, spmi!Fault, spmi!driver
<1>10. CASE UNCHANGED spmi!vars
  BY <1>10 DEF SPMIInv, spmi!TypeOK, SPMIControl, spmi!vars
<1>11. QED
  BY <1>1, <1>2, <1>3, <1>4, <1>5, <1>6, <1>7, <1>8, <1>9, <1>10 DEF spmi!Next,
     spmi!Transfer

\* Which command a completion in the status register belongs to.
LEMMA SPMITrustStep == SPMIInv /\ [spmi!Next]_spmi!vars => (SPMITrust /\ SPMIPending)'
<1> USE SDHCIAssumption, LengthsAssumption DEF spmi!Bus!None, spmi!Stored
<1> SUFFICES ASSUME SPMIInv, [spmi!Next]_spmi!vars PROVE (SPMITrust /\ SPMIPending)'
  OBVIOUS
<1>1. CASE \E which \in {"read", "write"}, l \in Lengths : spmi!Call(which, l)
  BY <1>1 DEF SPMIInv, spmi!TypeOK, SPMIControl, SPMITrust, SPMIClean, SPMIPending,
     spmi!Call, spmi!arbiter
<1>2. CASE spmi!waitForIdle
  BY <1>2 DEF SPMIInv, spmi!TypeOK, SPMIControl, SPMITrust, SPMIClean, SPMIPending,
     spmi!waitForIdle, spmi!Again, spmi!arbiter
<1>3. CASE spmi!Issue
  BY <1>3 DEF SPMIInv, spmi!TypeOK, SPMIControl, SPMITrust, SPMIClean, SPMIPending,
     spmi!Issue
<1>4. CASE spmi!SawDone
  BY <1>4 DEF SPMIInv, spmi!TypeOK, SPMIControl, SPMITrust, SPMIClean, SPMIPending,
     spmi!SawDone
<1>5. CASE spmi!Copy
  BY <1>5 DEF SPMIInv, spmi!TypeOK, SPMIControl, SPMITrust, SPMIClean, SPMIPending,
     spmi!Copy, spmi!arbiter
<1>6. CASE spmi!SawError
  BY <1>6 DEF SPMIInv, spmi!TypeOK, SPMIControl, SPMITrust, SPMIClean, SPMIPending,
     spmi!SawError
<1>7. CASE spmi!SawNothing
  BY <1>7 DEF SPMIInv, spmi!TypeOK, SPMIControl, SPMITrust, SPMIClean, SPMIPending,
     spmi!SawNothing, spmi!Again, spmi!arbiter
<1>8. CASE spmi!Complete
  BY <1>8 DEF SPMIInv, spmi!TypeOK, SPMIControl, SPMITrust, SPMIClean, SPMIPending,
     spmi!Complete, spmi!driver
<1>9. CASE spmi!Fault
  BY <1>9 DEF SPMIInv, spmi!TypeOK, SPMIControl, SPMITrust, SPMIClean, SPMIPending,
     spmi!Fault, spmi!driver
<1>10. CASE UNCHANGED spmi!vars
  BY <1>10 DEF SPMIInv, spmi!TypeOK, SPMIControl, SPMITrust, SPMIClean, SPMIPending,
     spmi!vars
<1>11. QED
  BY <1>1, <1>2, <1>3, <1>4, <1>5, <1>6, <1>7, <1>8, <1>9, <1>10 DEF spmi!Next,
     spmi!Transfer

\* What the caller of pmicRead holds.
LEMMA SPMIBytesStep == SPMIInv /\ [spmi!Next]_spmi!vars => spmi!BytesAreOwn'
<1> USE SDHCIAssumption, LengthsAssumption DEF spmi!Bus!None, spmi!Stored
<1> SUFFICES ASSUME SPMIInv, [spmi!Next]_spmi!vars PROVE spmi!BytesAreOwn'
  OBVIOUS
<1>1. CASE \E which \in {"read", "write"}, l \in Lengths : spmi!Call(which, l)
  BY <1>1 DEF SPMIInv, spmi!TypeOK, SPMIControl, SPMITrust, spmi!BytesAreOwn,
     spmi!Call, spmi!arbiter
<1>2. CASE spmi!waitForIdle
  BY <1>2 DEF SPMIInv, spmi!TypeOK, SPMIControl, SPMITrust, spmi!BytesAreOwn,
     spmi!waitForIdle, spmi!Again, spmi!arbiter
<1>3. CASE spmi!Issue
  BY <1>3 DEF SPMIInv, spmi!TypeOK, SPMIControl, SPMITrust, spmi!BytesAreOwn,
     spmi!Issue
<1>4. CASE spmi!SawDone
  BY <1>4 DEF SPMIInv, spmi!TypeOK, SPMIControl, SPMITrust, spmi!BytesAreOwn,
     spmi!SawDone
<1>5. CASE spmi!Copy
  BY <1>5 DEF SPMIInv, spmi!TypeOK, SPMIControl, SPMITrust, SPMIPending,
     spmi!BytesAreOwn, spmi!Copy, spmi!arbiter
<1>6. CASE spmi!SawError
  BY <1>6 DEF SPMIInv, spmi!TypeOK, SPMIControl, SPMITrust, spmi!BytesAreOwn,
     spmi!SawError
<1>7. CASE spmi!SawNothing
  BY <1>7 DEF SPMIInv, spmi!TypeOK, SPMIControl, SPMITrust, spmi!BytesAreOwn,
     spmi!SawNothing, spmi!Again, spmi!arbiter
<1>8. CASE spmi!Complete
  BY <1>8 DEF SPMIInv, spmi!TypeOK, SPMIControl, SPMITrust, spmi!BytesAreOwn,
     spmi!Complete, spmi!driver
<1>9. CASE spmi!Fault
  BY <1>9 DEF SPMIInv, spmi!TypeOK, SPMIControl, SPMITrust, spmi!BytesAreOwn,
     spmi!Fault, spmi!driver
<1>10. CASE UNCHANGED spmi!vars
  BY <1>10 DEF SPMIInv, spmi!TypeOK, SPMIControl, SPMITrust, spmi!BytesAreOwn,
     spmi!vars
<1>11. QED
  BY <1>1, <1>2, <1>3, <1>4, <1>5, <1>6, <1>7, <1>8, <1>9, <1>10 DEF spmi!Next,
     spmi!Transfer

\* SPMIInv is an invariant of the driver and the arbiter.
THEOREM SPMIInvariant == spmi!Spec => []SPMIInv
<1>1. SPMIInv /\ [spmi!Next]_spmi!vars => SPMIInv'
  BY SPMITypeStep, SPMIControlStep, SPMITrustStep, SPMIBytesStep DEF SPMIInv
<1>2. QED
  BY <1>1, SPMIInit, PTL DEF spmi!Spec

\* Whichever of the two moves, each of them behaves as its specification says.
LEMMA DriversAreDrivers == DriversSpec => Spec /\ spmi!Spec
<1>1. DriversInit => Init /\ spmi!Init
  BY DEF DriversInit
<1>2. [DriversNext]_all => [Next]_vars /\ [spmi!Next]_spmi!vars
  BY DEF DriversNext, MoveSDHCI, MoveSPMI, all, spmiVars, spmi!vars
<1>3. QED
  BY <1>1, <1>2, PTL DEF DriversSpec, Spec, spmi!Spec

\* The first byte that pmicRead returns is that of its own read, and no completion
\* is left between two calls, unless a poll loop ran out; no loop polls more than
\* Polls times.
THEOREM TransfersAreSound == DriversSpec => []TransfersSound
<1>1. SPMIInv => spmi!NothingLeft
  BY DEF SPMIInv, SPMITrust, SPMIClean, spmi!NothingLeft
<1>2. SPMIInv => TransfersSound
  BY <1>1 DEF SPMIInv, TransfersSound, spmi!TransfersSound
<1>3. QED
  BY <1>2, SPMIInvariant, DriversAreDrivers, PTL

\* Every step of the driver and the arbiter is a step of PolledBus or stutters.
LEMMA SPMIBusStep ==
    SPMIInv /\ [spmi!Next]_spmi!vars =>
        [spmi!Bus!Next]_<<apc # "idle", transfer, completion, atrusted>>
<1> USE SDHCIAssumption, LengthsAssumption DEF spmi!Bus!None, spmi!Stored
<1> SUFFICES ASSUME SPMIInv, [spmi!Next]_spmi!vars
             PROVE  [spmi!Bus!Next]_<<apc # "idle", transfer, completion, atrusted>>
  OBVIOUS
<1>1. CASE \E which \in {"read", "write"}, l \in Lengths : spmi!Call(which, l)
  BY <1>1 DEF SPMIInv, spmi!TypeOK, SPMIControl, SPMITrust, SPMIPending, spmi!Call,
     spmi!arbiter, spmi!Bus!Next, spmi!Bus!Call
<1>2. CASE spmi!waitForIdle
  BY <1>2 DEF SPMIInv, spmi!TypeOK, SPMIControl, SPMITrust, SPMIPending,
     spmi!waitForIdle, spmi!Again, spmi!arbiter, spmi!Bus!Next, spmi!Bus!Fail
<1>3. CASE spmi!Issue
  BY <1>3 DEF SPMIInv, spmi!TypeOK, SPMIControl, SPMITrust, SPMIPending, spmi!Issue,
     spmi!Bus!Next, spmi!Bus!Submit
<1>4. CASE spmi!SawDone
  BY <1>4 DEF SPMIInv, spmi!TypeOK, SPMIControl, SPMITrust, SPMIPending,
     spmi!SawDone, spmi!Bus!Next, spmi!Bus!Answer, spmi!Bus!Fail
<1>5. CASE spmi!Copy
  BY <1>5 DEF SPMIInv, spmi!TypeOK, SPMIControl, SPMITrust, SPMIPending, spmi!Copy,
     spmi!arbiter, spmi!Bus!Next, spmi!Bus!Answer
<1>6. CASE spmi!SawError
  BY <1>6 DEF SPMIInv, spmi!TypeOK, SPMIControl, SPMITrust, SPMIPending,
     spmi!SawError, spmi!Bus!Next, spmi!Bus!Fail
<1>7. CASE spmi!SawNothing
  BY <1>7 DEF SPMIInv, spmi!TypeOK, SPMIControl, SPMITrust, SPMIPending,
     spmi!SawNothing, spmi!Again, spmi!arbiter, spmi!Bus!Next, spmi!Bus!GiveUp,
     spmi!Bus!Fail
<1>8. CASE spmi!Complete
  BY <1>8 DEF SPMIInv, spmi!TypeOK, SPMIControl, SPMITrust, SPMIPending,
     spmi!Complete, spmi!driver
<1>9. CASE spmi!Fault
  BY <1>9 DEF SPMIInv, spmi!TypeOK, SPMIControl, SPMITrust, SPMIPending, spmi!Fault,
     spmi!driver
<1>10. CASE UNCHANGED spmi!vars
  BY <1>10 DEF SPMIInv, spmi!TypeOK, SPMIControl, SPMITrust, SPMIPending, spmi!vars
<1>11. QED
  BY <1>1, <1>2, <1>3, <1>4, <1>5, <1>6, <1>7, <1>8, <1>9, <1>10 DEF spmi!Next,
     spmi!Transfer

\* The driver implements PolledBus: a write or read told Success has been
\* performed, and without trust its answer is at most one command old.
THEOREM SPMIImplementsBus == DriversSpec => SPMIAnswers
<1>1. spmi!Init => spmi!Bus!Init
  BY DEF spmi!Init, spmi!Bus!Init, spmi!Bus!None
<1>2. spmi!Spec => spmi!AnswersRequests
  BY <1>1, SPMIBusStep, SPMIInvariant, PTL
  DEF spmi!Spec, spmi!AnswersRequests, spmi!Bus!Spec, spmi!Bus!vars
<1>3. QED
  BY <1>2, DriversAreDrivers, PTL DEF SPMIAnswers
=============================================================================
