---------------------------- MODULE PolledDrivers ----------------------------
(***************************************************************************)
(* The two drivers that poll a controller, side by side: SDHCI and SPMI.   *)
(* They share no state and none calls the other, so that steps of the two  *)
(* commute, and a behaviour in which one of them moves (part) shows all    *)
(* that can happen to it.  The other stays in its initial state.           *)
(***************************************************************************)
EXTENDS SDHCI, Sequences

CONSTANT Lengths   \* the lengths that callers of pmicRead and pmicWrite ask for

ASSUME LengthsAssumption == Lengths \subseteq Nat

VARIABLES
    part,                                             \* the driver that moves
    apc, op, len, an, transfer, busy, kind, astatus,  \* SPMI
    served, data, owner, completion, bytes, atrusted

spmi == INSTANCE SPMI
           WITH MaxTransfers <- MaxCommands, pc <- apc, n <- an, issued <- transfer,
                status <- astatus, answer <- completion, trusted <- atrusted

spmiVars == <<apc, op, len, an, transfer, busy, kind, astatus, served, data, owner,
              completion, bytes, atrusted>>
all == <<part, vars, spmiVars>>

DriversInit == part \in {"sdhci", "spmi"} /\ Init /\ spmi!Init

MoveSDHCI(A) == part = "sdhci" /\ A /\ UNCHANGED <<part, spmiVars>>
MoveSPMI(A) == part = "spmi" /\ A /\ UNCHANGED <<part, vars>>

DriversNext == MoveSDHCI(Next) \/ MoveSPMI(spmi!Next)

DriversSpec == DriversInit /\ [][DriversNext]_all
\* The thread that called a driver keeps running; nothing is assumed of the
\* controllers.
FairDriversSpec ==
    DriversSpec /\ WF_all(MoveSDHCI(sendCommand)) /\ WF_all(MoveSPMI(spmi!Transfer))

-----------------------------------------------------------------------------
(* Properties.  Those of the SDHCI driver are in its module.               *)

\* What holds at any time of pmicRead and pmicWrite: the types; the first byte that
\* pmicRead hands out is that of this very read, and between two calls no completion
\* is left in the status register, unless a poll loop ran out.
TransfersSound == part = "spmi" => spmi!TransfersSound

\* pmicRead and pmicWrite complete or fail every request as PolledBus says.
SPMIAnswers == spmi!AnswersRequests

\* pmicRead and pmicWrite return whatever the arbiter does.
SPMICallReturns == spmi!CallReturns
=============================================================================
