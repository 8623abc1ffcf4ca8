------------------------------ MODULE PolledBus ------------------------------
(***************************************************************************)
(* What a driver that polls a controller promises its caller.              *)
(*                                                                         *)
(* One request is handed to the controller at a time.  A request ends with *)
(* its own answer, or with a failure.  A request that is given up by       *)
(* counting polls leaves its answer behind: from then on, until the        *)
(* controller has been reset, a request may end with the answer of the     *)
(* request before it, but never with an older one.                         *)
(***************************************************************************)
EXTENDS Integers

CONSTANT MaxRequests   \* bound: requests handed to the controller

VARIABLES
    calling,   \* a request is being served
    request,   \* number of the last request handed to the controller
    answer,    \* the request whose answer the caller was given, None: failed
    trusted    \* nothing given up since the controller was last reset

None == -1
vars == <<calling, request, answer, trusted>>

TypeOK ==
    /\ calling \in BOOLEAN
    /\ request \in 0..MaxRequests
    /\ answer \in 0..MaxRequests \cup {None}
    /\ trusted \in BOOLEAN

Init ==
    /\ calling = FALSE
    /\ request = 0
    /\ answer = None
    /\ trusted = TRUE

Call ==
    /\ ~calling
    /\ calling' = TRUE
    /\ answer' = None
    /\ UNCHANGED <<request, trusted>>

Submit ==
    /\ calling
    /\ request < MaxRequests
    /\ request' = request + 1
    /\ UNCHANGED <<calling, answer, trusted>>

Answer ==
    /\ calling
    /\ calling' = FALSE
    /\ \/ answer' = request
       \/ ~trusted /\ answer' = request - 1
    /\ UNCHANGED <<request, trusted>>

GiveUp ==
    /\ calling
    /\ trusted' = FALSE
    /\ calling' \in BOOLEAN
    /\ UNCHANGED <<request, answer>>

Fail ==
    /\ calling
    /\ calling' = FALSE
    /\ UNCHANGED <<request, answer, trusted>>

Recover ==
    /\ trusted' = TRUE
    /\ UNCHANGED <<calling, request, answer>>

Next == Call \/ Submit \/ Answer \/ GiveUp \/ Fail \/ Recover

Spec == Init /\ [][Next]_vars
=============================================================================
