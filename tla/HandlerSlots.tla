---------------------------- MODULE HandlerSlots ----------------------------
(***************************************************************************)
(* HTTP handlers in progress.  A handler runs undisturbed from one await   *)
(* to the next; call[w] says which database call the handler in slot w is  *)
(* about to make and holds its local variables.  A request that is refused *)
(* before it has changed anything does not appear.  Any call may fail, and *)
(* then the handler throws; when the process is restarted, the handlers in *)
(* progress are lost.  A scheduled job is a handler, too.                  *)
(***************************************************************************)
EXTENDS Naturals

CONSTANTS
    Slots,      \* how many handlers may be in progress at a time
    MaxCalls,   \* bound: requests made
    MaxRestarts \* bound: restarts of the process

VARIABLES
    call,       \* slot |-> the handler in progress
    calls,      \* requests made so far
    restarts    \* restarts so far

ASSUME SlotsAssumption == MaxCalls \in Nat /\ MaxRestarts \in Nat

slotVars == <<call, calls, restarts>>

Idle == [op |-> "idle"]

\* A request arrives, its first checks pass, and c is what it will do next.
Begin(w, c) ==
    /\ call[w] = Idle
    /\ calls < MaxCalls
    /\ call' = [call EXCEPT ![w] = c]
    /\ calls' = calls + 1
    /\ UNCHANGED restarts

\* The handler returned from one call and is about to make the next.
GoOn(w, c) ==
    /\ call' = [call EXCEPT ![w] = c]
    /\ UNCHANGED <<calls, restarts>>

\* The handler answers, or throws.
Return(w) == GoOn(w, Idle)

LoseCalls ==
    /\ restarts < MaxRestarts
    /\ restarts' = restarts + 1
    /\ call' = [w \in Slots |-> Idle]
    /\ UNCHANGED calls

SlotsInit ==
    /\ call = [w \in Slots |-> Idle]
    /\ calls = 0
    /\ restarts = 0
=============================================================================
