-------------------------------- MODULE Gate --------------------------------
(***************************************************************************)
(* What go/sync/toggle.go promises its callers, without mutex or channel:  *)
(* a gate that is on or off and may be shut.  Passing it is atomic and     *)
(* leaves it as it was: a goroutine waits and then, in one step, passes    *)
(* while the gate is on, gives up, or is refused because it is shut.  A    *)
(* gate that is shut while on may still let goroutines pass.               *)
(***************************************************************************)
CONSTANT Goroutines

VARIABLES
    on,       \* whether Wait()ers may pass
    shut,     \* whether the gate has been closed
    status    \* "out", "waiting", or how the last Wait() ended

gateVars == <<on, shut, status>>

Ended == {"passed", "gaveUp", "refused"}

GateInit ==
    /\ on = FALSE
    /\ shut = FALSE
    /\ status = [g \in Goroutines |-> "out"]

Enter(g) ==
    /\ status[g] # "waiting"
    /\ status' = [status EXCEPT ![g] = "waiting"]
    /\ UNCHANGED <<on, shut>>

Pass(g) ==
    /\ status[g] = "waiting"
    /\ on
    /\ status' = [status EXCEPT ![g] = "passed"]
    /\ UNCHANGED <<on, shut>>

GiveUp(g) ==
    /\ status[g] = "waiting"
    /\ status' = [status EXCEPT ![g] = "gaveUp"]
    /\ UNCHANGED <<on, shut>>

Refuse(g) ==
    /\ status[g] = "waiting"
    /\ shut
    /\ status' = [status EXCEPT ![g] = "refused"]
    /\ UNCHANGED <<on, shut>>

\* g turns to something else than waiting.
Leave(g) ==
    /\ status[g] \in Ended
    /\ status' = [status EXCEPT ![g] = "out"]
    /\ UNCHANGED <<on, shut>>

\* A gate that is shut is never turned on any more.
Flip ==
    /\ on \/ ~shut
    /\ on' = ~on
    /\ UNCHANGED <<shut, status>>

Shut ==
    /\ ~shut
    /\ shut' = TRUE
    /\ UNCHANGED <<on, status>>

GateNext ==
    \/ \E g \in Goroutines :
         Enter(g) \/ Pass(g) \/ GiveUp(g) \/ Refuse(g) \/ Leave(g)
    \/ Flip
    \/ Shut

GateSpec == GateInit /\ [][GateNext]_gateVars

=============================================================================
