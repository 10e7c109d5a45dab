---------------------------- MODULE CommandExchange ----------------------------
(* What `ControllerAdapter::exec` promises its callers, whatever slot, signal *)
(* and channel it uses: commands go to the controller one at a time, and a    *)
(* call returns the controller's answer to its own command.                   *)

CONSTANTS Clients, Commands, None

VARIABLES
  phase,      \* how far the call of each client is
  request,    \* the command it is executing, if any
  got         \* what the last call to end returned

vars == <<phase, request, got>>

Phases == {"idle", "waiting", "sent", "answered"}

Init ==
  /\ phase = [c \in Clients |-> "idle"]
  /\ request = [c \in Clients |-> None]
  /\ got = None

Request(c, command) ==
  /\ phase[c] = "idle"
  /\ phase' = [phase EXCEPT ![c] = "waiting"]
  /\ request' = [request EXCEPT ![c] = command]
  /\ UNCHANGED got

(* The controller has no other command in hand.                               *)
Send(c) ==
  /\ phase[c] = "waiting"
  /\ \A other \in Clients : phase[other] \notin {"sent", "answered"}
  /\ phase' = [phase EXCEPT ![c] = "sent"]
  /\ UNCHANGED <<request, got>>

Answer(c) ==
  /\ phase[c] = "sent"
  /\ phase' = [phase EXCEPT ![c] = "answered"]
  /\ UNCHANGED <<request, got>>

Return(c) ==
  /\ phase[c] = "answered"
  /\ phase' = [phase EXCEPT ![c] = "idle"]
  /\ request' = [request EXCEPT ![c] = None]
  /\ got' = request[c]

Next ==
  \E c \in Clients :
    \/ \E command \in Commands : Request(c, command)
    \/ Send(c)
    \/ Answer(c)
    \/ Return(c)

Spec == Init /\ [][Next]_vars
===============================================================================
