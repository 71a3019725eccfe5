------------------------------ MODULE MCField ------------------------------
(***************************************************************************)
(* The machines' side for TLC: the RVM controller, remote commands, media, *)
(* captures and the gate of signed requests.  They share no state here, so *)
(* one run checks them side by side: a behaviour follows one part, chosen  *)
(* at the start, and the others rest in an initial state.                  *)
(***************************************************************************)
EXTENDS RvmController, RemoteCommands, MachineMedia, MachineCaptures, MachineGate

VARIABLE part

fieldVars == <<part, rvmVars, commandVars, mediaVars, captureVars, gateVars>>

Init ==
    /\ part \in {"controller", "commands", "media", "captures", "gate"}
    /\ RvmInit /\ CommandInit /\ MediaInit /\ CaptureInit /\ GateInit
    /\ part # "gate" => stamp = [r \in Requests |-> 0]

Next ==
    \/ part = "controller" /\ RvmNext /\ UNCHANGED <<part, commandVars, mediaVars, captureVars, gateVars>>
    \/ part = "commands" /\ CommandNext /\ UNCHANGED <<part, rvmVars, mediaVars, captureVars, gateVars>>
    \/ part = "media" /\ MediaNext /\ UNCHANGED <<part, rvmVars, commandVars, captureVars, gateVars>>
    \/ part = "captures" /\ CaptureNext /\ UNCHANGED <<part, rvmVars, commandVars, mediaVars, gateVars>>
    \/ part = "gate" /\ GateNext /\ UNCHANGED <<part, rvmVars, commandVars, mediaVars, captureVars>>

\* CommandFairness, for the behaviours that follow the commands.
Fairness ==
    /\ \A h \in Handlers : WF_commandVars(part = "commands" /\ Serve(h))
    /\ WF_commandVars(part = "commands" /\ MachineWorks)
    /\ \A c \in CommandIds : WF_commandVars(part = "commands" /\ Expires(c))

Spec == Init /\ [][Next]_fieldVars /\ Fairness

\* What a machine shows or gives up is backed by a file on the other side:
\* every item of the playlist in use is in the cache, and every capture the
\* machine no longer offers is on the server (rvm/sync.py, rvm/camera.py).
FilesBacked == PlaylistPlayable /\ CaptureSentIsStored
=============================================================================
