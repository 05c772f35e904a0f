---------------------------- MODULE SessionPolicy ----------------------------
(***************************************************************************)
(* What the firmware promises about its sessions, whatever WiFi, BLE and   *)
(* WebRTC do: somebody is identified before a session opens, the verdict   *)
(* decides the kind of the session, an intruder is reported before the     *)
(* session that watches him, and the mode of the next boot (nvs) moves     *)
(* only for a reason.  Orchestrator implements it.                         *)
(***************************************************************************)

VARIABLES
    phase,   \* where the device is between two sessions
    mode,    \* the kind of the session that is open or closing
    nvs      \* the operation mode the next boot will read

Phases == {"idle", "verify", "failed", "owner", "intruder", "session",
           "closing", "rearm", "fatal"}

policyVars == <<phase, mode, nvs>>

PolicyTypeOK ==
    /\ phase \in Phases
    /\ mode \in {"none", "FRIENDLY", "VIGILANTE"}
    /\ nvs \in {"DIRECTO", "CENTINELA"}

PolicyInit ==
    /\ phase = "idle" /\ mode = "none"
    /\ nvs \in {"DIRECTO", "CENTINELA"}

StartVerifying == phase = "idle" /\ phase' = "verify" /\ UNCHANGED <<mode, nvs>>

\* The owner's phone answers: the next boot need not be armed.
RecogniseOwner ==
    /\ phase = "verify" /\ phase' = "owner"
    /\ nvs' \in {nvs, "DIRECTO"} /\ UNCHANGED mode

RecogniseIntruder ==
    /\ phase = "verify" /\ phase' = "intruder" /\ UNCHANGED <<mode, nvs>>

VerificationFails ==
    /\ phase = "verify" /\ phase' = "failed" /\ UNCHANGED <<mode, nvs>>

\* The verdict alone decides the kind of the session.
OpenSession ==
    /\ phase' = "session" /\ UNCHANGED nvs
    /\ \/ phase = "owner" /\ mode' = "FRIENDLY"
       \/ phase = "intruder" /\ mode' = "VIGILANTE"

CloseSession ==
    /\ phase = "session" /\ phase' = "closing" /\ UNCHANGED <<mode, nvs>>

\* A muted owner who stays away: identify him again and choose the next boot.
Rearm ==
    /\ phase = "closing" /\ phase' = "rearm" /\ mode' = "none" /\ UNCHANGED nvs

\* WiFi is lost, BLE fails, or a friendly session has closed.
StandDown ==
    /\ phase \notin {"rearm", "fatal"} /\ phase' = "idle"
    /\ mode' = "none" /\ UNCHANGED nvs

\* A Vigilante session has closed: the next boot is armed.
RestartArmed ==
    /\ phase = "closing" /\ mode = "VIGILANTE"
    /\ phase' = "idle" /\ mode' = "none" /\ nvs' = "CENTINELA"

RestartRearmed ==
    /\ phase = "rearm" /\ phase' = "idle" /\ mode' = "none"
    /\ nvs' \in {"DIRECTO", "CENTINELA"}

PowerFails == phase' = "idle" /\ mode' = "none" /\ UNCHANGED nvs

\* The user presses the kill switch; the restart comes a moment later.
ArmByHand == nvs' = "CENTINELA" /\ UNCHANGED <<phase, mode>>

GiveUp == phase' = "fatal" /\ mode' = "none" /\ UNCHANGED nvs

PolicyNext ==
    \/ StartVerifying \/ RecogniseOwner \/ RecogniseIntruder \/ VerificationFails
    \/ OpenSession \/ CloseSession \/ Rearm \/ StandDown \/ RestartArmed
    \/ RestartRearmed \/ PowerFails \/ ArmByHand \/ GiveUp

PolicySpec == PolicyInit /\ [][PolicyNext]_policyVars
=============================================================================
