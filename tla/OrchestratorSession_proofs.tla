---------------------- MODULE OrchestratorSession_proofs ----------------------
(***************************************************************************)
(* Every session is the one its verdict asked for: the microphone guard    *)
(* follows the kind of session, and the orchestrator keeps the session     *)
(* policy.                                                                 *)
(***************************************************************************)
EXTENDS Orchestrator_proofs

USE DEF alertVars, modeVars, muteVars, bootVars, sensorVars, bleVars, rtcVars,
        ndVars, timerVars, wifiVars, ownVars, vars, taskFrame

\* What the policy and its invariant are about.
sessionVars == <<state, alertPending, pendingMode, ignitionMode, activeMode,
                 releaseToSleep, vigMute, bootMode, nvsMode, killing>>

VerdictPending ==
    /\ alertPending <=> pendingMode = "VIGILANTE"
    /\ alertPending => state \in {"RELEASING_BLE", "DISPATCHING_ALERT", "FATAL_ERROR"}
    /\ state = "DISPATCHING_ALERT" => alertPending /\ vigMute
    /\ state = "RELEASING_BLE" =>
         IF releaseToSleep THEN ~alertPending ELSE (vigMute <=> alertPending)
    /\ state = "NET_DISCOVERY_SCAN" => ignitionMode = "FRIENDLY" /\ ~vigMute

ActiveModeHeld ==
    activeMode = "VIGILANTE" =>
        state \in {"IGNITING", "ACTIVE", "STOPPING_WEBRTC", "TEARING_DOWN_UI_FOR_SCAN",
                   "AUTO_ARM_BLE_SCANNING", "FATAL_ERROR"}

\* The inductive invariant.  A verdict lives in pendingMode until the session is
\* ignited and in activeMode from then on; in between, the microphone guard is
\* the only trace of it that IGNITING does not write.
SessionInv == VerdictPending /\ ActiveModeHeld /\ VigilanteMuteMatches

\* The tasks, the timers and the drivers leave all of this alone.
OtherStep ==
    \/ PrepTaskStep \/ RelTaskStep \/ StopTaskStep \/ AlertTaskStep
    \/ CooldownTaskStep \/ CooldownElapses \/ ScanTaskStep
    \/ NdTimerFires \/ RamTimerFires \/ IdleTimerFires \/ NdScanEnds \/ MotionSensed
    \/ RtcConnects \/ RtcDrops \/ ApiRejects \/ MicRequested
    \/ WifiConnects \/ WifiDisconnects

LEMMA OthersKeepSession == OtherStep => UNCHANGED sessionVars
  <1> USE DEF sessionVars
  <1>1. CASE PrepTaskStep
    BY <1>1 DEF PrepTaskStep, PrepPreclean, PrepBringUp, PrepCheck, PrepPosts, PrepEnds
  <1>2. CASE RelTaskStep
    BY <1>2 DEF RelTaskStep, RelReleases, RelPosts, RelEnds
  <1>3. CASE StopTaskStep
    BY <1>3 DEF StopTaskStep, StopCloses, StopPosts, StopEnds
  <1>4. CASE AlertTaskStep
    BY <1>4 DEF AlertTaskStep, AlertPosts, AlertEnds
  <1>5. CASE CooldownTaskStep \/ CooldownElapses
    BY <1>5 DEF CooldownTaskStep, CooldownShows, CooldownChecks, CooldownArms,
          CooldownElapses
  <1>6. CASE ScanTaskStep
    BY <1>6 DEF ScanTaskStep, ScanStarts, ScanEnds
  <1>7. CASE NdTimerFires \/ RamTimerFires \/ IdleTimerFires \/ NdScanEnds \/ MotionSensed
    BY <1>7 DEF NdTimerFires, RamTimerFires, IdleTimerFires, NdScanEnds, MotionSensed
  <1>8. CASE RtcConnects \/ RtcDrops \/ ApiRejects \/ MicRequested
    BY <1>8 DEF RtcConnects, RtcDrops, ApiRejects, MicRequested
  <1>9. CASE WifiConnects \/ WifiDisconnects
    BY <1>9 DEF WifiConnects, WifiDisconnects
  <1> QED BY <1>1, <1>2, <1>3, <1>4, <1>5, <1>6, <1>7, <1>8, <1>9 DEF OtherStep

\* The whole next-state relation, seen from the session.
RestartStep == RebootTimerFires \/ KillSwitchRestarts \/ PowerCycle

LEMMA NextSplits ==
    Next => OrchestratorStep \/ IdleAutoMute \/ VigilanteEnds \/ OtherStep
            \/ KillSwitchWrites \/ RestartStep
  BY DEF Next, OtherStep, RestartStep, TimerStep

LEMMA RestartReboots == RestartStep => Reboot(nvsMode)
  BY DEF RestartStep, RebootTimerFires, KillSwitchRestarts, PowerCycle

LEMMA SessionReboot == ASSUME NEW m, Reboot(m) PROVE SessionInv'
  BY DEF Reboot, SessionInv, VerdictPending, ActiveModeHeld, VigilanteMuteMatches

LEMMA SessionSleep == ASSUME NEW q, EnterSleep(q) PROVE SessionInv'
  <1>1. CASE activeMode = "VIGILANTE"
    BY <1>1, SessionReboot DEF EnterSleep
  <1>2. CASE activeMode # "VIGILANTE"
    BY <1>2 DEF EnterSleep, ResetAlertContext, ResetVigilanteContext, SessionInv,
                VerdictPending, ActiveModeHeld, VigilanteMuteMatches
  <1> QED BY <1>1, <1>2

LEMMA SessionOrchestrator ==
    TypeOK /\ SessionInv /\ (OrchestratorStep \/ IdleAutoMute \/ VigilanteEnds) => SessionInv'
  <1> SUFFICES ASSUME FlagsOK, PhasesOK, SessionInv,
                      OrchestratorStep \/ IdleAutoMute \/ VigilanteEnds
               PROVE  SessionInv'
    BY DEF TypeOK
  <1> USE DEF SessionInv, VerdictPending, ActiveModeHeld, VigilanteMuteMatches
  <1>1. CASE OnWifiDisconnected
    BY <1>1 DEF OnWifiDisconnected, EnterWaitWifi, ResetAlertContext,
          ResetVigilanteContext, WifiStates, FlagsOK, PhasesOK, SessionModes
  <1>2. CASE OnWifiConnected
    BY <1>2, SessionSleep DEF OnWifiConnected, EnterPreparingBle, FlagsOK, PhasesOK, SessionModes
  <1>3. CASE OnMotionInSleep
    BY <1>3 DEF OnMotionInSleep, EnterPreparingBle, FlagsOK, PhasesOK, SessionModes
  <1>4. CASE OnBleReady
    BY <1>4 DEF OnBleReady, EnterValidatingIdentity, FlagsOK, PhasesOK, SessionModes
  <1>5. CASE OnBleBusyPreparing
    BY <1>5, SessionSleep DEF OnBleBusyPreparing, FlagsOK, PhasesOK, SessionModes
  <1>6. CASE OnIdentityPresent
    BY <1>6 DEF OnIdentityPresent, SetOperationMode, SetVigilanteMute, EnterReleasingBle,
          FlagsOK, PhasesOK, SessionModes
  <1>7. CASE OnIdentityRejected
    BY <1>7 DEF OnIdentityRejected, SetVigilanteMute, EnterReleasingBle, FlagsOK, PhasesOK,
          SessionModes
  <1>8. CASE OnBleBusyValidating
    BY <1>8 DEF OnBleBusyValidating, ResetAlertContext, EnterReleasingBle, FlagsOK,
          PhasesOK, SessionModes
  <1>9. CASE OnBleReleaseComplete
    <2>1. CASE releaseToSleep
      <3>1. EnterSleep(Tail(queue))
        BY <1>9, <2>1 DEF OnBleReleaseComplete
      <3> QED BY <3>1, SessionSleep
    <2>2. CASE ~releaseToSleep /\ alertPending
      <3>1. state = "RELEASING_BLE" /\ state' = "DISPATCHING_ALERT"
        BY <1>9, <2>2 DEF OnBleReleaseComplete, EnterDispatchingAlert
      <3>2. /\ alertPending' = alertPending /\ pendingMode' = pendingMode
            /\ vigMute' = vigMute /\ activeMode' = activeMode
        BY <1>9, <2>2 DEF OnBleReleaseComplete
      <3> QED BY <2>2, <3>1, <3>2
    <2>3. CASE ~releaseToSleep /\ ~alertPending
      <3>1. state = "RELEASING_BLE" /\ state' = "NET_DISCOVERY_SCAN"
        BY <1>9, <2>3 DEF OnBleReleaseComplete, EnterNetDiscoveryScan
      <3>2. /\ alertPending' = alertPending /\ pendingMode' = pendingMode
            /\ vigMute' = vigMute /\ activeMode' = activeMode
            /\ ignitionMode' = pendingMode
        BY <1>9, <2>3 DEF OnBleReleaseComplete
      <3> QED BY <2>3, <3>1, <3>2 DEF PhasesOK, SessionModes
    <2> QED BY <2>1, <2>2, <2>3
  <1>10. CASE OnBleReleaseFailed
    BY <1>10, SessionSleep DEF OnBleReleaseFailed, FlagsOK, PhasesOK, SessionModes
  <1>11. CASE OnNetDiscoveryEnds
    BY <1>11 DEF OnNetDiscoveryEnds, EnterIgniting, FlagsOK, PhasesOK, SessionModes
  <1>12. CASE OnAlertResult
    BY <1>12 DEF OnAlertResult, ResetAlertContext, EnterIgniting, FlagsOK, PhasesOK,
          SessionModes
  <1>13. CASE OnWebrtcConnected
    BY <1>13 DEF OnWebrtcConnected, EnterActive, FlagsOK, PhasesOK, SessionModes
  <1>14. CASE OnWebrtcDropped
    BY <1>14 DEF OnWebrtcDropped, EnterStoppingWebrtc, SetVigilanteMute, FlagsOK, PhasesOK,
          SessionModes
  <1>15. CASE OnMicRequest
    BY <1>15 DEF OnMicRequest, SetMute, FlagsOK, PhasesOK, SessionModes
  <1>16. CASE OnAutoSleepTimeout
    BY <1>16 DEF OnAutoSleepTimeout, EnterStoppingWebrtc, SetVigilanteMute, FlagsOK,
          PhasesOK, SessionModes
  <1>17. CASE OnWebrtcStopped
    <2>1. CASE teardownUiPending
      BY <1>17, <2>1 DEF OnWebrtcStopped, EnterTearingDownUi, FlagsOK, PhasesOK,
            SessionModes
    <2>2. CASE ~teardownUiPending
      <3>1. EnterSleep(Tail(queue))
        BY <1>17, <2>2 DEF OnWebrtcStopped
      <3> QED BY <3>1, SessionSleep
    <2> QED BY <2>1, <2>2
  <1>18. CASE OnRamFreed
    BY <1>18 DEF OnRamFreed, EnterAutoArm, FlagsOK, PhasesOK, SessionModes
  <1>19. CASE OnBleReadyAutoArm
    BY <1>19 DEF OnBleReadyAutoArm, FlagsOK, PhasesOK, SessionModes
  <1>20. CASE OnAutoArmVerdict
    BY <1>20, SessionReboot DEF OnAutoArmVerdict, FlagsOK, PhasesOK, SessionModes
  <1>21. CASE OnFatalError
    BY <1>21 DEF OnFatalError, FlagsOK, PhasesOK, SessionModes
  <1>22. CASE IgnoreEvent
    BY <1>22 DEF IgnoreEvent, FlagsOK, PhasesOK, SessionModes
  <1>23. CASE IdleAutoMute
    BY <1>23 DEF IdleAutoMute, SetMute, FlagsOK, PhasesOK, SessionModes
  <1>24. CASE VigilanteEnds
    BY <1>24 DEF VigilanteEnds, ResetAlertContext, EnterStoppingWebrtc, SetVigilanteMute,
          FlagsOK, PhasesOK, SessionModes
  <1> QED
    BY <1>1, <1>2, <1>3, <1>4, <1>5, <1>6, <1>7, <1>8, <1>9, <1>10, <1>11, <1>12,
       <1>13, <1>14, <1>15, <1>16, <1>17, <1>18, <1>19, <1>20, <1>21, <1>22, <1>23,
       <1>24
    DEF OrchestratorStep

\* The verdict is never mixed up on its way from the identity scan to the session:
\* the pending mode, the mode ignited and the microphone guard stay in step.
THEOREM SessionSafe == Spec => []SessionInv
  <1>1. Init => SessionInv
    BY DEF Init, InitWith, SessionInv, VerdictPending, ActiveModeHeld, VigilanteMuteMatches
  <1>2. TypeOK /\ SessionInv /\ [Next]_vars => SessionInv'
    <2> SUFFICES ASSUME TypeOK, SessionInv, [Next]_vars PROVE SessionInv'
      OBVIOUS
    <2>1. CASE UNCHANGED sessionVars
      BY <2>1 DEF sessionVars, SessionInv, VerdictPending, ActiveModeHeld, VigilanteMuteMatches
    <2>2. UNCHANGED vars => UNCHANGED sessionVars
      BY DEF sessionVars
    <2>3. CASE KillSwitchWrites
      BY <2>3 DEF KillSwitchWrites, SessionInv, VerdictPending, ActiveModeHeld, VigilanteMuteMatches
    <2> QED
      BY <2>1, <2>2, <2>3, NextSplits, OthersKeepSession, RestartReboots, SessionReboot,
         SessionOrchestrator
  <1> QED BY <1>1, <1>2, TypeCorrect, PTL DEF Spec

\* While a session opens or runs, the audio path drops the microphone exactly
\* when the session is a Vigilante one.
THEOREM MuteMatches == Spec => []VigilanteMuteMatches
  <1>1. SessionInv => VigilanteMuteMatches
    BY DEF SessionInv
  <1> QED BY <1>1, SessionSafe, PTL

-----------------------------------------------------------------------------
(* Refinement: every step of the orchestrator is a step of the session     *)
(* policy, or changes nothing that the policy speaks of.                   *)

PolicyStep == [Policy!PolicyNext]_(Policy!policyVars)

\* What the policy sees of the orchestrator.
policySources == <<state, releaseToSleep, alertPending, activeMode, nvsMode>>

LEMMA SourcesKeepPolicy == UNCHANGED policySources => PolicyStep
  BY DEF policySources, PolicyStep, PolicyPhase, PolicyMode, Policy!policyVars

LEMMA RebootPolicy == Reboot(nvsMode) => PolicyStep
  <1> SUFFICES ASSUME Reboot(nvsMode) PROVE Policy!PowerFails
    BY DEF PolicyStep, Policy!PolicyNext
  <1> QED BY DEF Reboot, Policy!PowerFails, PolicyPhase, PolicyMode

LEMMA SleepStandsDown ==
    ASSUME NEW q, EnterSleep(q), activeMode # "VIGILANTE", PhasesOK,
           state \notin {"TEARING_DOWN_UI_FOR_SCAN", "AUTO_ARM_BLE_SCANNING", "FATAL_ERROR"}
    PROVE  PolicyStep
  <1>1. Policy!StandDown
    BY DEF EnterSleep, Policy!StandDown, PolicyPhase, PolicyMode, PhasesOK, States
  <1> QED BY <1>1 DEF PolicyStep, Policy!PolicyNext

LEMMA PolicyOrchestrator ==
    TypeOK /\ SessionInv /\ (OrchestratorStep \/ IdleAutoMute \/ VigilanteEnds) => PolicyStep
  <1> SUFFICES ASSUME FlagsOK, PhasesOK, SessionInv,
                      OrchestratorStep \/ IdleAutoMute \/ VigilanteEnds
               PROVE  PolicyStep
    BY DEF TypeOK
  <1> USE DEF PolicyPhase, PolicyMode
  <1>1. CASE OnWifiDisconnected
    <2>1. Policy!StandDown
      BY <1>1 DEF OnWifiDisconnected, EnterWaitWifi, WifiStates, States, Policy!StandDown
    <2> QED BY <2>1 DEF PolicyStep, Policy!PolicyNext
  <1>2. CASE OnWifiConnected
    <2>1. CASE bootMode = "DIRECTO"
      <3>1. Policy!StartVerifying
        BY <1>2, <2>1 DEF OnWifiConnected, EnterPreparingBle, Policy!StartVerifying
      <3> QED BY <3>1 DEF PolicyStep, Policy!PolicyNext
    <2>2. CASE bootMode # "DIRECTO"
      <3>1. state = "WAIT_WIFI" /\ EnterSleep(Tail(queue))
        BY <1>2, <2>2 DEF OnWifiConnected
      <3>2. activeMode # "VIGILANTE"
        BY <3>1 DEF SessionInv, ActiveModeHeld
      <3> QED BY <3>1, <3>2, SleepStandsDown
    <2> QED BY <2>1, <2>2
  <1>3. CASE OnMotionInSleep
    <2>1. Policy!StartVerifying
      BY <1>3 DEF OnMotionInSleep, EnterPreparingBle, Policy!StartVerifying
    <2> QED BY <2>1 DEF PolicyStep, Policy!PolicyNext
  <1>4. CASE OnBleReady
    <2>1. UNCHANGED Policy!policyVars
      BY <1>4 DEF OnBleReady, EnterValidatingIdentity, Policy!policyVars
    <2> QED BY <2>1 DEF PolicyStep
  <1>5. CASE OnBleBusyPreparing
    <2>1. state = "PREPARING_BLE" /\ EnterSleep(Tail(queue))
      BY <1>5 DEF OnBleBusyPreparing
    <2>2. activeMode # "VIGILANTE"
      BY <2>1 DEF SessionInv, ActiveModeHeld
    <2> QED BY <2>1, <2>2, SleepStandsDown
  <1>6. CASE OnIdentityPresent
    <2>1. nvsMode' \in {nvsMode, "DIRECTO"}
      BY <1>6 DEF OnIdentityPresent, SetOperationMode, Written, Attempt
    <2>2. Policy!RecogniseOwner
      BY <1>6, <2>1 DEF OnIdentityPresent, EnterReleasingBle, Policy!RecogniseOwner
    <2> QED BY <2>2 DEF PolicyStep, Policy!PolicyNext
  <1>7. CASE OnIdentityRejected
    <2>1. Policy!RecogniseIntruder
      BY <1>7 DEF OnIdentityRejected, EnterReleasingBle, Policy!RecogniseIntruder
    <2> QED BY <2>1 DEF PolicyStep, Policy!PolicyNext
  <1>8. CASE OnBleBusyValidating
    <2>1. Policy!VerificationFails
      BY <1>8 DEF OnBleBusyValidating, EnterReleasingBle, Policy!VerificationFails
    <2> QED BY <2>1 DEF PolicyStep, Policy!PolicyNext
  <1>9. CASE OnBleReleaseComplete
    <2>1. state = "RELEASING_BLE"
      BY <1>9 DEF OnBleReleaseComplete
    <2>2. CASE releaseToSleep
      <3>1. EnterSleep(Tail(queue))
        BY <1>9, <2>2 DEF OnBleReleaseComplete
      <3>2. activeMode # "VIGILANTE"
        BY <2>1 DEF SessionInv, ActiveModeHeld
      <3> QED BY <2>1, <3>1, <3>2, SleepStandsDown
    <2>3. CASE ~releaseToSleep
      <3>1. UNCHANGED <<releaseToSleep, alertPending, nvsMode>>
        BY <1>9, <2>3 DEF OnBleReleaseComplete
      <3>2. state' = IF alertPending THEN "DISPATCHING_ALERT" ELSE "NET_DISCOVERY_SCAN"
        BY <1>9, <2>3 DEF OnBleReleaseComplete, EnterDispatchingAlert,
              EnterNetDiscoveryScan
      <3>3. UNCHANGED Policy!policyVars
        BY <2>1, <2>3, <3>1, <3>2 DEF Policy!policyVars
      <3> QED BY <3>3 DEF PolicyStep
    <2> QED BY <2>2, <2>3
  <1>10. CASE OnBleReleaseFailed
    <2>1. state = "RELEASING_BLE" /\ EnterSleep(Tail(queue))
      BY <1>10 DEF OnBleReleaseFailed
    <2>2. activeMode # "VIGILANTE"
      BY <2>1 DEF SessionInv, ActiveModeHeld
    <2> QED BY <2>1, <2>2, SleepStandsDown
  <1>11. CASE OnNetDiscoveryEnds
    <2>1. state = "NET_DISCOVERY_SCAN" /\ ignitionMode = "FRIENDLY"
      BY <1>11 DEF OnNetDiscoveryEnds, SessionInv, VerdictPending
    <2>2. Policy!OpenSession
      BY <1>11, <2>1 DEF OnNetDiscoveryEnds, EnterIgniting, Policy!OpenSession
    <2> QED BY <2>2 DEF PolicyStep, Policy!PolicyNext
  <1>12. CASE OnAlertResult
    <2>1. state = "DISPATCHING_ALERT" /\ pendingMode = "VIGILANTE"
      BY <1>12 DEF OnAlertResult, SessionInv, VerdictPending
    <2>2. Policy!OpenSession
      BY <1>12, <2>1 DEF OnAlertResult, EnterIgniting, Policy!OpenSession
    <2> QED BY <2>2 DEF PolicyStep, Policy!PolicyNext
  <1>13. CASE OnWebrtcConnected
    <2>1. UNCHANGED Policy!policyVars
      BY <1>13 DEF OnWebrtcConnected, EnterActive, Policy!policyVars
    <2> QED BY <2>1 DEF PolicyStep
  <1>14. CASE OnWebrtcDropped
    <2>1. Policy!CloseSession
      BY <1>14 DEF OnWebrtcDropped, EnterStoppingWebrtc, Policy!CloseSession
    <2> QED BY <2>1 DEF PolicyStep, Policy!PolicyNext
  <1>15. CASE OnMicRequest
    BY <1>15, SourcesKeepPolicy DEF OnMicRequest, SetMute, policySources
  <1>16. CASE OnAutoSleepTimeout
    <2>1. Policy!CloseSession
      BY <1>16 DEF OnAutoSleepTimeout, EnterStoppingWebrtc, Policy!CloseSession
    <2> QED BY <2>1 DEF PolicyStep, Policy!PolicyNext
  <1>17. CASE OnWebrtcStopped
    <2>1. state = "STOPPING_WEBRTC"
      BY <1>17 DEF OnWebrtcStopped
    <2>2. CASE teardownUiPending
      <3>1. Policy!Rearm
        BY <1>17, <2>2 DEF OnWebrtcStopped, EnterTearingDownUi, Policy!Rearm
      <3> QED BY <3>1 DEF PolicyStep, Policy!PolicyNext
    <2>3. CASE ~teardownUiPending /\ activeMode = "VIGILANTE"
      <3>1. PICK n \in Written("CENTINELA") : Reboot(n)
        BY <1>17, <2>3 DEF OnWebrtcStopped, EnterSleep
      <3>2. n = "CENTINELA" => Policy!RestartArmed
        BY <2>1, <2>3, <3>1 DEF Reboot, Policy!RestartArmed
      <3>3. n = nvsMode => Policy!PowerFails
        BY <3>1 DEF Reboot, Policy!PowerFails
      <3> QED BY <3>1, <3>2, <3>3 DEF Written, Attempt, PolicyStep, Policy!PolicyNext
    <2>4. CASE ~teardownUiPending /\ activeMode # "VIGILANTE"
      <3>1. EnterSleep(Tail(queue))
        BY <1>17, <2>4 DEF OnWebrtcStopped
      <3> QED BY <2>1, <2>4, <3>1, SleepStandsDown
    <2> QED BY <2>2, <2>3, <2>4
  <1>18. CASE OnRamFreed
    <2>1. UNCHANGED Policy!policyVars
      BY <1>18 DEF OnRamFreed, EnterAutoArm, Policy!policyVars
    <2> QED BY <2>1 DEF PolicyStep
  <1>19. CASE OnBleReadyAutoArm
    BY <1>19, SourcesKeepPolicy DEF OnBleReadyAutoArm, policySources
  <1>20. CASE OnAutoArmVerdict
    <2>1. /\ state = "AUTO_ARM_BLE_SCANNING"
          /\ \E n \in Written("DIRECTO") \cup Written("CENTINELA") \cup {"CENTINELA"} : Reboot(n)
      BY <1>20 DEF OnAutoArmVerdict
    <2>2. PICK n \in BootModes : Reboot(n)
      BY <2>1, ModeRange DEF PhasesOK, BootModes
    <2>3. Policy!RestartRearmed
      BY <2>1, <2>2 DEF Reboot, BootModes, Policy!RestartRearmed
    <2> QED BY <2>3 DEF PolicyStep, Policy!PolicyNext
  <1>21. CASE OnFatalError
    <2>1. Policy!GiveUp
      BY <1>21 DEF OnFatalError, Policy!GiveUp
    <2> QED BY <2>1 DEF PolicyStep, Policy!PolicyNext
  <1>22. CASE IgnoreEvent
    BY <1>22, SourcesKeepPolicy DEF IgnoreEvent, policySources
  <1>23. CASE IdleAutoMute
    BY <1>23, SourcesKeepPolicy DEF IdleAutoMute, SetMute, policySources
  <1>24. CASE VigilanteEnds
    <2>1. Policy!CloseSession
      BY <1>24 DEF VigilanteEnds, EnterStoppingWebrtc, Policy!CloseSession
    <2> QED BY <2>1 DEF PolicyStep, Policy!PolicyNext
  <1> QED
    BY <1>1, <1>2, <1>3, <1>4, <1>5, <1>6, <1>7, <1>8, <1>9, <1>10, <1>11, <1>12,
       <1>13, <1>14, <1>15, <1>16, <1>17, <1>18, <1>19, <1>20, <1>21, <1>22, <1>23,
       <1>24
    DEF OrchestratorStep

\* The orchestrator implements the session policy: nobody gets a session that
\* the identity scan did not ask for, and nothing but a verdict, the end of a
\* Vigilante session or the kill switch moves the mode of the next boot.
THEOREM PolicyKept == Spec => KeepsPolicy
  <1>1. Init => Policy!PolicyInit
    BY DEF Init, InitWith, BootModes, Policy!PolicyInit, PolicyPhase, PolicyMode
  <1>2. TypeOK /\ SessionInv /\ [Next]_vars => PolicyStep
    <2> SUFFICES ASSUME TypeOK, SessionInv, [Next]_vars PROVE PolicyStep
      OBVIOUS
    <2>1. UNCHANGED vars \/ UNCHANGED sessionVars => UNCHANGED policySources
      BY DEF sessionVars, policySources
    <2>2. CASE KillSwitchWrites
      <3>1. nvsMode' = "CENTINELA" => Policy!ArmByHand
        BY <2>2 DEF KillSwitchWrites, Policy!ArmByHand, PolicyPhase, PolicyMode
      <3>2. nvsMode' = nvsMode => UNCHANGED policySources
        BY <2>2 DEF KillSwitchWrites, policySources
      <3> QED
        BY <2>2, <3>1, <3>2, SourcesKeepPolicy DEF KillSwitchWrites, Written, Attempt,
           PolicyStep, Policy!PolicyNext
    <2> QED
      BY <2>1, <2>2, NextSplits, OthersKeepSession, SourcesKeepPolicy, RestartReboots,
         RebootPolicy, PolicyOrchestrator
  <1> QED
    BY <1>1, <1>2, TypeCorrect, SessionSafe, PTL
    DEF Spec, PolicyStep, KeepsPolicy, Policy!PolicySpec
=============================================================================
