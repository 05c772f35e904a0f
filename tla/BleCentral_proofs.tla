------------------------- MODULE BleCentral_proofs -------------------------
(***************************************************************************)
(* The BLE identity scan while WiFi stays up: whoever stops or releases    *)
(* the module, the semaphores outlive the smart task, a verdict is honest, *)
(* asked for and given with the scanner idle, and a request is dropped     *)
(* only while somebody stops the module.                                   *)
(*                                                                         *)
(* Of what a caller still has to do only the next step matters, and where  *)
(* it can have come from.  The first part shows that from the lists; the   *)
(* invariants speak of nothing else.                                       *)
(***************************************************************************)
EXTENDS BleCentral, SequenceTheorems, TLAPS

USE DEF signals, flags, hostVars, bleVars, smartFrame, hostFrame

-----------------------------------------------------------------------------
(* Lists of steps                                                          *)

\* The step y stands directly behind the step x.
Follows(x, y) ==
  /\ y = "cancel" => x \in {"stopSmart", "stop", "shutdown"}
  /\ y = "cancelAny" => x = "check"
  /\ y = "ack" => x \in {"cancel", "cancelAny"}
  /\ y \in {"askExit", "ready", "request"} => x = "ack"
  /\ y = "waitExit" => x = "askExit"
  /\ y = "deinit" => x = "waitExit"
  /\ y = "delete" => x = "deinit"
  /\ y = "boot" => x = "delete"
  /\ y = "sync" => x = "boot"
  /\ y = "start" => x = "sync"
  /\ y = "check" => x = "start"
  /\ y = "stopped" => x = "waitIdle"
  /\ y = "shutdown" => x = "stopped"
  /\ y = "none" => x \in {"stopped", "delete", "ready", "request"}

\* What every list of steps and what is left of it has in common: what precedes a
\* step, and where the steps are to which a caller may skip.
Listed(s) ==
  /\ s \in Seq(StepNames)
  /\ s # <<>> => s[Len(s)] \in {"stopped", "delete", "ready", "request"}
  /\ \A i \in 1 .. Len(s) - 1 : Follows(s[i], s[i + 1])
  /\ \A i \in 1 .. Len(s) - 2 :
       /\ s[i + 2] = "askExit" => s[i] = "cancel"
       /\ s[i + 2] \in {"ready", "request"} => s[i] = "cancelAny"
  /\ \A i \in 1 .. Len(s) - 3 : s[i + 3] = "askExit" => s[i] = "shutdown"
  /\ \A i \in 1 .. Len(s) :
       /\ s[i] \in {"cancel", "cancelAny"} => i + 1 <= Len(s) /\ s[i + 1] = "ack"
       /\ s[i] = "askExit" => i + 1 <= Len(s) /\ s[i + 1] = "waitExit"
       /\ s[i] = "stopSmart" =>
            /\ i + 4 <= Len(s) /\ s[i + 4] = "waitIdle"
            /\ \A j \in 1 .. 3 : s[i + j] # "waitIdle"
       /\ s[i] = "stop" =>
            /\ i + 8 <= Len(s) /\ s[i + 8] = "stopped"
            /\ \A j \in 1 .. 7 : s[i + j] # "stopped"
       /\ s[i] = "release" =>
            /\ i + 16 <= Len(s) /\ s[i + 16] = "delete"
            /\ \A j \in 1 .. 15 : s[i + j] # "delete"
       /\ s[i] = "ready" => i = Len(s)

\* The next step of the list s, and whether it belongs to the shutdown of the smart
\* task or waits for a scan to end before the next one.
First(s) == IF s = <<>> THEN "none" ELSE s[1]
Exits(s) ==
  \/ First(s) \in {"askExit", "waitExit", "deinit"}
  \/ First(s) = "ack" /\ Len(s) > 1 /\ s[2] = "askExit"
  \/ First(s) = "cancel" /\ Len(s) > 2 /\ s[3] = "askExit"
Probes(s) == First(s) = "ack" /\ Len(s) > 1 /\ s[2] \in {"ready", "request"}

LEMMA Equal ==
  ASSUME NEW s \in Seq(StepNames), NEW t \in Seq(StepNames), Len(s) = Len(t),
         \A i \in 1 .. Len(s) : s[i] = t[i]
  PROVE  s = t
  BY SeqEqual

LEMMA StopSmartList ==
  StopSmartTask =
    <<"stopSmart", "cancel", "ack", "wake", "waitIdle">>
  <1>1. <<"stopSmart">>
        \o <<"cancel", "ack">>
        = <<"stopSmart", "cancel", "ack">>
    <2> DEFINE a == <<"stopSmart">>
               b == <<"cancel", "ack">>
               r == <<"stopSmart", "cancel", "ack">>
    <2>1. /\ a \in Seq(StepNames) /\ b \in Seq(StepNames) /\ r \in Seq(StepNames)
          /\ Len(a) = 1 /\ Len(b) = 2 /\ Len(r) = 3
      BY DEF StepNames
    <2>2. a \o b \in Seq(StepNames) /\ Len(a \o b) = 3
      BY <2>1
    <2>3. \A i \in 1 .. 3 : (a \o b)[i] = r[i]
      BY <2>1
    <2> HIDE DEF a, b, r
    <2>4. a \o b = r
      BY <2>1, <2>2, <2>3, Equal
    <2> QED BY <2>4 DEF a, b, r
  <1>2. <<"stopSmart", "cancel", "ack">>
        \o <<"wake", "waitIdle">>
        = <<"stopSmart", "cancel", "ack", "wake", "waitIdle">>
    <2> DEFINE a == <<"stopSmart", "cancel", "ack">>
               b == <<"wake", "waitIdle">>
               r == <<"stopSmart", "cancel", "ack", "wake", "waitIdle">>
    <2>1. /\ a \in Seq(StepNames) /\ b \in Seq(StepNames) /\ r \in Seq(StepNames)
          /\ Len(a) = 3 /\ Len(b) = 2 /\ Len(r) = 5
      BY DEF StepNames
    <2>2. a \o b \in Seq(StepNames) /\ Len(a \o b) = 5
      BY <2>1
    <2>3. \A i \in 1 .. 5 : (a \o b)[i] = r[i]
      BY <2>1
    <2> HIDE DEF a, b, r
    <2>4. a \o b = r
      BY <2>1, <2>2, <2>3, Equal
    <2> QED BY <2>4 DEF a, b, r
  <1> QED BY <1>1, <1>2 DEF StopSmartTask, CancelScan

LEMMA ControlStopList ==
  ControlStop =
    <<"stop", "cancel", "ack", "stopSmart", "cancel", "ack", "wake",
      "waitIdle", "stopped">>
  <1>1. <<"stop">>
        \o <<"cancel", "ack">>
        = <<"stop", "cancel", "ack">>
    <2> DEFINE a == <<"stop">>
               b == <<"cancel", "ack">>
               r == <<"stop", "cancel", "ack">>
    <2>1. /\ a \in Seq(StepNames) /\ b \in Seq(StepNames) /\ r \in Seq(StepNames)
          /\ Len(a) = 1 /\ Len(b) = 2 /\ Len(r) = 3
      BY DEF StepNames
    <2>2. a \o b \in Seq(StepNames) /\ Len(a \o b) = 3
      BY <2>1
    <2>3. \A i \in 1 .. 3 : (a \o b)[i] = r[i]
      BY <2>1
    <2> HIDE DEF a, b, r
    <2>4. a \o b = r
      BY <2>1, <2>2, <2>3, Equal
    <2> QED BY <2>4 DEF a, b, r
  <1>2. <<"stop", "cancel", "ack">>
        \o <<"stopSmart", "cancel", "ack", "wake", "waitIdle">>
        = <<"stop", "cancel", "ack", "stopSmart", "cancel", "ack", "wake",
            "waitIdle">>
    <2> DEFINE a == <<"stop", "cancel", "ack">>
               b == <<"stopSmart", "cancel", "ack", "wake", "waitIdle">>
               r == <<"stop", "cancel", "ack", "stopSmart", "cancel", "ack", "wake",
                      "waitIdle">>
    <2>1. /\ a \in Seq(StepNames) /\ b \in Seq(StepNames) /\ r \in Seq(StepNames)
          /\ Len(a) = 3 /\ Len(b) = 5 /\ Len(r) = 8
      BY DEF StepNames
    <2>2. a \o b \in Seq(StepNames) /\ Len(a \o b) = 8
      BY <2>1
    <2>3. \A i \in 1 .. 8 : (a \o b)[i] = r[i]
      BY <2>1
    <2> HIDE DEF a, b, r
    <2>4. a \o b = r
      BY <2>1, <2>2, <2>3, Equal
    <2> QED BY <2>4 DEF a, b, r
  <1>3. <<"stop", "cancel", "ack", "stopSmart", "cancel", "ack", "wake",
         "waitIdle">>
        \o <<"stopped">>
        = <<"stop", "cancel", "ack", "stopSmart", "cancel", "ack", "wake",
            "waitIdle", "stopped">>
    <2> DEFINE a == <<"stop", "cancel", "ack", "stopSmart", "cancel", "ack", "wake",
                      "waitIdle">>
               b == <<"stopped">>
               r == <<"stop", "cancel", "ack", "stopSmart", "cancel", "ack", "wake",
                      "waitIdle", "stopped">>
    <2>1. /\ a \in Seq(StepNames) /\ b \in Seq(StepNames) /\ r \in Seq(StepNames)
          /\ Len(a) = 8 /\ Len(b) = 1 /\ Len(r) = 9
      BY DEF StepNames
    <2>2. a \o b \in Seq(StepNames) /\ Len(a \o b) = 9
      BY <2>1
    <2>3. \A i \in 1 .. 9 : (a \o b)[i] = r[i]
      BY <2>1
    <2> HIDE DEF a, b, r
    <2>4. a \o b = r
      BY <2>1, <2>2, <2>3, Equal
    <2> QED BY <2>4 DEF a, b, r
  <1> QED BY <1>1, <1>2, <1>3, StopSmartList DEF ControlStop, CancelScan

LEMMA ReleaseList ==
  FullRelease =
    <<"release", "stop", "cancel", "ack", "stopSmart", "cancel", "ack", "wake",
      "waitIdle", "stopped", "shutdown", "cancel", "ack", "askExit",
      "waitExit", "deinit", "delete">>
  <1>1. <<"release">>
        \o <<"stop", "cancel", "ack", "stopSmart", "cancel", "ack", "wake",
             "waitIdle", "stopped">>
        = <<"release", "stop", "cancel", "ack", "stopSmart", "cancel", "ack",
            "wake", "waitIdle", "stopped">>
    <2> DEFINE a == <<"release">>
               b == <<"stop", "cancel", "ack", "stopSmart", "cancel", "ack", "wake",
                      "waitIdle", "stopped">>
               r == <<"release", "stop", "cancel", "ack", "stopSmart", "cancel", "ack",
                      "wake", "waitIdle", "stopped">>
    <2>1. /\ a \in Seq(StepNames) /\ b \in Seq(StepNames) /\ r \in Seq(StepNames)
          /\ Len(a) = 1 /\ Len(b) = 9 /\ Len(r) = 10
      BY DEF StepNames
    <2>2. a \o b \in Seq(StepNames) /\ Len(a \o b) = 10
      BY <2>1
    <2>3. \A i \in 1 .. 10 : (a \o b)[i] = r[i]
      BY <2>1
    <2> HIDE DEF a, b, r
    <2>4. a \o b = r
      BY <2>1, <2>2, <2>3, Equal
    <2> QED BY <2>4 DEF a, b, r
  <1>2. <<"release", "stop", "cancel", "ack", "stopSmart", "cancel", "ack",
         "wake", "waitIdle", "stopped">>
        \o <<"shutdown">>
        = <<"release", "stop", "cancel", "ack", "stopSmart", "cancel", "ack",
            "wake", "waitIdle", "stopped", "shutdown">>
    <2> DEFINE a == <<"release", "stop", "cancel", "ack", "stopSmart", "cancel", "ack",
                      "wake", "waitIdle", "stopped">>
               b == <<"shutdown">>
               r == <<"release", "stop", "cancel", "ack", "stopSmart", "cancel", "ack",
                      "wake", "waitIdle", "stopped", "shutdown">>
    <2>1. /\ a \in Seq(StepNames) /\ b \in Seq(StepNames) /\ r \in Seq(StepNames)
          /\ Len(a) = 10 /\ Len(b) = 1 /\ Len(r) = 11
      BY DEF StepNames
    <2>2. a \o b \in Seq(StepNames) /\ Len(a \o b) = 11
      BY <2>1
    <2>3. \A i \in 1 .. 11 : (a \o b)[i] = r[i]
      BY <2>1
    <2> HIDE DEF a, b, r
    <2>4. a \o b = r
      BY <2>1, <2>2, <2>3, Equal
    <2> QED BY <2>4 DEF a, b, r
  <1>3. <<"release", "stop", "cancel", "ack", "stopSmart", "cancel", "ack",
         "wake", "waitIdle", "stopped", "shutdown">>
        \o <<"cancel", "ack">>
        = <<"release", "stop", "cancel", "ack", "stopSmart", "cancel", "ack",
            "wake", "waitIdle", "stopped", "shutdown", "cancel", "ack">>
    <2> DEFINE a == <<"release", "stop", "cancel", "ack", "stopSmart", "cancel", "ack",
                      "wake", "waitIdle", "stopped", "shutdown">>
               b == <<"cancel", "ack">>
               r == <<"release", "stop", "cancel", "ack", "stopSmart", "cancel", "ack",
                      "wake", "waitIdle", "stopped", "shutdown", "cancel", "ack">>
    <2>1. /\ a \in Seq(StepNames) /\ b \in Seq(StepNames) /\ r \in Seq(StepNames)
          /\ Len(a) = 11 /\ Len(b) = 2 /\ Len(r) = 13
      BY DEF StepNames
    <2>2. a \o b \in Seq(StepNames) /\ Len(a \o b) = 13
      BY <2>1
    <2>3. \A i \in 1 .. 13 : (a \o b)[i] = r[i]
      BY <2>1
    <2> HIDE DEF a, b, r
    <2>4. a \o b = r
      BY <2>1, <2>2, <2>3, Equal
    <2> QED BY <2>4 DEF a, b, r
  <1>4. <<"release", "stop", "cancel", "ack", "stopSmart", "cancel", "ack",
         "wake", "waitIdle", "stopped", "shutdown", "cancel", "ack">>
        \o <<"askExit", "waitExit", "deinit", "delete">>
        = <<"release", "stop", "cancel", "ack", "stopSmart", "cancel", "ack",
            "wake", "waitIdle", "stopped", "shutdown", "cancel", "ack",
            "askExit", "waitExit", "deinit", "delete">>
    <2> DEFINE a == <<"release", "stop", "cancel", "ack", "stopSmart", "cancel", "ack",
                      "wake", "waitIdle", "stopped", "shutdown", "cancel", "ack">>
               b == <<"askExit", "waitExit", "deinit", "delete">>
               r == <<"release", "stop", "cancel", "ack", "stopSmart", "cancel", "ack",
                      "wake", "waitIdle", "stopped", "shutdown", "cancel", "ack",
                      "askExit", "waitExit", "deinit", "delete">>
    <2>1. /\ a \in Seq(StepNames) /\ b \in Seq(StepNames) /\ r \in Seq(StepNames)
          /\ Len(a) = 13 /\ Len(b) = 4 /\ Len(r) = 17
      BY DEF StepNames
    <2>2. a \o b \in Seq(StepNames) /\ Len(a \o b) = 17
      BY <2>1
    <2>3. \A i \in 1 .. 17 : (a \o b)[i] = r[i]
      BY <2>1
    <2> HIDE DEF a, b, r
    <2>4. a \o b = r
      BY <2>1, <2>2, <2>3, Equal
    <2> QED BY <2>4 DEF a, b, r
  <1> QED BY <1>1, <1>2, <1>3, <1>4, ControlStopList DEF FullRelease, CancelScan

LEMMA PrepareList ==
  PrepareTask =
    <<"release", "stop", "cancel", "ack", "stopSmart", "cancel", "ack", "wake",
      "waitIdle", "stopped", "shutdown", "cancel", "ack", "askExit",
      "waitExit", "deinit", "delete", "boot", "sync", "start", "check",
      "cancelAny", "ack", "ready">>
  <1>1. <<"release", "stop", "cancel", "ack", "stopSmart", "cancel", "ack",
         "wake", "waitIdle", "stopped", "shutdown", "cancel", "ack", "askExit",
         "waitExit", "deinit", "delete">>
        \o <<"boot", "sync", "start">>
        = <<"release", "stop", "cancel", "ack", "stopSmart", "cancel", "ack",
            "wake", "waitIdle", "stopped", "shutdown", "cancel", "ack",
            "askExit", "waitExit", "deinit", "delete", "boot", "sync", "start">>
    <2> DEFINE a == <<"release", "stop", "cancel", "ack", "stopSmart", "cancel", "ack",
                      "wake", "waitIdle", "stopped", "shutdown", "cancel", "ack", "askExit",
                      "waitExit", "deinit", "delete">>
               b == <<"boot", "sync", "start">>
               r == <<"release", "stop", "cancel", "ack", "stopSmart", "cancel", "ack",
                      "wake", "waitIdle", "stopped", "shutdown", "cancel", "ack",
                      "askExit", "waitExit", "deinit", "delete", "boot", "sync", "start">>
    <2>1. /\ a \in Seq(StepNames) /\ b \in Seq(StepNames) /\ r \in Seq(StepNames)
          /\ Len(a) = 17 /\ Len(b) = 3 /\ Len(r) = 20
      BY DEF StepNames
    <2>2. a \o b \in Seq(StepNames) /\ Len(a \o b) = 20
      BY <2>1
    <2>3. \A i \in 1 .. 20 : (a \o b)[i] = r[i]
      BY <2>1
    <2> HIDE DEF a, b, r
    <2>4. a \o b = r
      BY <2>1, <2>2, <2>3, Equal
    <2> QED BY <2>4 DEF a, b, r
  <1>2. <<"release", "stop", "cancel", "ack", "stopSmart", "cancel", "ack",
         "wake", "waitIdle", "stopped", "shutdown", "cancel", "ack", "askExit",
         "waitExit", "deinit", "delete", "boot", "sync", "start">>
        \o <<"check", "cancelAny", "ack">>
        = <<"release", "stop", "cancel", "ack", "stopSmart", "cancel", "ack",
            "wake", "waitIdle", "stopped", "shutdown", "cancel", "ack",
            "askExit", "waitExit", "deinit", "delete", "boot", "sync", "start",
            "check", "cancelAny", "ack">>
    <2> DEFINE a == <<"release", "stop", "cancel", "ack", "stopSmart", "cancel", "ack",
                      "wake", "waitIdle", "stopped", "shutdown", "cancel", "ack", "askExit",
                      "waitExit", "deinit", "delete", "boot", "sync", "start">>
               b == <<"check", "cancelAny", "ack">>
               r == <<"release", "stop", "cancel", "ack", "stopSmart", "cancel", "ack",
                      "wake", "waitIdle", "stopped", "shutdown", "cancel", "ack",
                      "askExit", "waitExit", "deinit", "delete", "boot", "sync", "start",
                      "check", "cancelAny", "ack">>
    <2>1. /\ a \in Seq(StepNames) /\ b \in Seq(StepNames) /\ r \in Seq(StepNames)
          /\ Len(a) = 20 /\ Len(b) = 3 /\ Len(r) = 23
      BY DEF StepNames
    <2>2. a \o b \in Seq(StepNames) /\ Len(a \o b) = 23
      BY <2>1
    <2>3. \A i \in 1 .. 23 : (a \o b)[i] = r[i]
      BY <2>1
    <2> HIDE DEF a, b, r
    <2>4. a \o b = r
      BY <2>1, <2>2, <2>3, Equal
    <2> QED BY <2>4 DEF a, b, r
  <1>3. <<"release", "stop", "cancel", "ack", "stopSmart", "cancel", "ack",
         "wake", "waitIdle", "stopped", "shutdown", "cancel", "ack", "askExit",
         "waitExit", "deinit", "delete", "boot", "sync", "start", "check",
         "cancelAny", "ack">>
        \o <<"ready">>
        = <<"release", "stop", "cancel", "ack", "stopSmart", "cancel", "ack",
            "wake", "waitIdle", "stopped", "shutdown", "cancel", "ack",
            "askExit", "waitExit", "deinit", "delete", "boot", "sync", "start",
            "check", "cancelAny", "ack", "ready">>
    <2> DEFINE a == <<"release", "stop", "cancel", "ack", "stopSmart", "cancel", "ack",
                      "wake", "waitIdle", "stopped", "shutdown", "cancel", "ack", "askExit",
                      "waitExit", "deinit", "delete", "boot", "sync", "start", "check",
                      "cancelAny", "ack">>
               b == <<"ready">>
               r == <<"release", "stop", "cancel", "ack", "stopSmart", "cancel", "ack",
                      "wake", "waitIdle", "stopped", "shutdown", "cancel", "ack",
                      "askExit", "waitExit", "deinit", "delete", "boot", "sync", "start",
                      "check", "cancelAny", "ack", "ready">>
    <2>1. /\ a \in Seq(StepNames) /\ b \in Seq(StepNames) /\ r \in Seq(StepNames)
          /\ Len(a) = 23 /\ Len(b) = 1 /\ Len(r) = 24
      BY DEF StepNames
    <2>2. a \o b \in Seq(StepNames) /\ Len(a \o b) = 24
      BY <2>1
    <2>3. \A i \in 1 .. 24 : (a \o b)[i] = r[i]
      BY <2>1
    <2> HIDE DEF a, b, r
    <2>4. a \o b = r
      BY <2>1, <2>2, <2>3, Equal
    <2> QED BY <2>4 DEF a, b, r
  <1> QED BY <1>1, <1>2, <1>3, ReleaseList DEF PrepareTask, PrepareScan

LEMMA ValidationList ==
  StartValidation =
    <<"check", "cancelAny", "ack", "request">>
  <1>1. <<"check", "cancelAny", "ack">>
        \o <<"request">>
        = <<"check", "cancelAny", "ack", "request">>
    <2> DEFINE a == <<"check", "cancelAny", "ack">>
               b == <<"request">>
               r == <<"check", "cancelAny", "ack", "request">>
    <2>1. /\ a \in Seq(StepNames) /\ b \in Seq(StepNames) /\ r \in Seq(StepNames)
          /\ Len(a) = 3 /\ Len(b) = 1 /\ Len(r) = 4
      BY DEF StepNames
    <2>2. a \o b \in Seq(StepNames) /\ Len(a \o b) = 4
      BY <2>1
    <2>3. \A i \in 1 .. 4 : (a \o b)[i] = r[i]
      BY <2>1
    <2> HIDE DEF a, b, r
    <2>4. a \o b = r
      BY <2>1, <2>2, <2>3, Equal
    <2> QED BY <2>4 DEF a, b, r
  <1> QED BY <1>1 DEF StartValidation, PrepareScan

LEMMA LossList ==
  StopSmartTask \o ControlStop =
    <<"stopSmart", "cancel", "ack", "wake", "waitIdle", "stop", "cancel",
      "ack", "stopSmart", "cancel", "ack", "wake", "waitIdle", "stopped">>
  <1>1. <<"stopSmart", "cancel", "ack", "wake", "waitIdle">>
        \o <<"stop", "cancel", "ack", "stopSmart", "cancel", "ack", "wake",
             "waitIdle", "stopped">>
        = <<"stopSmart", "cancel", "ack", "wake", "waitIdle", "stop", "cancel",
            "ack", "stopSmart", "cancel", "ack", "wake", "waitIdle", "stopped">>
    <2> DEFINE a == <<"stopSmart", "cancel", "ack", "wake", "waitIdle">>
               b == <<"stop", "cancel", "ack", "stopSmart", "cancel", "ack", "wake",
                      "waitIdle", "stopped">>
               r == <<"stopSmart", "cancel", "ack", "wake", "waitIdle", "stop", "cancel",
                      "ack", "stopSmart", "cancel", "ack", "wake", "waitIdle", "stopped">>
    <2>1. /\ a \in Seq(StepNames) /\ b \in Seq(StepNames) /\ r \in Seq(StepNames)
          /\ Len(a) = 5 /\ Len(b) = 9 /\ Len(r) = 14
      BY DEF StepNames
    <2>2. a \o b \in Seq(StepNames) /\ Len(a \o b) = 14
      BY <2>1
    <2>3. \A i \in 1 .. 14 : (a \o b)[i] = r[i]
      BY <2>1
    <2> HIDE DEF a, b, r
    <2>4. a \o b = r
      BY <2>1, <2>2, <2>3, Equal
    <2> QED BY <2>4 DEF a, b, r
  <1> QED BY <1>1, StopSmartList, ControlStopList DEF StepNames

LEMMA AllListed ==
  /\ Listed(StopSmartTask \o ControlStop) /\ Listed(FullRelease) /\ Listed(PrepareTask)
  /\ Listed(StartValidation) /\ Listed(<<>>)
  <1>1. Listed(StopSmartTask \o ControlStop)
    BY LossList, SMTT(40) DEF Listed, Follows, StepNames
  <1>2. Listed(FullRelease)
    BY ReleaseList, SMTT(40) DEF Listed, Follows, StepNames
  <1>3. Listed(PrepareTask)
    BY PrepareList, SMTT(40) DEF Listed, Follows, StepNames
  <1>4. Listed(StartValidation)
    BY ValidationList DEF Listed, Follows, StepNames
  <1>5. Listed(<<>>)
    BY DEF Listed
  <1> QED BY <1>1, <1>2, <1>3, <1>4, <1>5

LEMMA Openings ==
  /\ First(StopSmartTask \o ControlStop) = "stopSmart"
  /\ First(FullRelease) = "release" /\ First(PrepareTask) = "release"
  /\ First(StartValidation) = "check" /\ First(<<>>) = "none"
  /\ ~Exits(<<>>) /\ ~Probes(<<>>)
  BY LossList, ReleaseList, PrepareList, ValidationList DEF First, Exits, Probes

\* What is left of a list behind its step k.
LEMMA Suffix ==
  ASSUME NEW s, Listed(s), NEW k \in 1 .. Len(s), NEW r, r = SubSeq(s, k + 1, Len(s))
  PROVE  /\ Listed(r) /\ Len(r) = Len(s) - k /\ (\A i \in 1 .. Len(r) : r[i] = s[k + i])
         /\ Follows(s[k], First(r))
         /\ s[k] = "ready" => r = <<>>
  <1>1. s \in Seq(StepNames) /\ Len(s) \in Nat
    BY DEF Listed
  <1>2. /\ r \in Seq(StepNames) /\ Len(r) = Len(s) - k
        /\ \A i \in 1 .. Len(r) : r[i] = s[k + i]
    BY <1>1
  <1>3. \A i \in 1 .. Len(r) - 1 : Follows(r[i], r[i + 1])
    <2> SUFFICES ASSUME NEW i \in 1 .. Len(r) - 1 PROVE Follows(r[i], r[i + 1])
      OBVIOUS
    <2>1. k + i \in 1 .. Len(s) - 1 /\ r[i] = s[k + i] /\ r[i + 1] = s[(k + i) + 1]
      BY <1>1, <1>2
    <2> QED BY <2>1 DEF Listed
  <1>4. \A i \in 1 .. Len(r) - 2 :
          /\ r[i + 2] = "askExit" => r[i] = "cancel"
          /\ r[i + 2] \in {"ready", "request"} => r[i] = "cancelAny"
    <2> SUFFICES ASSUME NEW i \in 1 .. Len(r) - 2
                 PROVE  /\ r[i + 2] = "askExit" => r[i] = "cancel"
                        /\ r[i + 2] \in {"ready", "request"} => r[i] = "cancelAny"
      OBVIOUS
    <2>1. k + i \in 1 .. Len(s) - 2 /\ r[i] = s[k + i] /\ r[i + 2] = s[(k + i) + 2]
      BY <1>1, <1>2
    <2> QED BY <2>1 DEF Listed
  <1>5. \A i \in 1 .. Len(r) - 3 : r[i + 3] = "askExit" => r[i] = "shutdown"
    <2> SUFFICES ASSUME NEW i \in 1 .. Len(r) - 3 PROVE r[i + 3] = "askExit" => r[i] = "shutdown"
      OBVIOUS
    <2>1. k + i \in 1 .. Len(s) - 3 /\ r[i] = s[k + i] /\ r[i + 3] = s[(k + i) + 3]
      BY <1>1, <1>2
    <2> QED BY <2>1 DEF Listed
  <1>6. ASSUME NEW i \in 1 .. Len(r)
        PROVE  /\ r[i] \in {"cancel", "cancelAny"} => i + 1 <= Len(r) /\ r[i + 1] = "ack"
               /\ r[i] = "askExit" => i + 1 <= Len(r) /\ r[i + 1] = "waitExit"
               /\ r[i] = "stopSmart" =>
                    /\ i + 4 <= Len(r) /\ r[i + 4] = "waitIdle"
                    /\ \A j \in 1 .. 3 : r[i + j] # "waitIdle"
               /\ r[i] = "stop" =>
                    /\ i + 8 <= Len(r) /\ r[i + 8] = "stopped"
                    /\ \A j \in 1 .. 7 : r[i + j] # "stopped"
               /\ r[i] = "release" =>
                    /\ i + 16 <= Len(r) /\ r[i + 16] = "delete"
                    /\ \A j \in 1 .. 15 : r[i + j] # "delete"
               /\ r[i] = "ready" => i = Len(r)
    <2> DEFINE n == k + i
    <2>1. n \in 1 .. Len(s) /\ r[i] = s[n]
      BY <1>1, <1>2
    <2>2. \A m \in 1 .. 16 : n + m <= Len(s) =>
            i + m <= Len(r) /\ \A j \in 1 .. m : r[i + j] = s[n + j]
      <3>1. ASSUME NEW m \in 1 .. 16, n + m <= Len(s)
            PROVE  i + m <= Len(r) /\ \A j \in 1 .. m : r[i + j] = s[n + j]
        <4>1. i + m <= Len(r)
          BY <1>1, <1>2, <3>1
        <4>2. ASSUME NEW j \in 1 .. m PROVE r[i + j] = s[n + j]
          <5>1. i + j \in 1 .. Len(r) /\ k + (i + j) = n + j
            BY <1>1, <1>2, <4>1
          <5> QED BY <1>2, <5>1
        <4> QED BY <4>1, <4>2
      <3> QED BY <3>1
    <2> HIDE DEF n
    <2>i. n \in Nat /\ i \in Nat
      BY <1>1, <2>1
    <2>r. /\ s[n] \in {"cancel", "cancelAny"} => n + 1 <= Len(s) /\ s[n + 1] = "ack"
          /\ s[n] = "askExit" => n + 1 <= Len(s) /\ s[n + 1] = "waitExit"
          /\ s[n] = "stopSmart" =>
               /\ n + 4 <= Len(s) /\ s[n + 4] = "waitIdle"
               /\ \A j \in 1 .. 3 : s[n + j] # "waitIdle"
          /\ s[n] = "stop" =>
               /\ n + 8 <= Len(s) /\ s[n + 8] = "stopped"
               /\ \A j \in 1 .. 7 : s[n + j] # "stopped"
          /\ s[n] = "release" =>
               /\ n + 16 <= Len(s) /\ s[n + 16] = "delete"
               /\ \A j \in 1 .. 15 : s[n + j] # "delete"
      BY <2>1 DEF Listed
    <2>3. n + 1 <= Len(s) => i + 1 <= Len(r) /\ r[i + 1] = s[n + 1]
      <3>1. 1 \in 1 .. 16 /\ 1 \in 1 .. 1
        OBVIOUS
      <3> QED BY <2>2, <3>1
    <2>4. n + 4 <= Len(s) => /\ i + 4 <= Len(r) /\ r[i + 4] = s[n + 4]
                             /\ \A j \in 1 .. 3 : r[i + j] = s[n + j]
      <3>1. 4 \in 1 .. 16 /\ 4 \in 1 .. 4 /\ \A j \in 1 .. 3 : j \in 1 .. 4
        OBVIOUS
      <3> QED BY <2>2, <3>1
    <2>5. n + 8 <= Len(s) => /\ i + 8 <= Len(r) /\ r[i + 8] = s[n + 8]
                             /\ \A j \in 1 .. 7 : r[i + j] = s[n + j]
      <3>1. 8 \in 1 .. 16 /\ 8 \in 1 .. 8 /\ \A j \in 1 .. 7 : j \in 1 .. 8
        OBVIOUS
      <3> QED BY <2>2, <3>1
    <2>6. n + 16 <= Len(s) => /\ i + 16 <= Len(r) /\ r[i + 16] = s[n + 16]
                              /\ \A j \in 1 .. 15 : r[i + j] = s[n + j]
      <3>1. 16 \in 1 .. 16 /\ 16 \in 1 .. 16 /\ \A j \in 1 .. 15 : j \in 1 .. 16
        OBVIOUS
      <3> QED BY <2>2, <3>1
    <2>8. s[n] = "ready" => i = Len(r)
      BY <1>1, <1>2, <2>1 DEF Listed, n
    <2> QED BY <2>1, <2>r, <2>3, <2>4, <2>5, <2>6, <2>8
  <1>e. /\ s[Len(s)] \in {"stopped", "delete", "ready", "request"}
        /\ r # <<>> => r[Len(r)] = s[Len(s)]
    <2>1. s # <<>>
      BY <1>1
    <2>2. r # <<>> => Len(r) \in 1 .. Len(r) /\ k + Len(r) = Len(s)
      BY <1>1, <1>2
    <2>3. s[Len(s)] \in {"stopped", "delete", "ready", "request"}
      BY <2>1 DEF Listed
    <2>4. r # <<>> => r[Len(r)] = s[k + Len(r)]
      BY <1>2, <2>2
    <2> QED BY <2>2, <2>3, <2>4
  <1>7. Listed(r)
    BY <1>2, <1>3, <1>4, <1>5, <1>6, <1>e DEF Listed
  <1>8. Follows(s[k], First(r))
    <2>1. CASE r = <<>>
      <3>1. k = Len(s)
        BY <1>1, <1>2, <2>1
      <3> QED BY <1>e, <2>1, <3>1 DEF First, Follows
    <2>2. CASE r # <<>>
      <3>1. Len(r) >= 1 /\ First(r) = s[k + 1] /\ k \in 1 .. Len(s) - 1
        BY <1>1, <1>2, <2>2 DEF First
      <3> QED BY <3>1 DEF Listed
    <2> QED BY <2>1, <2>2
  <1>9. s[k] = "ready" => r = <<>>
    <2>1. s[k] = "ready" => k = Len(s)
      BY DEF Listed
    <2> QED BY <1>1, <1>2, <2>1
  <1> QED BY <1>2, <1>7, <1>8, <1>9

\* The next step.
LEMMA TailListed ==
  ASSUME NEW s, Listed(s), s # <<>>, NEW r, r = Tail(s)
  PROVE  /\ Listed(r) /\ Follows(s[1], First(r))
         /\ s[1] = "ready" => r = <<>>
         /\ Exits(r) => s[1] = "shutdown" \/ Exits(s)
         /\ Probes(r) => s[1] = "cancelAny"
         /\ First(r) \in {"ready", "request"} => Probes(s)
  <1>1. s \in Seq(StepNames) /\ Len(s) \in Nat /\ Len(s) >= 1
    BY DEF Listed
  <1>2. 1 \in 1 .. Len(s) /\ r = SubSeq(s, 1 + 1, Len(s))
    BY <1>1
  <1>3. /\ Listed(r) /\ Len(r) = Len(s) - 1 /\ (\A i \in 1 .. Len(r) : r[i] = s[1 + i])
        /\ Follows(s[1], First(r)) /\ (s[1] = "ready" => r = <<>>)
    <2>1. Listed(r)
      BY <1>2, Suffix
    <2>4. Len(r) = Len(s) - 1
      BY <1>2, Suffix
    <2>2. \A i \in 1 .. Len(r) : r[i] = s[1 + i]
      BY <1>2, Suffix
    <2>3. Follows(s[1], First(r))
      BY <1>2, Suffix
    <2>5. s[1] = "ready" => r = <<>>
      BY <1>2, Suffix
    <2> QED BY <2>1, <2>2, <2>3, <2>4, <2>5
  <1>4. Len(s) > 1 => r[1] = s[2] /\ Follows(s[1], s[2])
    <2>1. Len(s) > 1 => 1 \in 1 .. Len(s) - 1 /\ r[1] = s[2]
      BY <1>1, <1>3
    <2> QED BY <2>1 DEF Listed
  <1>5. Len(s) > 2 => /\ r[2] = s[3]
                      /\ s[3] = "askExit" => s[1] = "cancel"
                      /\ s[3] \in {"ready", "request"} => s[1] = "cancelAny"
    <2>1. Len(s) > 2 => 1 \in 1 .. Len(s) - 2 /\ r[2] = s[3]
      BY <1>1, <1>3
    <2> QED BY <2>1 DEF Listed
  <1>6. Len(s) > 3 => r[3] = s[4] /\ (s[4] = "askExit" => s[1] = "shutdown")
    <2>1. Len(s) > 3 => 1 \in 1 .. Len(s) - 3 /\ r[3] = s[4]
      BY <1>1, <1>3
    <2> QED BY <2>1 DEF Listed
  <1>7. r # <<>> => Len(s) > 1 /\ First(r) = s[2]
    <2>1. r \in Seq(StepNames)
      BY <1>3 DEF Listed
    <2> QED BY <1>1, <1>3, <1>4, <2>1 DEF First
  <1>8. Exits(r) => s[1] = "shutdown" \/ Exits(s)
    <2>1. CASE First(r) \in {"askExit", "waitExit", "deinit"}
      BY <1>1, <1>4, <1>7, <2>1 DEF Exits, First, Follows
    <2>2. CASE First(r) = "ack" /\ Len(r) > 1 /\ r[2] = "askExit"
      BY <1>1, <1>3, <1>5, <2>2 DEF Exits, First
    <2>3. CASE First(r) = "cancel" /\ Len(r) > 2 /\ r[3] = "askExit"
      BY <1>1, <1>3, <1>6, <2>3
    <2> QED BY <2>1, <2>2, <2>3 DEF Exits
  <1>9. Probes(r) => s[1] = "cancelAny"
    BY <1>1, <1>3, <1>5 DEF Probes
  <1>10. First(r) \in {"ready", "request"} => Probes(s)
    BY <1>1, <1>4, <1>7 DEF Probes, First, Follows
  <1> QED BY <1>3, <1>8, <1>9, <1>10

\* The caller that skips finds the step it looks for.
LEMMA BehindIs ==
  ASSUME NEW s \in Seq(StepNames), NEW y, NEW k \in 1 .. Len(s), s[k] = y,
         \A j \in 1 .. k - 1 : s[j] # y
  PROVE  Behind(s, y) = SubSeq(s, k + 1, Len(s))
  <1> DEFINE P(i) == i \in 1 .. Len(s) /\ s[i] = y /\ \A j \in 1 .. (i - 1) : s[j] # y
  <1>1. P(k)
    OBVIOUS
  <1>2. \A i : P(i) => i = k
    <2> SUFFICES ASSUME NEW i, P(i), i # k PROVE FALSE
      OBVIOUS
    <2>1. i < k => i \in 1 .. k - 1
      OBVIOUS
    <2>2. k < i => k \in 1 .. i - 1
      OBVIOUS
    <2> QED BY <2>1, <2>2
  <1>3. (CHOOSE i \in 1 .. Len(s) : s[i] = y /\ \A j \in 1 .. (i - 1) : s[j] # y) = k
    BY <1>1, <1>2
  <1> QED BY <1>3 DEF Behind

\* Where a caller skips from, and how far.
Skip(x) ==
  CASE x \in {"cancel", "cancelAny"} -> "ack"
    [] x = "askExit" -> "waitExit"
    [] x = "stopSmart" -> "waitIdle"
    [] x = "stop" -> "stopped"
    [] x = "release" -> "delete"
Skippers == {"cancel", "cancelAny", "askExit", "stopSmart", "stop", "release"}

LEMMA SkipListed ==
  ASSUME NEW s, Listed(s), s # <<>>, s[1] \in Skippers, NEW r, r = Behind(s, Skip(s[1]))
  PROVE  /\ Listed(r) /\ Follows(Skip(s[1]), First(r))
         /\ Exits(r) => Exits(s)
         /\ ~Probes(r)
         /\ First(r) \in {"ready", "request"} => s[1] = "cancelAny"
  <1>1. s \in Seq(StepNames) /\ Len(s) \in Nat /\ Len(s) >= 1 /\ 1 \in 1 .. Len(s)
    BY DEF Listed
  <1>2. \E k \in 1 .. Len(s) : s[k] = Skip(s[1]) /\ (\A j \in 1 .. k - 1 : s[j] # Skip(s[1]))
                               /\ (s[1] \in {"cancel", "cancelAny", "askExit"} => k = 2)
    <2>1. CASE s[1] \in {"cancel", "cancelAny"}
      <3>1. Skip(s[1]) = "ack" /\ 1 + 1 <= Len(s) /\ s[1 + 1] = "ack"
        BY <1>1, <2>1 DEF Listed, Skip
      <3> QED BY <1>1, <2>1, <3>1
    <2>2. CASE s[1] = "askExit"
      <3>1. Skip(s[1]) = "waitExit" /\ 1 + 1 <= Len(s) /\ s[1 + 1] = "waitExit"
        BY <1>1, <2>2 DEF Listed, Skip
      <3> QED BY <1>1, <2>2, <3>1
    <2>3. CASE s[1] = "stopSmart"
      <3>1. /\ Skip(s[1]) = "waitIdle" /\ 1 + 4 <= Len(s) /\ s[1 + 4] = "waitIdle"
            /\ \A j \in 1 .. 3 : s[1 + j] # "waitIdle"
        BY <1>1, <2>3 DEF Listed, Skip
      <3>2. \A j \in 1 .. 4 : j = 1 \/ (j - 1 \in 1 .. 3 /\ j = 1 + (j - 1))
        OBVIOUS
      <3> QED BY <1>1, <2>3, <3>1, <3>2
    <2>4. CASE s[1] = "stop"
      <3>1. /\ Skip(s[1]) = "stopped" /\ 1 + 8 <= Len(s) /\ s[1 + 8] = "stopped"
            /\ \A j \in 1 .. 7 : s[1 + j] # "stopped"
        BY <1>1, <2>4 DEF Listed, Skip
      <3>2. \A j \in 1 .. 8 : j = 1 \/ (j - 1 \in 1 .. 7 /\ j = 1 + (j - 1))
        OBVIOUS
      <3> QED BY <1>1, <2>4, <3>1, <3>2
    <2>5. CASE s[1] = "release"
      <3>1. /\ Skip(s[1]) = "delete" /\ 1 + 16 <= Len(s) /\ s[1 + 16] = "delete"
            /\ \A j \in 1 .. 15 : s[1 + j] # "delete"
        BY <1>1, <2>5 DEF Listed, Skip
      <3>2. \A j \in 1 .. 16 : j = 1 \/ (j - 1 \in 1 .. 15 /\ j = 1 + (j - 1))
        OBVIOUS
      <3>3. 17 \in 1 .. Len(s) /\ s[17] = "delete" /\ \A j \in 1 .. 17 - 1 : s[j] # "delete"
        BY <1>1, <2>5, <3>1, <3>2
      <3> QED BY <2>5, <3>1, <3>3
    <2> QED BY <2>1, <2>2, <2>3, <2>4, <2>5 DEF Skippers
  <1>3. PICK k \in 1 .. Len(s) : /\ s[k] = Skip(s[1]) /\ (\A j \in 1 .. k - 1 : s[j] # Skip(s[1]))
                                 /\ s[1] \in {"cancel", "cancelAny", "askExit"} => k = 2
    BY <1>2
  <1>4. r = SubSeq(s, k + 1, Len(s))
    BY <1>1, <1>3, BehindIs
  <1>5. /\ Listed(r) /\ Len(r) = Len(s) - k /\ (\A i \in 1 .. Len(r) : r[i] = s[k + i])
        /\ Follows(s[k], First(r))
    <2>1. k \in 1 .. Len(s) /\ r = SubSeq(s, k + 1, Len(s)) /\ Listed(s)
      BY <1>3, <1>4
    <2>2. Listed(r)
      BY <2>1, Suffix
    <2>3. Follows(s[k], First(r))
      BY <2>1, Suffix
    <2>4. Len(r) = Len(s) - k
      BY <2>1, Suffix
    <2>5. \A i \in 1 .. Len(r) : r[i] = s[k + i]
      BY <2>1, Suffix
    <2> QED BY <2>2, <2>3, <2>4, <2>5
  <1>6. Exits(r) => Exits(s)
    <2>1. CASE s[1] = "askExit"
      BY <2>1 DEF Exits, First
    <2>2. CASE s[1] \in {"cancel", "cancelAny"}
      <3>1. k = 2 /\ s[k] = "ack"
        BY <1>3, <2>2 DEF Skip
      <3>2. Exits(r) => First(r) = "askExit"
        BY <1>5, <3>1 DEF Exits, Follows
      <3>3. First(r) = "askExit" => Len(s) > 2 /\ s[3] = "askExit"
        BY <1>1, <1>5, <3>1 DEF First, Listed
      <3>4. Len(s) > 2 => 1 \in 1 .. Len(s) - 2
        BY <1>1
      <3>5. Len(s) > 2 /\ s[3] = "askExit" => s[1] = "cancel"
        BY <3>4 DEF Listed
      <3> QED BY <3>2, <3>3, <3>5 DEF Exits, First
    <2>3. CASE s[1] \in {"stopSmart", "stop", "release"}
      <3>1. s[k] \in {"waitIdle", "stopped", "delete"}
        BY <1>3, <2>3 DEF Skip
      <3> QED BY <1>5, <3>1 DEF Exits, Follows
    <2> QED BY <2>1, <2>2, <2>3 DEF Skippers
  <1>7. ~Probes(r)
    BY <1>3, <1>5 DEF Probes, Follows, Skip, Skippers
  <1>8. First(r) \in {"ready", "request"} => s[1] = "cancelAny"
    <2>1. CASE s[1] \in {"cancel", "cancelAny"}
      <3>1. k = 2
        BY <1>3, <2>1
      <3>2. r # <<>> => Len(s) > 2 /\ First(r) = s[3]
        BY <1>1, <1>5, <3>1 DEF First, Listed
      <3>3. Len(s) > 2 => 1 \in 1 .. Len(s) - 2
        BY <1>1
      <3>4. Len(s) > 2 /\ s[3] \in {"ready", "request"} => s[1] = "cancelAny"
        BY <3>3 DEF Listed
      <3>5. First(r) \in {"ready", "request"} => r # <<>>
        BY DEF First
      <3> QED BY <3>2, <3>4, <3>5
    <2>2. CASE s[1] \in {"askExit", "stopSmart", "stop", "release"}
      <3>1. s[k] \in {"waitExit", "waitIdle", "stopped", "delete"}
        BY <1>3, <2>2 DEF Skip
      <3> QED BY <1>5, <3>1 DEF Follows
    <2> QED BY <2>1, <2>2 DEF Skippers
  <1> QED BY <1>3, <1>5, <1>6, <1>7, <1>8

-----------------------------------------------------------------------------
(* The steps of the callers                                                *)

Now(c) == First(todo[c])
Leaves(c) == Exits(todo[c])
Probing(c) == Probes(todo[c])

ListsOK == todo \in [Callers -> Seq(StepNames)] /\ \A c \in Callers : Listed(todo[c])

\* The caller c goes on behind the step y; the others stay where they are.
Others(c) ==
  \A d \in Callers : d # c => /\ todo'[d] = todo[d] /\ Now(d)' = Now(d)
                              /\ Leaves(d)' = Leaves(d) /\ Probing(d)' = Probing(d)
Passes(c, y) ==
  /\ ListsOK' /\ Others(c)
  /\ Follows(y, Now(c)')
  /\ y = "ready" => Now(c)' = "none"
  /\ Leaves(c)' => y = "shutdown" \/ Leaves(c)
  /\ Probing(c)' => y = "cancelAny"
  /\ Now(c)' \in {"ready", "request"} => Probing(c) \/ Now(c) = "cancelAny"

\* It ends its work, or cleans up first.
Drops(c) ==
  /\ ListsOK' /\ Others(c)
  /\ Now(c)' \in {"none", "release"} /\ ~(Leaves(c)') /\ ~(Probing(c)')

LEMMA ListReplaced ==
  ASSUME ListsOK, NEW c \in Callers, NEW r, Listed(r), todo' = [todo EXCEPT ![c] = r]
  PROVE  ListsOK' /\ Others(c) /\ todo'[c] = r
  BY DEF ListsOK, Listed, Others, Now, Leaves, Probing

LEMMA AtNow ==
  ASSUME ListsOK, NEW c \in Callers
  PROVE  /\ \A x : At(c, x) => Now(c) = x
         /\ \A x \in StepNames : Now(c) = x => At(c, x)
         /\ Now(c) = "none" <=> todo[c] = <<>>
         /\ Listed(todo[c])
  <1>1. todo[c] \in Seq(StepNames) /\ Listed(todo[c])
    BY DEF ListsOK
  <1>2. \A x : At(c, x) => Now(c) = x
    BY DEF At, Now, First
  <1>3. \A x \in StepNames : Now(c) = x => At(c, x)
    BY <1>1 DEF At, Now, First, StepNames
  <1>4. Now(c) = "none" <=> todo[c] = <<>>
    <2>1. todo[c] # <<>> => todo[c][1] \in StepNames
      BY <1>1
    <2> QED BY <2>1 DEF Now, First, StepNames
  <1> QED BY <1>1, <1>2, <1>3, <1>4

LEMMA Continues ==
  ASSUME ListsOK, NEW c \in Callers, NEW x, At(c, x), Continue(c)
  PROVE  Passes(c, x)
  <1>1. todo[c] # <<>> /\ todo[c][1] = x /\ Listed(todo[c])
    BY AtNow DEF At, ListsOK
  <1>2. PICK r : r = Tail(todo[c])
    OBVIOUS
  <1>3. /\ Listed(r) /\ Follows(x, First(r)) /\ (x = "ready" => r = <<>>)
        /\ Exits(r) => x = "shutdown" \/ Exits(todo[c])
        /\ Probes(r) => x = "cancelAny"
        /\ First(r) \in {"ready", "request"} => Probes(todo[c])
    BY <1>1, <1>2, TailListed
  <1>4. todo' = [todo EXCEPT ![c] = r]
    BY <1>2 DEF Continue
  <1>5. ListsOK' /\ Others(c) /\ todo'[c] = r
    BY <1>3, <1>4, ListReplaced
  <1> QED BY <1>3, <1>5 DEF Passes, Now, Leaves, Probing, First

LEMMA Skips ==
  ASSUME ListsOK, NEW c \in Callers, NEW x \in Skippers, At(c, x), SkipBehind(c, Skip(x))
  PROVE  Passes(c, Skip(x)) /\ ~(Probing(c)') /\ (Leaves(c)' => Leaves(c))
  <1>1. todo[c] # <<>> /\ todo[c][1] = x /\ Listed(todo[c])
    BY AtNow DEF At, ListsOK
  <1>2. PICK r : r = Behind(todo[c], Skip(x))
    OBVIOUS
  <1>3. /\ Listed(r) /\ Follows(Skip(x), First(r)) /\ (Exits(r) => Exits(todo[c])) /\ ~Probes(r)
        /\ First(r) \in {"ready", "request"} => x = "cancelAny"
    BY <1>1, <1>2, SkipListed
  <1>4. todo' = [todo EXCEPT ![c] = r]
    BY <1>2 DEF SkipBehind
  <1>5. ListsOK' /\ Others(c) /\ todo'[c] = r
    BY <1>3, <1>4, ListReplaced
  <1>6. Skip(x) # "ready"
    BY DEF Skip, Skippers
  <1>7. Now(c) = x
    BY <1>1 DEF Now, First
  <1> QED BY <1>3, <1>5, <1>6, <1>7 DEF Passes, Now, Leaves, Probing

LEMMA GivesUp ==
  ASSUME ListsOK, NEW c \in Callers, GiveUp(c) \/ CleanUp(c)
  PROVE  Drops(c)
  <1>1. PICK r : r \in {<<>>, FullRelease} /\ todo' = [todo EXCEPT ![c] = r]
    BY DEF GiveUp, CleanUp
  <1>2. Listed(r) /\ First(r) \in {"none", "release"} /\ ~Exits(r) /\ ~Probes(r)
    BY <1>1, AllListed, Openings DEF Exits, Probes
  <1>3. ListsOK' /\ Others(c) /\ todo'[c] = r
    BY <1>1, <1>2, ListReplaced
  <1> QED BY <1>2, <1>3 DEF Drops, Now, Leaves, Probing

\* A new operation.
LEMMA StartsWork ==
  ASSUME ListsOK, NEW c \in Callers, NEW s, Starts(c, s),
         s \in {StopSmartTask \o ControlStop, FullRelease, PrepareTask, StartValidation}
  PROVE  /\ ListsOK' /\ Others(c) /\ Now(c) = "none"
         /\ Now(c)' = First(s) /\ ~(Leaves(c)') /\ ~(Probing(c)')
         /\ Now(c)' \in {"stopSmart", "release", "check"}
         /\ s # StartValidation => Now(c)' # "check"
  <1>1. /\ Listed(s) /\ First(s) \in {"stopSmart", "release", "check"}
        /\ ~Exits(s) /\ ~Probes(s)
        /\ s # StartValidation => First(s) # "check"
    BY AllListed, Openings DEF Exits, Probes
  <1>2. ListsOK' /\ Others(c) /\ todo'[c] = s
    BY <1>1, ListReplaced DEF Starts
  <1> QED BY <1>1, <1>2, AtNow DEF Starts, Now, Leaves, Probing

-----------------------------------------------------------------------------
(* Types                                                                   *)

TypeInv == BleTypeOK /\ ListsOK

\* Everything but the lists.
PlainOK ==
  /\ smart \in {"none", "wait", "woken", "run", "begin", "go", "scan", "look", "second",
                "judge", "disown", "exit", "idling", "leaving", "left"}
  /\ saw \in BOOLEAN /\ startSig \in BOOLEAN /\ idleSig \in BOOLEAN /\ scanDone \in BOOLEAN
  /\ resources \in BOOLEAN /\ initialized \in BOOLEAN /\ stopping \in BOOLEAN
  /\ enabled \in BOOLEAN /\ running \in BOOLEAN /\ scanning \in BOOLEAN
  /\ shutdown \in BOOLEAN /\ present \in BOOLEAN /\ owned \in BOOLEAN
  /\ ready \in BOOLEAN /\ lost \in BOOLEAN
  /\ stack \in {"off", "starting", "synced"}
  /\ gap \in {"idle", "active", "cancelling"}
  /\ callback \in {"none", "match", "complete"}
  /\ answer \in {"none", "asked", "dropped", "PRESENT", "REJECTED", "BUSY"}

\* SMT needs to be told that the two truth values are Boolean.
LEMMA Flag == \A x : x = TRUE \/ x = FALSE => x \in BOOLEAN
  BY Zenon

LEMMA TypesApart == BleTypeOK <=> todo \in [Callers -> Seq(StepNames)] /\ PlainOK
  BY DEF BleTypeOK, PlainOK

LEMMA Cancelled == DiscoveryCancelled => gap' \in {"cancelling", "idle"}
  BY DEF DiscoveryCancelled

\* A caller at its next step goes on, skips, or ends its work.
LEMMA CancelTurn ==
  ASSUME ListsOK, NEW c \in Callers, Cancel(c)
  PROVE  /\ Now(c) \in {"cancel", "cancelAny"}
         /\ \/ MustCancel(c) /\ gap # "idle" /\ Passes(c, Now(c))
            \/ Passes(c, "ack") /\ ~(Probing(c)') /\ (Leaves(c)' => Leaves(c))
  <1>1. PICK x \in {"cancel", "cancelAny"} : At(c, x)
    BY DEF Cancel
  <1>2. Now(c) = x /\ x \in Skippers /\ Skip(x) = "ack"
    BY <1>1, AtNow DEF Skippers, Skip
  <1>3. CASE SkipBehind(c, "ack")
    BY <1>1, <1>2, <1>3, Skips
  <1>4. CASE MustCancel(c) /\ gap # "idle" /\ Continue(c)
    BY <1>1, <1>2, <1>4, Continues
  <1> QED BY <1>2, <1>3, <1>4 DEF Cancel

LEMMA StopSmartTurn ==
  ASSUME ListsOK, NEW c \in Callers, StopSmart(c)
  PROVE  /\ Now(c) = "stopSmart"
         /\ \/ Passes(c, "stopSmart") /\ enabled' = FALSE
            \/ /\ Passes(c, "waitIdle") /\ UNCHANGED enabled
               /\ HandleNull \/ (~running /\ ~enabled)
  <1>1. At(c, "stopSmart") /\ "stopSmart" \in Skippers /\ Skip("stopSmart") = "waitIdle"
    BY DEF StopSmart, Skippers, Skip
  <1>2. Now(c) = "stopSmart"
    BY <1>1, AtNow
  <1>3. CASE HandleNull \/ (~running /\ ~enabled)
    BY <1>1, <1>2, <1>3, Skips DEF StopSmart
  <1>4. CASE ~(HandleNull \/ (~running /\ ~enabled))
    BY <1>1, <1>2, <1>4, Continues DEF StopSmart
  <1> QED BY <1>3, <1>4

LEMMA StopBeginsTurn ==
  ASSUME ListsOK, NEW c \in Callers, StopBegins(c)
  PROVE  /\ Now(c) = "stop"
         /\ \/ Passes(c, "stop") /\ stopping' = TRUE /\ enabled' = FALSE
            \/ Passes(c, "stopped") /\ UNCHANGED <<stopping, enabled>> /\ ~running
  <1>1. At(c, "stop") /\ "stop" \in Skippers /\ Skip("stop") = "stopped"
    BY DEF StopBegins, Skippers, Skip
  <1>2. Now(c) = "stop"
    BY <1>1, AtNow
  <1>3. CASE initialized \/ running \/ scanning
    BY <1>1, <1>2, <1>3, Continues DEF StopBegins
  <1>4. CASE ~(initialized \/ running \/ scanning)
    BY <1>1, <1>2, <1>4, Skips DEF StopBegins
  <1> QED BY <1>3, <1>4

LEMMA ReleaseTurn ==
  ASSUME ListsOK, NEW c \in Callers, ReleaseBegins(c)
  PROVE  /\ Now(c) = "release"
         /\ \/ Passes(c, "release") /\ UNCHANGED <<stopping, shutdown>>
            \/ Passes(c, "delete") /\ AlreadyOff /\ stopping' = FALSE /\ shutdown' = FALSE
  <1>1. At(c, "release") /\ "release" \in Skippers /\ Skip("release") = "delete"
    BY DEF ReleaseBegins, Skippers, Skip
  <1>2. Now(c) = "release"
    BY <1>1, AtNow
  <1>3. CASE AlreadyOff
    BY <1>1, <1>2, <1>3, Skips DEF ReleaseBegins
  <1>4. CASE ~AlreadyOff
    BY <1>1, <1>2, <1>4, Continues DEF ReleaseBegins
  <1> QED BY <1>3, <1>4

LEMMA AskExitTurn ==
  ASSUME ListsOK, NEW c \in Callers, AskExit(c)
  PROVE  /\ Now(c) = "askExit"
         /\ \/ Passes(c, "askExit") /\ ~HandleNull /\ idleSig' = FALSE /\ startSig' = resources
            \/ Passes(c, "waitExit") /\ HandleNull /\ UNCHANGED <<idleSig, startSig>>
  <1>1. At(c, "askExit") /\ "askExit" \in Skippers /\ Skip("askExit") = "waitExit"
    BY DEF AskExit, Skippers, Skip
  <1>2. Now(c) = "askExit"
    BY <1>1, AtNow
  <1>3. CASE HandleNull
    BY <1>1, <1>2, <1>3, Skips DEF AskExit
  <1>4. CASE ~HandleNull
    BY <1>1, <1>2, <1>4, Continues DEF AskExit
  <1> QED BY <1>3, <1>4

\* The steps that cannot skip.
LEMMA PlainTurns ==
  ASSUME ListsOK, NEW c \in Callers
  PROVE  /\ Ack(c) => Now(c) = "ack" /\ Passes(c, "ack")
         /\ Wake(c) => Now(c) = "wake" /\ Passes(c, "wake")
         /\ WaitIdle(c) => Now(c) = "waitIdle" /\ Passes(c, "waitIdle")
         /\ StopEnds(c) => Now(c) = "stopped" /\ Passes(c, "stopped")
         /\ RequestsShutdown(c) => Now(c) = "shutdown" /\ Passes(c, "shutdown")
         /\ Delete(c) => Now(c) = "delete" /\ Passes(c, "delete")
         /\ Boot(c) => Now(c) = "boot" /\ Passes(c, "boot")
         /\ Request(c) => Now(c) = "request" /\ Passes(c, "request")
  <1>1. ASSUME NEW x, At(c, x), Continue(c) PROVE Now(c) = x /\ Passes(c, x)
    BY <1>1, Continues, AtNow
  <1> QED BY <1>1 DEF Ack, Wake, WaitIdle, StopEnds, RequestsShutdown, Delete, Boot, Request

LEMMA FailingTurns ==
  ASSUME ListsOK, NEW c \in Callers
  PROVE  /\ WaitExit(c) => Now(c) = "waitExit" /\ ((Passes(c, "waitExit") /\ idleSig) \/ Drops(c))
         /\ Deinit(c) => Now(c) = "deinit" /\ (Passes(c, "deinit") \/ Drops(c))
         /\ Sync(c) => Now(c) = "sync" /\ (Passes(c, "sync") \/ Drops(c))
         /\ ControlStart(c) => Now(c) = "start" /\ (Passes(c, "start") \/ Drops(c))
         /\ Check(c) => Now(c) = "check" /\ ((Passes(c, "check") /\ Servable) \/ Drops(c))
         /\ PostsReady(c) => /\ Now(c) = "ready"
                             /\ \/ Passes(c, "ready") /\ ready' = TRUE
                                \/ Drops(c) /\ UNCHANGED ready
  <1>1. ASSUME NEW x, At(c, x) PROVE Now(c) = x /\ (Continue(c) => Passes(c, x))
    BY <1>1, Continues, AtNow
  <1>2. GiveUp(c) \/ CleanUp(c) => Drops(c)
    BY GivesUp
  <1>3. WaitExit(c) => Now(c) = "waitExit" /\ ((Passes(c, "waitExit") /\ idleSig) \/ Drops(c))
    BY <1>1, <1>2 DEF WaitExit
  <1>4. Deinit(c) => Now(c) = "deinit" /\ (Passes(c, "deinit") \/ Drops(c))
    BY <1>1, <1>2 DEF Deinit
  <1>5. Sync(c) => Now(c) = "sync" /\ (Passes(c, "sync") \/ Drops(c))
    BY <1>1, <1>2 DEF Sync
  <1>6. ControlStart(c) => Now(c) = "start" /\ (Passes(c, "start") \/ Drops(c))
    BY <1>1, <1>2 DEF ControlStart
  <1>7. Check(c) => Now(c) = "check" /\ ((Passes(c, "check") /\ Servable) \/ Drops(c))
    BY <1>1, <1>2 DEF Check
  <1>8. PostsReady(c) => /\ Now(c) = "ready"
                         /\ \/ Passes(c, "ready") /\ ready' = TRUE
                            \/ Drops(c) /\ UNCHANGED ready
    BY <1>1, <1>2 DEF PostsReady
  <1> QED BY <1>3, <1>4, <1>5, <1>6, <1>7, <1>8

LEMMA CallerTypes ==
  ASSUME TypeInv, NEW c \in Callers, CallerStep(c)
  PROVE  TypeInv'
  <1>0. ListsOK /\ PlainOK
    BY TypesApart DEF TypeInv
  <1>l. ListsOK'
    <2>1. CASE Cancel(c)
      BY <1>0, <2>1, CancelTurn DEF Passes
    <2>2. CASE StopSmart(c) \/ StopBegins(c) \/ ReleaseBegins(c) \/ AskExit(c)
      BY <1>0, <2>2, StopSmartTurn, StopBeginsTurn, ReleaseTurn, AskExitTurn DEF Passes
    <2>3. CASE Ack(c) \/ Wake(c) \/ WaitIdle(c) \/ StopEnds(c) \/ RequestsShutdown(c) \/ Delete(c)
               \/ Boot(c) \/ Request(c)
      BY <1>0, <2>3, PlainTurns DEF Passes
    <2>4. CASE WaitExit(c) \/ Deinit(c) \/ Sync(c) \/ ControlStart(c) \/ Check(c) \/ PostsReady(c)
      BY <1>0, <2>4, FailingTurns DEF Passes, Drops
    <2> QED BY <2>1, <2>2, <2>3, <2>4 DEF CallerStep
  <1>p. PlainOK'
    <2>1. CASE Cancel(c)
      BY <1>0, <2>1, Cancelled, Flag DEF PlainOK, Cancel
    <2>2. CASE Ack(c)
      BY <1>0, <2>2, Flag DEF PlainOK, Ack
    <2>3. CASE StopSmart(c)
      BY <1>0, <2>3, Flag DEF PlainOK, StopSmart
    <2>4. CASE Wake(c)
      BY <1>0, <2>4, Flag DEF PlainOK, Wake
    <2>5. CASE WaitIdle(c)
      BY <1>0, <2>5, Flag DEF PlainOK, WaitIdle
    <2>6. CASE StopBegins(c)
      BY <1>0, <2>6, Flag DEF PlainOK, StopBegins
    <2>7. CASE StopEnds(c)
      BY <1>0, <2>7, Flag DEF PlainOK, StopEnds
    <2>8. CASE ReleaseBegins(c)
      BY <1>0, <2>8, Flag DEF PlainOK, ReleaseBegins
    <2>9. CASE RequestsShutdown(c)
      BY <1>0, <2>9, Flag DEF PlainOK, RequestsShutdown
    <2>10. CASE AskExit(c)
      BY <1>0, <2>10, Flag DEF PlainOK, AskExit
    <2>11. CASE WaitExit(c)
      BY <1>0, <2>11, Flag DEF PlainOK, WaitExit
    <2>12. CASE Deinit(c)
      BY <1>0, <2>12, Flag DEF PlainOK, Deinit
    <2>13. CASE Delete(c)
      BY <1>0, <2>13, Flag DEF PlainOK, Delete
    <2>14. CASE Boot(c)
      BY <1>0, <2>14, Flag DEF PlainOK, Boot
    <2>15. CASE Sync(c)
      BY <1>0, <2>15, Flag DEF PlainOK, Sync
    <2>16. CASE ControlStart(c)
      BY <1>0, <2>16, Flag DEF PlainOK, ControlStart
    <2>17. CASE Check(c)
      BY <1>0, <2>17, Flag DEF PlainOK, Check
    <2>18. CASE PostsReady(c)
      BY <1>0, <2>18, Flag DEF PlainOK, PostsReady
    <2>19. CASE Request(c)
      BY <1>0, <2>19, Flag DEF PlainOK, Request
    <2> QED BY <2>1, <2>2, <2>3, <2>4, <2>5, <2>6, <2>7, <2>8, <2>9, <2>10, <2>11, <2>12, <2>13,
               <2>14, <2>15, <2>16, <2>17, <2>18, <2>19 DEF CallerStep
  <1> QED BY <1>l, <1>p DEF TypeInv, ListsOK, PlainOK, BleTypeOK

LEMMA SmartTypes ==
  ASSUME TypeInv, SmartStep
  PROVE  TypeInv'
  <1>0. ListsOK /\ PlainOK
    BY TypesApart DEF TypeInv
  <1>1. PlainOK' /\ UNCHANGED todo
    <2>1. CASE SmartWakes \/ SmartDecides \/ SmartResets \/ SmartBegins
      BY <1>0, <2>1, Flag DEF PlainOK, SmartWakes, SmartDecides, SmartResets, SmartBegins
    <2>2. CASE SmartScans \/ SmartScanEnds \/ SmartTimesOut \/ SmartLooks
      BY <1>0, <2>2, Flag DEF PlainOK, SmartScans, SmartScanEnds, SmartTimesOut, SmartLooks
    <2>3. CASE SmartSecondWait \/ SmartJudges \/ SmartDisowns \/ SmartFinishes
      BY <1>0, <2>3, Flag DEF PlainOK, SmartSecondWait, SmartJudges, SmartDisowns, SmartFinishes
    <2>4. CASE SmartIdles \/ SmartLeaves \/ SmartGone
      BY <1>0, <2>4, Flag DEF PlainOK, SmartIdles, SmartLeaves, SmartGone
    <2> QED BY <2>1, <2>2, <2>3, <2>4 DEF SmartStep
  <1> QED BY <1>0, <1>1 DEF TypeInv, ListsOK, PlainOK, BleTypeOK

LEMMA HostTypes ==
  ASSUME TypeInv, HostStep \/ HostMatches
  PROVE  TypeInv'
  <1>0. ListsOK /\ PlainOK
    BY TypesApart DEF TypeInv
  <1>1. PlainOK' /\ UNCHANGED todo
    BY <1>0, Cancelled, Flag DEF PlainOK, HostStep, HostSyncs, HostCancels,
       HostEndsDiscovery, HostCompletes,
       HostMatches
  <1> QED BY <1>0, <1>1 DEF TypeInv, ListsOK, PlainOK, BleTypeOK

\* The operations the orchestrator starts.
Begins == LosesWifi \/ FallsAsleep \/ Prepares \/ Releases \/ Validates

LEMMA Begun ==
  ASSUME Begins
  PROVE  \E c \in Callers :
           \E s \in {StopSmartTask \o ControlStop, FullRelease, PrepareTask, StartValidation} :
             /\ Starts(c, s)
             /\ lost' = ~Quiet \/ lost' = (lost /\ ~Quiet)
             /\ Quiet \/ lost \/ Overlap
             /\ s = StartValidation => ready
  <1> DEFINE Lists == {StopSmartTask \o ControlStop, FullRelease, PrepareTask, StartValidation}
             P(c, s) == /\ Starts(c, s)
                        /\ lost' = ~Quiet \/ lost' = (lost /\ ~Quiet)
                        /\ Quiet \/ lost \/ Overlap
                        /\ s = StartValidation => ready
  <1>0. "orch" \in Callers /\ "prep" \in Callers /\ "rel" \in Callers
    BY DEF Callers
  <1>n. StopSmartTask \o ControlStop # StartValidation /\ FullRelease # StartValidation
        /\ PrepareTask # StartValidation
    BY Openings
  <1>1. CASE LosesWifi
    <2>1. P("orch", StopSmartTask \o ControlStop)
      BY <1>1, <1>n DEF LosesWifi
    <2> QED BY <1>0, <2>1
  <1>2. CASE FallsAsleep
    <2>1. P("orch", FullRelease)
      BY <1>2, <1>n DEF FallsAsleep, GoesOn
    <2> QED BY <1>0, <2>1
  <1>3. CASE Prepares
    <2>1. P("prep", PrepareTask)
      BY <1>3, <1>n DEF Prepares, GoesOn
    <2> QED BY <1>0, <2>1
  <1>4. CASE Releases
    <2>1. P("rel", FullRelease)
      BY <1>4, <1>n DEF Releases, GoesOn
    <2> QED BY <1>0, <2>1
  <1>5. CASE Validates
    <2>1. P("orch", StartValidation)
      BY <1>5 DEF Validates, GoesOn
    <2> QED BY <1>0, <2>1
  <1> QED BY <1>1, <1>2, <1>3, <1>4, <1>5 DEF Begins

LEMMA BeginsTypes ==
  ASSUME TypeInv, Begins
  PROVE  TypeInv'
  <1>0. ListsOK /\ PlainOK
    BY TypesApart DEF TypeInv
  <1>1. PICK c \in Callers,
             s \in {StopSmartTask \o ControlStop, FullRelease, PrepareTask, StartValidation} :
           Starts(c, s) /\ (lost' = ~Quiet \/ lost' = (lost /\ ~Quiet))
    BY Begun
  <1>2. ListsOK'
    BY <1>0, <1>1, StartsWork
  <1>3. PlainOK'
    BY <1>0, <1>1, Flag DEF PlainOK, Starts
  <1> QED BY <1>2, <1>3 DEF TypeInv, ListsOK, PlainOK, BleTypeOK

LEMMA TypesBegin == BleInit => TypeInv
  <1> SUFFICES ASSUME BleInit PROVE TypeInv
    OBVIOUS
  <1>1. ListsOK
    BY AllListed DEF BleInit, ListsOK
  <1>2. PlainOK
    BY Flag DEF BleInit, PlainOK
  <1> QED BY <1>1, <1>2 DEF TypeInv, ListsOK, PlainOK, BleTypeOK

LEMMA TypesStay == TypeInv /\ [BleNext]_bleVars => TypeInv'
  <1> SUFFICES ASSUME TypeInv, [BleNext]_bleVars PROVE TypeInv'
    OBVIOUS
  <1>1. CASE UNCHANGED bleVars
    BY <1>1 DEF TypeInv, BleTypeOK, ListsOK
  <1> QED BY <1>1, CallerTypes, SmartTypes, HostTypes, BeginsTypes DEF BleNext, Begins

\* Every variable keeps its type, whichever of the faults and overlaps of the model
\* are allowed.
THEOREM TypeCorrect == BleSpec => []BleTypeOK
  <1>1. TypeInv => BleTypeOK
    BY DEF TypeInv
  <1> QED BY <1>1, TypesBegin, TypesStay, PTL DEF BleSpec

-----------------------------------------------------------------------------
(* One operation at a time                                                 *)

\* The smart task waits, and nobody has woken it.
Idle == smart = "none" \/ (smart = "wait" /\ ~startSig)

\* It is on its way out, or about to decide; it has a scan to end.
Going == {"woken", "leaving", "left", "none"}
ScanStates == {"scan", "look", "second"}

\* A request that the task has not decided on.
Pending == answer = "asked" /\ smart \in {"wait", "woken"}

\* Where a caller builds the module up or asks it for a scan, and what it relies on.
Building == {"boot", "sync", "start", "check", "cancelAny", "ready", "request"}
Untouched == Idle /\ callback = "none" /\ ~enabled /\ ~shutdown

\* While WiFi stays up, one caller works.
Alone ==
  /\ ~lost
  /\ ready => \A c \in Callers : Now(c) = "none"
  /\ \A c, d \in Callers : c # d => Now(c) = "none" \/ Now(d) = "none"

\* What the place of a caller in its work says about the rest: the handshake of the
\* exit, and what the steps before have prepared.
Place(c) ==
  /\ Leaves(c) => shutdown /\ ~Pending
  /\ ~Probing(c)
  /\ Now(c) \in {"stopped", "shutdown"} => ~Pending
  /\ Now(c) = "waitExit" => /\ smart \notin Going => startSig
                            /\ idleSig => smart \in Going \cup {"wait"}
  /\ Now(c) = "deinit" => smart \in Going \cup {"wait"} /\ (smart = "wait" => startSig)
  /\ Now(c) = "delete" => smart = "none" /\ callback = "none" /\ ~enabled
  /\ Now(c) \in Building => Untouched
  /\ Now(c) \in {"cancelAny", "request"} => initialized /\ ~stopping /\ ~HandleNull
  /\ Now(c) \in {"cancel", "ack"} => ~enabled
  /\ Now(c) = "ack" => smart \notin {"run", "begin", "go"}

\* What the flags, the smart task and the host say about each other.
Module ==
  /\ smart # "none" => resources
  /\ ready => Untouched
  /\ enabled => /\ initialized /\ ~stopping /\ ~shutdown
                /\ smart \notin {"none", "idling", "leaving", "left"}
  /\ enabled /\ smart \in {"wait", "woken"} => callback = "none" /\ answer = "asked"
  /\ answer = "asked" => smart \in {"wait", "woken", "run", "begin", "go", "scan", "look",
                                    "second", "judge"}
  /\ smart \in {"run", "begin", "go", "scan", "look", "second", "judge"} => answer = "asked"
  /\ Pending => running /\ ~idleSig /\ (smart = "wait" => startSig)
Radio ==
  /\ stack = "off" => gap = "idle" /\ callback = "none"
  /\ callback = "complete" => gap = "idle"
  /\ callback = "match" => present
  /\ smart \in {"run", "begin", "go"} => callback = "none"
  /\ smart \notin ScanStates => gap = "idle" /\ ~scanning
  /\ smart \in {"begin", "go"} => ~scanDone
  /\ gap # "idle" /\ smart = "scan" /\ scanDone => present /\ callback = "none"
  /\ gap # "idle" /\ smart \in {"look", "second"} => present /\ callback = "none" /\ ~scanDone
  /\ (smart = "scan" /\ scanDone) \/ smart = "look" => present \/ ~scanning
  /\ smart = "judge" => (saw <=> present)
  /\ smart = "second" => saw /\ present

\* A request that somebody takes back finds him at work until it is gone.
Backed == Pending => enabled \/ \E c \in Callers : Now(c) # "none"

Sound == Alone /\ Module /\ Radio /\ Backed /\ \A c \in Callers : Place(c)

\* What a step of the caller c leaves to be shown.
Kept(c) ==
  /\ Place(c)' /\ Module' /\ Radio'
  /\ Pending' => enabled' \/ Now(c)' # "none"
  /\ ready' => Now(c)' = "none"

LEMMA Where ==
  ASSUME NEW c
  PROVE  /\ Leaves(c) => Now(c) \in {"cancel", "ack", "askExit", "waitExit", "deinit"}
         /\ Now(c) \in {"askExit", "waitExit", "deinit"} => Leaves(c)
         /\ Probing(c) => Now(c) = "ack"
  BY DEF Leaves, Exits, Probing, Probes, Now

LEMMA Solo ==
  ASSUME Sound, NEW c \in Callers, Now(c) # "none", Others(c), UNCHANGED lost, Kept(c)
  PROVE  Sound'
  <1>1. ASSUME NEW d \in Callers, d # c
        PROVE  Now(d)' = "none" /\ ~(Leaves(d)') /\ ~(Probing(d)')
    <2>1. Now(d) = "none"
      BY <1>1 DEF Sound, Alone
    <2> QED BY <1>1, <2>1, Where DEF Others
  <1>2. ASSUME NEW d \in Callers PROVE Place(d)'
    <2>1. CASE d = c
      BY <2>1 DEF Kept
    <2>2. CASE d # c
      BY <1>1, <2>2 DEF Place, Building
    <2> QED BY <2>1, <2>2
  <1>3. Alone'
    BY <1>1 DEF Kept, Alone, Sound
  <1>4. Backed'
    BY DEF Kept, Backed
  <1> QED BY <1>2, <1>3, <1>4 DEF Kept, Sound

\* The caller c and everything it can rely on.
LEMMA AtWork ==
  ASSUME TypeInv, Sound, NEW c \in Callers, Now(c) # "none"
  PROVE  ListsOK /\ PlainOK /\ Place(c) /\ Module /\ Radio /\ ready = FALSE
  BY TypesApart DEF TypeInv, Sound, Alone, PlainOK

\* What a step of a caller keeps, one lemma for each.
LEMMA CancelKept ==
  ASSUME TypeInv, Sound, NEW c \in Callers, Cancel(c)
  PROVE  Now(c) # "none" /\ Others(c) /\ UNCHANGED lost /\ Kept(c)
  <1>0. ListsOK
    BY DEF TypeInv
  <1>1. /\ Now(c) \in {"cancel", "cancelAny"} /\ Others(c)
        /\ \/ MustCancel(c) /\ gap # "idle" /\ Passes(c, Now(c))
           \/ Passes(c, "ack") /\ ~(Probing(c)') /\ (Leaves(c)' => Leaves(c))
    BY <1>0, CancelTurn, Cancelled DEF Passes, Drops
  <1>2. PlainOK /\ Place(c) /\ Module /\ Radio /\ ready = FALSE
    BY <1>1, AtWork
  <1>3. Place(c)'
    BY <1>1, <1>2, Where DEF Cancel, MustCancel, PlainOK, Passes, Drops, Follows, Place,
       Module, Radio, Pending, Untouched, Idle, Going, Building, HandleNull, ScanStates
  <1>4. Module' /\ (Pending' => enabled' \/ Now(c)' # "none") /\ (ready' => Now(c)' = "none")
    BY <1>1, <1>2, Where DEF Cancel, MustCancel, PlainOK, Passes, Drops, Follows, Place,
       Module, Radio, Pending, Untouched, Idle, Going, Building, HandleNull, ScanStates
  <1>5. Radio'
    BY <1>1, <1>2 DEF Cancel, MustCancel, PlainOK, Place, Module, Radio, Pending, Untouched,
       Idle, Building, ScanStates
  <1> QED BY <1>1, <1>3, <1>4, <1>5 DEF Kept, Cancel, MustCancel

LEMMA AckKept ==
  ASSUME TypeInv, Sound, NEW c \in Callers, Ack(c)
  PROVE  Now(c) # "none" /\ Others(c) /\ UNCHANGED lost /\ Kept(c)
  <1>0. ListsOK
    BY DEF TypeInv
  <1>1. Now(c) = "ack" /\ Others(c) /\ Passes(c, "ack")
    BY <1>0, PlainTurns DEF Passes, Drops
  <1>2. PlainOK /\ Place(c) /\ Module /\ Radio /\ ready = FALSE
    BY <1>1, AtWork
  <1>3. Place(c)'
    BY <1>1, <1>2, Where DEF Ack, PlainOK, Passes, Drops, Follows, Place, Module, Radio,
       Pending, Untouched, Idle, Going, Building, HandleNull, ScanStates
  <1>4. Module' /\ (Pending' => enabled' \/ Now(c)' # "none") /\ (ready' => Now(c)' = "none")
    BY <1>1, <1>2, Where DEF Ack, PlainOK, Passes, Drops, Follows, Place, Module, Radio,
       Pending, Untouched, Idle, Going, Building, HandleNull, ScanStates
  <1>5. Radio'
    BY <1>1, <1>2 DEF Ack, PlainOK, Place, Module, Radio, Pending, Untouched, Idle, Building,
       ScanStates
  <1> QED BY <1>1, <1>3, <1>4, <1>5 DEF Kept, Ack

LEMMA StopSmartKept ==
  ASSUME TypeInv, Sound, NEW c \in Callers, StopSmart(c)
  PROVE  Now(c) # "none" /\ Others(c) /\ UNCHANGED lost /\ Kept(c)
  <1>0. ListsOK
    BY DEF TypeInv
  <1>1. /\ Now(c) = "stopSmart" /\ Others(c)
        /\ \/ Passes(c, "stopSmart") /\ enabled' = FALSE
           \/ /\ Passes(c, "waitIdle") /\ UNCHANGED enabled
              /\ HandleNull \/ (~running /\ ~enabled)
    BY <1>0, StopSmartTurn DEF Passes, Drops
  <1>2. PlainOK /\ Place(c) /\ Module /\ Radio /\ ready = FALSE
    BY <1>1, AtWork
  <1>3. Place(c)'
    BY <1>1, <1>2, Where DEF StopSmart, PlainOK, Passes, Drops, Follows, Place, Module,
       Radio, Pending, Untouched, Idle, Going, Building, HandleNull, ScanStates
  <1>4. Module' /\ (Pending' => enabled' \/ Now(c)' # "none") /\ (ready' => Now(c)' = "none")
    BY <1>1, <1>2, Where DEF StopSmart, PlainOK, Passes, Drops, Follows, Place, Module,
       Radio, Pending, Untouched, Idle, Going, Building, HandleNull, ScanStates
  <1>5. Radio'
    BY <1>1, <1>2 DEF StopSmart, PlainOK, Place, Module, Radio, Pending, Untouched, Idle,
       Building, ScanStates
  <1> QED BY <1>1, <1>3, <1>4, <1>5 DEF Kept, StopSmart

LEMMA WakeKept ==
  ASSUME TypeInv, Sound, NEW c \in Callers, Wake(c)
  PROVE  Now(c) # "none" /\ Others(c) /\ UNCHANGED lost /\ Kept(c)
  <1>0. ListsOK
    BY DEF TypeInv
  <1>1. Now(c) = "wake" /\ Others(c) /\ Passes(c, "wake")
    BY <1>0, PlainTurns DEF Passes, Drops
  <1>2. PlainOK /\ Place(c) /\ Module /\ Radio /\ ready = FALSE
    BY <1>1, AtWork
  <1>3. Place(c)'
    BY <1>1, <1>2, Where DEF Wake, PlainOK, Passes, Drops, Follows, Place, Module, Radio,
       Pending, Untouched, Idle, Going, Building, HandleNull, ScanStates
  <1>4. Module' /\ (Pending' => enabled' \/ Now(c)' # "none") /\ (ready' => Now(c)' = "none")
    BY <1>1, <1>2, Where DEF Wake, PlainOK, Passes, Drops, Follows, Place, Module, Radio,
       Pending, Untouched, Idle, Going, Building, HandleNull, ScanStates
  <1>5. Radio'
    BY <1>1, <1>2 DEF Wake, PlainOK, Place, Module, Radio, Pending, Untouched, Idle,
       Building, ScanStates
  <1> QED BY <1>1, <1>3, <1>4, <1>5 DEF Kept, Wake

LEMMA WaitIdleKept ==
  ASSUME TypeInv, Sound, NEW c \in Callers, WaitIdle(c)
  PROVE  Now(c) # "none" /\ Others(c) /\ UNCHANGED lost /\ Kept(c)
  <1>0. ListsOK
    BY DEF TypeInv
  <1>1. Now(c) = "waitIdle" /\ Others(c) /\ Passes(c, "waitIdle")
    BY <1>0, PlainTurns DEF Passes, Drops
  <1>2. PlainOK /\ Place(c) /\ Module /\ Radio /\ ready = FALSE
    BY <1>1, AtWork
  <1>3. Place(c)'
    BY <1>1, <1>2, Where DEF WaitIdle, SmartIsLate, PlainOK, Passes, Drops, Follows, Place,
       Module, Radio, Pending, Untouched, Idle, Going, Building, HandleNull, ScanStates
  <1>4. Module' /\ (Pending' => enabled' \/ Now(c)' # "none") /\ (ready' => Now(c)' = "none")
    BY <1>1, <1>2, Where DEF WaitIdle, SmartIsLate, PlainOK, Passes, Drops, Follows, Place,
       Module, Radio, Pending, Untouched, Idle, Going, Building, HandleNull, ScanStates
  <1>5. Radio'
    BY <1>1, <1>2 DEF WaitIdle, SmartIsLate, PlainOK, Place, Module, Radio, Pending,
       Untouched, Idle, Building, ScanStates
  <1> QED BY <1>1, <1>3, <1>4, <1>5 DEF Kept, WaitIdle, SmartIsLate

LEMMA StopBeginsKept ==
  ASSUME TypeInv, Sound, NEW c \in Callers, StopBegins(c)
  PROVE  Now(c) # "none" /\ Others(c) /\ UNCHANGED lost /\ Kept(c)
  <1>0. ListsOK
    BY DEF TypeInv
  <1>1. /\ Now(c) = "stop" /\ Others(c)
        /\ \/ Passes(c, "stop") /\ stopping' = TRUE /\ enabled' = FALSE
           \/ Passes(c, "stopped") /\ UNCHANGED <<stopping, enabled>> /\ ~running
    BY <1>0, StopBeginsTurn DEF Passes, Drops
  <1>2. PlainOK /\ Place(c) /\ Module /\ Radio /\ ready = FALSE
    BY <1>1, AtWork
  <1>3. Place(c)'
    BY <1>1, <1>2, Where DEF StopBegins, PlainOK, Passes, Drops, Follows, Place, Module,
       Radio, Pending, Untouched, Idle, Going, Building, HandleNull, ScanStates
  <1>4. Module' /\ (Pending' => enabled' \/ Now(c)' # "none") /\ (ready' => Now(c)' = "none")
    BY <1>1, <1>2, Where DEF StopBegins, PlainOK, Passes, Drops, Follows, Place, Module,
       Radio, Pending, Untouched, Idle, Going, Building, HandleNull, ScanStates
  <1>5. Radio'
    BY <1>1, <1>2 DEF StopBegins, PlainOK, Place, Module, Radio, Pending, Untouched, Idle,
       Building, ScanStates
  <1> QED BY <1>1, <1>3, <1>4, <1>5 DEF Kept, StopBegins

LEMMA StopEndsKept ==
  ASSUME TypeInv, Sound, NEW c \in Callers, StopEnds(c)
  PROVE  Now(c) # "none" /\ Others(c) /\ UNCHANGED lost /\ Kept(c)
  <1>0. ListsOK
    BY DEF TypeInv
  <1>1. Now(c) = "stopped" /\ Others(c) /\ Passes(c, "stopped")
    BY <1>0, PlainTurns DEF Passes, Drops
  <1>2. PlainOK /\ Place(c) /\ Module /\ Radio /\ ready = FALSE
    BY <1>1, AtWork
  <1>3. Place(c)'
    BY <1>1, <1>2, Where DEF StopEnds, PlainOK, Passes, Drops, Follows, Place, Module, Radio,
       Pending, Untouched, Idle, Going, Building, HandleNull, ScanStates
  <1>4. Module' /\ (Pending' => enabled' \/ Now(c)' # "none") /\ (ready' => Now(c)' = "none")
    BY <1>1, <1>2, Where DEF StopEnds, PlainOK, Passes, Drops, Follows, Place, Module, Radio,
       Pending, Untouched, Idle, Going, Building, HandleNull, ScanStates
  <1>5. Radio'
    BY <1>1, <1>2 DEF StopEnds, PlainOK, Place, Module, Radio, Pending, Untouched, Idle,
       Building, ScanStates
  <1> QED BY <1>1, <1>3, <1>4, <1>5 DEF Kept, StopEnds

LEMMA ReleaseBeginsKept ==
  ASSUME TypeInv, Sound, NEW c \in Callers, ReleaseBegins(c)
  PROVE  Now(c) # "none" /\ Others(c) /\ UNCHANGED lost /\ Kept(c)
  <1>0. ListsOK
    BY DEF TypeInv
  <1>1. /\ Now(c) = "release" /\ Others(c)
        /\ \/ Passes(c, "release") /\ UNCHANGED <<stopping, shutdown>>
           \/ Passes(c, "delete") /\ AlreadyOff /\ stopping' = FALSE /\ shutdown' = FALSE
    BY <1>0, ReleaseTurn DEF Passes, Drops
  <1>2. PlainOK /\ Place(c) /\ Module /\ Radio /\ ready = FALSE
    BY <1>1, AtWork
  <1>3. Place(c)'
    BY <1>1, <1>2, Where DEF ReleaseBegins, AlreadyOff, PlainOK, Passes, Drops, Follows,
       Place, Module, Radio, Pending, Untouched, Idle, Going, Building, HandleNull, ScanStates
  <1>4. Module' /\ (Pending' => enabled' \/ Now(c)' # "none") /\ (ready' => Now(c)' = "none")
    BY <1>1, <1>2, Where DEF ReleaseBegins, AlreadyOff, PlainOK, Passes, Drops, Follows,
       Place, Module, Radio, Pending, Untouched, Idle, Going, Building, HandleNull, ScanStates
  <1>5. Radio'
    BY <1>1, <1>2 DEF ReleaseBegins, AlreadyOff, PlainOK, Place, Module, Radio, Pending,
       Untouched, Idle, Building, ScanStates
  <1> QED BY <1>1, <1>3, <1>4, <1>5 DEF Kept, ReleaseBegins, AlreadyOff

LEMMA RequestsShutdownKept ==
  ASSUME TypeInv, Sound, NEW c \in Callers, RequestsShutdown(c)
  PROVE  Now(c) # "none" /\ Others(c) /\ UNCHANGED lost /\ Kept(c)
  <1>0. ListsOK
    BY DEF TypeInv
  <1>1. Now(c) = "shutdown" /\ Others(c) /\ Passes(c, "shutdown")
    BY <1>0, PlainTurns DEF Passes, Drops
  <1>2. PlainOK /\ Place(c) /\ Module /\ Radio /\ ready = FALSE
    BY <1>1, AtWork
  <1>3. Place(c)'
    BY <1>1, <1>2, Where DEF RequestsShutdown, PlainOK, Passes, Drops, Follows, Place,
       Module, Radio, Pending, Untouched, Idle, Going, Building, HandleNull, ScanStates
  <1>4. Module' /\ (Pending' => enabled' \/ Now(c)' # "none") /\ (ready' => Now(c)' = "none")
    BY <1>1, <1>2, Where DEF RequestsShutdown, PlainOK, Passes, Drops, Follows, Place,
       Module, Radio, Pending, Untouched, Idle, Going, Building, HandleNull, ScanStates
  <1>5. Radio'
    BY <1>1, <1>2 DEF RequestsShutdown, PlainOK, Place, Module, Radio, Pending, Untouched,
       Idle, Building, ScanStates
  <1> QED BY <1>1, <1>3, <1>4, <1>5 DEF Kept, RequestsShutdown

LEMMA AskExitKept ==
  ASSUME TypeInv, Sound, NEW c \in Callers, AskExit(c)
  PROVE  Now(c) # "none" /\ Others(c) /\ UNCHANGED lost /\ Kept(c)
  <1>0. ListsOK
    BY DEF TypeInv
  <1>1. /\ Now(c) = "askExit" /\ Others(c)
        /\ \/ Passes(c, "askExit") /\ ~HandleNull /\ idleSig' = FALSE /\ startSig' = resources
           \/ Passes(c, "waitExit") /\ HandleNull /\ UNCHANGED <<idleSig, startSig>>
    BY <1>0, AskExitTurn DEF Passes, Drops
  <1>2. PlainOK /\ Place(c) /\ Module /\ Radio /\ ready = FALSE
    BY <1>1, AtWork
  <1>3. Place(c)'
    BY <1>1, <1>2, Where DEF AskExit, PlainOK, Passes, Drops, Follows, Place, Module, Radio,
       Pending, Untouched, Idle, Going, Building, HandleNull, ScanStates
  <1>4. Module' /\ (Pending' => enabled' \/ Now(c)' # "none") /\ (ready' => Now(c)' = "none")
    BY <1>1, <1>2, Where DEF AskExit, PlainOK, Passes, Drops, Follows, Place, Module, Radio,
       Pending, Untouched, Idle, Going, Building, HandleNull, ScanStates
  <1>5. Radio'
    BY <1>1, <1>2 DEF AskExit, PlainOK, Place, Module, Radio, Pending, Untouched, Idle,
       Building, ScanStates
  <1> QED BY <1>1, <1>3, <1>4, <1>5 DEF Kept, AskExit

LEMMA WaitExitKept ==
  ASSUME TypeInv, Sound, NEW c \in Callers, WaitExit(c)
  PROVE  Now(c) # "none" /\ Others(c) /\ UNCHANGED lost /\ Kept(c)
  <1>0. ListsOK
    BY DEF TypeInv
  <1>1. /\ Now(c) = "waitExit" /\ Others(c) /\ ((Passes(c, "waitExit") /\ idleSig) \/ Drops(c))
    BY <1>0, FailingTurns DEF Passes, Drops
  <1>2. PlainOK /\ Place(c) /\ Module /\ Radio /\ ready = FALSE
    BY <1>1, AtWork
  <1>3. Place(c)'
    BY <1>1, <1>2, Where DEF WaitExit, PlainOK, Passes, Drops, Follows, Place, Module, Radio,
       Pending, Untouched, Idle, Going, Building, HandleNull, ScanStates
  <1>4. Module' /\ (Pending' => enabled' \/ Now(c)' # "none") /\ (ready' => Now(c)' = "none")
    BY <1>1, <1>2, Where DEF WaitExit, PlainOK, Passes, Drops, Follows, Place, Module, Radio,
       Pending, Untouched, Idle, Going, Building, HandleNull, ScanStates
  <1>5. Radio'
    BY <1>1, <1>2 DEF WaitExit, PlainOK, Place, Module, Radio, Pending, Untouched, Idle,
       Building, ScanStates
  <1> QED BY <1>1, <1>3, <1>4, <1>5 DEF Kept, WaitExit

LEMMA DeinitKept ==
  ASSUME SlowDeinit, TypeInv, Sound, NEW c \in Callers, Deinit(c)
  PROVE  Now(c) # "none" /\ Others(c) /\ UNCHANGED lost /\ Kept(c)
  <1>0. ListsOK
    BY DEF TypeInv
  <1>1. Now(c) = "deinit" /\ Others(c) /\ (Passes(c, "deinit") \/ Drops(c))
    BY <1>0, FailingTurns DEF Passes, Drops
  <1>2. PlainOK /\ Place(c) /\ Module /\ Radio /\ ready = FALSE
    BY <1>1, AtWork
  <1>3. Place(c)'
    BY <1>1, <1>2, Where DEF Deinit, SmartSettled, PlainOK, Passes, Drops, Follows, Place,
       Module, Radio, Pending, Untouched, Idle, Going, Building, HandleNull, ScanStates
  <1>4. Module' /\ (Pending' => enabled' \/ Now(c)' # "none") /\ (ready' => Now(c)' = "none")
    BY <1>1, <1>2, Where DEF Deinit, SmartSettled, PlainOK, Passes, Drops, Follows, Place,
       Module, Radio, Pending, Untouched, Idle, Going, Building, HandleNull, ScanStates
  <1>5. Radio'
    BY <1>1, <1>2 DEF Deinit, SmartSettled, PlainOK, Place, Module, Radio, Pending,
       Untouched, Idle, Building, ScanStates
  <1> QED BY <1>1, <1>3, <1>4, <1>5 DEF Kept, Deinit, SmartSettled

LEMMA DeleteKept ==
  ASSUME TypeInv, Sound, NEW c \in Callers, Delete(c)
  PROVE  Now(c) # "none" /\ Others(c) /\ UNCHANGED lost /\ Kept(c)
  <1>0. ListsOK
    BY DEF TypeInv
  <1>1. Now(c) = "delete" /\ Others(c) /\ Passes(c, "delete")
    BY <1>0, PlainTurns DEF Passes, Drops
  <1>2. PlainOK /\ Place(c) /\ Module /\ Radio /\ ready = FALSE
    BY <1>1, AtWork
  <1>3. Place(c)'
    BY <1>1, <1>2, Where DEF Delete, PlainOK, Passes, Drops, Follows, Place, Module, Radio,
       Pending, Untouched, Idle, Going, Building, HandleNull, ScanStates
  <1>4. Module' /\ (Pending' => enabled' \/ Now(c)' # "none") /\ (ready' => Now(c)' = "none")
    BY <1>1, <1>2, Where DEF Delete, PlainOK, Passes, Drops, Follows, Place, Module, Radio,
       Pending, Untouched, Idle, Going, Building, HandleNull, ScanStates
  <1>5. Radio'
    BY <1>1, <1>2 DEF Delete, PlainOK, Place, Module, Radio, Pending, Untouched, Idle,
       Building, ScanStates
  <1> QED BY <1>1, <1>3, <1>4, <1>5 DEF Kept, Delete

LEMMA BootKept ==
  ASSUME TypeInv, Sound, NEW c \in Callers, Boot(c)
  PROVE  Now(c) # "none" /\ Others(c) /\ UNCHANGED lost /\ Kept(c)
  <1>0. ListsOK
    BY DEF TypeInv
  <1>1. Now(c) = "boot" /\ Others(c) /\ Passes(c, "boot")
    BY <1>0, PlainTurns DEF Passes, Drops
  <1>2. PlainOK /\ Place(c) /\ Module /\ Radio /\ ready = FALSE
    BY <1>1, AtWork
  <1>3. Place(c)'
    BY <1>1, <1>2, Where DEF Boot, PlainOK, Passes, Drops, Follows, Place, Module, Radio,
       Pending, Untouched, Idle, Going, Building, HandleNull, ScanStates
  <1>4. Module' /\ (Pending' => enabled' \/ Now(c)' # "none") /\ (ready' => Now(c)' = "none")
    BY <1>1, <1>2, Where DEF Boot, PlainOK, Passes, Drops, Follows, Place, Module, Radio,
       Pending, Untouched, Idle, Going, Building, HandleNull, ScanStates
  <1>5. Radio'
    BY <1>1, <1>2 DEF Boot, PlainOK, Place, Module, Radio, Pending, Untouched, Idle,
       Building, ScanStates
  <1> QED BY <1>1, <1>3, <1>4, <1>5 DEF Kept, Boot

LEMMA SyncKept ==
  ASSUME TypeInv, Sound, NEW c \in Callers, Sync(c)
  PROVE  Now(c) # "none" /\ Others(c) /\ UNCHANGED lost /\ Kept(c)
  <1>0. ListsOK
    BY DEF TypeInv
  <1>1. Now(c) = "sync" /\ Others(c) /\ (Passes(c, "sync") \/ Drops(c))
    BY <1>0, FailingTurns DEF Passes, Drops
  <1>2. PlainOK /\ Place(c) /\ Module /\ Radio /\ ready = FALSE
    BY <1>1, AtWork
  <1>3. Place(c)'
    BY <1>1, <1>2, Where DEF Sync, PlainOK, Passes, Drops, Follows, Place, Module, Radio,
       Pending, Untouched, Idle, Going, Building, HandleNull, ScanStates
  <1>4. Module' /\ (Pending' => enabled' \/ Now(c)' # "none") /\ (ready' => Now(c)' = "none")
    BY <1>1, <1>2, Where DEF Sync, PlainOK, Passes, Drops, Follows, Place, Module, Radio,
       Pending, Untouched, Idle, Going, Building, HandleNull, ScanStates
  <1>5. Radio'
    BY <1>1, <1>2 DEF Sync, PlainOK, Place, Module, Radio, Pending, Untouched, Idle,
       Building, ScanStates
  <1> QED BY <1>1, <1>3, <1>4, <1>5 DEF Kept, Sync

LEMMA ControlStartKept ==
  ASSUME TypeInv, Sound, NEW c \in Callers, ControlStart(c)
  PROVE  Now(c) # "none" /\ Others(c) /\ UNCHANGED lost /\ Kept(c)
  <1>0. ListsOK
    BY DEF TypeInv
  <1>1. Now(c) = "start" /\ Others(c) /\ (Passes(c, "start") \/ Drops(c))
    BY <1>0, FailingTurns DEF Passes, Drops
  <1>2. PlainOK /\ Place(c) /\ Module /\ Radio /\ ready = FALSE
    BY <1>1, AtWork
  <1>3. Place(c)'
    BY <1>1, <1>2, Where DEF ControlStart, PlainOK, Passes, Drops, Follows, Place, Module,
       Radio, Pending, Untouched, Idle, Going, Building, HandleNull, ScanStates
  <1>4. Module' /\ (Pending' => enabled' \/ Now(c)' # "none") /\ (ready' => Now(c)' = "none")
    BY <1>1, <1>2, Where DEF ControlStart, PlainOK, Passes, Drops, Follows, Place, Module,
       Radio, Pending, Untouched, Idle, Going, Building, HandleNull, ScanStates
  <1>5. Radio'
    BY <1>1, <1>2 DEF ControlStart, PlainOK, Place, Module, Radio, Pending, Untouched, Idle,
       Building, ScanStates
  <1> QED BY <1>1, <1>3, <1>4, <1>5 DEF Kept, ControlStart

LEMMA CheckKept ==
  ASSUME TypeInv, Sound, NEW c \in Callers, Check(c)
  PROVE  Now(c) # "none" /\ Others(c) /\ UNCHANGED lost /\ Kept(c)
  <1>0. ListsOK
    BY DEF TypeInv
  <1>1. /\ Now(c) = "check" /\ Others(c) /\ ((Passes(c, "check") /\ Servable) \/ Drops(c))
    BY <1>0, FailingTurns DEF Passes, Drops
  <1>2. PlainOK /\ Place(c) /\ Module /\ Radio /\ ready = FALSE
    BY <1>1, AtWork
  <1>3. Place(c)'
    BY <1>1, <1>2, Where DEF Check, Servable, PlainOK, Passes, Drops, Follows, Place, Module,
       Radio, Pending, Untouched, Idle, Going, Building, HandleNull, ScanStates
  <1>4. Module' /\ (Pending' => enabled' \/ Now(c)' # "none") /\ (ready' => Now(c)' = "none")
    BY <1>1, <1>2, Where DEF Check, Servable, PlainOK, Passes, Drops, Follows, Place, Module,
       Radio, Pending, Untouched, Idle, Going, Building, HandleNull, ScanStates
  <1>5. Radio'
    BY <1>1, <1>2 DEF Check, Servable, PlainOK, Place, Module, Radio, Pending, Untouched,
       Idle, Building, ScanStates
  <1> QED BY <1>1, <1>3, <1>4, <1>5 DEF Kept, Check, Servable

LEMMA PostsReadyKept ==
  ASSUME TypeInv, Sound, NEW c \in Callers, PostsReady(c)
  PROVE  Now(c) # "none" /\ Others(c) /\ UNCHANGED lost /\ Kept(c)
  <1>0. ListsOK
    BY DEF TypeInv
  <1>1. /\ Now(c) = "ready" /\ Others(c)
        /\ (Passes(c, "ready") /\ ready' = TRUE) \/ (Drops(c) /\ UNCHANGED ready)
    BY <1>0, FailingTurns DEF Passes, Drops
  <1>2. PlainOK /\ Place(c) /\ Module /\ Radio /\ ready = FALSE
    BY <1>1, AtWork
  <1>3. Place(c)'
    BY <1>1, <1>2, Where DEF PostsReady, PlainOK, Passes, Drops, Follows, Place, Module,
       Radio, Pending, Untouched, Idle, Going, Building, HandleNull, ScanStates
  <1>4. Module' /\ (Pending' => enabled' \/ Now(c)' # "none") /\ (ready' => Now(c)' = "none")
    BY <1>1, <1>2, Where DEF PostsReady, PlainOK, Passes, Drops, Follows, Place, Module,
       Radio, Pending, Untouched, Idle, Going, Building, HandleNull, ScanStates
  <1>5. Radio'
    BY <1>1, <1>2 DEF PostsReady, PlainOK, Place, Module, Radio, Pending, Untouched, Idle,
       Building, ScanStates
  <1> QED BY <1>1, <1>3, <1>4, <1>5 DEF Kept, PostsReady

LEMMA RequestKept ==
  ASSUME TypeInv, Sound, NEW c \in Callers, Request(c)
  PROVE  Now(c) # "none" /\ Others(c) /\ UNCHANGED lost /\ Kept(c)
  <1>0. ListsOK
    BY DEF TypeInv
  <1>1. Now(c) = "request" /\ Others(c) /\ Passes(c, "request")
    BY <1>0, PlainTurns DEF Passes, Drops
  <1>2. PlainOK /\ Place(c) /\ Module /\ Radio /\ ready = FALSE
    BY <1>1, AtWork
  <1>3. Place(c)'
    BY <1>1, <1>2, Where DEF Request, PlainOK, Passes, Drops, Follows, Place, Module, Radio,
       Pending, Untouched, Idle, Going, Building, HandleNull, ScanStates
  <1>4. Module' /\ (Pending' => enabled' \/ Now(c)' # "none") /\ (ready' => Now(c)' = "none")
    BY <1>1, <1>2, Where DEF Request, PlainOK, Passes, Drops, Follows, Place, Module, Radio,
       Pending, Untouched, Idle, Going, Building, HandleNull, ScanStates
  <1>5. Radio'
    BY <1>1, <1>2 DEF Request, PlainOK, Place, Module, Radio, Pending, Untouched, Idle,
       Building, ScanStates
  <1> QED BY <1>1, <1>3, <1>4, <1>5 DEF Kept, Request


-----------------------------------------------------------------------------
(* The smart task and the host                                             *)

\* Their steps leave the callers where they are.
LEMMA ListsStay ==
  ASSUME UNCHANGED todo
  PROVE  \A c : Now(c)' = Now(c) /\ Leaves(c)' = Leaves(c) /\ Probing(c)' = Probing(c)
  BY DEF Now, Leaves, Probing

LEMMA SmartStepKept ==
  ASSUME TypeInv, Sound, SmartStep
  PROVE  Sound'
  <1>0. PlainOK /\ Alone /\ Module /\ Radio /\ Backed /\ \A c \in Callers : Place(c)
    BY TypesApart DEF TypeInv, Sound
  <1>1. /\ UNCHANGED <<lost, ready>>
        /\ \A c : Now(c)' = Now(c) /\ Leaves(c)' = Leaves(c) /\ Probing(c)' = Probing(c)
    BY ListsStay DEF SmartStep, SmartWakes, SmartDecides, SmartResets, SmartBegins,
       SmartScans, SmartScanEnds, SmartTimesOut, SmartLooks, SmartSecondWait, SmartJudges,
       SmartDisowns, SmartFinishes, SmartIdles, SmartLeaves, SmartGone
  <1>2. Alone'
    BY <1>0, <1>1 DEF Alone
  <1>3. ASSUME NEW c \in Callers PROVE Place(c)'
    <2>1. Place(c) /\ Now(c)' = Now(c) /\ Leaves(c)' = Leaves(c) /\ Probing(c)' = Probing(c)
      BY <1>0, <1>1
    <2>2. CASE SmartWakes
      BY <1>0, <2>1, <2>2, Where DEF SmartWakes, PlainOK, Place, Module, Radio, Pending,
         Untouched, Idle, Going, Building, HandleNull, ScanStates
    <2>3. CASE SmartDecides
      BY <1>0, <2>1, <2>3, Where DEF SmartDecides, PlainOK, Place, Module, Radio, Pending,
         Untouched, Idle, Going, Building, HandleNull, ScanStates
    <2>4. CASE SmartResets
      BY <1>0, <2>1, <2>4, Where DEF SmartResets, PlainOK, Place, Module, Radio, Pending,
         Untouched, Idle, Going, Building, HandleNull, ScanStates
    <2>5. CASE SmartBegins
      BY <1>0, <2>1, <2>5, Where DEF SmartBegins, PlainOK, Place, Module, Radio, Pending,
         Untouched, Idle, Going, Building, HandleNull, ScanStates
    <2>6. CASE SmartScans
      BY <1>0, <2>1, <2>6, Where DEF SmartScans, PlainOK, Place, Module, Radio, Pending,
         Untouched, Idle, Going, Building, HandleNull, ScanStates
    <2>7. CASE SmartScanEnds
      BY <1>0, <2>1, <2>7, Where DEF SmartScanEnds, PlainOK, Place, Module, Radio, Pending,
         Untouched, Idle, Going, Building, HandleNull, ScanStates
    <2>8. CASE SmartTimesOut
      BY <1>0, <2>1, <2>8, Where DEF SmartTimesOut, PlainOK, Place, Module, Radio, Pending,
         Untouched, Idle, Going, Building, HandleNull, ScanStates
    <2>9. CASE SmartLooks
      BY <1>0, <2>1, <2>9, Where DEF SmartLooks, PlainOK, Place, Module, Radio, Pending,
         Untouched, Idle, Going, Building, HandleNull, ScanStates
    <2>10. CASE SmartSecondWait
      BY <1>0, <2>1, <2>10, Where DEF SmartSecondWait, PlainOK, Place, Module, Radio,
         Pending, Untouched, Idle, Going, Building, HandleNull, ScanStates
    <2>11. CASE SmartJudges
      BY <1>0, <2>1, <2>11, Where DEF SmartJudges, PlainOK, Place, Module, Radio, Pending,
         Untouched, Idle, Going, Building, HandleNull, ScanStates
    <2>12. CASE SmartDisowns
      BY <1>0, <2>1, <2>12, Where DEF SmartDisowns, PlainOK, Place, Module, Radio, Pending,
         Untouched, Idle, Going, Building, HandleNull, ScanStates
    <2>13. CASE SmartFinishes
      BY <1>0, <2>1, <2>13, Where DEF SmartFinishes, PlainOK, Place, Module, Radio, Pending,
         Untouched, Idle, Going, Building, HandleNull, ScanStates
    <2>14. CASE SmartIdles
      BY <1>0, <2>1, <2>14, Where DEF SmartIdles, PlainOK, Place, Module, Radio, Pending,
         Untouched, Idle, Going, Building, HandleNull, ScanStates
    <2>15. CASE SmartLeaves
      BY <1>0, <2>1, <2>15, Where DEF SmartLeaves, PlainOK, Place, Module, Radio, Pending,
         Untouched, Idle, Going, Building, HandleNull, ScanStates
    <2>16. CASE SmartGone
      BY <1>0, <2>1, <2>16, Where DEF SmartGone, PlainOK, Place, Module, Radio, Pending,
         Untouched, Idle, Going, Building, HandleNull, ScanStates
    <2> QED BY <2>2, <2>3, <2>4, <2>5, <2>6, <2>7, <2>8, <2>9, <2>10, <2>11, <2>12, <2>13,
       <2>14, <2>15, <2>16 DEF SmartStep
  <1>4. Module' /\ Radio' /\ (Pending' => Pending /\ enabled' = enabled)
    <2>1. CASE SmartWakes
      BY <1>0, <1>1, <2>1 DEF SmartWakes, PlainOK, Module, Radio, Pending, Untouched, Idle,
         ScanStates
    <2>2. CASE SmartDecides
      BY <1>0, <1>1, <2>2 DEF SmartDecides, PlainOK, Module, Radio, Pending, Untouched, Idle,
         ScanStates
    <2>3. CASE SmartResets
      BY <1>0, <1>1, <2>3 DEF SmartResets, PlainOK, Module, Radio, Pending, Untouched, Idle,
         ScanStates
    <2>4. CASE SmartBegins
      BY <1>0, <1>1, <2>4 DEF SmartBegins, PlainOK, Module, Radio, Pending, Untouched, Idle,
         ScanStates
    <2>5. CASE SmartScans
      BY <1>0, <1>1, <2>5 DEF SmartScans, PlainOK, Module, Radio, Pending, Untouched, Idle,
         ScanStates
    <2>6. CASE SmartScanEnds
      BY <1>0, <1>1, <2>6 DEF SmartScanEnds, PlainOK, Module, Radio, Pending, Untouched,
         Idle, ScanStates
    <2>7. CASE SmartTimesOut
      BY <1>0, <1>1, <2>7 DEF SmartTimesOut, PlainOK, Module, Radio, Pending, Untouched,
         Idle, ScanStates
    <2>8. CASE SmartLooks
      BY <1>0, <1>1, <2>8 DEF SmartLooks, PlainOK, Module, Radio, Pending, Untouched, Idle,
         ScanStates
    <2>9. CASE SmartSecondWait
      BY <1>0, <1>1, <2>9 DEF SmartSecondWait, PlainOK, Module, Radio, Pending, Untouched,
         Idle, ScanStates
    <2>10. CASE SmartJudges
      BY <1>0, <1>1, <2>10 DEF SmartJudges, PlainOK, Module, Radio, Pending, Untouched, Idle,
         ScanStates
    <2>11. CASE SmartDisowns
      BY <1>0, <1>1, <2>11 DEF SmartDisowns, PlainOK, Module, Radio, Pending, Untouched,
         Idle, ScanStates
    <2>12. CASE SmartFinishes
      BY <1>0, <1>1, <2>12 DEF SmartFinishes, PlainOK, Module, Radio, Pending, Untouched,
         Idle, ScanStates
    <2>13. CASE SmartIdles
      BY <1>0, <1>1, <2>13 DEF SmartIdles, PlainOK, Module, Radio, Pending, Untouched, Idle,
         ScanStates
    <2>14. CASE SmartLeaves
      BY <1>0, <1>1, <2>14 DEF SmartLeaves, PlainOK, Module, Radio, Pending, Untouched, Idle,
         ScanStates
    <2>15. CASE SmartGone
      BY <1>0, <1>1, <2>15 DEF SmartGone, PlainOK, Module, Radio, Pending, Untouched, Idle,
         ScanStates
    <2> QED BY <2>1, <2>2, <2>3, <2>4, <2>5, <2>6, <2>7, <2>8, <2>9, <2>10, <2>11, <2>12,
       <2>13, <2>14, <2>15 DEF SmartStep
  <1>5. Backed'
    BY <1>0, <1>1, <1>4 DEF Backed
  <1> QED BY <1>2, <1>3, <1>4, <1>5 DEF Sound

LEMMA HostKept ==
  ASSUME TypeInv, Sound, HostStep \/ HostMatches
  PROVE  Sound'
  <1>0. PlainOK /\ Alone /\ Module /\ Radio /\ Backed /\ \A c \in Callers : Place(c)
    BY TypesApart DEF TypeInv, Sound
  <1>1. /\ UNCHANGED <<lost, ready>>
        /\ \A c : Now(c)' = Now(c) /\ Leaves(c)' = Leaves(c) /\ Probing(c)' = Probing(c)
    BY ListsStay DEF HostStep, HostSyncs, HostCancels, HostEndsDiscovery, HostCompletes,
       HostMatches
  <1>2. Alone'
    BY <1>0, <1>1 DEF Alone
  <1>3. ASSUME NEW c \in Callers PROVE Place(c)'
    <2>1. Place(c) /\ Now(c)' = Now(c) /\ Leaves(c)' = Leaves(c) /\ Probing(c)' = Probing(c)
      BY <1>0, <1>1
    <2>2. CASE HostSyncs
      BY <1>0, <2>1, <2>2, Where, Cancelled DEF HostSyncs, PlainOK, Place, Module, Radio,
         Pending, Untouched, Idle, Going, Building, HandleNull, ScanStates
    <2>3. CASE HostCancels
      BY <1>0, <2>1, <2>3, Where, Cancelled DEF HostCancels, PlainOK, Place, Module, Radio,
         Pending, Untouched, Idle, Going, Building, HandleNull, ScanStates
    <2>4. CASE HostEndsDiscovery
      BY <1>0, <2>1, <2>4, Where, Cancelled DEF HostEndsDiscovery, PlainOK, Place, Module,
         Radio, Pending, Untouched, Idle, Going, Building, HandleNull, ScanStates
    <2>5. CASE HostCompletes
      BY <1>0, <2>1, <2>5, Where, Cancelled DEF HostCompletes, PlainOK, Place, Module, Radio,
         Pending, Untouched, Idle, Going, Building, HandleNull, ScanStates
    <2>6. CASE HostMatches
      BY <1>0, <2>1, <2>6, Where, Cancelled DEF HostMatches, PlainOK, Place, Module, Radio,
         Pending, Untouched, Idle, Going, Building, HandleNull, ScanStates
    <2> QED BY <2>2, <2>3, <2>4, <2>5, <2>6 DEF HostStep
  <1>4. Module' /\ Radio' /\ (Pending' => Pending /\ enabled' = enabled)
    <2>1. CASE HostSyncs
      BY <1>0, <1>1, <2>1, Cancelled DEF HostSyncs, PlainOK, Module, Radio, Pending,
         Untouched, Idle, ScanStates
    <2>2. CASE HostCancels
      BY <1>0, <1>1, <2>2, Cancelled DEF HostCancels, PlainOK, Module, Radio, Pending,
         Untouched, Idle, ScanStates
    <2>3. CASE HostEndsDiscovery
      BY <1>0, <1>1, <2>3, Cancelled DEF HostEndsDiscovery, PlainOK, Module, Radio, Pending,
         Untouched, Idle, ScanStates
    <2>4. CASE HostCompletes
      BY <1>0, <1>1, <2>4, Cancelled DEF HostCompletes, PlainOK, Module, Radio, Pending,
         Untouched, Idle, ScanStates
    <2>5. CASE HostMatches
      BY <1>0, <1>1, <2>5, Cancelled DEF HostMatches, PlainOK, Module, Radio, Pending,
         Untouched, Idle, ScanStates
    <2> QED BY <2>1, <2>2, <2>3, <2>4, <2>5 DEF HostStep
  <1>5. Backed'
    BY <1>0, <1>1, <1>4 DEF Backed
  <1> QED BY <1>2, <1>3, <1>4, <1>5 DEF Sound

\* A new operation.
LEMMA BeginsKept ==
  ASSUME ~Overlap, TypeInv, Sound, Begins
  PROVE  Sound'
  <1>0. ListsOK /\ PlainOK /\ Alone /\ Module /\ Radio /\ Backed
    BY TypesApart DEF TypeInv, Sound
  <1>1. PICK c \in Callers,
             s \in {StopSmartTask \o ControlStop, FullRelease, PrepareTask, StartValidation} :
          /\ Starts(c, s)
          /\ lost' = ~Quiet \/ lost' = (lost /\ ~Quiet)
          /\ Quiet \/ lost \/ Overlap
          /\ s = StartValidation => ready
    BY Begun
  <1>2. Quiet /\ lost' = FALSE
    BY <1>0, <1>1 DEF Alone
  <1>3. \A d \in Callers : Now(d) = "none"
    BY <1>0, <1>2, AtNow DEF Quiet
  <1>4. /\ Others(c) /\ ~(Leaves(c)') /\ ~(Probing(c)')
        /\ Now(c)' \in {"stopSmart", "release", "check"}
        /\ Now(c)' = "check" => ready
    BY <1>0, <1>1, StartsWork
  <1>5. ASSUME NEW d \in Callers, d # c
        PROVE  Now(d)' = "none" /\ ~(Leaves(d)') /\ ~(Probing(d)')
    <2>1. Now(d) = "none"
      BY <1>3
    <2> QED BY <1>4, <1>5, <2>1, Where DEF Others
  <1>6. Place(c)'
    BY <1>0, <1>1, <1>4 DEF Starts, Place, Module, Building, Untouched, Idle
  <1>7. ASSUME NEW d \in Callers PROVE Place(d)'
    <2>1. CASE d # c
      BY <1>5, <2>1 DEF Place, Building
    <2> QED BY <1>6, <2>1
  <1>8. Alone'
    BY <1>1, <1>2, <1>5 DEF Alone, Starts
  <1>9. Module' /\ Radio'
    BY <1>0, <1>1 DEF Starts, Module, Radio, Pending, Untouched, Idle
  <1>10. Backed'
    BY <1>4 DEF Backed
  <1> QED BY <1>7, <1>8, <1>9, <1>10 DEF Sound

-----------------------------------------------------------------------------
(* The theorems                                                            *)

BleInv == TypeInv /\ Sound

LEMMA InvBegins ==
  ASSUME BleInit
  PROVE  BleInv
  <1>1. TypeInv
    BY TypesBegin
  <1>2. \A c \in Callers : Now(c) = "none" /\ ~Leaves(c) /\ ~Probing(c)
    <2>1. ASSUME NEW c \in Callers PROVE Now(c) = "none"
      BY <1>1, AtNow DEF TypeInv, BleInit
    <2> QED BY <2>1, Where
  <1>3. \A c \in Callers : Place(c)
    BY <1>2 DEF Place, Building
  <1>4. Alone /\ Module /\ Radio /\ Backed
    BY <1>2 DEF BleInit, Alone, Module, Radio, Backed, Pending, Untouched, Idle
  <1> QED BY <1>1, <1>3, <1>4 DEF BleInv, Sound

LEMMA CallerKept ==
  ASSUME SlowDeinit, TypeInv, Sound, NEW c \in Callers, CallerStep(c)
  PROVE  Sound'
  <1>1. Now(c) # "none" /\ Others(c) /\ UNCHANGED lost /\ Kept(c)
    <2>1. CASE Cancel(c) \/ Ack(c) \/ StopSmart(c) \/ Wake(c) \/ WaitIdle(c)
      BY <2>1, CancelKept, AckKept, StopSmartKept, WakeKept, WaitIdleKept
    <2>2. CASE StopBegins(c) \/ StopEnds(c) \/ ReleaseBegins(c) \/ RequestsShutdown(c)
      BY <2>2, StopBeginsKept, StopEndsKept, ReleaseBeginsKept, RequestsShutdownKept
    <2>3. CASE AskExit(c) \/ WaitExit(c) \/ Deinit(c) \/ Delete(c)
      BY <2>3, AskExitKept, WaitExitKept, DeinitKept, DeleteKept
    <2>4. CASE Boot(c) \/ Sync(c) \/ ControlStart(c)
      BY <2>4, BootKept, SyncKept, ControlStartKept
    <2>5. CASE Check(c) \/ PostsReady(c) \/ Request(c)
      BY <2>5, CheckKept, PostsReadyKept, RequestKept
    <2> QED BY <2>1, <2>2, <2>3, <2>4, <2>5 DEF CallerStep
  <1> QED BY <1>1, Solo

LEMMA InvStays ==
  ASSUME ~Overlap, SlowDeinit
  PROVE  BleInv /\ [BleNext]_bleVars => BleInv'
  <1> SUFFICES ASSUME BleInv, [BleNext]_bleVars PROVE BleInv'
    OBVIOUS
  <1>0. TypeInv /\ Sound
    BY DEF BleInv
  <1>1. TypeInv'
    BY <1>0, TypesStay
  <1>2. CASE UNCHANGED bleVars
    <2>1. Alone' /\ Backed' /\ \A c \in Callers : Place(c)'
      BY <1>0, <1>2, ListsStay DEF Sound, Alone, Backed, Pending, Place, Untouched, Idle,
         HandleNull
    <2>2. Module' /\ Radio'
      BY <1>0, <1>2 DEF Sound, Module, Radio, Pending, Untouched, Idle
    <2> QED BY <1>1, <2>1, <2>2 DEF BleInv, Sound
  <1>3. CASE BleNext
    <2>1. Sound'
      BY <1>0, <1>3, CallerKept, SmartStepKept, HostKept, BeginsKept DEF BleNext, Begins
    <2> QED BY <1>1, <2>1 DEF BleInv
  <1> QED BY <1>2, <1>3

\* While WiFi stays up and NimBLE goes down slower than a task blocks, nobody deletes
\* the semaphores under the smart task: a release has seen the task go before it deletes
\* them, whatever step of the task the shutdown met.
THEOREM SignalsOutlive ==
  ASSUME ~Overlap, SlowDeinit
  PROVE  BleSpec => []SignalsOutliveTask
  <1>1. BleInv => SignalsOutliveTask
    BY DEF BleInv, Sound, Module, SignalsOutliveTask
  <1>2. BleInit => BleInv
    BY InvBegins
  <1>3. BleInv /\ [BleNext]_bleVars => BleInv'
    BY InvStays
  <1> QED BY <1>1, <1>2, <1>3, PTL DEF BleSpec

\* The scanner is off when a verdict leaves the smart task, whoever took the one signal
\* that the early exit, the end of the window and a stop share.
THEOREM ScannerIdle ==
  ASSUME ~Overlap, SlowDeinit
  PROVE  BleSpec => []ScannerIdleAtVerdict
  <1>1. BleInv => ScannerIdleAtVerdict
    BY DEF BleInv, Sound, Radio, ScanStates, ScannerIdleAtVerdict
  <1>2. BleInit => BleInv
    BY InvBegins
  <1>3. BleInv /\ [BleNext]_bleVars => BleInv'
    BY InvStays
  <1> QED BY <1>1, <1>2, <1>3, PTL DEF BleSpec

\* The verdict says what the host saw in the window: the copy that the smart task made
\* of the record is still true when it answers.
THEOREM Honest ==
  ASSUME ~Overlap, SlowDeinit
  PROVE  BleSpec => VerdictHonest
  <1>1. BleInv => (smart = "judge" /\ smart' = "disown" => (saw <=> present))
    BY DEF BleInv, Sound, Radio
  <1>2. BleInit => BleInv
    BY InvBegins
  <1>3. BleInv /\ [BleNext]_bleVars => BleInv'
    BY InvStays
  <1> QED BY <1>1, <1>2, <1>3, PTL DEF BleSpec, VerdictHonest

LEMMA AtWorkNow ==
  ASSUME NEW c \in Callers, CallerStep(c)
  PROVE  todo[c] # <<>>
  <1>1. \A x : At(c, x) => todo[c] # <<>>
    BY DEF At
  <1>2. CASE Cancel(c) \/ Ack(c) \/ StopSmart(c) \/ Wake(c) \/ WaitIdle(c) \/ StopBegins(c)
            \/ StopEnds(c)
    BY <1>1, <1>2 DEF Cancel, Ack, StopSmart, Wake, WaitIdle, StopBegins, StopEnds
  <1>3. CASE ReleaseBegins(c) \/ RequestsShutdown(c) \/ AskExit(c) \/ WaitExit(c) \/ Deinit(c)
            \/ Delete(c)
    BY <1>1, <1>3 DEF ReleaseBegins, RequestsShutdown, AskExit, WaitExit, Deinit, Delete
  <1>4. CASE Boot(c) \/ Sync(c) \/ ControlStart(c) \/ Check(c) \/ PostsReady(c) \/ Request(c)
    BY <1>1, <1>4 DEF Boot, Sync, ControlStart, Check, PostsReady, Request
  <1> QED BY <1>2, <1>3, <1>4 DEF CallerStep

LEMMA AnswersAsked ==
  ASSUME BleInv, BleNext, answer' # answer, answer' \in {"PRESENT", "REJECTED", "BUSY"}
  PROVE  answer = "asked"
  <1>1. ~Begins
    BY DEF Begins, LosesWifi, FallsAsleep, Prepares, Releases, Validates, GoesOn, Starts
  <1>2. ~(HostStep \/ HostMatches)
    BY DEF HostStep, HostMatches, HostSyncs, HostCancels, HostEndsDiscovery, HostCompletes
  <1>3. ASSUME NEW c \in Callers PROVE ~CallerStep(c)
    <2>1. ~(Cancel(c) \/ Ack(c) \/ StopSmart(c) \/ Wake(c) \/ WaitIdle(c) \/ StopBegins(c)
            \/ StopEnds(c))
      BY DEF Cancel, Ack, StopSmart, Wake, WaitIdle, StopBegins, StopEnds
    <2>2. ~(ReleaseBegins(c) \/ RequestsShutdown(c) \/ AskExit(c) \/ WaitExit(c) \/ Deinit(c)
            \/ Delete(c))
      BY DEF ReleaseBegins, RequestsShutdown, AskExit, WaitExit, Deinit, Delete
    <2>3. ~(Boot(c) \/ Sync(c) \/ ControlStart(c) \/ Check(c) \/ PostsReady(c) \/ Request(c))
      BY DEF Boot, Sync, ControlStart, Check, PostsReady, Request
    <2> QED BY <2>1, <2>2, <2>3 DEF CallerStep
  <1>4. SmartStep
    BY <1>1, <1>2, <1>3 DEF BleNext, Begins
  <1>5. SmartBegins \/ SmartScans \/ SmartJudges
    BY <1>4 DEF SmartStep, SmartWakes, SmartDecides, SmartResets, SmartScanEnds, SmartTimesOut,
       SmartLooks, SmartSecondWait, SmartDisowns, SmartFinishes, SmartIdles, SmartLeaves,
          SmartGone
  <1>6. smart \in {"begin", "go", "judge"}
    BY <1>5 DEF SmartBegins, SmartScans, SmartJudges
  <1> QED BY <1>6 DEF BleInv, Sound, Module

\* Every verdict answers a request: a wake-up that was meant to stop the smart task never
\* makes it scan, and one that finds the scanner taken answers BLE_BUSY to a request.
THEOREM OnceAnswered ==
  ASSUME ~Overlap, SlowDeinit
  PROVE  BleSpec => AnsweredOnce
  <1>1. BleInv /\ [BleNext]_bleVars =>
          (answer' # answer /\ answer' \in {"PRESENT", "REJECTED", "BUSY"} => answer = "asked")
    <2> SUFFICES ASSUME BleInv, [BleNext]_bleVars,
                        answer' # answer, answer' \in {"PRESENT", "REJECTED", "BUSY"}
                 PROVE  answer = "asked"
      OBVIOUS
    <2>1. BleNext
      OBVIOUS
    <2> QED BY <2>1, AnswersAsked
  <1>2. BleInit => BleInv
    BY InvBegins
  <1>3. BleInv /\ [BleNext]_bleVars => BleInv'
    BY InvStays
  <1> QED BY <1>1, <1>2, <1>3, PTL DEF BleSpec, AnsweredOnce

LEMMA DroppedAtWork ==
  ASSUME BleInv, BleNext, answer' = "dropped", answer = "asked"
  PROVE  \E c \in Callers : todo[c] # <<>>
  <1>1. ~Begins
    BY DEF Begins, LosesWifi, FallsAsleep, Prepares, Releases, Validates, GoesOn, Starts
  <1>2. ~(HostStep \/ HostMatches)
    BY DEF HostStep, HostMatches, HostSyncs, HostCancels, HostEndsDiscovery, HostCompletes
  <1>3. CASE \E c \in Callers : CallerStep(c)
    BY <1>3, AtWorkNow
  <1>4. CASE SmartStep
    <2>1. SmartDecides
      BY <1>4 DEF SmartStep, SmartWakes, SmartResets, SmartBegins, SmartScans, SmartScanEnds,
         SmartTimesOut, SmartLooks, SmartSecondWait, SmartJudges, SmartDisowns, SmartFinishes,
         SmartIdles, SmartLeaves, SmartGone
    <2>2. Module /\ Backed /\ ListsOK
      BY DEF BleInv, TypeInv, Sound
    <2>3. Pending /\ (shutdown \/ ~initialized \/ stopping \/ ~enabled)
      BY <2>1 DEF SmartDecides, Pending
    <2>4. ~enabled
      BY <2>2, <2>3 DEF Module
    <2>5. PICK c \in Callers : Now(c) # "none"
      BY <2>2, <2>3, <2>4 DEF Backed
    <2> QED BY <2>2, <2>5, AtNow
  <1> QED BY <1>1, <1>2, <1>3, <1>4 DEF BleNext, Begins

\* A request is dropped only while somebody stops the module: who takes it back is at work
\* until the smart task has seen that, even if a timeout or a failure ends his work early.
THEOREM DroppedByStop ==
  ASSUME ~Overlap, SlowDeinit
  PROVE  BleSpec => DroppedOnlyByStop
  <1>1. BleInv /\ [BleNext]_bleVars =>
          (answer' = "dropped" /\ answer = "asked" => \E c \in Callers : todo[c] # <<>>)
    <2> SUFFICES ASSUME BleInv, [BleNext]_bleVars, answer' = "dropped", answer = "asked"
                 PROVE  \E c \in Callers : todo[c] # <<>>
      OBVIOUS
    <2>1. BleNext
      OBVIOUS
    <2> QED BY <2>1, DroppedAtWork
  <1>2. BleInit => BleInv
    BY InvBegins
  <1>3. BleInv /\ [BleNext]_bleVars => BleInv'
    BY InvStays
  <1> QED BY <1>1, <1>2, <1>3, PTL DEF BleSpec, DroppedOnlyByStop
=============================================================================
