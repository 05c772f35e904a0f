--------------------------- MODULE WebRtcSession ---------------------------
(***************************************************************************)
(* The life of WebRTC sessions: start_webrtc and stop_webrtc (webrtc.c)    *)
(* over the peer connection of esp_webrtc.c, the media system they use     *)
(* (media_sys.c) and the orchestrator that calls them.                     *)
(*                                                                         *)
(* Four kinds of threads meet in a session: the orchestrator, which starts *)
(* sessions and stops them itself when WiFi is lost; the stop task, which  *)
(* stops them otherwise; pc_task, which runs every callback of the peer    *)
(* connection; pc_send, which sends the captured audio.  A fifth, the      *)
(* session_update task, configures the session once its channel is open.   *)
(*                                                                         *)
(* A thread inside a long call is the list of the steps it still has to    *)
(* do.  Sections under g_webrtc_mutex are one step.  Event queue and       *)
(* generation are those of the code; events never get lost here            *)
(* (Orchestrator drops them).                                              *)
(***************************************************************************)
EXTENDS Integers, Sequences

CONSTANTS
  MaxAttempts,   \* bound: how often the orchestrator enters IGNITING
  MaxFlaps,      \* bound: how often WiFi is lost
  MaxTries,      \* SESSION_UPDATE_MAX_ATTEMPTS
  Faults         \* the calls that may fail, of AllFaults

\* "media": build-up of the media system, "start": signaling, "peer": the peer
\* connection or pc_task, "stream": capture or creation of pc_send, "stop": creation of the
\* stop task, "update": the mutex within 200 ms or creation of the session_update task,
\* "send": a message that the open channel does not take yet.
AllFaults == {"media", "start", "peer", "stream", "stop", "update", "send"}

ASSUME BoundsAssumption == MaxAttempts \in Nat /\ MaxFlaps \in Nat /\ MaxTries \in Nat \ {0}
ASSUME FaultsAssumption == Faults \subseteq AllFaults

VARIABLES
  orch,      \* the state of the orchestrator, as far as it matters here
  inbox,     \* its event queue
  att,       \* attempts so far; numbers the sessions
  flaps,     \* losses of WiFi so far
  call,      \* what the orchestrator and the stop task still have to do
  handle,    \* webrtc: the session in use, or 0
  gen,       \* g_webrtc_generation
  ready,     \* g_realtime_session_ready
  rtcHandle, \* rtc_handle of esp_webrtc.c: the session whose peer spoke last
  media,     \* the attempt that built the media system, or 0
  ses,       \* the session objects
  updFor,    \* g_session_update_generation, while a task is registered
  upd,       \* the session_update task of a generation
  mishaps    \* history: which of Mishaps have happened

shared == <<handle, gen, ready, updFor>>
vars == <<orch, inbox, att, flaps, call, shared, rtcHandle, media, ses, upd, mishaps>>

\* "overlap": WiFi was lost while the stop task was at work; "unstopped": the stop
\* task could not be created; "late": pc_send was created in a session being
\* closed; "race": two threads stop the stream and both have found it running;
\* "stillborn": pc_send could not be created after a closer had found it running.
Mishaps == {"overlap", "unstopped", "late", "race", "stillborn"}

Callers == {"orch", "stop"}
Attempts == 1 .. MaxAttempts
MaxGen == 3 * MaxAttempts + MaxFlaps
Gens == 1 .. MaxGen

Closed == [life |-> "none", gen |-> 0, media |-> 0, closing |-> FALSE,
           running |-> FALSE, peer |-> "none", todo |-> <<>>, phase |-> "new",
           exitBit |-> FALSE, chan |-> "new", conf |-> "no",
           sending |-> FALSE, sender |-> FALSE, quitBit |-> FALSE]

Init ==
  /\ orch = "idle" /\ inbox = <<>> /\ att = 0 /\ flaps = 0
  /\ call = [t \in Callers |-> [todo |-> <<>>, ses |-> 0]]
  /\ handle = 0 /\ gen = 0 /\ ready = FALSE /\ updFor = 0
  /\ rtcHandle = 0 /\ media = 0
  /\ ses = [s \in Attempts |-> Closed]
  /\ upd = [g \in Gens |-> [at |-> "none", tries |-> 0]]
  /\ mishaps = {}

-----------------------------------------------------------------------------
(* Vocabulary                                                              *)

Event(ev, s) == [ev |-> ev, from |-> s]
Post(e) == inbox' = Append(inbox, e)

\* The thread t is about to do the step x.
At(t, x) == call[t].todo # <<>> /\ Head(call[t].todo) = x
\* Likewise pc_task of the session s, inside a callback.
PeerAt(s, x) == ses[s].todo # <<>> /\ Head(ses[s].todo) = x
Done(t) == call' = [call EXCEPT ![t].todo = Tail(@)]
Instead(t, s, steps) ==
  call' = [call EXCEPT ![t] = [todo |-> steps \o Tail(call[t].todo), ses |-> s]]
Free(t) == call[t].todo = <<>>

\* esp_webrtc_close, without the waits that turn out to be needed.
CloseSteps == <<"mark", "streams", "peer", "free">>
\* Variant: the media system goes before the session that uses it.
StopStepsMediaFirst == <<"teardown", "take">>

StopSteps == <<"take", "teardown">>
StartSteps == <<"begin", "open", "start">>
\* Variant: the end is announced before it is reached.
TaskStepsEager == <<"post">> \o StopSteps \o <<"exit">>

TaskSteps == StopSteps \o <<"post", "exit">>

\* webrtc_generation_is_current
Current(g) == handle # 0 /\ g = gen

\* Variant: the handle is left in place.
TakeSessionShared ==
  /\ gen' = gen + 1 /\ ready' = FALSE /\ updFor' = 0
  /\ UNCHANGED handle

\* The section under the mutex with which start_webrtc and stop_webrtc begin:
\* the session is taken out of use and everything known about it forgotten.
TakeSession ==
  /\ handle' = 0 /\ gen' = gen + 1
  /\ ready' = FALSE /\ updFor' = 0

-----------------------------------------------------------------------------
(* The orchestrator                                                        *)

Takes(ev) ==
  /\ Free("orch")
  /\ inbox # <<>> /\ Head(inbox).ev = ev

\* STATE_IGNITING, after a verdict: the media system is built unless it is there,
\* then start_webrtc.  What was queued before the verdict has been dealt with.
Ignites ==
  /\ orch = "idle" /\ Free("orch") /\ inbox = <<>> /\ att < MaxAttempts
  /\ orch' = "igniting" /\ att' = att + 1
  /\ \/ /\ media' = IF media = 0 THEN att + 1 ELSE media
        /\ call' = [call EXCEPT !["orch"] = [todo |-> StartSteps, ses |-> att + 1]]
        /\ UNCHANGED inbox
     \/ /\ media = 0 /\ "media" \in Faults
        /\ Post(Event("down", att + 1))
        /\ UNCHANGED <<call, media>>
  /\ UNCHANGED <<flaps, shared, rtcHandle, ses, upd, mishaps>>

\* STATE_WAIT_WIFI: whatever runs is stopped by the orchestrator itself.  The
\* loss may have been queued at any time, so before anything queued by now.
LosesWifi ==
  /\ flaps < MaxFlaps /\ Free("orch")
  /\ flaps' = flaps + 1
  /\ orch' = "idle"
  /\ call' = [call EXCEPT !["orch"].todo = StopSteps]
  /\ mishaps' = IF Free("stop") THEN mishaps ELSE mishaps \cup {"overlap"}
  /\ UNCHANGED <<inbox, att, shared, rtcHandle, media, ses, upd>>

OnReady ==
  /\ Takes("ready")
  /\ inbox' = Tail(inbox)
  /\ orch' = IF orch = "igniting" THEN "active" ELSE orch
  /\ UNCHANGED <<att, flaps, call, shared, rtcHandle, media, ses, upd, mishaps>>

\* STATE_STOPPING_WEBRTC with the rest of the queue in q.
EnterStopping(q) ==
  /\ orch' = "stopping"
  /\ \/ /\ Free("stop")
        /\ call' = [call EXCEPT !["stop"].todo = TaskSteps]
        /\ inbox' = q
        /\ UNCHANGED mishaps
     \/ /\ Free("stop") /\ "stop" \in Faults
        /\ inbox' = Append(q, Event("stopped", 0))
        /\ mishaps' = mishaps \cup {"unstopped"}
        /\ UNCHANGED call
     \/ /\ ~Free("stop")
        /\ inbox' = q
        /\ UNCHANGED <<call, mishaps>>

OnDown ==
  /\ Takes("down")
  /\ \/ orch \in {"igniting", "active"} /\ EnterStopping(Tail(inbox))
     \/ /\ orch \notin {"igniting", "active"}
        /\ inbox' = Tail(inbox)
        /\ UNCHANGED <<orch, call, mishaps>>
  /\ UNCHANGED <<att, flaps, shared, rtcHandle, media, ses, upd>>

OnStopped ==
  /\ Takes("stopped")
  /\ inbox' = Tail(inbox)
  /\ orch' = IF orch = "stopping" THEN "idle" ELSE orch
  /\ UNCHANGED <<att, flaps, call, shared, rtcHandle, media, ses, upd, mishaps>>

\* The session has been idle for too long, or its Vigilante task is done.
SessionEnds ==
  /\ orch = "active" /\ Free("orch")
  /\ EnterStopping(inbox)
  /\ UNCHANGED <<att, flaps, shared, rtcHandle, media, ses, upd>>

OrchestratorStep == OnReady \/ OnDown \/ OnStopped

-----------------------------------------------------------------------------
(* start_webrtc and stop_webrtc, by the orchestrator and the stop task     *)

\* stop_webrtc: the handle is taken.
StopTakes(t) ==
  /\ At(t, "take")
  /\ TakeSession
  /\ Instead(t, handle, IF handle = 0 THEN <<>> ELSE CloseSteps)
  /\ UNCHANGED <<orch, inbox, att, flaps, rtcHandle, media, ses, upd, mishaps>>

\* start_webrtc: a session that is still in use is taken and closed first; the
\* callbacks of the new one will carry the new generation.
StartTakes ==
  /\ At("orch", "begin")
  /\ \/ /\ TakeSession
        /\ Instead("orch", handle, IF handle = 0 THEN <<>> ELSE CloseSteps)
        /\ ses' = [ses EXCEPT ![att].gen = gen + 1]
     \/ /\ "start" \in Faults
        /\ call' = [call EXCEPT !["orch"].todo = <<"fail">>]
        /\ UNCHANGED <<shared, ses>>
  /\ UNCHANGED <<orch, inbox, att, flaps, rtcHandle, media, upd, mishaps>>

\* esp_webrtc_open, the media provider and the handle.
StartOpens ==
  /\ At("orch", "open")
  /\ ses' = [ses EXCEPT ![att].life = "open", ![att].media = media]
  /\ handle' = att
  /\ Instead("orch", att, <<>>)
  /\ UNCHANGED <<orch, inbox, att, flaps, gen, ready, updFor, rtcHandle, media, upd, mishaps>>

\* esp_webrtc_start.  The signaling calls back at once, which opens the peer
\* connection and creates pc_task; nobody looks whether that succeeded.
StartStarts ==
  /\ At("orch", "start")
  /\ \/ /\ ses' = [ses EXCEPT ![att].closing = FALSE, ![att].running = TRUE, ![att].peer = "loop"]
        /\ Done("orch")
        /\ UNCHANGED shared
     \/ /\ "peer" \in Faults
        /\ \E opened \in BOOLEAN :
             ses' = [ses EXCEPT ![att].closing = FALSE, ![att].running = opened]
        /\ Done("orch")
        /\ UNCHANGED shared
     \/ /\ "start" \in Faults
        /\ ses' = [ses EXCEPT ![att].closing = FALSE]
        /\ IF handle = att THEN TakeSession ELSE UNCHANGED shared
        /\ Instead("orch", att, CloseSteps \o <<"fail">>)
  /\ UNCHANGED <<orch, inbox, att, flaps, rtcHandle, media, upd, mishaps>>

\* start_webrtc has failed: the orchestrator reports it to itself.
StartFails ==
  /\ At("orch", "fail")
  /\ Post(Event("down", att))
  /\ Done("orch")
  /\ UNCHANGED <<orch, att, flaps, shared, rtcHandle, media, ses, upd, mishaps>>

CloseMarks(t) ==
  /\ At(t, "mark")
  /\ ses' = [ses EXCEPT ![call[t].ses].closing = TRUE]
  /\ Done(t)
  /\ UNCHANGED <<orch, inbox, att, flaps, shared, rtcHandle, media, upd, mishaps>>

\* stop_stream, which pc_task calls as well: test send_going, clear it, wait.
CloseTestsStream(t) ==
  /\ At(t, "streams")
  /\ LET s == call[t].ses IN Instead(t, s, IF ses[s].sending THEN <<"off">> ELSE <<>>)
  /\ mishaps' = IF ses[call[t].ses].sending /\ PeerAt(call[t].ses, "off")
                THEN mishaps \cup {"race"} ELSE mishaps
  /\ UNCHANGED <<orch, inbox, att, flaps, shared, rtcHandle, media, ses, upd>>

CloseStopsStream(t) ==
  /\ At(t, "off")
  /\ ses' = [ses EXCEPT ![call[t].ses].sending = FALSE]
  /\ Instead(t, call[t].ses, <<"waitSend">>)
  /\ UNCHANGED <<orch, inbox, att, flaps, shared, rtcHandle, media, upd, mishaps>>

CloseJoinsSender(t) ==
  /\ At(t, "waitSend") /\ ses[call[t].ses].quitBit
  /\ ses' = [ses EXCEPT ![call[t].ses].quitBit = FALSE]
  /\ Done(t)
  /\ UNCHANGED <<orch, inbox, att, flaps, shared, rtcHandle, media, upd, mishaps>>

\* Variant: pc_task is told to leave and not waited for.
ClosePeerAtOnce(t) ==
  /\ At(t, "peer")
  /\ ses' = [ses EXCEPT ![call[t].ses].running = FALSE]
  /\ Done(t)
  /\ UNCHANGED <<orch, inbox, att, flaps, shared, rtcHandle, media, upd, mishaps>>

\* pc_close: pc_task is told to leave, if there is a peer connection.
ClosePeer(t) ==
  /\ At(t, "peer")
  /\ LET s == call[t].ses IN
     /\ ses' = [ses EXCEPT ![s].running = FALSE]
     /\ Instead(t, s, IF ses[s].running THEN <<"waitPeer">> ELSE <<>>)
  /\ UNCHANGED <<orch, inbox, att, flaps, shared, rtcHandle, media, upd, mishaps>>

\* pc_task has gone; esp_peer_disconnect may report the end of the connection
\* from here, which stops the streams once more.
CloseJoinsPeer(t) ==
  /\ At(t, "waitPeer")
  /\ LET s == call[t].ses IN
     /\ ses[s].exitBit
     /\ \/ /\ ses' = [ses EXCEPT ![s].exitBit = FALSE]
           /\ Instead(t, s, <<>>)
           /\ UNCHANGED rtcHandle
        \/ /\ ses' = [ses EXCEPT ![s].exitBit = FALSE, ![s].chan = "closed"]
           /\ Instead(t, s, <<"streams">>)
           /\ rtcHandle' = s
  /\ UNCHANGED <<orch, inbox, att, flaps, shared, media, upd, mishaps>>

\* Nothing is left of a session but the threads that were not joined.
CloseFrees(t) ==
  /\ At(t, "free")
  /\ LET old == ses[call[t].ses] IN
     ses' = [ses EXCEPT ![call[t].ses] =
       [Closed EXCEPT !.life = "freed", !.peer = old.peer,
                      !.sender = old.sender, !.sending = old.sender /\ old.sending]]
  /\ Done(t)
  /\ UNCHANGED <<orch, inbox, att, flaps, shared, rtcHandle, media, upd, mishaps>>

\* media_sys_teardown
TearsDownMedia(t) ==
  /\ At(t, "teardown")
  /\ media' = 0
  /\ Done(t)
  /\ UNCHANGED <<orch, inbox, att, flaps, shared, rtcHandle, ses, upd, mishaps>>

\* The stop task posts and clears its handle.
StopPosts ==
  /\ At("stop", "post")
  /\ Post(Event("stopped", att))
  /\ Done("stop")
  /\ UNCHANGED <<orch, att, flaps, shared, rtcHandle, media, ses, upd, mishaps>>

StopExits ==
  /\ At("stop", "exit")
  /\ Done("stop")
  /\ UNCHANGED <<orch, inbox, att, flaps, shared, rtcHandle, media, ses, upd, mishaps>>

CallStep(t) ==
  \/ StopTakes(t) \/ CloseMarks(t) \/ CloseTestsStream(t) \/ CloseStopsStream(t) \/ CloseJoinsSender(t)
  \/ ClosePeer(t) \/ CloseJoinsPeer(t) \/ CloseFrees(t)
  \/ TearsDownMedia(t)
  \/ t = "orch" /\ (StartTakes \/ StartOpens \/ StartStarts \/ StartFails)
  \/ t = "stop" /\ (StopPosts \/ StopExits)

-----------------------------------------------------------------------------
(* pc_task: the states the peer connection reports, and their callbacks    *)

Loops(s) == ses[s].peer = "loop" /\ ses[s].todo = <<>> /\ ses[s].running
\* The notifications of pc_mark_data_channel_closed, if the channel was open.
ClosesChannel(s) == IF ses[s].chan = "open" THEN <<"check_down">> ELSE <<>>
AfterOpen(s) == IF ses[s].chan = "open" THEN "closed" ELSE ses[s].chan

PeerConnects(s) ==
  /\ Loops(s) /\ ses[s].phase = "new"
  /\ rtcHandle' = s
  /\ ses' = [ses EXCEPT ![s].phase = "connected",
                        ![s].todo = IF ses[s].closing THEN <<>> ELSE <<"send">>]
  /\ UNCHANGED <<orch, inbox, att, flaps, call, shared, media, upd, mishaps>>

\* CONNECT_FAILED: reported, or silenced while the session is being closed.
PeerFails(s) ==
  /\ Loops(s) /\ ses[s].phase = "new"
  /\ rtcHandle' = s
  /\ ses' = [ses EXCEPT ![s].phase = "over",
                        ![s].todo = IF ses[s].closing THEN <<"streams">>
                                                      ELSE <<"check_down">>]
  /\ UNCHANGED <<orch, inbox, att, flaps, call, shared, media, upd, mishaps>>

PeerOpensChannel(s) ==
  /\ Loops(s) /\ ses[s].phase = "connected" /\ ses[s].chan = "new"
  /\ rtcHandle' = s
  /\ ~ses[s].closing
  /\ ses' = [ses EXCEPT ![s].chan = "open", ![s].todo = <<"check_up">>]
  /\ UNCHANGED <<orch, inbox, att, flaps, call, shared, media, upd, mishaps>>

PeerLosesChannel(s) ==
  /\ Loops(s) /\ ses[s].chan = "open"
  /\ rtcHandle' = s
  /\ ses' = [ses EXCEPT ![s].chan = "closed", ![s].todo = ClosesChannel(s)]
  /\ UNCHANGED <<orch, inbox, att, flaps, call, shared, media, upd, mishaps>>

\* DISCONNECTED: channel, streams and the event, the last only when nobody is
\* closing the session.
PeerDisconnects(s) ==
  /\ Loops(s) /\ ses[s].phase = "connected"
  /\ rtcHandle' = s
  /\ ses' = [ses EXCEPT ![s].phase = "over", ![s].chan = AfterOpen(s),
       ![s].todo = ClosesChannel(s) \o <<"streams">>
                     \o (IF ses[s].closing THEN <<>> ELSE <<"check_down">>)]
  /\ UNCHANGED <<orch, inbox, att, flaps, call, shared, media, upd, mishaps>>

\* The server answers the configuration with session.updated.
ServerAnswers(s) ==
  /\ Loops(s) /\ ses[s].chan = "open" /\ ses[s].conf = "sent"
  /\ ses' = [ses EXCEPT ![s].conf = "answered",
                        ![s].todo = IF ses[s].closing THEN <<>> ELSE <<"check_ready">>]
  /\ UNCHANGED <<orch, inbox, att, flaps, call, shared, rtcHandle, media, upd, mishaps>>

\* start_stream: capture starts and send_going is set, which a thread that closes
\* the session sees before there is a pc_send.
StreamStarts(s) ==
  /\ PeerAt(s, "send")
  /\ \/ /\ ses' = [ses EXCEPT ![s].sending = TRUE, ![s].todo = <<"spawn">> \o Tail(@)]
        /\ mishaps' = IF ses[s].closing THEN mishaps \cup {"late"} ELSE mishaps
     \/ /\ "stream" \in Faults
        /\ ses' = [ses EXCEPT ![s].todo = Tail(@)]
        /\ UNCHANGED mishaps
  /\ UNCHANGED <<orch, inbox, att, flaps, call, shared, rtcHandle, media, upd>>

\* A thread that closes the session s has found send_going set.
FoundRunning(s) == \E t \in Callers : (At(t, "off") \/ At(t, "waitSend")) /\ call[t].ses = s

\* Then pc_send is created; send_going is cleared when that fails.
SenderSpawns(s) ==
  /\ PeerAt(s, "spawn")
  /\ \/ /\ ses' = [ses EXCEPT ![s].sender = TRUE, ![s].todo = Tail(@)]
        /\ UNCHANGED mishaps
     \/ /\ "stream" \in Faults
        /\ ses' = [ses EXCEPT ![s].sending = FALSE, ![s].todo = Tail(@)]
        /\ mishaps' = IF FoundRunning(s) THEN mishaps \cup {"stillborn"} ELSE mishaps
  /\ UNCHANGED <<orch, inbox, att, flaps, call, shared, rtcHandle, media, upd>>

StreamTested(s) ==
  /\ PeerAt(s, "streams")
  /\ ses' = [ses EXCEPT ![s].todo = (IF ses[s].sending THEN <<"off">> ELSE <<>>) \o Tail(@)]
  /\ mishaps' = IF ses[s].sending /\ \E t \in Callers : At(t, "off") /\ call[t].ses = s
                THEN mishaps \cup {"race"} ELSE mishaps
  /\ UNCHANGED <<orch, inbox, att, flaps, call, shared, rtcHandle, media, upd>>

StreamStops(s) ==
  /\ PeerAt(s, "off")
  /\ ses' = [ses EXCEPT ![s].sending = FALSE, ![s].todo = <<"waitSend">> \o Tail(@)]
  /\ UNCHANGED <<orch, inbox, att, flaps, call, shared, rtcHandle, media, upd, mishaps>>

PeerJoinsSender(s) ==
  /\ PeerAt(s, "waitSend") /\ ses[s].quitBit
  /\ ses' = [ses EXCEPT ![s].quitBit = FALSE, ![s].todo = Tail(@)]
  /\ UNCHANGED <<orch, inbox, att, flaps, call, shared, rtcHandle, media, upd, mishaps>>

\* Both callbacks of webrtc.c compare the generation first and act later.
Checked(x) == CASE x = "check_up" -> "up" [] x = "check_down" -> "down" [] x = "check_ready" -> "ready"
CallbackChecks(s) ==
  /\ \E x \in {"check_up", "check_down", "check_ready"} :
       /\ PeerAt(s, x)
       /\ ses' = [ses EXCEPT ![s].todo =
            (IF Current(ses[s].gen) THEN <<Checked(x)>> ELSE <<>>) \o Tail(@)]
  /\ UNCHANGED <<orch, inbox, att, flaps, call, shared, rtcHandle, media, upd, mishaps>>

\* DATA_CHANNEL_CONNECTED: schedule_session_update reads the generation anew.  When
\* the mutex is not had in time nothing is registered, and a task that cannot be
\* created is forgotten again: both are only logged, and nobody tries again.
CallbackSchedules(s) ==
  /\ PeerAt(s, "up")
  /\ ses' = [ses EXCEPT ![s].todo = Tail(@)]
  /\ ready' = FALSE
  /\ \/ /\ updFor' = gen
        /\ upd' = IF updFor = gen THEN upd ELSE [upd EXCEPT ![gen] = [at |-> "check", tries |-> 0]]
     \/ /\ updFor # gen /\ "update" \in Faults
        /\ updFor' \in {updFor, 0}
        /\ upd' = [upd EXCEPT ![gen] = [at |-> "refused", tries |-> 0]]
  /\ UNCHANGED <<orch, inbox, att, flaps, call, handle, gen, rtcHandle, media, mishaps>>

\* DATA_CHANNEL_DISCONNECTED, DISCONNECTED, CONNECT_FAILED.
CallbackReportsDown(s) ==
  /\ PeerAt(s, "down")
  /\ ses' = [ses EXCEPT ![s].todo = Tail(@)]
  /\ ready' = FALSE
  /\ Post(Event("down", s))
  /\ UNCHANGED <<orch, att, flaps, call, handle, gen, updFor, rtcHandle, media, upd, mishaps>>

\* session.updated: the first one tells the orchestrator.
CallbackReportsReady(s) ==
  /\ PeerAt(s, "ready")
  /\ ses' = [ses EXCEPT ![s].todo = Tail(@)]
  /\ ready' = TRUE
  /\ inbox' = IF ready THEN inbox ELSE Append(inbox, Event("ready", s))
  /\ UNCHANGED <<orch, att, flaps, call, handle, gen, updFor, rtcHandle, media, upd, mishaps>>

PeerExits(s) ==
  /\ ses[s].peer = "loop" /\ ses[s].todo = <<>> /\ ~ses[s].running
  /\ ses' = [ses EXCEPT ![s].peer = "gone", ![s].exitBit = TRUE]
  /\ UNCHANGED <<orch, inbox, att, flaps, call, shared, rtcHandle, media, upd, mishaps>>

\* Variant: pc_send leaves without a word.
SenderExitsSilently(s) ==
  /\ ses[s].sender /\ ~ses[s].sending
  /\ ses' = [ses EXCEPT ![s].sender = FALSE]
  /\ UNCHANGED <<orch, inbox, att, flaps, call, shared, rtcHandle, media, upd, mishaps>>

\* media_send_task
SenderExits(s) ==
  /\ ses[s].sender /\ ~ses[s].sending
  /\ ses' = [ses EXCEPT ![s].sender = FALSE, ![s].quitBit = TRUE]
  /\ UNCHANGED <<orch, inbox, att, flaps, call, shared, rtcHandle, media, upd, mishaps>>

PeerReports(s) ==
  \/ PeerConnects(s) \/ PeerFails(s) \/ PeerOpensChannel(s) \/ PeerLosesChannel(s)
  \/ PeerDisconnects(s) \/ ServerAnswers(s)
PeerStep(s) ==
  \/ StreamStarts(s) \/ SenderSpawns(s) \/ StreamTested(s) \/ StreamStops(s) \/ PeerJoinsSender(s)
  \/ CallbackChecks(s) \/ CallbackSchedules(s) \/ CallbackReportsDown(s)
  \/ CallbackReportsReady(s) \/ PeerExits(s)

-----------------------------------------------------------------------------
(* The session_update task of generation g                                 *)

Ends(g, how) ==
  /\ upd' = [upd EXCEPT ![g] = [at |-> how, tries |-> 0]]
  /\ updFor' = IF updFor = g THEN 0 ELSE updFor

UpdateChecks(g) ==
  /\ upd[g].at = "check"
  /\ \/ Current(g) /\ upd' = [upd EXCEPT ![g].at = "send"] /\ UNCHANGED updFor
     \/ ~Current(g) /\ Ends(g, "none")
  /\ UNCHANGED <<orch, inbox, att, flaps, call, handle, gen, ready, rtcHandle, media, ses, mishaps>>

\* webrtc_send_json asks rtc_handle whether the channel is open, which may be a
\* session that has been freed; esp_webrtc_send_custom_data asks the right one.
ChannelSeems ==
  /\ rtcHandle # 0
  /\ ses[rtcHandle].life = "open" => ses[rtcHandle].chan = "open"
Sendable == handle # 0 /\ ChannelSeems /\ ~ses[handle].closing /\ ses[handle].chan = "open"

\* Variant: the attempts are counted from one too many.
UpdateSendsOnceMore(g) ==
  /\ upd[g].at = "send"
  /\ \/ /\ Sendable
        /\ ses' = [ses EXCEPT ![handle].conf = IF @ = "no" THEN "sent" ELSE @]
        /\ Ends(g, "none")
     \/ /\ ~Sendable \/ "send" \in Faults
        /\ IF upd[g].tries = MaxTries THEN Ends(g, "gave_up")
           ELSE /\ upd' = [upd EXCEPT ![g] = [at |-> "check", tries |-> @.tries + 1]]
                /\ UNCHANGED updFor
        /\ UNCHANGED ses
  /\ UNCHANGED <<orch, inbox, att, flaps, call, handle, gen, ready, rtcHandle, media, mishaps>>

\* Variant: one attempt that fails ends the task.
UpdateSendsOnce(g) ==
  /\ upd[g].at = "send"
  /\ IF Sendable THEN ses' = [ses EXCEPT ![handle].conf = IF @ = "no" THEN "sent" ELSE @]
                 ELSE UNCHANGED ses
  /\ Ends(g, "none")
  /\ UNCHANGED <<orch, inbox, att, flaps, call, handle, gen, ready, rtcHandle, media, mishaps>>

UpdateSends(g) ==
  /\ upd[g].at = "send"
  /\ \/ /\ Sendable
        /\ ses' = [ses EXCEPT ![handle].conf = IF @ = "no" THEN "sent" ELSE @]
        /\ Ends(g, "none")
     \/ /\ ~Sendable \/ "send" \in Faults \/ ses[rtcHandle].life = "freed"
        /\ IF upd[g].tries + 1 = MaxTries THEN Ends(g, "gave_up")
           ELSE /\ upd' = [upd EXCEPT ![g] = [at |-> "check", tries |-> @.tries + 1]]
                /\ UNCHANGED updFor
        /\ UNCHANGED ses
  /\ UNCHANGED <<orch, inbox, att, flaps, call, handle, gen, ready, rtcHandle, media, mishaps>>

-----------------------------------------------------------------------------
Next ==
  \/ Ignites \/ LosesWifi \/ SessionEnds
  \/ OrchestratorStep
  \/ \E t \in Callers : CallStep(t)
  \/ \E s \in Attempts : PeerReports(s) \/ PeerStep(s) \/ SenderExits(s)
  \/ \E g \in Gens : UpdateChecks(g) \/ UpdateSends(g)

Spec == Init /\ [][Next]_vars
-----------------------------------------------------------------------------
(* Properties                                                              *)

Steps == {"mark", "streams", "off", "waitSend", "peer", "waitPeer", "free", "take",
          "teardown", "begin", "open", "start", "fail", "post", "exit"}
PeerSteps == {"send", "spawn", "streams", "off", "waitSend", "check_up", "check_down",
              "check_ready", "up", "down", "ready"}
Session ==
  [life : {"none", "open", "freed"}, gen : Nat, media : 0 .. MaxAttempts,
   closing : BOOLEAN, running : BOOLEAN, peer : {"none", "loop", "gone"},
   todo : Seq(PeerSteps), phase : {"new", "connected", "over"}, exitBit : BOOLEAN,
   chan : {"new", "open", "closed"}, conf : {"no", "sent", "answered"},
   sending : BOOLEAN, sender : BOOLEAN, quitBit : BOOLEAN]
Events == [ev : {"ready", "down", "stopped"}, from : 0 .. MaxAttempts]

\* Every variable keeps its type.
RtcTypeOK ==
  /\ orch \in {"idle", "igniting", "active", "stopping"}
  /\ inbox \in Seq(Events)
  /\ att \in 0 .. MaxAttempts /\ flaps \in 0 .. MaxFlaps
  /\ call \in [Callers -> [todo : Seq(Steps), ses : 0 .. MaxAttempts]]
  /\ handle \in 0 .. MaxAttempts /\ rtcHandle \in 0 .. MaxAttempts
  /\ gen \in Nat /\ ready \in BOOLEAN
  /\ media \in 0 .. MaxAttempts
  /\ ses \in [Attempts -> Session]
  /\ updFor \in Nat
  /\ upd \in [Gens -> [at : {"none", "check", "send", "gave_up", "refused"}, tries : 0 .. MaxTries - 1]]
  /\ mishaps \subseteq Mishaps

\* Whoever holds the mutex and sees a handle may use it: it is allocated and nobody
\* is closing it (webrtc.c:213-239).  It is the session of the latest attempt, unless
\* no stop task could be created or WiFi was lost while one was at work: its late
\* WEBRTC_STOPPED ends a session that it has not stopped.
HandleIsLive ==
  handle # 0 =>
    /\ handle = att \/ mishaps \cap {"overlap", "unstopped"} # {}
    /\ ses[handle].life = "open"
    /\ \A t \in Callers : ~Free(t) /\ call[t].ses = handle => Head(call[t].todo) \in {"start", "take"}

\* A session that is freed leaves no thread behind that would go on using it:
\* pc_task and pc_send have been joined, unless WiFi was lost while the stop task
\* was at work, or the peer connected just when the session was being closed.
NothingOutlives ==
  mishaps \cap {"overlap", "late"} = {} =>
    \A s \in Attempts : ses[s].life = "freed" => ses[s].peer # "loop" /\ ~ses[s].sender

\* The capture and the player a session was given exist until it is freed
\* (README.md:199), with the same exception for a loss of WiFi.
MediaOutlivesSession ==
  "overlap" \notin mishaps =>
    \A s \in Attempts : ses[s].life = "open" => media # 0 /\ media = ses[s].media

\* What the orchestrator acts upon is about the session it thinks of: WEBRTC_CONNECTED
\* and WEBRTC_DISCONNECTED come from the latest attempt, and WEBRTC_STOPPED of a
\* stop task finds no session in use.
EventsInOrder ==
  mishaps \cap {"overlap", "unstopped"} = {} /\ Free("orch") /\ inbox # <<>> =>
    LET e == Head(inbox) IN
    /\ e.ev \in {"ready", "down"} /\ orch \in {"igniting", "active"} => e.from = att
    /\ e.ev = "stopped" /\ e.from # 0 /\ orch = "stopping" => handle = 0

\* Nobody waits for what cannot come: a thread that waits for pc_send or pc_task to
\* leave finds it running, about to be created or its exit reported, so start_webrtc
\* and stop_webrtc return whatever the peer connection does.  Three failures of the
\* code are left out by name, in each of which the wait has no end: two threads stop
\* the stream at once; pc_send cannot be created after a closer has found send_going
\* set (esp_webrtc.c:155-160); pc_task could not be created, whose exit is awaited
\* all the same (esp_webrtc.c:626-635).
WaitsAreAnswered ==
  mishaps \cap {"race", "stillborn"} = {} =>
    /\ \A s \in Attempts :
         PeerAt(s, "waitSend") => ses[s].sender \/ ses[s].quitBit
    /\ \A t \in Callers : LET s == call[t].ses IN
         /\ At(t, "waitSend") => ses[s].sender \/ ses[s].quitBit \/ PeerAt(s, "spawn")
         /\ At(t, "waitPeer") => ses[s].peer \in {"loop", "none"} \/ ses[s].exitBit

\* A channel that is open has been configured, or somebody is about to: its
\* session_update task is at work, or the callback that creates the task is on its
\* way.  There are two other ends, which the code only logs (webrtc.c:719, 759, 773):
\* the task has given up after its last try, or it could not be scheduled.
ChannelConfigured ==
  \A s \in Attempts :
    ses[s].chan = "open" /\ Current(ses[s].gen) =>
      \/ ses[s].conf # "no"
      \/ upd[ses[s].gen].at \in {"check", "send"}
      \/ \E i \in DOMAIN ses[s].todo : ses[s].todo[i] \in {"check_up", "up"}
      \/ upd[ses[s].gen].at \in {"gave_up", "refused"}
=============================================================================
