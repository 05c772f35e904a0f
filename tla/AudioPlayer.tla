---------------------------- MODULE AudioPlayer ----------------------------
(***************************************************************************)
(* The audio player of a session (av_render.c): packets go through a queue *)
(* to the decoder thread Adec, frames through another to the render thread *)
(* ARender, which writes them to the codec.                                *)
(*                                                                         *)
(* Two threads call the player.  The feeder is pc_task: it adds the stream *)
(* and its packets, and resets the player when the peer disconnects.  The  *)
(* closer resets it when the session is closed or the media system torn    *)
(* down.  Calls hold api_lock, but a packet is queued after the lock has   *)
(* been given back, and Adec creates ARender with the first frame, without *)
(* any lock.                                                               *)
(*                                                                         *)
(* A call is the list of the steps it still has to do.  What a thread does *)
(* to memory that has been freed is not modelled: the model stops there.   *)
(***************************************************************************)
EXTENDS Integers, Sequences

CONSTANTS
  RawSize,      \* packets the queue of Adec holds
  RenderSize,   \* frames the queue of ARender holds
  MaxFed,       \* bound: packets of all streams
  MaxCalls,     \* bound: streams added and resets
  Faults        \* what may fail

\* A dummy must not fill the queue of ARender, or Adec waits behind it for ever.
ASSUME SizesAssumption == RawSize \in Nat \ {0} /\ RenderSize \in Nat \ {0, 1}
ASSUME BoundsAssumption == MaxFed \in Nat /\ MaxCalls \in Nat

\* Creating ARender, decoding a packet, getting the codec ready for the first frame (its
\* format, the resampler, the codec itself), resampling a frame and writing it.
AllFaults == {"create", "decode", "open", "resample", "write"}
ASSUME FaultsAssumption == Faults \subseteq AllFaults

Threads == {"adec", "arender"}
Callers == {"feeder", "closer"}

VARIABLES
  lock,      \* api_lock: who holds it, or "free"
  todo,      \* what a caller still has to do
  await,     \* the threads whose end it waits for
  res,       \* adec_res, a_render_res exist
  thread,    \* thread_res.thread is set
  at,        \* what the thread itself is doing
  closes,    \* CLOSE messages in msg_q
  q,         \* data_q: packets and frames, the one in work included
  bits,      \* the event group: threads that report their end
  reached,   \* audio_packet_reached
  played,    \* written to the codec
  lost,      \* history: packets thrown away by failing calls since the stream began
  fed,       \* packets so far; numbers them
  since,     \* the packets up to here belong to earlier streams
  calls,     \* calls so far
  mishaps    \* history: which of Mishaps have happened

\* "lazy": ARender was created after a reset had looked for it; "unlocked": the
\* player was reset while the feeder was about to queue a packet.
Mishaps == {"lazy", "unlocked"}

caller  == <<lock, todo, await>>
threads == <<res, thread, at, closes, q, bits>>
stream  == <<reached, played, lost, fed, since>>
vars == <<caller, threads, stream, calls, mishaps>>

Dummy == 0
Size(t) == IF t = "adec" THEN RawSize ELSE RenderSize

Init ==
  /\ lock = "free" /\ todo = [c \in Callers |-> <<>>] /\ await = [c \in Callers |-> {}]
  /\ res = FALSE
  /\ thread = [t \in Threads |-> FALSE] /\ at = [t \in Threads |-> "none"]
  /\ closes = [t \in Threads |-> 0] /\ q = [t \in Threads |-> <<>>]
  /\ bits = {}
  /\ reached = FALSE /\ played = <<>> /\ lost = {} /\ fed = 0 /\ since = 0
  /\ calls = 0 /\ mishaps = {}

-----------------------------------------------------------------------------
(* Calls                                                                   *)

Step(what, t) == [do |-> what, to |-> t]
StreamSteps == <<Step("tell", "adec"), Step("join", "adec"), Step("open", "adec")>>
ResetSteps == <<Step("tell", "adec"), Step("tell", "arender"),
                 Step("join", "arender"), Step("free", "arender")>>

Does(c, what) == todo[c] # <<>> /\ Head(todo[c]).do = what
Target(c) == Head(todo[c]).to
Done(c) == todo' = [todo EXCEPT ![c] = Tail(@)]

Calls(c, steps) ==
  /\ todo[c] = <<>> /\ lock = "free"
  /\ calls < MaxCalls
  /\ calls' = calls + 1
  /\ lock' = c /\ todo' = [todo EXCEPT ![c] = steps]
  /\ UNCHANGED <<await, threads, stream, mishaps>>

AddStream == Calls("feeder", StreamSteps)
Reset(c) == Calls(c, ResetSteps)

\* av_render_add_audio_data as far as it holds the lock: the stream has its
\* decoder thread.
AddData ==
  /\ todo["feeder"] = <<>> /\ lock = "free"
  /\ res /\ thread["adec"] /\ fed < MaxFed
  /\ fed' = fed + 1
  /\ todo' = [todo EXCEPT !["feeder"] = <<Step("put", "adec")>>]
  /\ UNCHANGED <<lock, await, threads, reached, played, lost, since, calls, mishaps>>

\* Variant: the packet is queued whether there is room or not.
PutWithoutRoom ==
  /\ Does("feeder", "put")
  /\ res
  /\ q' = [q EXCEPT !["adec"] = Append(@, fed)]
  /\ Done("feeder")
  /\ UNCHANGED <<lock, await, res, thread, at, closes, bits, stream, calls, mishaps>>

\* put_to_adec, without the lock.
Put ==
  /\ Does("feeder", "put")
  /\ res
  /\ Len(q["adec"]) < RawSize
  /\ q' = [q EXCEPT !["adec"] = Append(@, fed)]
  /\ Done("feeder")
  /\ UNCHANGED <<lock, await, res, thread, at, closes, bits, stream, calls, mishaps>>

\* A thread that is there is told to leave.
Tell(c) ==
  /\ Does(c, "tell")
  /\ \/ /\ thread[Target(c)]
        /\ await' = [await EXCEPT ![c] = @ \cup {Target(c)}]
        /\ closes' = [closes EXCEPT ![Target(c)] = @ + 1]
        /\ todo' = [todo EXCEPT ![c] = <<Step("wake", Target(c))>> \o Tail(@)]
     \/ /\ ~thread[Target(c)]
        /\ Done(c)
        /\ UNCHANGED <<await, closes>>
  /\ UNCHANGED <<lock, res, thread, at, q, bits, stream, calls, mishaps>>

\* Variant: nobody is woken.
WakeNobody(c) ==
  /\ Does(c, "wake")
  /\ Done(c)
  /\ UNCHANGED <<lock, await, threads, stream, calls, mishaps>>

\* The rest of send_msg_to_thread: a frame without data wakes a thread that has
\* nothing to read.
Wake(c) ==
  /\ Does(c, "wake")
  /\ q' = IF q[Target(c)] = <<>> THEN [q EXCEPT ![Target(c)] = <<Dummy>>] ELSE q
  /\ Done(c)
  /\ UNCHANGED <<lock, await, res, thread, at, closes, bits, stream, calls, mishaps>>

\* Variant: one report is enough.
JoinAny(c) ==
  /\ Does(c, "join")
  /\ await[c] # {} => await[c] \cap bits # {}
  /\ bits' = bits \ await[c]
  /\ await' = [await EXCEPT ![c] = {}]
  /\ Done(c)
  /\ UNCHANGED <<lock, res, thread, at, closes, q, stream, calls, mishaps>>

\* Everybody who was told has reported.
Join(c) ==
  /\ Does(c, "join")
  /\ await[c] \subseteq bits
  /\ bits' = bits \ await[c]
  /\ await' = [await EXCEPT ![c] = {}]
  /\ Done(c)
  /\ UNCHANGED <<lock, res, thread, at, closes, q, stream, calls, mishaps>>

\* The rest of av_render_add_audio_stream: a new decoder with a new thread.
Open(c) ==
  /\ Does(c, "open")
  /\ res' = TRUE /\ reached' = FALSE /\ since' = fed /\ lost' = {}
  /\ thread' = [thread EXCEPT !["adec"] = TRUE]
  /\ at' = [at EXCEPT !["adec"] = "poll"]
  /\ lock' = "free"
  /\ Done(c)
  /\ UNCHANGED <<await, closes, q, bits, played, fed, calls, mishaps>>

\* The rest of av_render_reset: queues and structures of both threads go.
Free(c) ==
  /\ Does(c, "free")
  /\ res' = FALSE
  /\ thread' = [t \in Threads |-> FALSE]
  /\ closes' = [t \in Threads |-> 0] /\ q' = [t \in Threads |-> <<>>]
  /\ mishaps' = IF Does("feeder", "put") THEN mishaps \cup {"unlocked"} ELSE mishaps
  /\ lock' = "free"
  /\ Done(c)
  /\ UNCHANGED <<await, at, bits, stream, calls>>

CallerStep(c) ==
  \/ c = "feeder" /\ Put
  \/ Tell(c) \/ Wake(c) \/ Join(c) \/ Open(c) \/ Free(c)

-----------------------------------------------------------------------------
(* render_thread, of both threads                                          *)

Poll(t) ==
  /\ at[t] = "poll"
  /\ \/ /\ closes[t] > 0
        /\ closes' = [closes EXCEPT ![t] = @ - 1]
        /\ at' = [at EXCEPT ![t] = "leave"]
     \/ /\ closes[t] = 0
        /\ at' = [at EXCEPT ![t] = "read"]
        /\ UNCHANGED closes
  /\ UNCHANGED <<caller, res, thread, q, bits, stream, calls, mishaps>>

Read(t) ==
  /\ at[t] = "read" /\ q[t] # <<>>
  /\ at' = [at EXCEPT ![t] = IF Head(q[t]) = Dummy THEN "release" ELSE "work"]
  /\ UNCHANGED <<caller, res, thread, closes, q, bits, stream, calls, mishaps>>

Release(t) ==
  /\ at[t] = "release"
  /\ q' = [q EXCEPT ![t] = Tail(@)]
  /\ at' = [at EXCEPT ![t] = "poll"]
  /\ UNCHANGED <<caller, res, thread, closes, bits, stream, calls, mishaps>>

\* The thread is no longer to be told; what is left to read is thrown away.
Leave(t) ==
  /\ at[t] = "leave"
  /\ thread' = [thread EXCEPT ![t] = FALSE]
  /\ at' = [at EXCEPT ![t] = "consume"]
  /\ UNCHANGED <<caller, res, closes, q, bits, stream, calls, mishaps>>

Report(t) ==
  /\ at[t] = "consume"
  /\ q' = [q EXCEPT ![t] = <<>>]
  /\ bits' = bits \cup {t}
  /\ at' = [at EXCEPT ![t] = "none"]
  /\ UNCHANGED <<caller, res, thread, closes, stream, calls, mishaps>>

\* A caller that resets the player and has already looked for the thread t.
PassedBy(c, t) ==
  /\ todo[c] # <<>> /\ todo[c][Len(todo[c])].do = "free"
  /\ \A i \in DOMAIN todo[c] : todo[c][i] # Step("tell", t)

\* A call on the packet in work fails: nobody looks at the error, the packet is released.
Drops(t) ==
  /\ lost' = lost \cup {Head(q[t])}
  /\ at' = [at EXCEPT ![t] = "release"]

\* decode_audio and, with the first frame, av_render_audio_frame_reached, which gets the
\* codec ready and creates ARender; without ARender frames are written by Adec itself.
Decode ==
  /\ at["adec"] = "work"
  /\ \/ /\ ~reached /\ ~thread["arender"]
        /\ reached' = TRUE
        /\ thread' = [thread EXCEPT !["arender"] = TRUE]
        /\ at' = [at EXCEPT !["adec"] = "forward", !["arender"] = "poll"]
        /\ mishaps' = IF \E c \in Callers : PassedBy(c, "arender")
                      THEN mishaps \cup {"lazy"} ELSE mishaps
        /\ UNCHANGED lost
     \/ /\ reached \/ thread["arender"] \/ "create" \in Faults
        /\ reached' = TRUE
        /\ at' = [at EXCEPT !["adec"] = "forward"]
        /\ UNCHANGED <<thread, lost, mishaps>>
     \/ /\ "decode" \in Faults \/ (~reached /\ "open" \in Faults)
        /\ Drops("adec")
        /\ UNCHANGED <<reached, thread, mishaps>>
  /\ UNCHANGED <<caller, res, closes, q, bits, played, fed, since, calls>>

\* Variant: a frame that finds the queue full is written by Adec.
ForwardPastFull ==
  /\ at["adec"] = "forward"
  /\ \/ /\ thread["arender"] /\ Len(q["arender"]) < RenderSize
        /\ at' = [at EXCEPT !["adec"] = "pass"]
        /\ UNCHANGED <<played, lost>>
     \/ /\ ~thread["arender"] \/ Len(q["arender"]) = RenderSize
        /\ played' = Append(played, Head(q["adec"]))
        /\ at' = [at EXCEPT !["adec"] = "release"]
        /\ UNCHANGED lost
  /\ UNCHANGED <<caller, res, thread, closes, q, bits, reached, fed, since, calls, mishaps>>

\* The resampler and audio_render_frame_reached: queued for ARender if it is there.
Forward ==
  /\ at["adec"] = "forward"
  /\ \/ /\ thread["arender"]
        /\ at' = [at EXCEPT !["adec"] = "pass"]
        /\ UNCHANGED <<played, lost>>
     \/ /\ ~thread["arender"]
        /\ played' = Append(played, Head(q["adec"]))
        /\ at' = [at EXCEPT !["adec"] = "release"]
        /\ UNCHANGED lost
     \/ /\ "resample" \in Faults \/ (~thread["arender"] /\ "write" \in Faults)
        /\ Drops("adec")
        /\ UNCHANGED played
  /\ UNCHANGED <<caller, res, thread, closes, q, bits, reached, fed, since, calls, mishaps>>

Pass ==
  /\ at["adec"] = "pass"
  /\ Len(q["arender"]) < RenderSize
  /\ q' = [q EXCEPT !["arender"] = Append(@, Head(q["adec"]))]
  /\ at' = [at EXCEPT !["adec"] = "release"]
  /\ UNCHANGED <<caller, res, thread, closes, bits, stream, calls, mishaps>>

\* a_render_body writes the frame to the codec.
Play ==
  /\ at["arender"] = "work"
  /\ \/ /\ played' = Append(played, Head(q["arender"]))
        /\ at' = [at EXCEPT !["arender"] = "release"]
        /\ UNCHANGED lost
     \/ /\ "write" \in Faults
        /\ Drops("arender")
        /\ UNCHANGED played
  /\ UNCHANGED <<caller, res, thread, closes, q, bits, reached, fed, since, calls, mishaps>>

ThreadStep(t) ==
  \/ Poll(t) \/ Read(t) \/ Release(t) \/ Leave(t) \/ Report(t)
  \/ t = "adec" /\ (Decode \/ Forward \/ Pass)
  \/ t = "arender" /\ Play

-----------------------------------------------------------------------------
\* Nobody works on a player that has been freed.
Sound == ~res => (\A t \in Threads : at[t] = "none") /\ ~Does("feeder", "put")

Next ==
  /\ Sound
  /\ \/ AddStream \/ AddData
     \/ \E c \in Callers : Reset(c) \/ CallerStep(c)
     \/ \E t \in Threads : ThreadStep(t)

\* FreeRTOS runs every thread that can go on, and the codec takes what it is
\* given.  Nobody has to call the player.
Fairness ==
  /\ \A c \in Callers : WF_vars(Sound /\ CallerStep(c))
  /\ \A t \in Threads : WF_vars(Sound /\ ThreadStep(t))

Spec == Init /\ [][Next]_vars
FairSpec == Spec /\ Fairness
-----------------------------------------------------------------------------
(* Properties                                                              *)

Steps == [do : {"tell", "wake", "join", "open", "free", "put"}, to : Threads]
InUse(t) == IF q[t] # <<>> /\ at[t] = "release" THEN Tail(q[t]) ELSE q[t]

\* Every variable keeps its type and every queue its size.
PlayerTypeOK ==
  /\ lock \in Callers \cup {"free"}
  /\ todo \in [Callers -> Seq(Steps)] /\ await \in [Callers -> SUBSET Threads]
  /\ res \in BOOLEAN /\ thread \in [Threads -> BOOLEAN]
  /\ at \in [Threads -> {"none", "poll", "read", "work", "release", "leave", "consume",
                         "forward", "pass"}]
  /\ closes \in [Threads -> 0 .. 1]
  /\ q \in [Threads -> Seq(0 .. MaxFed)]
  /\ \A t \in Threads : Len(q[t]) <= Size(t)
  /\ bits \subseteq Threads
  /\ reached \in BOOLEAN /\ played \in Seq(1 .. MaxFed) /\ lost \subseteq 1 .. MaxFed
  /\ fed \in 0 .. MaxFed /\ since \in 0 .. fed
  /\ calls \in 0 .. MaxCalls /\ mishaps \subseteq Mishaps

\* A reset leaves no thread behind that would go on using what it frees, unless
\* the first frame creates ARender just then.
NoThreadOutlives ==
  "lazy" \notin mishaps => \A t \in Threads : ~res => at[t] = "none"

\* Whatever is on its way, oldest first.
OnTheWay == played \o InUse("arender") \o InUse("adec")
Quiet == \A c \in Callers : todo[c] = <<>>

\* In w, behind what is left of earlier streams, stand the packets of this one, in the
\* order in which they came, each once and none missing but those in gone.
InOrder(w, gone) ==
  /\ \A i, j \in DOMAIN w : i < j /\ w[i] > since => w[i] < w[j]
  /\ {w[i] : i \in DOMAIN w} \ (0 .. since) = (since + 1 .. fed) \ gone

\* While nobody resets the player, every packet of the stream that no failing call has
\* thrown away is played, once and in order, whether ARender plays it or Adec itself,
\* and none that a failing call has thrown away is.
PlayedInOrder == res /\ Quiet => InOrder(OnTheWay, lost)

\* Calls return: whoever waits for a thread to leave or for room is served.
PlayerCallsReturn ==
  \A c \in Callers : todo[c] # <<>> ~> (todo[c] = <<>> \/ mishaps # {})
=============================================================================
