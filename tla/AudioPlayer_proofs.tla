------------------------- MODULE AudioPlayer_proofs -------------------------
(***************************************************************************)
(* The audio player: every queue keeps its size and no thread outlives a   *)
(* reset that did not race the first frame.                                *)
(*                                                                         *)
(* The two threads keep a handshake with the caller that holds api_lock: a *)
(* thread that was told to leave has a CLOSE message, or is on its way     *)
(* out, or has reported, and any other one works or does not exist.  Where *)
(* the caller is in its work says which of them it has told.               *)
(***************************************************************************)
EXTENDS AudioPlayer, SequenceTheorems, TLAPS

USE DEF caller, threads, stream, vars

-----------------------------------------------------------------------------
(* The places of a caller                                                  *)

A == "adec"
R == "arender"

\* What a caller still has to do, all along av_render_add_audio_stream ...
S1 == <<Step("tell", A), Step("join", A), Step("open", A)>>
S2 == <<Step("wake", A), Step("join", A), Step("open", A)>>
S3 == <<Step("join", A), Step("open", A)>>
S4 == <<Step("open", A)>>

\* ... and along av_render_reset.
R1 == <<Step("tell", A), Step("tell", R), Step("join", R), Step("free", R)>>
R2 == <<Step("wake", A), Step("tell", R), Step("join", R), Step("free", R)>>
R3 == <<Step("tell", R), Step("join", R), Step("free", R)>>
R4 == <<Step("wake", R), Step("join", R), Step("free", R)>>
R5 == <<Step("join", R), Step("free", R)>>
R6 == <<Step("free", R)>>

P1 == <<Step("put", A)>>

Shapes == {S1, S2, S3, S4, R1, R2, R3, R4, R5, R6}

LEMMA Equal ==
  ASSUME NEW s \in Seq(Steps), NEW t \in Seq(Steps), Len(s) = Len(t),
         \A i \in 1 .. Len(s) : s[i] = t[i]
  PROVE  s = t
  BY SeqEqual

LEMMA StepTypes ==
  ASSUME NEW x \in {"tell", "wake", "join", "open", "free", "put"}, NEW t \in Threads
  PROVE  Step(x, t) \in Steps /\ Step(x, t).do = x /\ Step(x, t).to = t
  BY DEF Step, Steps

LEMMA ShapeTypes ==
  \A s \in Shapes \cup {P1, <<>>} : s \in Seq(Steps)
  <1> DEFINE T == {Step("tell", A), Step("tell", R), Step("wake", A), Step("wake", R),
                   Step("join", A), Step("join", R), Step("open", A), Step("free", R),
                   Step("put", A)}
  <1>1. T \subseteq Steps
    BY DEF Step, Steps, A, R, Threads
  <1> HIDE DEF T
  <1>2. /\ Step("tell", A) \in Steps /\ Step("tell", R) \in Steps /\ Step("wake", A) \in Steps
        /\ Step("wake", R) \in Steps /\ Step("join", A) \in Steps /\ Step("join", R) \in Steps
        /\ Step("open", A) \in Steps /\ Step("free", R) \in Steps /\ Step("put", A) \in Steps
    BY <1>1 DEF T
  <1>3. S1 \in Seq(Steps) /\ S2 \in Seq(Steps) /\ S3 \in Seq(Steps) /\ S4 \in Seq(Steps)
    BY <1>2 DEF S1, S2, S3, S4
  <1>4. R1 \in Seq(Steps) /\ R2 \in Seq(Steps) /\ R3 \in Seq(Steps)
    BY <1>2 DEF R1, R2, R3
  <1>5. R4 \in Seq(Steps) /\ R5 \in Seq(Steps) /\ R6 \in Seq(Steps) /\ P1 \in Seq(Steps)
    BY <1>2 DEF R4, R5, R6, P1
  <1>6. <<>> \in Seq(Steps)
    OBVIOUS
  <1> QED BY <1>3, <1>4, <1>5, <1>6 DEF Shapes

\* The next step of each place, and the place behind it.
LEMMA Heads ==
  /\ S1 # <<>> /\ Head(S1) = Step("tell", A) /\ S2 # <<>> /\ Head(S2) = Step("wake", A)
  /\ S3 # <<>> /\ Head(S3) = Step("join", A) /\ S4 # <<>> /\ Head(S4) = Step("open", A)
  /\ R1 # <<>> /\ Head(R1) = Step("tell", A) /\ R2 # <<>> /\ Head(R2) = Step("wake", A)
  /\ R3 # <<>> /\ Head(R3) = Step("tell", R) /\ R4 # <<>> /\ Head(R4) = Step("wake", R)
  /\ R5 # <<>> /\ Head(R5) = Step("join", R) /\ R6 # <<>> /\ Head(R6) = Step("free", R)
  /\ P1 # <<>> /\ Head(P1) = Step("put", A)
  <1>1. S1 # <<>> /\ Head(S1) = Step("tell", A) /\ S2 # <<>> /\ Head(S2) = Step("wake", A)
    BY DEF S1, S2
  <1>2. S3 # <<>> /\ Head(S3) = Step("join", A) /\ S4 # <<>> /\ Head(S4) = Step("open", A)
    BY DEF S3, S4
  <1>3. R1 # <<>> /\ Head(R1) = Step("tell", A) /\ R2 # <<>> /\ Head(R2) = Step("wake", A)
    BY DEF R1, R2
  <1>4. R3 # <<>> /\ Head(R3) = Step("tell", R) /\ R4 # <<>> /\ Head(R4) = Step("wake", R)
    BY DEF R3, R4
  <1>5. R5 # <<>> /\ Head(R5) = Step("join", R) /\ R6 # <<>> /\ Head(R6) = Step("free", R)
    BY DEF R5, R6
  <1>6. P1 # <<>> /\ Head(P1) = Step("put", A)
    BY DEF P1
  <1> QED BY <1>1, <1>2, <1>3, <1>4, <1>5, <1>6

LEMMA Tails ==
  /\ Tail(S1) = S3 /\ Tail(S2) = S3 /\ Tail(S3) = S4 /\ Tail(S4) = <<>>
  /\ Tail(R1) = R3 /\ Tail(R2) = R3 /\ Tail(R3) = R5 /\ Tail(R4) = R5 /\ Tail(R5) = R6
  /\ Tail(R6) = <<>> /\ Tail(P1) = <<>>
  <1>0. \A s \in Shapes \cup {P1, <<>>} : s \in Seq(Steps)
    BY ShapeTypes
  <1>1. Tail(S1) = S3 /\ Tail(S2) = S3
    BY <1>0, Equal DEF S1, S2, S3, Shapes
  <1>2. Tail(S3) = S4 /\ Tail(S4) = <<>>
    BY <1>0, Equal DEF S3, S4, Shapes
  <1>3. Tail(R1) = R3 /\ Tail(R2) = R3
    BY <1>0, Equal DEF R1, R2, R3, Shapes
  <1>4. Tail(R3) = R5 /\ Tail(R4) = R5
    BY <1>0, Equal DEF R3, R4, R5, Shapes
  <1>5. Tail(R5) = R6 /\ Tail(R6) = <<>> /\ Tail(P1) = <<>>
    BY <1>0, Equal DEF R5, R6, P1, Shapes
  <1> QED BY <1>1, <1>2, <1>3, <1>4, <1>5

LEMMA Before ==
  ASSUME NEW x \in Steps, NEW s \in Seq(Steps), NEW t \in Seq(Steps), Len(t) = Len(s) + 1,
         t[1] = x, \A i \in 1 .. Len(s) : t[i + 1] = s[i]
  PROVE  <<x>> \o s = t
  <1>1. <<x>> \o s \in Seq(Steps) /\ Len(<<x>> \o s) = Len(s) + 1
    OBVIOUS
  <1>2. ASSUME NEW i \in 1 .. Len(s) + 1 PROVE (<<x>> \o s)[i] = t[i]
    <2>1. CASE i = 1
      BY <2>1
    <2>2. CASE i # 1
      <3>1. i - 1 \in 1 .. Len(s) /\ t[(i - 1) + 1] = s[i - 1]
        BY <2>2
      <3> QED BY <2>2, <3>1
    <2> QED BY <2>1, <2>2
  <1> QED BY <1>1, <1>2, Equal

LEMMA Wakes ==
  /\ <<Step("wake", A)>> \o Tail(S1) = S2
  /\ <<Step("wake", A)>> \o Tail(R1) = R2
  /\ <<Step("wake", R)>> \o Tail(R3) = R4
  <1>0. /\ \A s \in Shapes \cup {P1, <<>>} : s \in Seq(Steps)
        /\ Step("wake", A) \in Steps /\ Step("wake", R) \in Steps
    BY ShapeTypes, StepTypes DEF A, R, Threads
  <1>1. <<Step("wake", A)>> \o S3 = S2
    <2>1. S3 \in Seq(Steps) /\ S2 \in Seq(Steps)
      BY <1>0 DEF Shapes
    <2>2. /\ Len(S2) = Len(S3) + 1 /\ S2[1] = Step("wake", A)
          /\ \A i \in 1 .. Len(S3) : S2[i + 1] = S3[i]
      BY DEF S2, S3
    <2> QED BY <1>0, <2>1, <2>2, Before
  <1>2. <<Step("wake", A)>> \o R3 = R2
    <2>1. R3 \in Seq(Steps) /\ R2 \in Seq(Steps)
      BY <1>0 DEF Shapes
    <2>2. /\ Len(R2) = Len(R3) + 1 /\ R2[1] = Step("wake", A)
          /\ \A i \in 1 .. Len(R3) : R2[i + 1] = R3[i]
      BY DEF R2, R3
    <2> QED BY <1>0, <2>1, <2>2, Before
  <1>3. <<Step("wake", R)>> \o R5 = R4
    <2>1. R5 \in Seq(Steps) /\ R4 \in Seq(Steps)
      BY <1>0 DEF Shapes
    <2>2. /\ Len(R4) = Len(R5) + 1 /\ R4[1] = Step("wake", R)
          /\ \A i \in 1 .. Len(R5) : R4[i + 1] = R5[i]
      BY DEF R4, R5
    <2> QED BY <1>0, <2>1, <2>2, Before
  <1> QED BY <1>1, <1>2, <1>3, Tails

\* The places differ.
LEMMA Lengths ==
  /\ Len(S1) = 3 /\ Len(S2) = 3 /\ Len(S3) = 2 /\ Len(S4) = 1
  /\ Len(R1) = 4 /\ Len(R2) = 4 /\ Len(R3) = 3 /\ Len(R4) = 3 /\ Len(R5) = 2 /\ Len(R6) = 1
  /\ Len(P1) = 1
  BY DEF S1, S2, S3, S4, R1, R2, R3, R4, R5, R6, P1

LEMMA Does1 ==
  ASSUME NEW c, NEW x
  PROVE  /\ todo[c] = <<>> => ~Does(c, x)
         /\ todo[c] = P1 => (Does(c, x) <=> x = "put")
         /\ todo[c] \in {S1, R1, R3} => (Does(c, x) <=> x = "tell")
         /\ todo[c] \in {S2, R2, R4} => (Does(c, x) <=> x = "wake")
         /\ todo[c] \in {S3, R5} => (Does(c, x) <=> x = "join")
         /\ todo[c] = S4 => (Does(c, x) <=> x = "open")
         /\ todo[c] = R6 => (Does(c, x) <=> x = "free")
         /\ todo[c] \in {S1, S2, S3, S4, R1, R2, P1} => Target(c) = A
         /\ todo[c] \in {R3, R4, R5, R6} => Target(c) = R
  <1>1. \A y, t : Step(y, t).do = y /\ Step(y, t).to = t
    BY DEF Step
  <1> QED BY <1>1, Heads DEF Does, Target

LEMMA Apart ==
  /\ S1 # S2 /\ S1 # S3 /\ S1 # S4 /\ S1 # R1 /\ S1 # R2 /\ S1 # R3 /\ S1 # R4
  /\ S1 # R5 /\ S1 # R6
  /\ S2 # S3 /\ S2 # S4 /\ S2 # R1 /\ S2 # R2 /\ S2 # R3 /\ S2 # R4 /\ S2 # R5 /\ S2 # R6
  /\ S3 # S4 /\ S3 # R1 /\ S3 # R2 /\ S3 # R3 /\ S3 # R4 /\ S3 # R5 /\ S3 # R6
  /\ S4 # R1 /\ S4 # R2 /\ S4 # R3 /\ S4 # R4 /\ S4 # R5 /\ S4 # R6
  /\ R1 # R2 /\ R1 # R3 /\ R1 # R4 /\ R1 # R5 /\ R1 # R6
  /\ R2 # R3 /\ R2 # R4 /\ R2 # R5 /\ R2 # R6
  /\ R3 # R4 /\ R3 # R5 /\ R3 # R6 /\ R4 # R5 /\ R4 # R6 /\ R5 # R6
  <1>1. \A y, t : Step(y, t).do = y /\ Step(y, t).to = t
    BY DEF Step
  <1>2. A # R
    BY DEF A, R
  <1>3. /\ Head(S1).do = "tell" /\ Head(S1).to = A /\ Head(S2).do = "wake" /\ Head(S2).to = A
        /\ Head(S3).do = "join" /\ Head(S3).to = A /\ Head(S4).do = "open"
    BY <1>1, Heads
  <1>4. /\ Head(R1).do = "tell" /\ Head(R2).do = "wake"
        /\ Head(R3).do = "tell" /\ Head(R3).to = R /\ Head(R4).do = "wake" /\ Head(R4).to = R
        /\ Head(R5).do = "join" /\ Head(R5).to = R /\ Head(R6).do = "free"
    BY <1>1, Heads
  <1> HIDE DEF A, R
  <1>5. /\ S1 # S2 /\ S1 # S3 /\ S1 # S4 /\ S1 # R1 /\ S1 # R2 /\ S1 # R3 /\ S1 # R4
        /\ S1 # R5 /\ S1 # R6
    BY <1>2, <1>3, <1>4, Lengths
  <1>6. /\ S2 # S3 /\ S2 # S4 /\ S2 # R1 /\ S2 # R2 /\ S2 # R3 /\ S2 # R4 /\ S2 # R5 /\ S2 # R6
        /\ S3 # S4 /\ S3 # R1 /\ S3 # R2 /\ S3 # R3 /\ S3 # R4 /\ S3 # R5 /\ S3 # R6
    BY <1>2, <1>3, <1>4, Lengths
  <1>7. /\ S4 # R1 /\ S4 # R2 /\ S4 # R3 /\ S4 # R4 /\ S4 # R5 /\ S4 # R6
        /\ R1 # R2 /\ R1 # R3 /\ R1 # R4 /\ R1 # R5 /\ R1 # R6
        /\ R2 # R3 /\ R2 # R4 /\ R2 # R5 /\ R2 # R6
        /\ R3 # R4 /\ R3 # R5 /\ R3 # R6 /\ R4 # R5 /\ R4 # R6 /\ R5 # R6
    BY <1>2, <1>3, <1>4, Lengths
  <1> QED BY <1>5, <1>6, <1>7

\* A caller that resets the player and has told ARender, or found none.
LEMMA PassesBy ==
  ASSUME NEW c \in Callers, todo[c] \in Shapes \cup {P1, <<>>}
  PROVE  PassedBy(c, "arender") <=> todo[c] \in {R4, R5, R6}
  <1>1. \A y, t : Step(y, t).do = y /\ Step(y, t).to = t
    BY DEF Step
  <1>2. CASE todo[c] \in {S1, S2, S3, S4, P1, <<>>}
    <2>1. ~PassedBy(c, "arender")
      BY <1>1, <1>2 DEF PassedBy, S1, S2, S3, S4, P1
    <2> QED BY <1>2, <2>1, Apart, Lengths, Heads, Does1
  <1>3. CASE todo[c] \in {R1, R2}
    <2>1. 2 \in DOMAIN todo[c] /\ todo[c][2] = Step("tell", "arender")
      BY <1>3 DEF R1, R2, R
    <2> QED BY <1>3, <2>1, Apart DEF PassedBy
  <1>4. CASE todo[c] = R3
    <2>1. 1 \in DOMAIN todo[c] /\ todo[c][1] = Step("tell", "arender")
      BY <1>4 DEF R3, R
    <2> QED BY <1>4, <2>1, Apart DEF PassedBy
  <1>5. CASE todo[c] \in {R4, R5, R6}
    <2>1. "wake" # "tell" /\ "join" # "tell" /\ "free" # "tell"
      OBVIOUS
    <2>2. CASE todo[c] = R4
      BY <1>1, <2>1, <2>2 DEF PassedBy, R4
    <2>3. CASE todo[c] = R5
      BY <1>1, <2>1, <2>3 DEF PassedBy, R5
    <2>4. CASE todo[c] = R6
      BY <1>1, <2>1, <2>4 DEF PassedBy, R6
    <2> QED BY <1>5, <2>2, <2>3, <2>4
  <1> QED BY <1>2, <1>3, <1>4, <1>5 DEF Shapes

-----------------------------------------------------------------------------
(* The handshake                                                           *)

Working == {"poll", "read", "work", "release", "forward", "pass"}

\* A thread that was told to leave: it has the message, or leaves, or has reported.
Told(t) ==
  \/ closes[t] = 1 /\ at[t] \in Working /\ thread[t] /\ t \notin bits
  \/ closes[t] = 0 /\ at[t] = "leave" /\ thread[t] /\ t \notin bits
  \/ closes[t] = 0 /\ at[t] = "consume" /\ ~thread[t] /\ t \notin bits
  \/ closes[t] = 0 /\ at[t] = "none" /\ ~thread[t] /\ t \in bits

\* Any other thread works, or is not there.
Untold(t) ==
  /\ closes[t] = 0 /\ t \notin bits
  /\ \/ at[t] \in Working /\ thread[t]
     \/ at[t] = "none" /\ ~thread[t]

Shaken(t) == IF \E c \in Callers : t \in await[c] THEN Told(t) ELSE Untold(t)

\* Whoever holds the lock has work to do, and nobody else has but a packet to put.
Placed ==
  /\ \A c \in Callers : lock = c => todo[c] \in Shapes
  /\ lock # "feeder" => todo["feeder"] \in {<<>>, P1}
  /\ lock # "closer" => todo["closer"] = <<>>
  /\ \A c \in Callers : lock # c => await[c] = {}

\* The frame in work is in the queue, and it has data.
Loaded(t) ==
  /\ at[t] \in {"release", "work", "forward", "pass"} => q[t] # <<>>
  /\ at[t] \in {"work", "forward", "pass"} => Head(q[t]) # Dummy

Types == PlayerTypeOK /\ \A c \in Callers : todo[c] \in Shapes \cup {P1, <<>>}

\* What the holder of the lock has found out about Adec.
AboutAdec(c) ==
  /\ todo[c] \in {S1, R1} => await[c] = {}
  /\ todo[c] \in {S2, R2} => await[c] = {A}
  /\ todo[c] \in {S3, R3} => await[c] \subseteq {A}
  /\ todo[c] \in {S3, R3, R4, R5} => (thread[A] => A \in await[c])
  /\ todo[c] \in {S4, R6} => await[c] = {} /\ ~thread[A]

\* ... and, unless ARender came later, about ARender.
AboutRender(c) ==
  /\ todo[c] = R4 => R \in await[c]
  /\ todo[c] \in {R5, R6} => (thread[R] => R \in await[c])

\* ARender was created behind the back of a reset, which cannot end well.
Lazy ==
  /\ closes[R] = 0 /\ at[R] \in Working
  /\ \E c \in Callers : lock = c /\ todo[c] \in {R4, R5, R6}

Threaded ==
  /\ \A t \in Threads : Loaded(t)
  /\ Shaken(A)
  /\ \A c \in Callers : lock = c => AboutAdec(c)
  /\ "lazy" \notin mishaps => Shaken(R) /\ \A c \in Callers : lock = c => AboutRender(c)
  /\ "lazy" \in mishaps => Lazy

PlayerInv == Types /\ Placed /\ (Sound => Threaded) /\ NoThreadOutlives

-----------------------------------------------------------------------------
(* The callers                                                             *)

\* Where a thread may be.
Places == {"none", "poll", "read", "work", "release", "leave", "consume", "forward", "pass"}

\* Everything but the lists of steps.
PlainOK ==
  /\ lock \in Callers \cup {"free"} /\ await \in [Callers -> SUBSET Threads]
  /\ res \in BOOLEAN /\ thread \in [Threads -> BOOLEAN]
  /\ at \in [Threads -> Places]
  /\ closes \in [Threads -> 0 .. 1]
  /\ q \in [Threads -> Seq(0 .. MaxFed)]
  /\ \A t \in Threads : Len(q[t]) <= Size(t)
  /\ bits \subseteq Threads
  /\ reached \in BOOLEAN /\ played \in Seq(1 .. MaxFed) /\ lost \subseteq 1 .. MaxFed
  /\ fed \in 0 .. MaxFed /\ since \in 0 .. fed
  /\ calls \in 0 .. MaxCalls /\ mishaps \subseteq Mishaps

ListsOK ==
  /\ todo \in [Callers -> Seq(Steps)]
  /\ \A c \in Callers : todo[c] \in Shapes \cup {P1, <<>>}

LEMMA TypesApart == Types <=> PlainOK /\ ListsOK
  BY DEF Types, PlayerTypeOK, PlainOK, ListsOK, Places

LEMMA Flag == \A x : x = TRUE \/ x = FALSE => x \in BOOLEAN
  BY Zenon

LEMMA Placing ==
  ASSUME ListsOK, NEW c \in Callers, NEW s \in Shapes \cup {P1, <<>>},
         todo' = [todo EXCEPT ![c] = s]
  PROVE  ListsOK' /\ todo'[c] = s /\ \A d \in Callers : d # c => todo'[d] = todo[d]
  <1>1. s \in Seq(Steps)
    BY ShapeTypes
  <1> HIDE DEF Shapes, P1
  <1> QED BY <1>1 DEF ListsOK

LEMMA Holder ==
  ASSUME ListsOK, Placed, NEW c \in Callers, NEW x, Does(c, x), x # "put"
  PROVE  lock = c /\ todo[c] \in Shapes
  BY Does1 DEF Placed, Callers

LEMMA Alone ==
  ASSUME Placed, PlainOK, NEW c \in Callers, lock = c, NEW t
  PROVE  (\E d \in Callers : t \in await[d]) <=> t \in await[c]
  BY DEF Placed, PlainOK

Good == PlayerInv /\ Sound

LEMMA CallKept ==
  ASSUME Good, NEW c \in Callers, NEW s \in {S1, R1}, Calls(c, s)
  PROVE  PlayerInv'
  <1>0. PlainOK /\ ListsOK /\ Placed /\ Threaded /\ NoThreadOutlives
    BY TypesApart DEF Good, PlayerInv
  <1>1. ListsOK' /\ todo'[c] = s /\ \A d \in Callers : d # c => todo'[d] = todo[d]
    BY <1>0, Placing DEF Calls, Shapes
  <1>2. lock = "free" /\ lock' = c /\ await' = await /\ todo[c] = <<>>
    BY DEF Calls
  <1>3. PlainOK'
    BY <1>0, <1>2, BoundsAssumption DEF Calls, PlainOK
  <1>4. Placed'
    BY <1>0, <1>1, <1>2 DEF Placed, Callers, Shapes
  <1>5. \A d \in Callers : await[d] = {}
    BY <1>0, <1>2 DEF Placed, Callers
  <1>6. Threaded'
    <2>1. AboutAdec(c)' /\ AboutRender(c)'
      BY <1>1, <1>2, <1>5, Apart DEF AboutAdec, AboutRender
    <2>2. "lazy" \notin mishaps
      BY <1>0, <1>2 DEF Threaded, Lazy, Callers
    <2>3. \A t \in Threads : Loaded(t)' /\ (Shaken(t) => Shaken(t)')
      BY <1>0, <1>2 DEF Threaded, Calls, Loaded, Shaken, Told, Untold
    <2> QED BY <1>0, <1>2, <2>1, <2>2, <2>3 DEF Threaded, Calls, A, R, Threads
  <1>7. NoThreadOutlives'
    BY <1>0 DEF Calls, NoThreadOutlives
  <1> QED BY <1>1, <1>3, <1>4, <1>6, <1>7, TypesApart
          DEF PlayerInv, Types, PlayerTypeOK, PlainOK, ListsOK, Places

LEMMA AddDataKept ==
  ASSUME Good, AddData
  PROVE  PlayerInv'
  <1>0. PlainOK /\ ListsOK /\ Placed /\ Threaded /\ NoThreadOutlives
    BY TypesApart DEF Good, PlayerInv
  <1>1. ListsOK' /\ todo'["feeder"] = P1 /\ \A d \in Callers : d # "feeder" => todo'[d] = todo[d]
    BY <1>0, Placing DEF AddData, P1, A, Callers
  <1>2. lock = "free" /\ lock' = lock /\ await' = await
    BY DEF AddData
  <1>3. PlainOK'
    BY <1>0, <1>2, BoundsAssumption DEF AddData, PlainOK
  <1>4. Placed'
    BY <1>0, <1>1, <1>2 DEF Placed, Callers, Shapes
  <1>6. Threaded'
    <2>2. "lazy" \notin mishaps
      BY <1>0, <1>2 DEF Threaded, Lazy, Callers
    <2>3. \A t \in Threads : Loaded(t)' /\ (Shaken(t) => Shaken(t)')
      BY <1>0, <1>2 DEF Threaded, AddData, Loaded, Shaken, Told, Untold
    <2> QED BY <1>0, <1>2, <2>2, <2>3 DEF Threaded, AddData, A, R, Threads, Callers
  <1>7. NoThreadOutlives'
    BY <1>0 DEF AddData, NoThreadOutlives
  <1> QED BY <1>1, <1>3, <1>4, <1>6, <1>7, TypesApart
          DEF PlayerInv, Types, PlayerTypeOK, PlainOK, ListsOK, Places

LEMMA PutKept ==
  ASSUME Good, Put
  PROVE  PlayerInv'
  <1>0. PlainOK /\ ListsOK /\ Placed /\ Threaded /\ NoThreadOutlives
    BY TypesApart DEF Good, PlayerInv
  <1>1. todo["feeder"] = P1 /\ Tail(P1) = <<>> /\ lock # "feeder"
    BY <1>0, Does1, Tails DEF Put, ListsOK, Callers, Shapes, Placed
  <1>2. /\ ListsOK' /\ todo'["feeder"] = <<>>
        /\ \A d \in Callers : d # "feeder" => todo'[d] = todo[d]
    BY <1>0, <1>1, Placing DEF Put, Done, Callers
  <1>3. /\ q["adec"] \in Seq(0 .. MaxFed) /\ q' = [q EXCEPT !["adec"] = Append(q["adec"], fed)]
        /\ Len(q["adec"]) < RawSize /\ fed \in 0 .. MaxFed /\ q \in [Threads -> Seq(0 .. MaxFed)]
    BY <1>0 DEF Put, PlainOK, Threads
  <1>4. /\ q' \in [Threads -> Seq(0 .. MaxFed)] /\ Len(q'["adec"]) = Len(q["adec"]) + 1
        /\ q["adec"] # <<>> => Head(q'["adec"]) = Head(q["adec"])
        /\ q'["adec"] # <<>> /\ \A t \in Threads : t # "adec" => q'[t] = q[t]
    BY <1>3 DEF Threads
  <1>5. PlainOK'
    <2>1. \A t \in Threads : Len(q'[t]) <= Size(t)
      BY <1>0, <1>3, <1>4, SizesAssumption DEF PlainOK, Size, Threads
    <2> QED BY <1>0, <1>4, <2>1 DEF Put, PlainOK
  <1>6. Placed'
    BY <1>0, <1>1, <1>2 DEF Put, Placed, Callers
  <1>7. Threaded'
    <2>1. ASSUME NEW t \in Threads PROVE Loaded(t)'
      BY <1>0, <1>4 DEF Put, Threaded, Loaded
    <2>2. \A t \in Threads : Shaken(t) => Shaken(t)'
      BY DEF Put, Shaken, Told, Untold
    <2>3. \A c \in Callers :
            lock = c => (AboutAdec(c)' <=> AboutAdec(c)) /\ (AboutRender(c)' <=> AboutRender(c))
      BY <1>1, <1>2 DEF Put, AboutAdec, AboutRender
    <2>4. Lazy => Lazy'
      BY <1>1, <1>2 DEF Put, Lazy
    <2> QED BY <1>0, <2>1, <2>2, <2>3, <2>4 DEF Threaded, Put, A, R, Threads
  <1>8. NoThreadOutlives'
    BY <1>0 DEF Put, NoThreadOutlives
  <1> QED BY <1>2, <1>5, <1>6, <1>7, <1>8, TypesApart
          DEF PlayerInv, Types, PlayerTypeOK, PlainOK, ListsOK, Places

LEMMA TellKept ==
  ASSUME Good, NEW c \in Callers, Tell(c)
  PROVE  PlayerInv'
  <1>0. PlainOK /\ ListsOK /\ Placed /\ Threaded /\ NoThreadOutlives
    BY TypesApart DEF Good, PlayerInv
  <1>1. lock = c /\ todo[c] \in {S1, R1, R3}
    <2>1. Does(c, "tell")
      BY DEF Tell
    <2> QED BY <1>0, <2>1, Holder, Does1 DEF Shapes
  <1>2. PICK t \in Threads : t = Target(c)
    BY <1>1, Does1 DEF A, R, Threads
  <1>t. /\ todo[c] \in {S1, R1} => t = A /\ await[c] = {}
        /\ todo[c] = R3 => t = R /\ await[c] \subseteq {A} /\ (thread[A] => A \in await[c])
    BY <1>0, <1>1, <1>2, Does1, Apart DEF Threaded, AboutAdec
  <1>3. t \notin await[c] /\ Untold(t)
    <2>1. t \notin await[c]
      BY <1>1, <1>t DEF A, R
    <2>2. todo[c] = R3 => "lazy" \notin mishaps
      BY <1>0, <1>1, Apart DEF Threaded, Lazy
    <2> QED BY <1>0, <1>1, <1>t, <2>1, <2>2, Alone DEF Threaded, Shaken
  <1>4. PICK s \in {S2, R2, R4, S3, R3, R5} :
          /\ todo' = [todo EXCEPT ![c] = s]
          /\ thread[t] => s = CASE todo[c] = S1 -> S2 [] todo[c] = R1 -> R2 [] todo[c] = R3 -> R4
          /\ ~thread[t] => s = CASE todo[c] = S1 -> S3 [] todo[c] = R1 -> R3 [] todo[c] = R3 -> R5
    <2>1. CASE thread[t]
      <3>1. todo' = [todo EXCEPT ![c] = <<Step("wake", t)>> \o Tail(todo[c])]
        BY <1>2, <2>1 DEF Tell
      <3>2. CASE todo[c] = S1
        BY <1>t, <2>1, <3>1, <3>2, Wakes, Apart
      <3>3. CASE todo[c] = R1
        BY <1>t, <2>1, <3>1, <3>3, Wakes, Apart
      <3>4. CASE todo[c] = R3
        BY <1>t, <2>1, <3>1, <3>4, Wakes, Apart
      <3> QED BY <1>1, <3>2, <3>3, <3>4
    <2>2. CASE ~thread[t]
      <3>1. todo' = [todo EXCEPT ![c] = Tail(todo[c])]
        BY <1>2, <2>2 DEF Tell, Done
      <3>2. CASE todo[c] = S1
        BY <2>2, <3>1, <3>2, Tails, Apart
      <3>3. CASE todo[c] = R1
        BY <2>2, <3>1, <3>3, Tails, Apart
      <3>4. CASE todo[c] = R3
        BY <2>2, <3>1, <3>4, Tails, Apart
      <3> QED BY <1>1, <3>2, <3>3, <3>4
    <2> QED BY <2>1, <2>2
  <1>5. ListsOK' /\ todo'[c] = s /\ \A d \in Callers : d # c => todo'[d] = todo[d]
    BY <1>0, <1>4, Placing DEF Shapes
  <1>6. /\ thread[t] => /\ await' = [await EXCEPT ![c] = await[c] \cup {t}]
                        /\ closes' = [closes EXCEPT ![t] = closes[t] + 1]
        /\ ~thread[t] => UNCHANGED <<await, closes>>
        /\ UNCHANGED <<lock, res, thread, at, q, bits, stream, calls, mishaps>>
    BY <1>2 DEF Tell
  <1>7. PlainOK'
    <2>1. closes[t] = 0 /\ 0 + 1 \in 0 .. 1
      BY <1>3 DEF Untold
    <2>2. closes' \in [Threads -> 0 .. 1]
      BY <1>0, <1>6, <2>1 DEF PlainOK
    <2>3. await' \in [Callers -> SUBSET Threads]
      <3>1. await[c] \cup {t} \in SUBSET Threads /\ await \in [Callers -> SUBSET Threads]
        BY <1>0 DEF PlainOK
      <3> QED BY <1>6, <3>1
    <2> QED BY <1>0, <1>6, <2>2, <2>3 DEF PlainOK
  <1>s. s \in Shapes
    BY DEF Shapes
  <1>8. Placed'
    <2>1. \A d \in Callers : d # c => await'[d] = await[d]
      BY <1>0, <1>6 DEF PlainOK
    <2> QED BY <1>0, <1>1, <1>5, <1>6, <1>s, <2>1 DEF Placed, Callers
  <1>9. /\ \A d \in Callers : d # c => await'[d] = await[d]
        /\ thread[t] => await'[c] = await[c] \cup {t} /\ closes'[t] = 1
        /\ \A u \in Threads : u # t => closes'[u] = closes[u]
    BY <1>0, <1>3, <1>6 DEF PlainOK, Untold
  <1>10. Threaded'
    <2>1. \A u \in Threads : Loaded(u)'
      BY <1>0, <1>6 DEF Threaded, Loaded
    <2>2. ASSUME NEW u \in Threads, Shaken(u) PROVE Shaken(u)'
      <3>1. CASE ~thread[t]
        BY <1>6, <2>2, <3>1 DEF Shaken, Told, Untold
      <3>2. CASE thread[t] /\ u # t
        BY <1>0, <1>6, <1>9, <2>2, <3>2 DEF PlainOK, Shaken, Told, Untold
      <3>3. CASE thread[t] /\ u = t
        BY <1>3, <1>6, <1>9, <3>3 DEF Shaken, Told, Untold
      <3> QED BY <3>1, <3>2, <3>3
    <2>3. AboutAdec(c)'
      BY <1>1, <1>t, <1>3, <1>4, <1>5, <1>6, <1>9, Apart DEF AboutAdec, A, R
    <2>4. AboutRender(c)'
      BY <1>1, <1>t, <1>4, <1>5, <1>6, <1>9, Apart DEF AboutRender
    <2>5. Lazy => Lazy'
      BY <1>0, <1>1, <1>4, <1>5, <1>6, <1>t, Apart DEF Lazy
    <2> QED BY <1>0, <1>1, <1>6, <2>1, <2>2, <2>3, <2>4, <2>5 DEF Threaded, A, R, Threads
  <1>11. NoThreadOutlives'
    BY <1>0, <1>6 DEF NoThreadOutlives
  <1> QED BY <1>5, <1>7, <1>8, <1>10, <1>11, TypesApart
          DEF PlayerInv, Types, PlayerTypeOK, PlainOK, ListsOK, Places

LEMMA WakeKept ==
  ASSUME Good, NEW c \in Callers, Wake(c)
  PROVE  PlayerInv'
  <1>0. PlainOK /\ ListsOK /\ Placed /\ Threaded /\ NoThreadOutlives
    BY TypesApart DEF Good, PlayerInv
  <1>1. lock = c /\ todo[c] \in {S2, R2, R4}
    <2>1. Does(c, "wake")
      BY DEF Wake
    <2> QED BY <1>0, <2>1, Holder, Does1 DEF Shapes
  <1>2. PICK t \in Threads : t = Target(c)
    BY <1>1, Does1 DEF A, R, Threads
  <1>4. PICK s \in {S3, R3, R5} :
          /\ todo' = [todo EXCEPT ![c] = s]
          /\ todo[c] = S2 => s = S3
          /\ todo[c] = R2 => s = R3
          /\ todo[c] = R4 => s = R5
    <2>1. todo' = [todo EXCEPT ![c] = Tail(todo[c])]
      BY DEF Wake, Done
    <2> QED BY <1>1, <2>1, Tails, Apart
  <1>5. ListsOK' /\ todo'[c] = s /\ \A d \in Callers : d # c => todo'[d] = todo[d]
    BY <1>0, <1>4, Placing DEF Shapes
  <1>6. /\ q' = IF q[t] = <<>> THEN [q EXCEPT ![t] = <<Dummy>>] ELSE q
        /\ UNCHANGED <<lock, await, res, thread, at, closes, bits, stream, calls, mishaps>>
    BY <1>2 DEF Wake
  <1>7. PlainOK'
    <2>1. q' \in [Threads -> Seq(0 .. MaxFed)]
      <3>1. <<Dummy>> \in Seq(0 .. MaxFed)
        BY BoundsAssumption DEF Dummy
      <3> QED BY <1>0, <1>6, <3>1 DEF PlainOK
    <2>2. \A u \in Threads : Len(q'[u]) <= Size(u)
      <3>1. Len(<<Dummy>>) = 1 /\ \A u \in Threads : 1 <= Size(u)
        BY SizesAssumption DEF Size
      <3> QED BY <1>0, <1>6, <3>1 DEF PlainOK
    <2> QED BY <1>0, <1>6, <2>1, <2>2 DEF PlainOK
  <1>s. s \in Shapes
    BY DEF Shapes
  <1>8. Placed'
    BY <1>0, <1>1, <1>5, <1>6, <1>s DEF Placed, Callers
  <1>10. Threaded'
    <2>1. ASSUME NEW u \in Threads PROVE Loaded(u)'
      BY <1>0, <1>6 DEF PlainOK, Threaded, Loaded
    <2>2. \A u \in Threads : Shaken(u) => Shaken(u)'
      BY <1>6 DEF Shaken, Told, Untold
    <2>3. AboutAdec(c)'
      BY <1>0, <1>1, <1>4, <1>5, <1>6, Apart DEF Threaded, AboutAdec
    <2>4. "lazy" \notin mishaps => AboutRender(c)'
      BY <1>0, <1>1, <1>4, <1>5, <1>6, Apart DEF Threaded, AboutRender
    <2>5. Lazy => Lazy'
      BY <1>0, <1>1, <1>4, <1>5, <1>6, Apart DEF Lazy
    <2> QED BY <1>0, <1>1, <1>6, <2>1, <2>2, <2>3, <2>4, <2>5 DEF Threaded, A, R, Threads
  <1>11. NoThreadOutlives'
    BY <1>0, <1>6 DEF NoThreadOutlives
  <1> QED BY <1>5, <1>7, <1>8, <1>10, <1>11, TypesApart
          DEF PlayerInv, Types, PlayerTypeOK, PlainOK, ListsOK, Places

LEMMA JoinKept ==
  ASSUME Good, NEW c \in Callers, Join(c)
  PROVE  PlayerInv'
  <1>0. PlainOK /\ ListsOK /\ Placed /\ Threaded /\ NoThreadOutlives
    BY TypesApart DEF Good, PlayerInv
  <1>1. lock = c /\ todo[c] \in {S3, R5}
    <2>1. Does(c, "join")
      BY DEF Join
    <2> QED BY <1>0, <2>1, Holder, Does1 DEF Shapes
  <1>4. PICK s \in {S4, R6} :
          /\ todo' = [todo EXCEPT ![c] = s]
          /\ todo[c] = S3 => s = S4
          /\ todo[c] = R5 => s = R6
    <2>1. todo' = [todo EXCEPT ![c] = Tail(todo[c])]
      BY DEF Join, Done
    <2> QED BY <1>1, <2>1, Tails, Apart
  <1>s. s \in Shapes
    BY DEF Shapes
  <1>5. ListsOK' /\ todo'[c] = s /\ \A d \in Callers : d # c => todo'[d] = todo[d]
    BY <1>0, <1>4, <1>s, Placing
  <1>6. /\ await[c] \subseteq bits /\ bits' = bits \ await[c]
        /\ await' = [await EXCEPT ![c] = {}]
        /\ UNCHANGED <<lock, res, thread, at, closes, q, stream, calls, mishaps>>
    BY DEF Join
  <1>7. PlainOK'
    BY <1>0, <1>6 DEF PlainOK
  <1>9. await'[c] = {} /\ \A d \in Callers : d # c => await'[d] = await[d] /\ await[d] = {}
    BY <1>0, <1>1, <1>6 DEF PlainOK, Placed
  <1>8. Placed'
    BY <1>0, <1>1, <1>5, <1>6, <1>s, <1>9 DEF Placed, Callers
  <1>10. ASSUME NEW u \in Threads, Shaken(u)
         PROVE  Shaken(u)' /\ (u \in await[c] => ~thread[u])
    <2>1. CASE u \in await[c]
      <3>1. Told(u) /\ u \in bits
        BY <1>6, <1>10, <2>1 DEF Shaken
      <3>2. Untold(u)' /\ ~thread[u]
        BY <1>6, <2>1, <3>1 DEF Told, Untold
      <3> QED BY <1>9, <3>2 DEF Shaken
    <2>2. CASE u \notin await[c]
      <3>1. Untold(u)
        BY <1>9, <1>10, <2>2 DEF Shaken
      <3>2. Untold(u)'
        BY <1>6, <2>2, <3>1 DEF Untold
      <3> QED BY <1>9, <2>2, <3>2 DEF Shaken
    <2> QED BY <2>1, <2>2
  <1>11. Threaded'
    <2>1. \A u \in Threads : Loaded(u)'
      BY <1>0, <1>6 DEF Threaded, Loaded
    <2>2. thread[A] => A \in await[c]
      BY <1>0, <1>1 DEF Threaded, AboutAdec
    <2>3. ~thread[A] /\ Shaken(A)'
      BY <1>0, <1>10, <2>2 DEF Threaded, A, Threads
    <2>4. AboutAdec(c)'
      BY <1>4, <1>5, <1>6, <1>9, <2>3, Apart DEF AboutAdec
    <2>5. "lazy" \notin mishaps => Shaken(R)' /\ (todo[c] = R5 => ~thread[R])
      BY <1>0, <1>1, <1>10 DEF Threaded, AboutRender, R, Threads
    <2>6. "lazy" \notin mishaps => AboutRender(c)'
      BY <1>1, <1>4, <1>5, <1>6, <2>5, Apart DEF AboutRender
    <2>7. Lazy => Lazy'
      BY <1>0, <1>1, <1>4, <1>5, <1>6, Apart DEF Lazy
    <2> QED BY <1>0, <1>1, <1>6, <2>1, <2>3, <2>4, <2>5, <2>6, <2>7 DEF Threaded
  <1>12. NoThreadOutlives'
    BY <1>0, <1>6 DEF NoThreadOutlives
  <1> QED BY <1>5, <1>7, <1>8, <1>11, <1>12, TypesApart
          DEF PlayerInv, Types, PlayerTypeOK, PlainOK, ListsOK, Places

LEMMA OpenKept ==
  ASSUME Good, NEW c \in Callers, Open(c)
  PROVE  PlayerInv'
  <1>0. PlainOK /\ ListsOK /\ Placed /\ Threaded /\ NoThreadOutlives
    BY TypesApart DEF Good, PlayerInv
  <1>1. lock = c /\ todo[c] = S4
    <2>1. Does(c, "open")
      BY DEF Open
    <2> QED BY <1>0, <2>1, Holder, Does1 DEF Shapes
  <1>4. todo' = [todo EXCEPT ![c] = <<>>]
    BY <1>1, Tails DEF Open, Done
  <1>5. ListsOK' /\ todo'[c] = <<>> /\ \A d \in Callers : d # c => todo'[d] = todo[d]
    BY <1>0, <1>4, Placing
  <1>6. /\ lock' = "free" /\ res' = TRUE /\ reached' = FALSE /\ since' = fed /\ lost' = {}
        /\ thread' = [thread EXCEPT !["adec"] = TRUE] /\ at' = [at EXCEPT !["adec"] = "poll"]
        /\ UNCHANGED <<await, closes, q, bits, played, fed, calls, mishaps>>
    BY DEF Open
  <1>7. PlainOK'
    <2>1. since' \in 0 .. fed' /\ res' \in BOOLEAN /\ reached' \in BOOLEAN
      BY <1>0, <1>6, Flag DEF PlainOK
    <2>2. thread' \in [Threads -> BOOLEAN]
      BY <1>0, <1>6, Flag DEF PlainOK
    <2>3. at' \in [Threads -> Places]
      BY <1>0, <1>6 DEF PlainOK, Places
    <2> QED BY <1>0, <1>6, <2>1, <2>2, <2>3 DEF PlainOK
  <1>9. \A d \in Callers : await[d] = {}
    BY <1>0, <1>1 DEF Placed, Threaded, AboutAdec
  <1>8. Placed'
    BY <1>0, <1>1, <1>5, <1>6, <1>9 DEF Placed, Callers
  <1>10. /\ thread'["adec"] = TRUE /\ at'["adec"] = "poll"
         /\ thread'["arender"] = thread["arender"] /\ at'["arender"] = at["arender"]
    BY <1>0, <1>6 DEF PlainOK, Threads
  <1>11. Threaded'
    <2>1. \A u \in Threads : Loaded(u)'
      BY <1>0, <1>6, <1>10 DEF Threaded, Loaded, Threads
    <2>2. "lazy" \notin mishaps
      BY <1>0, <1>1, Apart DEF Threaded, Lazy
    <2>3. Untold(A) /\ Untold(R)
      BY <1>0, <1>9, <2>2 DEF Threaded, Shaken
    <2>4. Untold(A)' /\ Untold(R)'
      BY <1>6, <1>10, <2>3 DEF Untold, A, R, Working
    <2>5. Shaken(A)' /\ Shaken(R)'
      BY <1>6, <1>9, <2>4 DEF Shaken
    <2> QED BY <1>6, <2>1, <2>2, <2>5 DEF Threaded, Callers
  <1>12. NoThreadOutlives'
    BY <1>6 DEF NoThreadOutlives
  <1> QED BY <1>5, <1>7, <1>8, <1>11, <1>12, TypesApart
          DEF PlayerInv, Types, PlayerTypeOK, PlainOK, ListsOK, Places

LEMMA FreeKept ==
  ASSUME Good, NEW c \in Callers, Free(c)
  PROVE  PlayerInv'
  <1>0. PlainOK /\ ListsOK /\ Placed /\ Threaded /\ NoThreadOutlives
    BY TypesApart DEF Good, PlayerInv
  <1>1. lock = c /\ todo[c] = R6
    <2>1. Does(c, "free")
      BY DEF Free
    <2> QED BY <1>0, <2>1, Holder, Does1 DEF Shapes
  <1>4. todo' = [todo EXCEPT ![c] = <<>>]
    BY <1>1, Tails DEF Free, Done
  <1>5. ListsOK' /\ todo'[c] = <<>> /\ \A d \in Callers : d # c => todo'[d] = todo[d]
    BY <1>0, <1>4, Placing
  <1>6. /\ lock' = "free" /\ res' = FALSE /\ thread' = [t \in Threads |-> FALSE]
        /\ closes' = [t \in Threads |-> 0] /\ q' = [t \in Threads |-> <<>>]
        /\ mishaps' \in {mishaps, mishaps \cup {"unlocked"}}
        /\ UNCHANGED <<await, at, bits, stream, calls>>
    BY DEF Free
  <1>7. PlainOK'
    <2>1. q' \in [Threads -> Seq(0 .. MaxFed)] /\ \A t \in Threads : Len(q'[t]) = 0
      BY <1>6
    <2>2. \A t \in Threads : 0 <= Size(t)
      BY SizesAssumption DEF Size
    <2>3. mishaps' \subseteq Mishaps
      BY <1>0, <1>6 DEF PlainOK, Mishaps
    <2> QED BY <1>0, <1>6, <2>1, <2>2, <2>3, Flag DEF PlainOK
  <1>9. \A d \in Callers : await[d] = {}
    BY <1>0, <1>1 DEF Placed, Threaded, AboutAdec
  <1>8. Placed'
    BY <1>0, <1>1, <1>5, <1>6, <1>9 DEF Placed, Callers
  <1>10. "lazy" \notin mishaps => \A t \in Threads : Untold(t) /\ at[t] = "none"
    <2>1. "lazy" \notin mishaps => Untold(A) /\ ~thread[A] /\ Untold(R) /\ ~thread[R]
      BY <1>0, <1>1, <1>9 DEF Threaded, Shaken, AboutAdec, AboutRender
    <2> QED BY <2>1 DEF Untold, A, R, Threads
  <1>11. Sound' => Threaded'
    <2>1. CASE "lazy" \in mishaps
      <3>1. at'["arender"] \in Working /\ ~(res')
        BY <1>0, <1>6, <2>1 DEF Threaded, Lazy, R
      <3>2. ~(Sound')
        BY <3>1 DEF Sound, Working, Threads
      <3> QED BY <3>2
    <2>2. CASE "lazy" \notin mishaps
      <3>1. \A t \in Threads : Loaded(t)'
        BY <1>6, <1>10, <2>2 DEF Loaded
      <3>2. \A t \in Threads : Shaken(t)'
        BY <1>6, <1>9, <1>10, <2>2 DEF Shaken, Untold
      <3> QED BY <1>6, <2>2, <3>1, <3>2 DEF Threaded, Callers, A, R, Threads
    <2> QED BY <2>1, <2>2
  <1>12. NoThreadOutlives'
    BY <1>6, <1>10 DEF NoThreadOutlives
  <1> QED BY <1>5, <1>7, <1>8, <1>11, <1>12, TypesApart
          DEF PlayerInv, Types, PlayerTypeOK, PlainOK, ListsOK, Places

-----------------------------------------------------------------------------
(* The threads                                                             *)

\* A step of the thread t alone: nothing moves but t and its queue.
LEMMA ThreadFrame ==
  ASSUME Good, NEW t \in Threads,
         UNCHANGED <<caller, res>>,
         "lazy" \in mishaps' <=> "lazy" \in mishaps,
         at[t] # "none",
         \A u \in Threads : u # t =>
           /\ at'[u] = at[u] /\ thread'[u] = thread[u] /\ closes'[u] = closes[u]
           /\ u \in bits' <=> u \in bits,
         Shaken(t) => Shaken(t)',
         "lazy" \in mishaps /\ t = R => closes'[R] = 0 /\ at'[R] \in Working,
         thread'[t] => thread[t],
         \A u \in Threads : Loaded(u)'
  PROVE  Placed' /\ Threaded' /\ NoThreadOutlives'
  <1>0. Placed /\ Threaded /\ NoThreadOutlives /\ Sound
    BY DEF Good, PlayerInv
  <1>1. Placed'
    BY <1>0 DEF Placed
  <1>2. \A u \in Threads : Shaken(u) => Shaken(u)'
    <2>1. ASSUME NEW u \in Threads, u # t, Shaken(u) PROVE Shaken(u)'
      <3>1. (Told(u) => Told(u)') /\ (Untold(u) => Untold(u)')
        BY <2>1 DEF Told, Untold
      <3> QED BY <2>1, <3>1 DEF Shaken
    <2> QED BY <2>1
  <1>3. A \in Threads /\ R \in Threads
    BY DEF A, R, Threads
  <1>4. (thread'[A] => thread[A]) /\ (thread'[R] => thread[R])
    BY <1>3
  <1>5. \A c \in Callers : (AboutAdec(c) => AboutAdec(c)') /\ (AboutRender(c) => AboutRender(c)')
    BY <1>4 DEF AboutAdec, AboutRender
  <1>6. Lazy /\ "lazy" \in mishaps => Lazy'
    BY <1>3 DEF Lazy
  <1>7. Threaded'
    BY <1>0, <1>2, <1>3, <1>5, <1>6 DEF Threaded
  <1>8. NoThreadOutlives'
    BY <1>0 DEF Sound, NoThreadOutlives
  <1> QED BY <1>1, <1>7, <1>8

LEMMA Apart2 ==
  ASSUME Good, NEW t \in Threads, at[t] # "none"
  PROVE  /\ PlainOK /\ ListsOK /\ Loaded(t) /\ res
         /\ "lazy" \in mishaps => (t = R => closes[R] = 0 /\ at[R] \in Working)
  BY TypesApart DEF Good, PlayerInv, Sound, Threaded, Lazy

LEMMA PollKept ==
  ASSUME Good, NEW t \in Threads, Poll(t)
  PROVE  PlayerInv'
  <1>0. /\ PlainOK /\ ListsOK /\ \A u \in Threads : Loaded(u)
        /\ "lazy" \in mishaps => (t = R => closes[R] = 0 /\ at[R] \in Working)
    BY Apart2 DEF Good, PlayerInv, Sound, Threaded, Poll
  <1>1. /\ at[t] = "poll"
        /\ UNCHANGED <<caller, res, thread, q, bits, stream, calls, mishaps>>
        /\ \/ /\ closes[t] = 1
              /\ closes' = [closes EXCEPT ![t] = 0] /\ at' = [at EXCEPT ![t] = "leave"]
           \/ closes[t] = 0 /\ closes' = closes /\ at' = [at EXCEPT ![t] = "read"]
    BY <1>0 DEF Poll, PlainOK
  <1>2. PlainOK'
    <2>1. closes' \in [Threads -> 0 .. 1]
      <3>1. closes \in [Threads -> 0 .. 1] /\ 0 \in 0 .. 1
        BY <1>0 DEF PlainOK
      <3> QED BY <1>1, <3>1
    <2>2. at' \in [Threads -> Places]
      BY <1>0, <1>1 DEF PlainOK, Places
    <2> QED BY <1>0, <1>1, <2>1, <2>2 DEF PlainOK, Places
  <1>3. /\ \A u \in Threads : u # t => at'[u] = at[u] /\ closes'[u] = closes[u]
        /\ \/ closes[t] = 1 /\ closes'[t] = 0 /\ at'[t] = "leave"
           \/ closes[t] = 0 /\ closes'[t] = 0 /\ at'[t] = "read"
    BY <1>0, <1>1 DEF PlainOK
  <1>4. Shaken(t) => Shaken(t)'
    BY <1>1, <1>3 DEF Shaken, Told, Untold, Working
  <1>5. \A u \in Threads : Loaded(u)'
    BY <1>0, <1>1, <1>3 DEF Loaded
  <1>6. Placed' /\ Threaded' /\ NoThreadOutlives'
    BY <1>0, <1>1, <1>3, <1>4, <1>5, ThreadFrame DEF Working
  <1> QED BY <1>0, <1>1, <1>2, <1>6, TypesApart
          DEF PlayerInv, Types, PlayerTypeOK, PlainOK, ListsOK, Places

\* Queues.
LEMMA Shorter ==
  ASSUME PlainOK, NEW t \in Threads, NEW s \in {Tail(q[t]), <<>>}, q[t] # <<>> \/ s = <<>>,
         q' = [q EXCEPT ![t] = s]
  PROVE  /\ q' \in [Threads -> Seq(0 .. MaxFed)] /\ \A u \in Threads : Len(q'[u]) <= Size(u)
         /\ q'[t] = s /\ \A u \in Threads : u # t => q'[u] = q[u]
  <1>1. q \in [Threads -> Seq(0 .. MaxFed)] /\ \A u \in Threads : Len(q[u]) <= Size(u)
    BY DEF PlainOK
  <1>2. \A u \in Threads : Size(u) \in Nat
    BY SizesAssumption DEF Size
  <1>3. s \in Seq(0 .. MaxFed) /\ Len(s) <= Size(t)
    <2>1. CASE s = <<>>
      BY <1>2, <2>1
    <2>2. CASE s # <<>>
      <3>1. q[t] \in Seq(0 .. MaxFed) /\ q[t] # <<>> /\ s = Tail(q[t])
        BY <1>1, <2>2
      <3>2. Len(s) = Len(q[t]) - 1 /\ s \in Seq(0 .. MaxFed)
        BY <3>1, HeadTailProperties
      <3> QED BY <1>1, <1>2, <3>1, <3>2
    <2> QED BY <2>1, <2>2
  <1> QED BY <1>1, <1>3

LEMMA Longer ==
  ASSUME PlainOK, NEW t \in Threads, NEW f \in 0 .. MaxFed, Len(q[t]) < Size(t),
         q' = [q EXCEPT ![t] = Append(q[t], f)]
  PROVE  /\ q' \in [Threads -> Seq(0 .. MaxFed)] /\ \A u \in Threads : Len(q'[u]) <= Size(u)
         /\ q'[t] # <<>> /\ (q[t] # <<>> => Head(q'[t]) = Head(q[t]))
         /\ \A u \in Threads : u # t => q'[u] = q[u]
  <1>1. q \in [Threads -> Seq(0 .. MaxFed)] /\ \A u \in Threads : Len(q[u]) <= Size(u)
    BY DEF PlainOK
  <1>2. Size(t) \in Nat
    BY SizesAssumption DEF Size
  <1>3. /\ Append(q[t], f) \in Seq(0 .. MaxFed) /\ Len(Append(q[t], f)) = Len(q[t]) + 1
        /\ Append(q[t], f) # <<>> /\ (q[t] # <<>> => Head(Append(q[t], f)) = Head(q[t]))
    BY <1>1
  <1>4. Len(q[t]) + 1 <= Size(t)
    BY <1>1, <1>2
  <1> QED BY <1>1, <1>3, <1>4

\* What is in work is a packet.
LEMMA Packet ==
  ASSUME PlainOK, NEW t \in Threads, Loaded(t), at[t] \in {"work", "forward", "pass"}
  PROVE  q[t] # <<>> /\ Head(q[t]) \in 1 .. MaxFed
  <1>1. q[t] \in Seq(0 .. MaxFed) /\ q[t] # <<>> /\ Head(q[t]) # 0
    BY DEF PlainOK, Loaded, Dummy
  <1> QED BY <1>1, BoundsAssumption

LEMMA Played ==
  ASSUME PlainOK, NEW f \in 1 .. MaxFed, played' = Append(played, f)
  PROVE  played' \in Seq(1 .. MaxFed)
  BY DEF PlainOK

LEMMA ReadKept ==
  ASSUME Good, NEW t \in Threads, Read(t)
  PROVE  PlayerInv'
  <1>0. /\ PlainOK /\ ListsOK /\ \A u \in Threads : Loaded(u)
        /\ "lazy" \in mishaps => (t = R => closes[R] = 0 /\ at[R] \in Working)
    BY Apart2 DEF Good, PlayerInv, Sound, Threaded, Read
  <1>1. /\ at[t] = "read" /\ q[t] # <<>>
        /\ at' = [at EXCEPT ![t] = IF Head(q[t]) = Dummy THEN "release" ELSE "work"]
        /\ UNCHANGED <<caller, res, thread, closes, q, bits, stream, calls, mishaps>>
    BY DEF Read
  <1>3. /\ at' \in [Threads -> Places] /\ at'[t] \in {"release", "work"}
        /\ at'[t] = "work" => Head(q[t]) # Dummy
        /\ \A u \in Threads : u # t => at'[u] = at[u]
    BY <1>0, <1>1 DEF PlainOK, Places
  <1>2. PlainOK'
    BY <1>0, <1>1, <1>3 DEF PlainOK
  <1>4. Shaken(t) => Shaken(t)'
    BY <1>1, <1>3 DEF Shaken, Told, Untold, Working
  <1>5. \A u \in Threads : Loaded(u)'
    BY <1>0, <1>1, <1>3 DEF Loaded
  <1>6. Placed' /\ Threaded' /\ NoThreadOutlives'
    BY <1>0, <1>1, <1>3, <1>4, <1>5, ThreadFrame DEF Working
  <1> QED BY <1>0, <1>1, <1>2, <1>6, TypesApart
          DEF PlayerInv, Types, PlayerTypeOK, PlainOK, ListsOK, Places

LEMMA ReleaseKept ==
  ASSUME Good, NEW t \in Threads, Release(t)
  PROVE  PlayerInv'
  <1>0. /\ PlainOK /\ ListsOK /\ \A u \in Threads : Loaded(u)
        /\ "lazy" \in mishaps => (t = R => closes[R] = 0 /\ at[R] \in Working)
    BY Apart2 DEF Good, PlayerInv, Sound, Threaded, Release
  <1>1. /\ at[t] = "release" /\ q' = [q EXCEPT ![t] = Tail(q[t])]
        /\ at' = [at EXCEPT ![t] = "poll"]
        /\ UNCHANGED <<caller, res, thread, closes, bits, stream, calls, mishaps>>
    BY DEF Release
  <1>3. /\ at' \in [Threads -> Places] /\ at'[t] = "poll"
        /\ \A u \in Threads : u # t => at'[u] = at[u]
    BY <1>0, <1>1 DEF PlainOK, Places
  <1>7. /\ q' \in [Threads -> Seq(0 .. MaxFed)] /\ \A u \in Threads : Len(q'[u]) <= Size(u)
        /\ \A u \in Threads : u # t => q'[u] = q[u]
    <2>1. q[t] # <<>>
      BY <1>0, <1>1 DEF Loaded
    <2> QED BY <1>0, <1>1, <2>1, Shorter
  <1>2. PlainOK'
    BY <1>0, <1>1, <1>3, <1>7 DEF PlainOK
  <1>4. Shaken(t) => Shaken(t)'
    BY <1>1, <1>3 DEF Shaken, Told, Untold, Working
  <1>5. \A u \in Threads : Loaded(u)'
    BY <1>0, <1>1, <1>3, <1>7 DEF Loaded
  <1>6. Placed' /\ Threaded' /\ NoThreadOutlives'
    BY <1>0, <1>1, <1>3, <1>4, <1>5, ThreadFrame DEF Working
  <1> QED BY <1>0, <1>1, <1>2, <1>6, TypesApart
          DEF PlayerInv, Types, PlayerTypeOK, PlainOK, ListsOK, Places

LEMMA LeaveKept ==
  ASSUME Good, NEW t \in Threads, Leave(t)
  PROVE  PlayerInv'
  <1>0. /\ PlainOK /\ ListsOK /\ \A u \in Threads : Loaded(u)
        /\ "lazy" \in mishaps => (t = R => closes[R] = 0 /\ at[R] \in Working)
    BY Apart2 DEF Good, PlayerInv, Sound, Threaded, Leave
  <1>1. /\ at[t] = "leave" /\ thread' = [thread EXCEPT ![t] = FALSE]
        /\ at' = [at EXCEPT ![t] = "consume"]
        /\ UNCHANGED <<caller, res, closes, q, bits, stream, calls, mishaps>>
    BY DEF Leave
  <1>3. /\ at' \in [Threads -> Places] /\ at'[t] = "consume" /\ thread'[t] = FALSE
        /\ \A u \in Threads : u # t => at'[u] = at[u] /\ thread'[u] = thread[u]
    BY <1>0, <1>1 DEF PlainOK, Places
  <1>7. thread' \in [Threads -> BOOLEAN]
    BY <1>0, <1>1, Flag DEF PlainOK
  <1>2. PlainOK'
    BY <1>0, <1>1, <1>3, <1>7 DEF PlainOK
  <1>4. Shaken(t) => Shaken(t)'
    BY <1>1, <1>3 DEF Shaken, Told, Untold, Working
  <1>5. \A u \in Threads : Loaded(u)'
    BY <1>0, <1>1, <1>3 DEF Loaded
  <1>6. Placed' /\ Threaded' /\ NoThreadOutlives'
    BY <1>0, <1>1, <1>3, <1>4, <1>5, ThreadFrame DEF Working
  <1> QED BY <1>0, <1>1, <1>2, <1>6, TypesApart
          DEF PlayerInv, Types, PlayerTypeOK, PlainOK, ListsOK, Places

LEMMA ReportKept ==
  ASSUME Good, NEW t \in Threads, Report(t)
  PROVE  PlayerInv'
  <1>0. /\ PlainOK /\ ListsOK /\ \A u \in Threads : Loaded(u)
        /\ "lazy" \in mishaps => (t = R => closes[R] = 0 /\ at[R] \in Working)
    BY Apart2 DEF Good, PlayerInv, Sound, Threaded, Report
  <1>1. /\ at[t] = "consume" /\ q' = [q EXCEPT ![t] = <<>>]
        /\ bits' = bits \cup {t} /\ at' = [at EXCEPT ![t] = "none"]
        /\ UNCHANGED <<caller, res, thread, closes, stream, calls, mishaps>>
    BY DEF Report
  <1>3. /\ at' \in [Threads -> Places] /\ at'[t] = "none"
        /\ \A u \in Threads : u # t => at'[u] = at[u] /\ (u \in bits' <=> u \in bits)
        /\ t \in bits' /\ bits' \subseteq Threads
    BY <1>0, <1>1 DEF PlainOK, Places
  <1>7. /\ q' \in [Threads -> Seq(0 .. MaxFed)] /\ \A u \in Threads : Len(q'[u]) <= Size(u)
        /\ \A u \in Threads : u # t => q'[u] = q[u]
    BY <1>0, <1>1, Shorter
  <1>2. PlainOK'
    BY <1>0, <1>1, <1>3, <1>7 DEF PlainOK
  <1>4. Shaken(t) => Shaken(t)'
    BY <1>1, <1>3 DEF Shaken, Told, Untold, Working
  <1>5. \A u \in Threads : Loaded(u)'
    BY <1>0, <1>1, <1>3, <1>7 DEF Loaded
  <1>6. Placed' /\ Threaded' /\ NoThreadOutlives'
    BY <1>0, <1>1, <1>3, <1>4, <1>5, ThreadFrame DEF Working
  <1> QED BY <1>0, <1>1, <1>2, <1>6, TypesApart
          DEF PlayerInv, Types, PlayerTypeOK, PlainOK, ListsOK, Places

LEMMA ForwardKept ==
  ASSUME Good, Forward
  PROVE  PlayerInv'
  <1>0. /\ PlainOK /\ ListsOK /\ \A u \in Threads : Loaded(u)
        /\ "adec" \in Threads /\ ("lazy" \in mishaps => closes[R] = 0 /\ at[R] \in Working)
    BY TypesApart DEF Good, PlayerInv, Threaded, Lazy, Threads
  <1>1. /\ at["adec"] = "forward"
        /\ \/ at' = [at EXCEPT !["adec"] = "pass"]
           \/ at' = [at EXCEPT !["adec"] = "release"]
        /\ played' = Append(played, Head(q["adec"])) \/ played' = played
        /\ lost' = lost \cup {Head(q["adec"])} \/ lost' = lost
        /\ UNCHANGED <<caller, res, thread, closes, q, bits, reached, fed, since, calls, mishaps>>
    BY DEF Forward, Drops
  <1>3. /\ at' \in [Threads -> Places] /\ at'["adec"] \in {"pass", "release"}
        /\ \A u \in Threads : u # "adec" => at'[u] = at[u]
    BY <1>0, <1>1 DEF PlainOK, Places
  <1>7. q["adec"] # <<>> /\ Head(q["adec"]) \in 1 .. MaxFed
    BY <1>0, <1>1, Packet
  <1>8. played' \in Seq(1 .. MaxFed) /\ lost' \subseteq 1 .. MaxFed
    BY <1>0, <1>1, <1>7, Played DEF PlainOK
  <1>2. PlainOK'
    BY <1>0, <1>1, <1>3, <1>8 DEF PlainOK
  <1>4. Shaken("adec") => Shaken("adec")'
    BY <1>1, <1>3 DEF Shaken, Told, Untold, Working
  <1>5. \A u \in Threads : Loaded(u)'
    BY <1>0, <1>1, <1>3 DEF Loaded
  <1>6. Placed' /\ Threaded' /\ NoThreadOutlives'
    BY <1>0, <1>1, <1>3, <1>4, <1>5, ThreadFrame DEF R
  <1> QED BY <1>0, <1>1, <1>2, <1>6, TypesApart
          DEF PlayerInv, Types, PlayerTypeOK, PlainOK, ListsOK, Places

LEMMA PlayKept ==
  ASSUME Good, Play
  PROVE  PlayerInv'
  <1>0. /\ PlainOK /\ ListsOK /\ \A u \in Threads : Loaded(u)
        /\ "arender" \in Threads /\ ("lazy" \in mishaps => closes[R] = 0 /\ at[R] \in Working)
    BY TypesApart DEF Good, PlayerInv, Threaded, Lazy, Threads
  <1>1. /\ at["arender"] = "work" /\ at' = [at EXCEPT !["arender"] = "release"]
        /\ played' = Append(played, Head(q["arender"])) \/ played' = played
        /\ lost' = lost \cup {Head(q["arender"])} \/ lost' = lost
        /\ UNCHANGED <<caller, res, thread, closes, q, bits, reached, fed, since, calls, mishaps>>
    BY DEF Play, Drops
  <1>3. /\ at' \in [Threads -> Places] /\ at'["arender"] = "release"
        /\ \A u \in Threads : u # "arender" => at'[u] = at[u]
    BY <1>0, <1>1 DEF PlainOK, Places
  <1>7. q["arender"] # <<>> /\ Head(q["arender"]) \in 1 .. MaxFed
    BY <1>0, <1>1, Packet
  <1>8. played' \in Seq(1 .. MaxFed) /\ lost' \subseteq 1 .. MaxFed
    BY <1>0, <1>1, <1>7, Played DEF PlainOK
  <1>2. PlainOK'
    BY <1>0, <1>1, <1>3, <1>8 DEF PlainOK
  <1>4. Shaken("arender") => Shaken("arender")'
    BY <1>1, <1>3 DEF Shaken, Told, Untold, Working
  <1>5. \A u \in Threads : Loaded(u)'
    BY <1>0, <1>1, <1>3 DEF Loaded
  <1>6. Placed' /\ Threaded' /\ NoThreadOutlives'
    BY <1>0, <1>1, <1>3, <1>4, <1>5, ThreadFrame DEF R, Working
  <1> QED BY <1>0, <1>1, <1>2, <1>6, TypesApart
          DEF PlayerInv, Types, PlayerTypeOK, PlainOK, ListsOK, Places

LEMMA PassKept ==
  ASSUME Good, Pass
  PROVE  PlayerInv'
  <1>0. /\ PlainOK /\ ListsOK /\ \A u \in Threads : Loaded(u)
        /\ "adec" \in Threads /\ ("lazy" \in mishaps => closes[R] = 0 /\ at[R] \in Working)
    BY TypesApart DEF Good, PlayerInv, Threaded, Lazy, Threads
  <1>1. /\ at["adec"] = "pass" /\ at' = [at EXCEPT !["adec"] = "release"]
        /\ q' = [q EXCEPT !["arender"] = Append(q["arender"], Head(q["adec"]))]
        /\ Len(q["arender"]) < Size("arender") /\ "arender" \in Threads
        /\ UNCHANGED <<caller, res, thread, closes, bits, stream, calls, mishaps>>
    BY DEF Pass, Size, Threads
  <1>3. /\ at' \in [Threads -> Places] /\ at'["adec"] = "release"
        /\ \A u \in Threads : u # "adec" => at'[u] = at[u]
    BY <1>0, <1>1 DEF PlainOK, Places
  <1>7. q["adec"] # <<>> /\ Head(q["adec"]) \in 1 .. MaxFed
    BY <1>0, <1>1, Packet
  <1>8. /\ q' \in [Threads -> Seq(0 .. MaxFed)] /\ \A u \in Threads : Len(q'[u]) <= Size(u)
        /\ q'["arender"] # <<>>
        /\ q["arender"] # <<>> => Head(q'["arender"]) = Head(q["arender"])
        /\ \A u \in Threads : u # "arender" => q'[u] = q[u]
    <2>1. Head(q["adec"]) \in 0 .. MaxFed
      BY <1>7
    <2> QED BY <1>0, <1>1, <2>1, Longer
  <1>2. PlainOK'
    BY <1>0, <1>1, <1>3, <1>8 DEF PlainOK
  <1>4. Shaken("adec") => Shaken("adec")'
    BY <1>1, <1>3 DEF Shaken, Told, Untold, Working
  <1>5. \A u \in Threads : Loaded(u)'
    <2>1. ASSUME NEW u \in Threads PROVE Loaded(u)'
      <3>1. CASE u = "adec"
        BY <1>3, <1>7, <1>8, <3>1 DEF Loaded
      <3>2. CASE u # "adec"
        <4>1. Loaded(u) /\ at'[u] = at[u] /\ u = "arender"
          BY <1>0, <1>3, <3>2 DEF Threads
        <4> QED BY <1>8, <4>1 DEF Loaded
      <3> QED BY <3>1, <3>2
    <2> QED BY <2>1
  <1>6. Placed' /\ Threaded' /\ NoThreadOutlives'
    BY <1>0, <1>1, <1>3, <1>4, <1>5, ThreadFrame DEF R
  <1> QED BY <1>0, <1>1, <1>2, <1>6, TypesApart
          DEF PlayerInv, Types, PlayerTypeOK, PlainOK, ListsOK, Places

LEMMA DecodeKept ==
  ASSUME Good, Decode
  PROVE  PlayerInv'
  <1>0. /\ PlainOK /\ ListsOK /\ Placed /\ Threaded /\ NoThreadOutlives /\ res
        /\ A \in Threads /\ R \in Threads /\ A = "adec" /\ R = "arender"
    BY TypesApart DEF Good, PlayerInv, Sound, Decode, A, R, Threads
  <1>1. /\ at["adec"] = "work" /\ (reached' = TRUE \/ reached' = reached)
        /\ UNCHANGED <<caller, res, closes, q, bits, played, fed, since, calls>>
    BY DEF Decode
  <1>l. lost' \subseteq 1 .. MaxFed
    <2>1. q["adec"] # <<>> /\ Head(q["adec"]) \in 1 .. MaxFed
      BY <1>0, <1>1, Packet DEF Threaded
    <2> QED BY <1>0, <2>1 DEF Decode, Drops, PlainOK
  <1>2. CASE /\ ~thread["arender"]
             /\ thread' = [thread EXCEPT !["arender"] = TRUE]
             /\ at' = [at EXCEPT !["adec"] = "forward", !["arender"] = "poll"]
             /\ mishaps' = IF \E c \in Callers : PassedBy(c, "arender")
                           THEN mishaps \cup {"lazy"} ELSE mishaps
    <2>1. /\ at' \in [Threads -> Places] /\ at'["adec"] = "forward" /\ at'["arender"] = "poll"
          /\ thread' \in [Threads -> BOOLEAN] /\ thread'["arender"] = TRUE
          /\ thread'["adec"] = thread["adec"]
      BY <1>0, <1>2, Flag DEF PlainOK, Places
    <2>2. PlainOK'
      BY <1>0, <1>1, <1>l, <1>2, <2>1, Flag DEF PlainOK, Mishaps
    <2>3. Placed'
      BY <1>0, <1>1 DEF Placed
    <2>4. \A t \in Threads : Loaded(t)'
      BY <1>0, <1>1, <2>1 DEF Threaded, Loaded, Threads
    <2>5. Shaken(A)'
      BY <1>0, <1>1, <2>1 DEF Threaded, Shaken, Told, Untold, Working
    <2>6. \A c \in Callers : lock' = c => AboutAdec(c)'
      BY <1>0, <1>1, <2>1 DEF Threaded, AboutAdec
    <2>7. CASE \E c \in Callers : PassedBy(c, "arender")
      <3>1. PICK c \in Callers : todo[c] \in {R4, R5, R6}
        BY <1>0, <2>7, PassesBy DEF ListsOK
      <3>2. todo[c] # <<>> /\ todo[c] # P1
        BY <3>1, Heads, Does1
      <3>3. lock = c
        BY <1>0, <3>1, <3>2 DEF Placed, Callers
      <3>4. closes[R] = 0
        <4>1. CASE "lazy" \in mishaps
          BY <1>0, <4>1 DEF Threaded, Lazy
        <4>2. CASE "lazy" \notin mishaps
          BY <1>0, <1>2, <4>2 DEF Threaded, Shaken, Told, Untold
        <4> QED BY <4>1, <4>2
      <3>5. "lazy" \in mishaps' /\ Lazy'
        BY <1>0, <1>1, <1>2, <2>1, <2>7, <3>1, <3>3, <3>4 DEF Lazy, Working
      <3>6. Threaded'
        BY <2>4, <2>5, <2>6, <3>5 DEF Threaded
      <3>7. NoThreadOutlives'
        BY <3>5 DEF NoThreadOutlives
      <3> QED BY <1>0, <1>1, <2>2, <2>3, <3>6, <3>7, TypesApart
              DEF PlayerInv, Types, PlayerTypeOK, PlainOK, ListsOK, Places
    <2>8. CASE ~(\E c \in Callers : PassedBy(c, "arender"))
      <3>1. mishaps' = mishaps
        BY <1>2, <2>8
      <3>2. \A c \in Callers : todo[c] \notin {R4, R5, R6}
        BY <1>0, <2>8, PassesBy DEF ListsOK
      <3>3. "lazy" \notin mishaps
        BY <1>0, <3>2 DEF Threaded, Lazy
      <3>4. \A c \in Callers : R \notin await[c]
        <4> SUFFICES ASSUME NEW c \in Callers PROVE R \notin await[c]
          OBVIOUS
        <4>1. CASE lock = c
          BY <1>0, <3>2, <4>1 DEF Placed, Threaded, AboutAdec, Shapes
        <4>2. CASE lock # c
          BY <1>0, <4>2 DEF Placed
        <4> QED BY <4>1, <4>2
      <3>5. Shaken(R)'
        BY <1>0, <1>1, <1>2, <2>1, <3>3, <3>4 DEF Threaded, Shaken, Untold, Working
      <3>6. \A c \in Callers : lock' = c => AboutRender(c)'
        BY <1>1, <3>2 DEF AboutRender
      <3>7. Threaded'
        BY <2>4, <2>5, <2>6, <3>1, <3>3, <3>5, <3>6 DEF Threaded
      <3>8. NoThreadOutlives'
        BY <1>0, <1>1 DEF NoThreadOutlives
      <3> QED BY <1>0, <1>1, <2>2, <2>3, <3>7, <3>8, TypesApart
              DEF PlayerInv, Types, PlayerTypeOK, PlainOK, ListsOK, Places
    <2> QED BY <2>7, <2>8
  <1>3. CASE /\ \/ at' = [at EXCEPT !["adec"] = "forward"]
                \/ at' = [at EXCEPT !["adec"] = "release"]
             /\ UNCHANGED <<thread, mishaps>>
    <2>1. /\ at' \in [Threads -> Places] /\ at'["adec"] \in {"forward", "release"}
          /\ at'["arender"] = at["arender"]
      BY <1>0, <1>3 DEF PlainOK, Places
    <2>2. PlainOK'
      BY <1>0, <1>1, <1>l, <1>3, <2>1, Flag DEF PlainOK
    <2>3. \A t \in Threads : Loaded(t)'
      BY <1>0, <1>1, <2>1 DEF Threaded, Loaded, Threads
    <2>4. Shaken("adec") => Shaken("adec")'
      BY <1>1, <1>3, <2>1 DEF Shaken, Told, Untold, Working
    <2>5. \A u \in Threads : u # "adec" => at'[u] = at[u]
      BY <2>1 DEF Threads
    <2>6. Placed' /\ Threaded' /\ NoThreadOutlives'
      BY <1>0, <1>1, <1>3, <2>3, <2>4, <2>5, ThreadFrame
    <2> QED BY <1>0, <1>1, <2>2, <2>6, TypesApart
            DEF PlayerInv, Types, PlayerTypeOK, PlainOK, ListsOK, Places
  <1> QED BY <1>2, <1>3 DEF Decode, Drops

-----------------------------------------------------------------------------
(* The theorems                                                            *)

LEMMA InvBegins == Init => PlayerInv
  <1> SUFFICES ASSUME Init PROVE PlayerInv
    OBVIOUS
  <1>1. PlainOK
    <2>1. \A t \in Threads : 0 <= Size(t)
      BY SizesAssumption DEF Size
    <2> QED BY <2>1, BoundsAssumption, Flag DEF Init, PlainOK, Places
  <1>2. ListsOK
    BY ShapeTypes DEF Init, ListsOK
  <1>3. Placed
    BY DEF Init, Placed, Callers
  <1>4. Threaded
    BY DEF Init, Threaded, Loaded, Shaken, Untold, A, R, Threads, Callers
  <1>5. NoThreadOutlives
    BY DEF Init, NoThreadOutlives
  <1> QED BY <1>1, <1>2, <1>3, <1>4, <1>5, TypesApart DEF PlayerInv

LEMMA InvStays == PlayerInv /\ [Next]_vars => PlayerInv'
  <1> SUFFICES ASSUME PlayerInv, [Next]_vars PROVE PlayerInv'
    OBVIOUS
  <1>1. CASE UNCHANGED vars
    <2>1. PlainOK /\ ListsOK
      BY TypesApart DEF PlayerInv
    <2>2. PlainOK' /\ ListsOK'
      BY <1>1, <2>1 DEF PlainOK, ListsOK
    <2>3. Types'
      BY <2>2 DEF Types, PlayerTypeOK, PlainOK, ListsOK, Places
    <2>4. Placed' /\ NoThreadOutlives' /\ (Sound' <=> Sound)
      BY <1>1 DEF PlayerInv, Placed, NoThreadOutlives, Sound, Does
    <2>5. Threaded => Threaded'
      BY <1>1 DEF Threaded, Loaded, Shaken, Told, Untold, AboutAdec, AboutRender, Lazy
    <2> QED BY <2>3, <2>4, <2>5 DEF PlayerInv
  <1>2. CASE Next
    <2>1. Good
      BY <1>2 DEF Next, Good
    <2>2. CASE AddStream \/ \E c \in Callers : Reset(c)
      <3>1. StreamSteps = S1 /\ ResetSteps = R1
        BY DEF StreamSteps, ResetSteps, S1, R1, A, R
      <3> QED BY <2>1, <2>2, <3>1, CallKept DEF AddStream, Reset, Callers
    <2>3. CASE AddData
      BY <2>1, <2>3, AddDataKept
    <2>4. ASSUME NEW c \in Callers, CallerStep(c) PROVE PlayerInv'
      BY <2>1, <2>4, PutKept, TellKept, WakeKept, JoinKept, OpenKept, FreeKept DEF CallerStep
    <2>5. ASSUME NEW t \in Threads, ThreadStep(t) PROVE PlayerInv'
      <3>1. CASE Poll(t) \/ Read(t) \/ Release(t) \/ Leave(t) \/ Report(t)
        BY <2>1, <3>1, PollKept, ReadKept, ReleaseKept, LeaveKept, ReportKept
      <3>2. CASE Decode \/ Forward \/ Pass \/ Play
        BY <2>1, <3>2, DecodeKept, ForwardKept, PassKept, PlayKept
      <3> QED BY <2>5, <3>1, <3>2 DEF ThreadStep
    <2> QED BY <1>2, <2>2, <2>3, <2>4, <2>5 DEF Next
  <1> QED BY <1>1, <1>2

\* Every variable keeps its type and every queue its size, for all sizes: a CLOSE message is
\* taken before the next one is sent, and what is written to the codec is a packet.
THEOREM TypeCorrect == Spec => []PlayerTypeOK
  <1>1. PlayerInv => PlayerTypeOK
    BY DEF PlayerInv, Types
  <1> QED BY <1>1, InvBegins, InvStays, PTL DEF Spec

\* A reset that frees the player leaves no thread behind, whatever the two callers do at
\* the same time, unless the first frame creates ARender after the reset has looked for it.
THEOREM NoneOutlives == Spec => []NoThreadOutlives
  <1>1. PlayerInv => NoThreadOutlives
    BY DEF PlayerInv
  <1> QED BY <1>1, InvBegins, InvStays, PTL DEF Spec

-----------------------------------------------------------------------------
(* The order of the packets                                                *)

Resets == {R1, R2, R3, R4, R5, R6}
Resetting == \E c \in Callers : todo[c] \in Resets

\* The packet the feeder has been given and not queued yet.
Flight == IF todo["feeder"] = P1 THEN <<fed>> ELSE <<>>

\* Nothing is numbered that has not been fed.
Numbered == /\ q \in [Threads -> Seq(0 .. fed)]
            /\ played \in Seq(1 .. fed)
            /\ lost \subseteq 1 .. fed

\* While nobody resets the player, frames only wait for an ARender that is there, so
\* that none is overtaken by a frame that Adec writes itself.
Rendering ==
  ~Resetting => /\ ~thread[R] => q[R] = <<>>
                /\ at[A] = "pass" => thread[R]

Ordered == lock = "free" /\ res => InOrder(OnTheWay \o Flight, lost)

FlowInv == Numbered /\ Rendering /\ Ordered

-----------------------------------------------------------------------------
(* Sequences of packets                                                    *)

LEMMA Joined ==
  ASSUME NEW a \in Seq(Nat), NEW b \in Seq(Nat), NEW c \in Seq(Nat)
  PROVE  /\ (a \o b) \o c = a \o (b \o c) /\ a \o b \in Seq(Nat)
         /\ a \o <<>> = a /\ <<>> \o a = a
  <1>1. (a \o b) \o c = a \o (b \o c)
    BY ConcatAssociative
  <1>2. a \o b \in Seq(Nat)
    BY ConcatProperties
  <1>3. a \o <<>> = a /\ <<>> \o a = a
    BY ConcatEmptySeq
  <1> QED BY <1>1, <1>2, <1>3

LEMMA Regroup ==
  ASSUME NEW a \in Seq(Nat), NEW b \in Seq(Nat), NEW c \in Seq(Nat)
  PROVE  (a \o b) \o c = a \o (b \o c)
  BY ConcatAssociative

\* A name for \o that the provers leave alone.
Glue(a, b) == a \o b

LEMMA Glued ==
  ASSUME NEW a \in Seq(Nat), NEW b \in Seq(Nat), NEW c \in Seq(Nat)
  PROVE  Glue(Glue(a, b), c) = Glue(a, Glue(b, c)) /\ Glue(a, b) \in Seq(Nat)
  BY Regroup, ConcatProperties DEF Glue

\* The queues and the packet in hand, with the packet in front of one of them taken apart.
LEMMA Parted ==
  ASSUME NEW z \in Seq(Nat), NEW d \in Seq(Nat), NEW b \in Seq(Nat), NEW f \in Seq(Nat)
  PROVE  /\ Glue(Glue(z, Glue(d, b)), f) = Glue(z, Glue(d, Glue(b, f)))
         /\ Glue(Glue(z, b), f) = Glue(z, Glue(b, f))
  <1>1. Glue(d, b) \in Seq(Nat)
    BY Glued
  <1>2. Glue(Glue(d, b), f) = Glue(d, Glue(b, f)) /\ Glue(Glue(z, b), f) = Glue(z, Glue(b, f))
    BY Glued
  <1>3. Glue(Glue(z, Glue(d, b)), f) = Glue(z, Glue(Glue(d, b), f))
    BY <1>1, Glued
  <1> QED BY <1>2, <1>3

LEMMA PartedTwice ==
  ASSUME NEW z \in Seq(Nat), NEW d \in Seq(Nat), NEW b \in Seq(Nat), NEW a \in Seq(Nat),
         NEW f \in Seq(Nat)
  PROVE  /\ Glue(Glue(Glue(z, Glue(d, b)), a), f) = Glue(z, Glue(d, Glue(b, Glue(a, f))))
         /\ Glue(Glue(Glue(z, b), a), f) = Glue(z, Glue(b, Glue(a, f)))
  <1>1. /\ Glue(d, b) \in Seq(Nat) /\ Glue(z, b) \in Seq(Nat) /\ Glue(a, f) \in Seq(Nat)
    BY Glued
  <1>2. Glue(z, Glue(d, b)) \in Seq(Nat)
    BY <1>1, Glued
  <1>3. /\ Glue(Glue(Glue(z, Glue(d, b)), a), f) = Glue(Glue(z, Glue(d, b)), Glue(a, f))
        /\ Glue(Glue(Glue(z, b), a), f) = Glue(Glue(z, b), Glue(a, f))
    BY <1>1, <1>2, Glued
  <1>4. /\ Glue(Glue(z, Glue(d, b)), Glue(a, f)) = Glue(z, Glue(d, Glue(b, Glue(a, f))))
        /\ Glue(Glue(z, b), Glue(a, f)) = Glue(z, Glue(b, Glue(a, f)))
    BY <1>1, Parted
  <1> QED BY <1>3, <1>4

LEMMA Behead ==
  ASSUME NEW s \in Seq(Nat), s # <<>>
  PROVE  /\ s = <<Head(s)>> \o Tail(s) /\ <<Head(s)>> \in Seq(Nat) /\ Tail(s) \in Seq(Nat)
         /\ Head(s) \in Nat
  <1>1. Head(s) \in Nat /\ Tail(s) \in Seq(Nat) /\ Len(s) \in Nat /\ Len(s) # 0
    BY HeadTailProperties, EmptySeq
  <1>2. <<Head(s)>> \in Seq(Nat)
    BY <1>1
  <1>3. Len(<<Head(s)>> \o Tail(s)) = Len(s) /\ <<Head(s)>> \o Tail(s) \in Seq(Nat)
    BY <1>1, <1>2, ConcatProperties, HeadTailProperties
  <1>4. ASSUME NEW i \in 1 .. Len(s) PROVE s[i] = (<<Head(s)>> \o Tail(s))[i]
    <2>1. CASE i = 1
      BY <1>1, <2>1
    <2>2. CASE i # 1
      BY <1>1, <2>2
    <2> QED BY <2>1, <2>2
  <1> QED BY <1>1, <1>2, <1>3, <1>4, SeqEqual

LEMMA Behind ==
  ASSUME NEW s \in Seq(Nat), NEW e \in Nat
  PROVE  /\ Append(s, e) = s \o <<e>> /\ <<e>> \in Seq(Nat) /\ Append(s, e) \in Seq(Nat)
         /\ s # <<>> => Tail(Append(s, e)) = Append(Tail(s), e)
         /\ Append(s, e) # <<>>
  <1>1. Append(s, e) # <<>>
    <2>1. Len(Append(s, e)) = Len(s) + 1 /\ Len(s) \in Nat
      BY AppendProperties, LenProperties
    <2> QED BY <2>1
  <1>2. /\ Append(s, e) = s \o <<e>> /\ <<e>> \in Seq(Nat) /\ Append(s, e) \in Seq(Nat)
        /\ s # <<>> => Tail(Append(s, e)) = Append(Tail(s), e)
    BY AppendIsConcat, HeadTailAppend
  <1> QED BY <1>1, <1>2

\* Taking an element off the front of one queue and putting it at the end of the one in
\* front of it changes nothing.
LEMMA Passed ==
  ASSUME NEW a \in Seq(Nat), NEW b \in Seq(Nat), b # <<>>
  PROVE  Append(a, Head(b)) \o Tail(b) = a \o b
  <1>1. /\ b = <<Head(b)>> \o Tail(b) /\ <<Head(b)>> \in Seq(Nat) /\ Tail(b) \in Seq(Nat)
        /\ Head(b) \in Nat
    BY Behead
  <1>2. Append(a, Head(b)) = a \o <<Head(b)>>
    BY <1>1, Behind
  <1>3. (a \o <<Head(b)>>) \o Tail(b) = a \o (<<Head(b)>> \o Tail(b))
    BY <1>1, Regroup
  <1> QED BY <1>1, <1>2, <1>3

\* What is taken out of w, a dummy or a packet that a call has thrown away, is missing;
\* the others are in order as before.
LEMMA LeftOut ==
  ASSUME NEW a \in Seq(Nat), NEW b \in Seq(Nat), NEW e \in Nat, NEW gone,
         since \in Nat, fed \in Nat, InOrder(a \o (<<e>> \o b), gone)
  PROVE  InOrder(a \o b, gone \cup {e})
  <1> DEFINE w == a \o (<<e>> \o b)
             v == a \o b
             m == Len(a)
             Up(i) == IF i <= m THEN i ELSE i + 1
  <1>1. <<e>> \in Seq(Nat) /\ Len(<<e>>) = 1 /\ <<e>>[1] = e /\ m \in Nat /\ Len(b) \in Nat
    OBVIOUS
  <1>2. <<e>> \o b \in Seq(Nat) /\ Len(<<e>> \o b) = Len(b) + 1
        /\ (<<e>> \o b)[1] = e /\ \A i \in 2 .. Len(b) + 1 : (<<e>> \o b)[i] = b[i - 1]
    BY <1>1, ConcatProperties
  <1>3. /\ Len(w) = m + 1 + Len(b) /\ Len(v) = m + Len(b)
        /\ w \in Seq(Nat) /\ v \in Seq(Nat)
        /\ \A i \in 1 .. m : w[i] = a[i] /\ v[i] = a[i]
    BY <1>1, <1>2, ConcatProperties
  <1>4. w[m + 1] = e
    BY <1>1, <1>2, ConcatProperties
  <1>5. \A i \in m + 1 .. m + Len(b) : w[i + 1] = v[i]
    <2> SUFFICES ASSUME NEW i \in m + 1 .. m + Len(b) PROVE w[i + 1] = v[i]
      OBVIOUS
    <2>1. v[i] = b[i - m]
      BY <1>1, ConcatProperties
    <2>2. w[i + 1] = (<<e>> \o b)[(i + 1) - m]
      BY <1>1, <1>2, ConcatProperties
    <2>3. (i + 1) - m \in 2 .. Len(b) + 1 /\ ((i + 1) - m) - 1 = i - m
      BY <1>1
    <2> QED BY <1>2, <2>1, <2>2, <2>3
  <1>6. DOMAIN w = 1 .. m + 1 + Len(b) /\ DOMAIN v = 1 .. m + Len(b)
    BY <1>3
  <1>7. /\ \A i, j \in DOMAIN w : i < j /\ w[i] > since => w[i] < w[j]
        /\ {w[i] : i \in DOMAIN w} \ (0 .. since) = (since + 1 .. fed) \ gone
    BY DEF InOrder
  <1> HIDE DEF w, v, m
  <1>8. ASSUME NEW i \in DOMAIN v
        PROVE  Up(i) \in DOMAIN w /\ v[i] = w[Up(i)] /\ Up(i) # m + 1 /\ v[i] \in Nat
    <2>1. CASE i <= m
      <3>1. i \in 1 .. m /\ Up(i) = i /\ i # m + 1 /\ i \in DOMAIN w
        BY <1>1, <1>6, <2>1
      <3>2. v[i] = w[i]
        BY <1>3, <3>1, Zenon
      <3>3. v[i] \in Nat
        BY <1>3, <1>6, ElementOfSeq
      <3> QED BY <3>1, <3>2, <3>3, Zenon
    <2>2. CASE ~(i <= m)
      <3>1. i \in m + 1 .. m + Len(b) /\ Up(i) = i + 1
        BY <1>1, <1>6, <2>2
      <3>2. i + 1 \in 1 .. m + 1 + Len(b) /\ i + 1 # m + 1
        BY <1>1, <3>1
      <3>3. v[i] \in Nat
        BY <1>3, <1>6, ElementOfSeq
      <3> QED BY <1>5, <1>6, <3>1, <3>2, <3>3
    <2> QED BY <2>1, <2>2
  <1>9. ASSUME NEW j \in DOMAIN w, j # m + 1 PROVE \E i \in DOMAIN v : Up(i) = j
    <2>1. CASE j <= m
      <3>1. j \in DOMAIN v /\ Up(j) = j
        BY <1>1, <1>6, <2>1
      <3> QED BY <3>1
    <2>2. CASE ~(j <= m)
      <3>1. j - 1 \in DOMAIN v /\ Up(j - 1) = j
        BY <1>1, <1>6, <1>9, <2>2
      <3> QED BY <3>1
    <2> QED BY <2>1, <2>2
  <1>10. ASSUME NEW i \in DOMAIN v, NEW j \in DOMAIN v, i < j PROVE Up(i) < Up(j)
    BY <1>1, <1>6, <1>10
  <1> HIDE DEF Up
  <1>11. \A i, j \in DOMAIN v : i < j /\ v[i] > since => v[i] < v[j]
    BY <1>7, <1>8, <1>10
  <1>12. ASSUME NEW p \in {v[i] : i \in DOMAIN v} \ (0 .. since)
         PROVE  p \in (since + 1 .. fed) \ (gone \cup {e})
    <2>1. PICK i \in DOMAIN v : p = v[i]
      OBVIOUS
    <2>2. p = w[Up(i)] /\ Up(i) \in DOMAIN w /\ p \in Nat /\ p > since
      BY <1>8, <2>1
    <2>3. p \in (since + 1 .. fed) \ gone
      BY <1>7, <2>2
    <2>4. m + 1 \in DOMAIN w /\ Up(i) \in Int
      BY <1>1, <1>6, <1>8
    <2>5. p # e
      BY <1>1, <1>4, <1>7, <1>8, <2>2, <2>4
    <2> QED BY <2>3, <2>5
  <1>13. ASSUME NEW p \in (since + 1 .. fed) \ (gone \cup {e})
         PROVE  p \in {v[i] : i \in DOMAIN v} \ (0 .. since)
    <2>1. p \in {w[i] : i \in DOMAIN w} /\ p \notin 0 .. since
      BY <1>7
    <2>2. PICK j \in DOMAIN w : p = w[j]
      BY <2>1
    <2>3. PICK i \in DOMAIN v : Up(i) = j
      BY <1>4, <1>9, <2>2
    <2> QED BY <1>8, <2>1, <2>2, <2>3
  <1>14. InOrder(v, gone \cup {e})
    BY <1>11, <1>12, <1>13 DEF InOrder
  <1> QED BY <1>14 DEF v

-----------------------------------------------------------------------------
(* Who may disturb the order                                               *)

LEMMA NotResets ==
  /\ <<>> \notin Resets /\ P1 \notin Resets
  /\ S1 \notin Resets /\ S2 \notin Resets /\ S3 \notin Resets /\ S4 \notin Resets
  <1>1. <<>> \notin Resets
    BY Heads DEF Resets
  <1>2. \A y, t : Step(y, t).do = y
    BY DEF Step
  <1>3. Head(P1).do = "put" /\ \A s \in Resets : Head(s).do \in {"tell", "wake", "join", "free"}
    BY <1>2, Heads DEF Resets
  <1>4. P1 \notin Resets
    BY <1>3
  <1>5. S1 \notin Resets /\ S2 \notin Resets /\ S3 \notin Resets /\ S4 \notin Resets
    BY Apart DEF Resets
  <1> QED BY <1>1, <1>4, <1>5

\* Whether the player is being reset is up to the holder of the lock.
LEMMA HolderResets ==
  Placed => /\ lock = "free" => ~Resetting
            /\ \A c \in Callers : lock = c => (Resetting <=> todo[c] \in Resets)
  <1> HAVE Placed
  <1>1. ASSUME NEW d \in Callers, lock # d PROVE todo[d] \notin Resets
    BY <1>1, NotResets DEF Placed, Callers
  <1>2. \A c \in Callers : c # "free"
    BY DEF Callers
  <1> QED BY <1>1, <1>2 DEF Resetting

\* While nobody resets the player, ARender has not been told to leave.
LEMMA RenderStays ==
  ASSUME Good, ~Resetting
  PROVE  Untold(R)
  <1>0. Placed /\ Threaded
    BY DEF Good, PlayerInv
  <1>1. "lazy" \notin mishaps
    BY <1>0 DEF Threaded, Lazy, Resetting, Resets
  <1>2. ASSUME NEW c \in Callers PROVE R \notin await[c]
    <2>1. CASE lock = c
      <3>1. todo[c] \in {S1, S2, S3, S4}
        BY <1>0, <2>1, <1>2 DEF Placed, Shapes, Resetting, Resets
      <3>2. await[c] \subseteq {A}
        BY <1>0, <2>1, <3>1 DEF Threaded, AboutAdec
      <3> QED BY <3>2 DEF A, R
    <2>2. CASE lock # c
      BY <1>0, <2>2 DEF Placed
    <2> QED BY <2>1, <2>2
  <1> QED BY <1>0, <1>1, <1>2 DEF Threaded, Shaken

\* While nobody calls, neither thread has been told to.
LEMMA BothStay ==
  ASSUME Good, lock = "free"
  PROVE  Untold(A) /\ Untold(R)
  <1>0. Placed /\ Threaded
    BY DEF Good, PlayerInv
  <1>1. Untold(R)
    BY <1>0, HolderResets, RenderStays
  <1>2. \A c \in Callers : A \notin await[c]
    BY <1>0 DEF Placed, Callers
  <1> QED BY <1>0, <1>1, <1>2 DEF Threaded, Shaken

-----------------------------------------------------------------------------
(* What is on its way                                                      *)

LEMMA Counted ==
  PlainOK => /\ fed \in Nat /\ since \in Nat /\ since <= fed /\ 0 .. fed \subseteq Nat
             /\ A = "adec" /\ R = "arender" /\ A \in Threads /\ R \in Threads /\ A # R
             /\ \A t \in Threads : t = A \/ t = R
  <1> HAVE PlainOK
  <1>1. fed \in Nat /\ since \in Nat /\ since <= fed
    BY BoundsAssumption DEF PlainOK
  <1> QED BY <1>1 DEF A, R, Threads

LEMMA Carried ==
  ASSUME PlainOK, Numbered, NEW t \in Threads, Loaded(t)
  PROVE  /\ q[t] \in Seq(Nat) /\ InUse(t) \in Seq(Nat) /\ played \in Seq(Nat)
         /\ at[t] = "release" => q[t] # <<>> /\ InUse(t) = Tail(q[t])
         /\ at[t] # "release" => InUse(t) = q[t]
         /\ Flight \in Seq(Nat)
  <1>1. fed \in Nat /\ 0 .. fed \subseteq Nat /\ 1 .. fed \subseteq Nat
    BY Counted
  <1>2. q[t] \in Seq(Nat) /\ played \in Seq(Nat)
    <2>1. q[t] \in Seq(0 .. fed) /\ played \in Seq(1 .. fed)
      BY DEF Numbered
    <2> QED BY <1>1, <2>1, SeqMonotonic
  <1>3. at[t] = "release" => q[t] # <<>>
    BY DEF Loaded
  <1>4. /\ at[t] = "release" => InUse(t) = Tail(q[t])
        /\ at[t] # "release" => InUse(t) = q[t]
    BY <1>3 DEF InUse
  <1>5. InUse(t) \in Seq(Nat)
    <2>1. CASE at[t] = "release"
      BY <1>2, <1>3, <1>4, <2>1, HeadTailProperties
    <2>2. CASE at[t] # "release"
      BY <1>2, <1>4, <2>2
    <2> QED BY <2>1, <2>2
  <1>6. Flight \in Seq(Nat)
    BY <1>1 DEF Flight
  <1> QED BY <1>2, <1>3, <1>4, <1>5, <1>6

\* A queue that changes holds what has been fed.
LEMMA NumberedKept ==
  ASSUME Numbered, NEW t \in Threads, NEW s \in Seq(0 .. fed),
         q' = [q EXCEPT ![t] = s], UNCHANGED <<played, lost, fed>>
  PROVE  Numbered'
  BY DEF Numbered

LEMMA WayKept ==
  ASSUME Ordered, UNCHANGED <<played, lost, fed, since, lock, todo, res>>,
         InUse("adec")' = InUse("adec"), InUse("arender")' = InUse("arender")
  PROVE  Ordered'
  BY DEF Ordered, OnTheWay, Flight, InOrder

-----------------------------------------------------------------------------
(* The callers keep the order                                              *)

LEMMA CallFlow ==
  ASSUME Good, FlowInv, NEW c \in Callers, NEW s \in {S1, R1}, Calls(c, s)
  PROVE  FlowInv'
  <1>1. /\ lock = "free" /\ lock' = c /\ c # "free"
        /\ UNCHANGED <<thread, at, q, played, lost, fed>>
    BY DEF Calls, Callers
  <1>2. Numbered'
    BY <1>1 DEF FlowInv, Numbered
  <1>3. ~Resetting
    BY <1>1, HolderResets DEF Good, PlayerInv
  <1>4. Rendering'
    BY <1>1, <1>3 DEF FlowInv, Rendering
  <1>5. Ordered'
    BY <1>1 DEF Ordered
  <1> QED BY <1>2, <1>4, <1>5 DEF FlowInv

LEMMA AddDataFlow ==
  ASSUME Good, FlowInv, AddData
  PROVE  FlowInv'
  <1>0. PlainOK /\ Placed /\ Threaded /\ Numbered
    BY TypesApart DEF Good, PlayerInv, FlowInv
  <1>1. /\ lock = "free" /\ res /\ todo["feeder"] = <<>> /\ fed' = fed + 1
        /\ UNCHANGED <<lock, res, thread, at, q, played, lost, since>>
        /\ todo' = [todo EXCEPT !["feeder"] = P1]
    BY DEF AddData, P1, A
  <1>2. Numbered'
    <2>1. 0 .. fed \subseteq 0 .. fed' /\ 1 .. fed \subseteq 1 .. fed'
      BY <1>0, <1>1, Counted
    <2>2. played \in Seq(1 .. fed') /\ \A t \in Threads : q[t] \in Seq(0 .. fed')
      BY <1>0, <2>1, SeqMonotonic DEF Numbered
    <2> QED BY <1>0, <1>1, <2>1, <2>2 DEF Numbered
  <1>3. ~Resetting
    BY <1>0, <1>1, HolderResets
  <1>4. Rendering'
    BY <1>1, <1>3 DEF FlowInv, Rendering
  <1>5. Ordered'
    <2>1. /\ OnTheWay \in Seq(Nat) /\ Flight = <<>> /\ fed \in Nat /\ since \in Nat /\ since <= fed
      <3>1. /\ InUse("adec") \in Seq(Nat) /\ InUse("arender") \in Seq(Nat) /\ played \in Seq(Nat)
        BY <1>0, Carried DEF Threaded, Threads
      <3>2. Flight = <<>>
        BY <1>1, Heads DEF Flight
      <3> QED BY <1>0, <3>1, <3>2, Counted, Joined DEF OnTheWay
    <2>2. OnTheWay' = OnTheWay /\ Flight' = <<fed + 1>>
      <3>1. todo'["feeder"] = P1
        BY <1>1, TypesApart DEF Good, PlayerInv, ListsOK, Callers
      <3> QED BY <1>1, <3>1 DEF OnTheWay, InUse, Flight
    <2>3. InOrder(OnTheWay, lost)
      <3>1. InOrder(OnTheWay \o Flight, lost)
        BY <1>1 DEF FlowInv, Ordered
      <3> QED BY <2>1, <3>1, Joined
    <2> DEFINE w == OnTheWay
               v == Append(w, fed + 1)
    <2>4. OnTheWay \o <<fed + 1>> = v
      BY <2>1, Behind
    <2>5. /\ Len(w) \in Nat /\ DOMAIN w = 1 .. Len(w) /\ DOMAIN v = 1 .. Len(w) + 1
          /\ v[Len(w) + 1] = fed + 1 /\ \A i \in 1 .. Len(w) : v[i] = w[i] /\ w[i] \in Nat
      BY <2>1, AppendProperties
    <2>6. /\ \A i, j \in DOMAIN w : i < j /\ w[i] > since => w[i] < w[j]
          /\ {w[i] : i \in DOMAIN w} \ (0 .. since) = (since + 1 .. fed) \ lost
      BY <2>3 DEF InOrder
    <2>7. fed + 1 \notin lost
      BY <1>0, <2>1 DEF Numbered
    <2>8. (OnTheWay \o Flight)' = v
      BY <2>2, <2>4
    <2> HIDE DEF v, w
    <2>9. \A i \in 1 .. Len(w) : w[i] > since => w[i] \in since + 1 .. fed
      BY <2>1, <2>5, <2>6
    <2>10. \A i, j \in DOMAIN v : i < j /\ v[i] > since => v[i] < v[j]
      <3> SUFFICES ASSUME NEW i \in DOMAIN v, NEW j \in DOMAIN v, i < j, v[i] > since
                   PROVE  v[i] < v[j]
        OBVIOUS
      <3>1. i \in 1 .. Len(w) /\ v[i] = w[i] /\ w[i] <= fed
        BY <2>1, <2>5, <2>9
      <3>2. CASE j = Len(w) + 1
        BY <2>1, <2>5, <3>1, <3>2
      <3>3. CASE j # Len(w) + 1
        <4>1. j \in 1 .. Len(w)
          BY <2>5, <3>3
        <4> QED BY <2>5, <2>6, <3>1, <4>1
      <3> QED BY <3>2, <3>3
    <2>11. {v[i] : i \in DOMAIN v} = {w[i] : i \in DOMAIN w} \cup {fed + 1}
      <3>1. ASSUME NEW i \in DOMAIN v PROVE v[i] \in {w[j] : j \in DOMAIN w} \cup {fed + 1}
        <4>1. CASE i = Len(w) + 1
          BY <2>5, <4>1
        <4>2. CASE i # Len(w) + 1
          <5>1. i \in DOMAIN w
            BY <2>5, <4>2
          <5> QED BY <2>5, <5>1
        <4> QED BY <4>1, <4>2
      <3>2. ASSUME NEW i \in DOMAIN w PROVE w[i] \in {v[j] : j \in DOMAIN v}
        <4>1. i \in DOMAIN v /\ v[i] = w[i]
          BY <2>5
        <4> QED BY <4>1
      <3>3. fed + 1 \in {v[j] : j \in DOMAIN v}
        <4>1. Len(w) + 1 \in DOMAIN v
          BY <2>5
        <4> QED BY <2>5, <4>1
      <3> QED BY <3>1, <3>2, <3>3
    <2>12. ((since + 1 .. fed) \ lost) \cup {fed + 1} = (since + 1 .. fed + 1) \ lost
      BY <2>1, <2>7
    <2>13. {v[i] : i \in DOMAIN v} \ (0 .. since) = (since + 1 .. fed + 1) \ lost
      <3>1. fed + 1 \notin 0 .. since
        BY <2>1
      <3> QED BY <2>6, <2>11, <2>12, <3>1
    <2>14. InOrder(OnTheWay \o Flight, lost)'
      <3>1. fed' = fed + 1 /\ since' = since /\ lost' = lost
        BY <1>1
      <3> QED BY <2>8, <2>10, <2>13, <3>1 DEF InOrder
    <2> QED BY <2>14 DEF Ordered
  <1> QED BY <1>2, <1>4, <1>5 DEF FlowInv

LEMMA PutFlow ==
  ASSUME Good, FlowInv, Put
  PROVE  FlowInv'
  <1>0. PlainOK /\ ListsOK /\ Placed /\ Threaded /\ Numbered /\ A = "adec" /\ R = "arender"
    BY TypesApart, Counted DEF Good, PlayerInv, FlowInv
  <1>1. /\ todo["feeder"] = P1 /\ lock # "feeder"
        /\ q' = [q EXCEPT ![A] = Append(q[A], fed)]
        /\ UNCHANGED <<lock, res, thread, at, played, lost, fed, since>>
    BY <1>0, Does1 DEF Put, ListsOK, Callers, Shapes, Placed
  <1>2. todo'["feeder"] = <<>> /\ \A d \in Callers : d # "feeder" => todo'[d] = todo[d]
    BY <1>0, <1>1, Tails DEF Put, Done, ListsOK, Callers
  <1>3. q[A] \in Seq(0 .. fed) /\ fed \in 0 .. fed
    BY <1>0, Counted DEF Numbered
  <1>4. Numbered'
    <2>1. Append(q[A], fed) \in Seq(0 .. fed)
      BY <1>3
    <2> QED BY <1>0, <1>1, <2>1, Counted, NumberedKept
  <1>5. q'[R] = q[R] /\ q'[A] = Append(q[A], fed)
    BY <1>0, <1>1, Counted DEF Numbered
  <1>6. Resetting' <=> Resetting
    BY <1>1, <1>2, NotResets DEF Resetting, Callers
  <1>7. Rendering'
    BY <1>1, <1>5, <1>6 DEF FlowInv, Rendering
  <1>8. Ordered'
    <2> SUFFICES ASSUME lock = "free", res PROVE InOrder(OnTheWay \o Flight, lost)'
      BY <1>1 DEF Ordered
    <2>1. InOrder(OnTheWay \o Flight, lost)
      BY DEF FlowInv, Ordered
    <2>2. Loaded(A) /\ Loaded(R) /\ A \in Threads /\ R \in Threads
      BY <1>0, Counted DEF Threaded
    <2>3. /\ InUse(A) \in Seq(Nat) /\ InUse(R) \in Seq(Nat) /\ played \in Seq(Nat)
          /\ q[A] \in Seq(Nat)
      BY <1>0, <2>2, Carried
    <2>4. InUse(A)' = Append(InUse(A), fed)
      <3>1. Append(q[A], fed) # <<>>
        BY <1>3
      <3>2. CASE at[A] = "release"
        <4>1. q[A] # <<>> /\ InUse(A) = Tail(q[A])
          BY <1>0, <2>2, <3>2, Carried
        <4>2. Tail(Append(q[A], fed)) = Append(Tail(q[A]), fed)
          BY <2>3, <4>1, HeadTailAppend
        <4> QED BY <1>1, <1>5, <3>1, <3>2, <4>1, <4>2 DEF InUse
      <3>3. CASE at[A] # "release"
        BY <1>1, <1>5, <3>3 DEF InUse
      <3> QED BY <3>2, <3>3
    <2>5. InUse("arender")' = InUse("arender")
      <3>1. q'["arender"] = q["arender"] /\ at' = at
        BY <1>0, <1>1, <1>5
      <3> QED BY <3>1 DEF InUse
    <2>6. Flight = <<fed>> /\ Flight' = <<>>
      BY <1>1, <1>2, Heads DEF Flight
    <2> DEFINE z == played \o InUse(R)
    <2>7. /\ OnTheWay = z \o InUse(A) /\ OnTheWay' = z \o Append(InUse(A), fed)
      <3>1. OnTheWay = z \o InUse(A)
        BY <1>0 DEF OnTheWay
      <3>2. /\ played' = played /\ InUse("arender")' = InUse("arender")
            /\ InUse("adec")' = Append(InUse(A), fed)
        BY <1>0, <1>1, <2>4, <2>5
      <3>3. OnTheWay' = (played \o InUse("arender")) \o Append(InUse(A), fed)
        BY <3>2, Zenon DEF OnTheWay
      <3> QED BY <1>0, <3>1, <3>3, Zenon
    <2>8. z \in Seq(Nat) /\ fed \in Nat
      BY <1>0, <2>3, Joined, Counted
    <2> HIDE DEF z
    <2>9. /\ Append(InUse(A), fed) = InUse(A) \o <<fed>> /\ <<fed>> \in Seq(Nat)
          /\ Append(InUse(A), fed) \in Seq(Nat)
      BY <2>3, <2>8, Behind
    <2>10. (z \o InUse(A)) \o <<fed>> = z \o Append(InUse(A), fed)
      <3> DEFINE a == InUse(A)
                 e == <<fed>>
      <3>1. (z \o a) \o e = z \o (a \o e)
        <4>1. z \in Seq(Nat) /\ a \in Seq(Nat) /\ e \in Seq(Nat)
          BY <2>3, <2>8, <2>9
        <4> HIDE DEF a, e
        <4> QED BY <4>1, Regroup
      <3> QED BY <2>9, <3>1, Zenon
    <2>11. (z \o Append(InUse(A), fed)) \o <<>> = z \o Append(InUse(A), fed)
      BY <2>8, <2>9, Joined
    <2>12. (OnTheWay \o Flight)' = OnTheWay \o Flight
      BY <2>6, <2>7, <2>10, <2>11
    <2> QED BY <1>1, <2>1, <2>12 DEF InOrder
  <1> QED BY <1>4, <1>7, <1>8 DEF FlowInv

\* Whoever holds the lock goes on holding it.
LEMMA HoldFlow ==
  ASSUME Good, FlowInv, NEW c \in Callers, lock = c, lock' = lock,
         UNCHANGED <<thread, at, played, lost, fed>>,
         \A d \in Callers : d # c => todo'[d] = todo[d],
         todo[c] \in Resets => todo'[c] \in Resets,
         todo'[c] \notin Resets => q'[R] = q[R],
         Numbered'
  PROVE  FlowInv'
  <1>1. c # "free"
    BY DEF Callers
  <1>2. Resetting => Resetting'
    BY DEF Resetting
  <1>3. Rendering'
    BY <1>2 DEF FlowInv, Rendering, Resetting
  <1>4. Ordered'
    BY <1>1 DEF Ordered
  <1> QED BY <1>3, <1>4 DEF FlowInv

LEMMA TellFlow ==
  ASSUME Good, FlowInv, NEW c \in Callers, Tell(c)
  PROVE  FlowInv'
  <1>0. PlainOK /\ ListsOK /\ Placed /\ Numbered /\ todo \in [Callers -> Seq(Steps)]
    BY TypesApart DEF Good, PlayerInv, FlowInv, ListsOK
  <1>1. lock = c /\ todo[c] \in {S1, R1, R3}
    <2>1. Does(c, "tell")
      BY DEF Tell
    <2> QED BY <1>0, <2>1, Holder, Does1 DEF Shapes
  <1>2. /\ UNCHANGED <<lock, thread, at, q, played, lost, fed>>
        /\ \A d \in Callers : d # c => todo'[d] = todo[d]
        /\ \/ todo'[c] = <<Step("wake", Target(c))>> \o Tail(todo[c])
           \/ todo'[c] = Tail(todo[c])
    BY <1>0 DEF Tell, Done
  <1>3. todo[c] \in Resets => todo'[c] \in {R2, R3, R4, R5}
    BY <1>1, <1>2, Does1, Wakes, Tails, NotResets
  <1>4. Numbered'
    BY <1>0, <1>2 DEF Numbered
  <1> QED BY <1>1, <1>2, <1>3, <1>4, HoldFlow DEF Resets

LEMMA WakeFlow ==
  ASSUME Good, FlowInv, NEW c \in Callers, Wake(c)
  PROVE  FlowInv'
  <1>0. PlainOK /\ ListsOK /\ Placed /\ Numbered /\ todo \in [Callers -> Seq(Steps)] /\ A # R
    BY TypesApart, Counted DEF Good, PlayerInv, FlowInv, ListsOK
  <1>1. lock = c /\ todo[c] \in {S2, R2, R4}
    <2>1. Does(c, "wake")
      BY DEF Wake
    <2> QED BY <1>0, <2>1, Holder, Does1 DEF Shapes
  <1>2. /\ UNCHANGED <<lock, thread, at, played, lost, fed>>
        /\ \A d \in Callers : d # c => todo'[d] = todo[d]
        /\ todo'[c] = Tail(todo[c])
        /\ q' = q \/ q' = [q EXCEPT ![Target(c)] = <<Dummy>>]
    BY <1>0 DEF Wake, Done
  <1>3. Target(c) \in Threads /\ (todo[c] = S2 => Target(c) = A)
    BY <1>0, <1>1, Does1, Counted
  <1>4. todo[c] \in {R2, R4} => todo'[c] \in {R3, R5}
    BY <1>1, <1>2, Tails
  <1>5. todo[c] \in Resets => todo'[c] \in Resets
    BY <1>1, <1>4, NotResets DEF Resets
  <1>6. todo'[c] \notin Resets => q'[R] = q[R]
    BY <1>0, <1>1, <1>2, <1>3, <1>4, Counted DEF Resets, Numbered
  <1>7. Numbered'
    <2>1. CASE q' = q
      BY <1>0, <1>2, <2>1 DEF Numbered
    <2>2. CASE q' = [q EXCEPT ![Target(c)] = <<Dummy>>]
      <3>1. <<Dummy>> \in Seq(0 .. fed)
        BY <1>0, Counted DEF Dummy
      <3> QED BY <1>0, <1>2, <1>3, <2>2, <3>1, NumberedKept
    <2> QED BY <1>2, <2>1, <2>2
  <1> QED BY <1>1, <1>2, <1>5, <1>6, <1>7, HoldFlow

LEMMA JoinFlow ==
  ASSUME Good, FlowInv, NEW c \in Callers, Join(c)
  PROVE  FlowInv'
  <1>0. PlainOK /\ ListsOK /\ Placed /\ Numbered /\ todo \in [Callers -> Seq(Steps)]
    BY TypesApart DEF Good, PlayerInv, FlowInv, ListsOK
  <1>1. lock = c /\ todo[c] \in {S3, R5}
    <2>1. Does(c, "join")
      BY DEF Join
    <2> QED BY <1>0, <2>1, Holder, Does1 DEF Shapes
  <1>2. /\ UNCHANGED <<lock, thread, at, q, played, lost, fed>>
        /\ \A d \in Callers : d # c => todo'[d] = todo[d]
        /\ todo'[c] = Tail(todo[c])
    BY <1>0 DEF Join, Done
  <1>3. todo[c] \in Resets => todo'[c] \in Resets
    BY <1>1, <1>2, Tails, NotResets DEF Resets
  <1>4. Numbered'
    BY <1>0, <1>2 DEF Numbered
  <1> QED BY <1>1, <1>2, <1>3, <1>4, HoldFlow

LEMMA OpenFlow ==
  ASSUME Good, FlowInv, NEW c \in Callers, Open(c)
  PROVE  FlowInv'
  <1>0. /\ PlainOK /\ ListsOK /\ Placed /\ Numbered /\ todo \in [Callers -> Seq(Steps)]
        /\ A = "adec" /\ R = "arender"
    BY TypesApart, Counted DEF Good, PlayerInv, FlowInv, ListsOK
  <1>1. lock = c /\ todo[c] = S4
    <2>1. Does(c, "open")
      BY DEF Open
    <2> QED BY <1>0, <2>1, Holder, Does1 DEF Shapes
  <1>2. /\ since' = fed /\ lost' = {} /\ UNCHANGED <<q, played, fed>>
        /\ \A d \in Callers : d # c => todo'[d] = todo[d]
        /\ todo'[c] = <<>> /\ thread'[R] = thread[R] /\ at'[A] # "pass"
    BY <1>0, <1>1, Tails DEF Open, Done, PlainOK, Threads
  <1>3. Numbered'
    BY <1>0, <1>2 DEF Numbered
  <1>4. Rendering'
    <2>1. ~Resetting
      BY <1>0, <1>1, HolderResets, NotResets
    <2> QED BY <1>2, <2>1 DEF FlowInv, Rendering
  <1>5. Ordered'
    <2>1. /\ fed \in Nat /\ fed' = fed /\ since' = fed /\ A \in Threads /\ R \in Threads
      BY <1>0, <1>2, Counted
    <2>2. \A t \in Threads : InUse(t)' \in Seq(0 .. fed)
      <3> SUFFICES ASSUME NEW t \in Threads PROVE InUse(t)' \in Seq(0 .. fed)
        OBVIOUS
      <3>1. q'[t] \in Seq(0 .. fed)
        BY <1>0, <1>2 DEF Numbered
      <3>2. q'[t] # <<>> => Tail(q'[t]) \in Seq(0 .. fed)
        BY <3>1, HeadTailProperties
      <3> QED BY <3>1, <3>2 DEF InUse
    <2>3. played' \in Seq(0 .. fed) /\ Flight' \in Seq(0 .. fed)
      <3>1. played' \in Seq(1 .. fed) /\ 1 .. fed \subseteq 0 .. fed
        BY <1>0, <1>2 DEF Numbered
      <3>2. fed \in 0 .. fed
        BY <2>1
      <3>3. played' \in Seq(0 .. fed)
        BY <3>1, SeqMonotonic
      <3>4. Flight' \in Seq(0 .. fed)
        <4>1. <<fed>> \in Seq(0 .. fed) /\ <<>> \in Seq(0 .. fed)
          BY <3>2
        <4> QED BY <2>1, <4>1 DEF Flight
      <3> QED BY <3>3, <3>4
    <2>4. (OnTheWay \o Flight)' \in Seq(0 .. fed)
      BY <1>0, <2>1, <2>2, <2>3, ConcatProperties DEF OnTheWay
    <2>5. ASSUME NEW w \in Seq(0 .. fed)
          PROVE  /\ \A i, j \in DOMAIN w : i < j /\ w[i] > fed => w[i] < w[j]
                 /\ {w[i] : i \in DOMAIN w} \ (0 .. fed) = (fed + 1 .. fed) \ {}
      <3>1. \A i \in DOMAIN w : w[i] \in 0 .. fed
        <4>1. DOMAIN w = 1 .. Len(w)
          OBVIOUS
        <4> QED BY <4>1, ElementOfSeq
      <3>2. fed + 1 .. fed = {}
        BY <2>1
      <3> QED BY <2>1, <3>1, <3>2
    <2>6. InOrder(OnTheWay \o Flight, lost)'
      <3>1. lost' = {}
        BY <1>2
      <3> QED BY <2>1, <2>4, <2>5, <3>1 DEF InOrder
    <2> QED BY <2>6 DEF Ordered
  <1> QED BY <1>3, <1>4, <1>5 DEF FlowInv

LEMMA FreeFlow ==
  ASSUME Good, FlowInv, NEW c \in Callers, Free(c)
  PROVE  FlowInv'
  <1>0. /\ PlainOK /\ ListsOK /\ Placed /\ Threaded /\ Numbered
        /\ A = "adec" /\ R = "arender" /\ A \in Threads /\ R \in Threads
    BY TypesApart, Counted DEF Good, PlayerInv, FlowInv
  <1>1. lock = c /\ todo[c] = R6
    <2>1. Does(c, "free")
      BY DEF Free
    <2> QED BY <1>0, <2>1, Holder, Does1 DEF Shapes
  <1>2. /\ res' = FALSE /\ q' = [t \in Threads |-> <<>>] /\ UNCHANGED <<at, played, lost, fed>>
    BY DEF Free
  <1>3. Numbered'
    BY <1>0, <1>2 DEF Numbered
  <1>4. at[A] = "none"
    <2>1. await[c] = {} /\ ~thread[A]
      BY <1>0, <1>1, Apart DEF Threaded, AboutAdec
    <2>2. Untold(A)
      BY <1>0, <1>1, <2>1, Alone DEF Threaded, Shaken
    <2> QED BY <2>1, <2>2 DEF Untold
  <1>5. Rendering'
    BY <1>0, <1>2, <1>4 DEF Rendering
  <1>6. Ordered'
    BY <1>2 DEF Ordered
  <1> QED BY <1>3, <1>5, <1>6 DEF FlowInv

-----------------------------------------------------------------------------
(* The threads keep the order                                              *)

LEMMA PollFlow ==
  ASSUME Good, FlowInv, NEW t \in Threads, Poll(t)
  PROVE  FlowInv'
  <1>0. PlainOK /\ A \in Threads
    BY TypesApart, Counted DEF Good, PlayerInv
  <1>1. /\ at[t] = "poll" /\ UNCHANGED <<caller, res, thread, q, stream>>
        /\ \A u \in Threads : u # t => at'[u] = at[u]
        /\ at'[t] \in {"leave", "read"}
    BY <1>0 DEF Poll, PlainOK
  <1>2. Numbered'
    BY <1>1 DEF FlowInv, Numbered
  <1>3. Rendering'
    BY <1>0, <1>1 DEF FlowInv, Rendering, Resetting
  <1>4. \A u \in Threads : InUse(u)' = InUse(u)
    BY <1>1 DEF InUse
  <1> QED BY <1>1, <1>2, <1>3, <1>4, WayKept DEF FlowInv, Threads

LEMMA LeaveFlow ==
  ASSUME Good, FlowInv, NEW t \in Threads, Leave(t)
  PROVE  FlowInv'
  <1>0. PlainOK /\ Placed /\ A \in Threads /\ R \in Threads /\ (t = A \/ t = R)
    BY TypesApart, Counted DEF Good, PlayerInv
  <1>1. /\ at[t] = "leave" /\ UNCHANGED <<caller, res, q, stream>>
        /\ \A u \in Threads : u # t => at'[u] = at[u] /\ thread'[u] = thread[u]
        /\ at'[t] = "consume"
    BY <1>0 DEF Leave, PlainOK
  <1>2. Numbered'
    BY <1>1 DEF FlowInv, Numbered
  <1>3. ~Resetting => t # R
    BY <1>1, RenderStays DEF Untold, Working
  <1>4. Rendering'
    BY <1>0, <1>1, <1>3 DEF FlowInv, Rendering, Resetting
  <1>5. lock # "free"
    BY <1>0, <1>1, BothStay DEF Untold, Working
  <1> QED BY <1>1, <1>2, <1>4, <1>5 DEF FlowInv, Ordered

LEMMA ReportFlow ==
  ASSUME Good, FlowInv, NEW t \in Threads, Report(t)
  PROVE  FlowInv'
  <1>0. /\ PlainOK /\ Placed /\ Numbered /\ A \in Threads /\ R \in Threads /\ (t = A \/ t = R)
        /\ <<>> \in Seq(0 .. fed)
    BY TypesApart, Counted DEF Good, PlayerInv, FlowInv
  <1>1. /\ at[t] = "consume" /\ UNCHANGED <<caller, res, thread, stream>>
        /\ q' = [q EXCEPT ![t] = <<>>]
        /\ \A u \in Threads : u # t => at'[u] = at[u] /\ q'[u] = q[u]
        /\ at'[t] = "none"
    BY <1>0 DEF Report, PlainOK
  <1>2. Numbered'
    BY <1>0, <1>1, NumberedKept
  <1>3. ~Resetting => t # R
    BY <1>1, RenderStays DEF Untold, Working
  <1>4. Rendering'
    BY <1>0, <1>1, <1>3 DEF FlowInv, Rendering, Resetting
  <1>5. lock # "free"
    BY <1>0, <1>1, BothStay DEF Untold, Working
  <1> QED BY <1>1, <1>2, <1>4, <1>5 DEF FlowInv, Ordered

LEMMA ReleaseFlow ==
  ASSUME Good, FlowInv, NEW t \in Threads, Release(t)
  PROVE  FlowInv'
  <1>0. /\ PlainOK /\ Loaded(t) /\ Numbered /\ A \in Threads /\ R \in Threads
    BY TypesApart, Counted, Apart2 DEF Good, PlayerInv, FlowInv, Release
  <1>1. /\ at[t] = "release" /\ UNCHANGED <<caller, res, thread, stream>>
        /\ q' = [q EXCEPT ![t] = Tail(q[t])]
        /\ \A u \in Threads : u # t => at'[u] = at[u] /\ q'[u] = q[u]
        /\ at'[t] = "poll" /\ q'[t] = Tail(q[t])
    BY <1>0 DEF Release, PlainOK
  <1>2. Tail(q[t]) \in Seq(0 .. fed) /\ q[t] # <<>>
    BY <1>0, <1>1, HeadTailProperties DEF Numbered, Loaded
  <1>3. Numbered'
    BY <1>0, <1>1, <1>2, NumberedKept
  <1>4. Rendering'
    BY <1>0, <1>1, <1>2 DEF FlowInv, Rendering, Resetting
  <1>5. \A u \in Threads : InUse(u)' = InUse(u)
    BY <1>1, <1>2 DEF InUse
  <1> QED BY <1>1, <1>3, <1>4, <1>5, WayKept DEF FlowInv, Threads

\* The frame the decoder has in hand: a packet, numbered like the others.
LEMMA InHand ==
  ASSUME Good, FlowInv, NEW t \in Threads, at[t] \in {"work", "forward", "pass"}
  PROVE  /\ PlainOK /\ Numbered /\ Loaded(t) /\ q[t] # <<>> /\ Head(q[t]) \in 1 .. fed
         /\ InUse(t) = q[t] /\ q[t] \in Seq(Nat) /\ played \in Seq(Nat) /\ Flight \in Seq(Nat)
  <1>1. PlainOK /\ Loaded(t) /\ Numbered
    BY Apart2 DEF FlowInv
  <1>2. q[t] \in Seq(0 .. fed) /\ q[t] # <<>> /\ Head(q[t]) # 0 /\ fed \in Nat
    BY <1>1, Counted DEF Loaded, Numbered, Dummy
  <1>3. Head(q[t]) \in 1 .. fed
    BY <1>2
  <1> QED BY <1>1, <1>2, <1>3, Carried

\* A dummy belongs to no stream.
LEMMA NoDummy ==
  ASSUME since \in Nat, NEW w, NEW gone, InOrder(w, gone \cup {0})
  PROVE  InOrder(w, gone)
  <1>1. (since + 1 .. fed) \ (gone \cup {0}) = (since + 1 .. fed) \ gone
    OBVIOUS
  <1> QED BY <1>1 DEF InOrder

\* What is at the head of a queue is released without being handed on: a dummy, or a packet
\* that a failing call has thrown away.
LEMMA Thrown ==
  ASSUME Good, FlowInv, NEW t \in Threads, at[t] \in {"read", "work", "forward"}, q[t] # <<>>,
         UNCHANGED <<caller, res, q, played, fed, since>>,
         at'[t] = "release", \A u \in Threads : u # t => at'[u] = at[u],
         lost' = lost \cup {Head(q[t])} \/ (lost' = lost /\ Head(q[t]) = 0)
  PROVE  Ordered'
  <1>0. /\ PlainOK /\ Loaded(t) /\ Numbered /\ A = "adec" /\ R = "arender"
        /\ Loaded("adec") /\ Loaded("arender") /\ "adec" \in Threads /\ "arender" \in Threads
        /\ t = "adec" \/ t = "arender"
        /\ fed \in Nat /\ since \in Nat
    BY TypesApart, Counted DEF Good, PlayerInv, FlowInv, Threaded, Threads
  <1> SUFFICES ASSUME lock = "free", res PROVE InOrder(OnTheWay \o Flight, lost)'
    BY DEF Ordered
  <1>1. InOrder(OnTheWay \o Flight, lost) /\ Flight' = Flight
    BY DEF FlowInv, Ordered, Flight
  <1>2. /\ InUse("adec") \in Seq(Nat) /\ InUse("arender") \in Seq(Nat)
        /\ played \in Seq(Nat) /\ Flight \in Seq(Nat)
    BY <1>0, Carried
  <1>3. /\ InUse(t) = q[t] /\ q[t] \in Seq(Nat)
    BY <1>0, Carried
  <1> DEFINE b == Tail(q[t])
             d == << Head(q[t]) >>
             x == IF t = "adec" THEN played \o InUse("arender") ELSE played
             y == IF t = "adec" THEN b \o Flight ELSE b \o (InUse("adec") \o Flight)
  <1>4. /\ InUse(t)' = b /\ b \in Seq(Nat) /\ q[t] = d \o b /\ d \in Seq(Nat)
        /\ Head(q[t]) \in Nat
    <2>1. InUse(t)' = b
      BY DEF InUse
    <2> QED BY <1>3, <2>1, Behead
  <1>5. \A u \in Threads : u # t => InUse(u)' = InUse(u)
    BY DEF InUse
  <1>d. d = << Head(q[t]) >>
    OBVIOUS
  <1>x. /\ t = "adec" => x = played \o InUse("arender") /\ y = b \o Flight
        /\ t = "arender" => x = played /\ y = b \o (InUse("adec") \o Flight)
    OBVIOUS
  <1> HIDE DEF b, d, x, y
  <1>6. /\ x \in Seq(Nat) /\ y \in Seq(Nat)
        /\ OnTheWay \o Flight = x \o (d \o y) /\ (OnTheWay \o Flight)' = x \o y
    <2>1. CASE t = "adec"
      <3>1. x \in Seq(Nat) /\ y \in Seq(Nat)
        <4>1. played \o InUse("arender") \in Seq(Nat)
          BY <1>2, ConcatProperties
        <4>2. b \o Flight \in Seq(Nat)
          BY <1>2, <1>4, ConcatProperties
        <4> QED BY <1>x, <2>1, <4>1, <4>2
      <3>2. OnTheWay = x \o (d \o b) /\ OnTheWay' = x \o b
        BY <1>0, <1>3, <1>4, <1>5, <1>x, <2>1 DEF OnTheWay
      <3>3. (x \o (d \o b)) \o Flight = x \o (d \o (b \o Flight))
        <4>1. Glue(Glue(x, Glue(d, b)), Flight) = Glue(x, Glue(d, Glue(b, Flight)))
          BY <1>2, <1>4, <3>1, Parted
        <4> QED BY <4>1 DEF Glue
      <3>4. (x \o b) \o Flight = x \o (b \o Flight)
        <4>1. Glue(Glue(x, b), Flight) = Glue(x, Glue(b, Flight))
          BY <1>2, <1>4, <3>1, Parted
        <4> QED BY <4>1 DEF Glue
      <3> QED BY <1>1, <1>x, <2>1, <3>1, <3>2, <3>3, <3>4
    <2>2. CASE t = "arender"
      <3> DEFINE a == InUse("adec")
      <3>1. a \in Seq(Nat) /\ a \o Flight \in Seq(Nat) /\ x = played
        BY <1>2, <1>x, <2>2, Joined
      <3>2. OnTheWay = (x \o (d \o b)) \o a /\ OnTheWay' = (x \o b) \o a
        BY <1>0, <1>3, <1>4, <1>5, <2>2, <3>1 DEF OnTheWay
      <3>a. y = b \o (a \o Flight)
        BY <1>x, <2>2
      <3> HIDE DEF a
      <3>3. y \in Seq(Nat) /\ x \in Seq(Nat)
        BY <1>2, <1>4, <3>1, <3>a, Joined
      <3>f. /\ x \in Seq(Nat) /\ d \in Seq(Nat) /\ b \in Seq(Nat)
            /\ a \in Seq(Nat) /\ Flight \in Seq(Nat)
        BY <1>2, <1>4, <3>1, <3>3
      <3>4. ((x \o (d \o b)) \o a) \o Flight = x \o (d \o (b \o (a \o Flight)))
        <4>1. Glue(Glue(Glue(x, Glue(d, b)), a), Flight)
                = Glue(x, Glue(d, Glue(b, Glue(a, Flight))))
          BY <3>f, PartedTwice
        <4> QED BY <4>1 DEF Glue
      <3>5. ((x \o b) \o a) \o Flight = x \o (b \o (a \o Flight))
        <4>1. Glue(Glue(Glue(x, b), a), Flight) = Glue(x, Glue(b, Glue(a, Flight)))
          BY <3>f, PartedTwice
        <4> QED BY <4>1 DEF Glue
      <3> QED BY <1>1, <3>2, <3>3, <3>4, <3>5, <3>a
    <2> QED BY <1>0, <2>1, <2>2
  <1>7. InOrder(x \o y, lost \cup {Head(q[t])})
    BY <1>0, <1>1, <1>4, <1>6, <1>d, LeftOut
  <1>8. InOrder(x \o y, lost')
    BY <1>0, <1>7, NoDummy
  <1> QED BY <1>6, <1>8 DEF InOrder

LEMMA DecodeFlow ==
  ASSUME Good, FlowInv, Decode
  PROVE  FlowInv'
  <1>0. /\ PlainOK /\ A = "adec" /\ R = "arender" /\ "adec" \in Threads
        /\ at["adec"] = "work" /\ UNCHANGED <<caller, res, q, played, fed, since>>
    BY TypesApart, Counted DEF Good, PlayerInv, Decode
  <1>1. CASE Drops("adec") /\ UNCHANGED thread
    <2>1. /\ at'["adec"] = "release" /\ lost' = lost \cup {Head(q["adec"])}
          /\ \A u \in Threads : u # "adec" => at'[u] = at[u]
      BY <1>0, <1>1 DEF Drops, PlainOK
    <2>2. q["adec"] # <<>> /\ Head(q["adec"]) \in 1 .. fed
      BY <1>0, InHand
    <2>3. Numbered'
      BY <1>0, <2>1, <2>2 DEF FlowInv, Numbered
    <2>4. Rendering'
      BY <1>0, <1>1, <2>1 DEF FlowInv, Rendering, Resetting
    <2>5. Ordered'
      BY <1>0, <2>1, <2>2, Thrown
    <2> QED BY <2>3, <2>4, <2>5 DEF FlowInv
  <1>2. CASE /\ UNCHANGED lost /\ at'["adec"] = "forward"
             /\ \/ ~thread["arender"] /\ at'["arender"] = "poll" /\ thread'["arender"]
                \/ at'["arender"] = at["arender"] /\ thread' = thread
    <2>1. Numbered'
      BY <1>0, <1>2 DEF FlowInv, Numbered
    <2>2. Rendering'
      BY <1>0, <1>2 DEF FlowInv, Rendering, Resetting
    <2>3. CASE at'["arender"] = at["arender"]
      <3>1. \A u \in Threads : InUse(u)' = InUse(u)
        BY <1>0, <1>2, <2>3 DEF InUse, Threads
      <3> QED BY <1>0, <1>2, <2>1, <2>2, <3>1, WayKept DEF FlowInv, Threads
    <2>4. CASE ~thread["arender"] /\ at'["arender"] = "poll"
      <3>1. CASE lock = "free"
        <4>1. at["arender"] = "none"
          BY <1>0, <2>4, <3>1, BothStay DEF Untold
        <4>2. \A u \in Threads : InUse(u)' = InUse(u)
          BY <1>0, <1>2, <2>4, <4>1 DEF InUse, Threads
        <4> QED BY <1>0, <1>2, <2>1, <2>2, <4>2, WayKept DEF FlowInv, Threads
      <3>2. CASE lock # "free"
        BY <1>0, <2>1, <2>2, <3>2 DEF FlowInv, Ordered
      <3> QED BY <3>1, <3>2
    <2> QED BY <1>2, <2>3, <2>4
  <1> QED BY <1>0, <1>1, <1>2 DEF Decode, PlainOK, Threads

LEMMA ForwardFlow ==
  ASSUME Good, FlowInv, Forward
  PROVE  FlowInv'
  <1>0. /\ A = "adec" /\ R = "arender" /\ "adec" \in Threads /\ "arender" \in Threads /\ PlainOK
        /\ Loaded("arender") /\ Placed
    BY TypesApart, Counted DEF Good, PlayerInv, Threaded, Threads
  <1>1. /\ at["adec"] = "forward" /\ UNCHANGED <<caller, res, thread, q, fed, since>>
        /\ at'["arender"] = at["arender"]
        /\ \/ thread["arender"] /\ at'["adec"] = "pass" /\ played' = played /\ lost' = lost
           \/ /\ ~thread["arender"] /\ at'["adec"] = "release"
              /\ played' = Append(played, Head(q["adec"])) /\ lost' = lost
           \/ /\ at'["adec"] = "release" /\ played' = played
              /\ lost' = lost \cup {Head(q["adec"])}
    BY <1>0 DEF Forward, Drops, PlainOK, Threads
  <1>2. /\ Numbered /\ q["adec"] # <<>> /\ Head(q["adec"]) \in 1 .. fed
        /\ InUse("adec") = q["adec"] /\ q["adec"] \in Seq(Nat) /\ played \in Seq(Nat)
    BY <1>0, <1>1, InHand
  <1>3. Numbered'
    <2>1. Append(played, Head(q["adec"])) \in Seq(1 .. fed)
      BY <1>2 DEF Numbered
    <2> QED BY <1>1, <1>2, <2>1 DEF Numbered
  <1>4. Rendering'
    BY <1>0, <1>1 DEF FlowInv, Rendering, Resetting
  <1>5. InUse("arender")' = InUse("arender")
    BY <1>1 DEF InUse
  <1>8. CASE at'["adec"] = "release" /\ played' = played /\ lost' = lost \cup {Head(q["adec"])}
    <2>1. \A u \in Threads : u # "adec" => at'[u] = at[u]
      BY <1>1 DEF Threads
    <2>2. Ordered'
      BY <1>0, <1>1, <1>2, <1>8, <2>1, Thrown
    <2> QED BY <1>3, <1>4, <2>2 DEF FlowInv
  <1>6. CASE thread["arender"] /\ at'["adec"] = "pass" /\ played' = played /\ lost' = lost
    <2>1. InUse("adec")' = InUse("adec")
      BY <1>1, <1>6 DEF InUse
    <2> QED BY <1>1, <1>3, <1>4, <1>5, <1>6, <2>1, WayKept DEF FlowInv
  <1>7. CASE /\ ~thread["arender"] /\ at'["adec"] = "release"
             /\ played' = Append(played, Head(q["adec"])) /\ lost' = lost
    <2>1. Ordered'
      <3> SUFFICES ASSUME lock = "free", res PROVE InOrder(OnTheWay \o Flight, lost)'
        BY <1>1 DEF Ordered
      <3>1. InOrder(OnTheWay \o Flight, lost) /\ Flight' = Flight
        BY <1>1 DEF FlowInv, Ordered, Flight
      <3>2. InUse("arender") = <<>>
        BY <1>0, <1>7, HolderResets DEF FlowInv, Rendering, InUse
      <3>3. InUse("adec")' = Tail(q["adec"])
        BY <1>1, <1>2, <1>7 DEF InUse
      <3>4. played' \in Seq(Nat) /\ Tail(q["adec"]) \in Seq(Nat)
        BY <1>2, <1>7, Behead, Behind
      <3>5. played' \o <<>> = played' /\ played \o <<>> = played
        BY <1>2, <3>4, Joined
      <3>6. played' \o Tail(q["adec"]) = played \o q["adec"]
        BY <1>2, <1>7, Passed
      <3>7. OnTheWay' = OnTheWay
        BY <1>2, <1>5, <3>2, <3>3, <3>5, <3>6 DEF OnTheWay
      <3> QED BY <1>1, <1>7, <3>1, <3>7 DEF InOrder
    <2> QED BY <1>3, <1>4, <2>1 DEF FlowInv
  <1> QED BY <1>1, <1>6, <1>7, <1>8

LEMMA PlayFlow ==
  ASSUME Good, FlowInv, Play
  PROVE  FlowInv'
  <1>0. /\ A = "adec" /\ R = "arender" /\ "adec" \in Threads /\ "arender" \in Threads /\ PlainOK
    BY TypesApart, Counted DEF Good, PlayerInv, Threads
  <1>1. /\ at["arender"] = "work" /\ UNCHANGED <<caller, res, thread, q, fed, since>>
        /\ at'["adec"] = at["adec"] /\ at'["arender"] = "release"
        /\ \/ played' = Append(played, Head(q["arender"])) /\ lost' = lost
           \/ played' = played /\ lost' = lost \cup {Head(q["arender"])}
    BY <1>0 DEF Play, Drops, PlainOK
  <1>2. /\ Numbered /\ q["arender"] # <<>> /\ Head(q["arender"]) \in 1 .. fed
        /\ InUse("arender") = q["arender"] /\ q["arender"] \in Seq(Nat) /\ played \in Seq(Nat)
    BY <1>0, <1>1, InHand
  <1>3. Numbered'
    <2>1. Append(played, Head(q["arender"])) \in Seq(1 .. fed)
      BY <1>2 DEF Numbered
    <2> QED BY <1>1, <1>2, <2>1 DEF Numbered
  <1>4. Rendering'
    BY <1>0, <1>1 DEF FlowInv, Rendering, Resetting
  <1>5. CASE played' = Append(played, Head(q["arender"])) /\ lost' = lost
    <2>1. InUse("adec")' = InUse("adec") /\ InUse("arender")' = Tail(q["arender"])
      BY <1>1, <1>2 DEF InUse
    <2>2. played' \o Tail(q["arender"]) = played \o q["arender"]
      BY <1>2, <1>5, Passed
    <2>3. OnTheWay' = OnTheWay /\ Flight' = Flight
      BY <1>1, <1>2, <2>1, <2>2 DEF OnTheWay, Flight
    <2>4. Ordered'
      BY <1>1, <1>5, <2>3 DEF FlowInv, Ordered, InOrder
    <2> QED BY <1>3, <1>4, <2>4 DEF FlowInv
  <1>6. CASE played' = played /\ lost' = lost \cup {Head(q["arender"])}
    <2>1. \A u \in Threads : u # "arender" => at'[u] = at[u]
      BY <1>1 DEF Threads
    <2>2. Ordered'
      BY <1>0, <1>1, <1>2, <1>6, <2>1, Thrown
    <2> QED BY <1>3, <1>4, <2>2 DEF FlowInv
  <1> QED BY <1>1, <1>5, <1>6

LEMMA PassFlow ==
  ASSUME Good, FlowInv, Pass
  PROVE  FlowInv'
  <1>0. /\ A = "adec" /\ R = "arender" /\ "adec" \in Threads /\ "arender" \in Threads /\ PlainOK
        /\ Loaded("arender")
    BY TypesApart, Counted DEF Good, PlayerInv, Threaded, Threads
  <1>1. /\ at["adec"] = "pass" /\ UNCHANGED <<caller, res, thread, fed, since, played, lost>>
        /\ at'["adec"] = "release" /\ at'["arender"] = at["arender"]
        /\ q' = [q EXCEPT !["arender"] = Append(q["arender"], Head(q["adec"]))]
    BY <1>0 DEF Pass, PlainOK
  <1>2. /\ Numbered /\ q["adec"] # <<>> /\ Head(q["adec"]) \in 1 .. fed
        /\ InUse("adec") = q["adec"] /\ q["adec"] \in Seq(Nat) /\ played \in Seq(Nat)
    BY <1>0, <1>1, InHand
  <1>3. /\ q["arender"] \in Seq(Nat) /\ InUse("arender") \in Seq(Nat)
        /\ at["arender"] = "release" => q["arender"] # <<>> /\ InUse("arender") = Tail(q["arender"])
        /\ at["arender"] # "release" => InUse("arender") = q["arender"]
    BY <1>0, <1>2, Carried
  <1>4. Numbered'
    <2>1. q["arender"] \in Seq(0 .. fed) /\ Head(q["adec"]) \in 0 .. fed
      BY <1>0, <1>2, Counted DEF Numbered
    <2>2. Append(q["arender"], Head(q["adec"])) \in Seq(0 .. fed)
      BY <2>1
    <2> QED BY <1>0, <1>1, <1>2, <2>2, NumberedKept
  <1>5. /\ q'["adec"] = q["adec"]
        /\ q'["arender"] = Append(q["arender"], Head(q["adec"])) /\ q'["arender"] # <<>>
    <2>1. q'["adec"] = q["adec"] /\ q'["arender"] = Append(q["arender"], Head(q["adec"]))
      BY <1>0, <1>1, <1>2 DEF Numbered
    <2>2. Head(q["adec"]) \in Nat
      BY <1>2, Behead
    <2>3. Append(q["arender"], Head(q["adec"])) # <<>>
      BY <1>3, <2>2, Behind
    <2> QED BY <2>1, <2>3
  <1>6. Rendering'
    BY <1>0, <1>1 DEF FlowInv, Rendering, Resetting
  <1>7. InUse("adec")' = Tail(q["adec"])
    BY <1>1, <1>2, <1>5 DEF InUse
  <1>8. InUse("arender")' = Append(InUse("arender"), Head(q["adec"]))
    <2>1. CASE at["arender"] = "release"
      <3>1. Tail(Append(q["arender"], Head(q["adec"]))) = Append(Tail(q["arender"]), Head(q["adec"]))
        BY <1>3, <2>1, HeadTailAppend
      <3> QED BY <1>1, <1>3, <1>5, <2>1, <3>1 DEF InUse
    <2>2. CASE at["arender"] # "release"
      BY <1>1, <1>3, <1>5, <2>2 DEF InUse
    <2> QED BY <2>1, <2>2
  <1>9. OnTheWay' = OnTheWay
    <2> DEFINE r == InUse("arender")
               h == Head(q["adec"])
               b == Tail(q["adec"])
    <2>1. /\ r \in Seq(Nat) /\ h \in Nat /\ <<h>> \in Seq(Nat) /\ b \in Seq(Nat)
          /\ q["adec"] = <<h>> \o b /\ played \o r \in Seq(Nat)
      BY <1>2, <1>3, Behead, Joined
    <2>2. Append(r, h) = r \o <<h>> /\ Append(r, h) \in Seq(Nat)
      BY <2>1, Behind
    <2>3. OnTheWay = (played \o r) \o (<<h>> \o b)
      BY <1>2, <2>1 DEF OnTheWay
    <2>4. OnTheWay' = (played \o Append(r, h)) \o b
      BY <1>1, <1>7, <1>8 DEF OnTheWay
    <2> HIDE DEF r, h, b
    <2>5. played \o (r \o <<h>>) = (played \o r) \o <<h>>
      BY <1>2, <2>1, Regroup
    <2>6. ((played \o r) \o <<h>>) \o b = (played \o r) \o (<<h>> \o b)
      BY <2>1, Regroup
    <2> QED BY <2>2, <2>3, <2>4, <2>5, <2>6
  <1>10. Ordered'
    BY <1>1, <1>9 DEF FlowInv, Ordered, InOrder, Flight
  <1> QED BY <1>4, <1>6, <1>10 DEF FlowInv

\* A dummy is read and forgotten.
LEMMA ReadFlow ==
  ASSUME Good, FlowInv, NEW t \in Threads, Read(t)
  PROVE  FlowInv'
  <1>0. /\ PlainOK /\ Loaded(t) /\ Numbered /\ A = "adec" /\ R = "arender"
        /\ Loaded("adec") /\ Loaded("arender") /\ "adec" \in Threads /\ "arender" \in Threads
        /\ t = "adec" \/ t = "arender"
        /\ fed \in Nat /\ since \in Nat /\ since <= fed
    BY TypesApart, Counted DEF Good, PlayerInv, FlowInv, Threaded, Threads
  <1>1. /\ at[t] = "read" /\ q[t] # <<>> /\ UNCHANGED <<caller, res, thread, q, stream>>
        /\ \A u \in Threads : u # t => at'[u] = at[u]
        /\ at'[t] = IF Head(q[t]) = 0 THEN "release" ELSE "work"
    BY <1>0 DEF Read, PlainOK, Dummy
  <1>2. Numbered'
    BY <1>0, <1>1 DEF Numbered
  <1>3. Rendering'
    BY <1>0, <1>1 DEF FlowInv, Rendering, Resetting
  <1>4. \A u \in Threads : u # t => InUse(u)' = InUse(u)
    BY <1>1 DEF InUse
  <1>5. CASE Head(q[t]) # 0
    <2>1. InUse(t)' = InUse(t)
      BY <1>1, <1>5 DEF InUse
    <2> QED BY <1>0, <1>1, <1>2, <1>3, <1>4, <2>1, WayKept DEF FlowInv
  <1>6. CASE Head(q[t]) = 0
    <2>1. Ordered'
      BY <1>1, <1>6, Thrown
    <2> QED BY <1>2, <1>3, <2>1 DEF FlowInv
  <1> QED BY <1>5, <1>6

LEMMA FlowBegins == Init => FlowInv
  <1> SUFFICES ASSUME Init PROVE FlowInv
    OBVIOUS
  <1>1. Numbered
    BY DEF Init, Numbered
  <1>2. Rendering
    BY DEF Init, Rendering, A, R, Threads
  <1>3. Ordered
    BY DEF Init, Ordered
  <1> QED BY <1>1, <1>2, <1>3 DEF FlowInv

LEMMA FlowStays == PlayerInv /\ FlowInv /\ [Next]_vars => FlowInv'
  <1> SUFFICES ASSUME PlayerInv, FlowInv, [Next]_vars PROVE FlowInv'
    OBVIOUS
  <1>1. CASE UNCHANGED vars
    <2>1. Numbered' /\ Rendering'
      BY <1>1 DEF FlowInv, Numbered, Rendering, Resetting
    <2>2. InUse("adec")' = InUse("adec") /\ InUse("arender")' = InUse("arender")
      BY <1>1 DEF InUse
    <2> QED BY <1>1, <2>1, <2>2, WayKept DEF FlowInv
  <1>2. CASE Next
    <2>1. Good
      BY <1>2 DEF Next, Good
    <2>2. CASE AddStream \/ \E c \in Callers : Reset(c)
      <3>1. StreamSteps = S1 /\ ResetSteps = R1
        BY DEF StreamSteps, ResetSteps, S1, R1, A, R
      <3> QED BY <2>1, <2>2, <3>1, CallFlow DEF AddStream, Reset, Callers
    <2>3. CASE AddData
      BY <2>1, <2>3, AddDataFlow
    <2>4. ASSUME NEW c \in Callers, CallerStep(c) PROVE FlowInv'
      BY <2>1, <2>4, PutFlow, TellFlow, WakeFlow, JoinFlow, OpenFlow, FreeFlow DEF CallerStep
    <2>5. ASSUME NEW t \in Threads, ThreadStep(t) PROVE FlowInv'
      <3>1. CASE Poll(t) \/ Read(t) \/ Release(t) \/ Leave(t) \/ Report(t)
        BY <2>1, <3>1, PollFlow, ReadFlow, ReleaseFlow, LeaveFlow, ReportFlow
      <3>2. CASE Decode \/ Forward \/ Pass \/ Play
        BY <2>1, <3>2, DecodeFlow, ForwardFlow, PassFlow, PlayFlow
      <3> QED BY <2>5, <3>1, <3>2 DEF ThreadStep
    <2> QED BY <1>2, <2>2, <2>3, <2>4, <2>5 DEF Next
  <1> QED BY <1>1, <1>2

\* While nobody resets the player, every packet of the stream that no failing call has thrown
\* away is played, once and in order, and none that one has; for all sizes of the queues,
\* every set of faults and whether ARender plays it, Adec itself, or first one and
\* then the other: what waits for ARender is never overtaken.
THEOREM InOrderAlways == Spec => []PlayedInOrder
  <1>1. PlayerInv /\ FlowInv => PlayedInOrder
    <2> SUFFICES ASSUME PlayerInv, FlowInv, res, Quiet PROVE InOrder(OnTheWay, lost)
      BY DEF PlayedInOrder
    <2>1. PlainOK /\ Placed /\ Numbered
      BY TypesApart DEF PlayerInv, FlowInv
    <2>2. lock = "free"
      <3>1. \A c \in Callers : lock # c
        BY <2>1, Heads DEF Quiet, Placed, Shapes
      <3> QED BY <2>1, <3>1 DEF PlainOK
    <2>3. Flight = <<>>
      BY Heads DEF Quiet, Flight, Callers
    <2>4. Threaded
      BY DEF PlayerInv, Sound
    <2>5. OnTheWay \in Seq(Nat)
      <3>1. InUse("adec") \in Seq(Nat) /\ InUse("arender") \in Seq(Nat) /\ played \in Seq(Nat)
        BY <2>1, <2>4, Carried DEF Threaded, Threads
      <3> QED BY <3>1, Joined DEF OnTheWay
    <2> QED BY <2>2, <2>3, <2>5, Joined DEF FlowInv, Ordered
  <1> QED BY <1>1, InvBegins, InvStays, FlowBegins, FlowStays, PTL DEF Spec
=============================================================================
