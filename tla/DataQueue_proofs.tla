-------------------------- MODULE DataQueue_proofs --------------------------
(***************************************************************************)
(* The data queue for every size of the ring and of the header, any set of *)
(* requests and any number of frames: its positions and its accounting     *)
(* stay consistent, a buffer that is handed out overlaps no frame, nobody  *)
(* misses a wake-up, data_queue_get_available never promises too much, and *)
(* the ring implements FrameFifo.                                          *)
(***************************************************************************)
EXTENDS DataQueue, SequenceTheorems, WellFoundedInduction, TLAPS

\* The two shapes of the ring: [0 rp wp size] and [0 wp rp fill_end size].
Positions ==
  /\ fill_end = 0 => rp <= wp
  /\ fill_end # 0 => wp <= rp /\ rp < fill_end

\* Where the run of frames that holds offset o ends.
RunEnd(o) == IF fill_end # 0 /\ o >= rp THEN fill_end ELSE wp

\* S is a set of frame headers that tiles the live bytes: every header's
\* length leads to another header or to the end of its run.
Tiles(S) ==
  /\ \A o \in S :
        /\ Live(o) /\ mem[o].len >= 1
        /\ o + mem[o].len <= RunEnd(o)
        /\ o + mem[o].len = RunEnd(o) \/ o + mem[o].len \in S
  /\ Live(rp) => rp \in S
  /\ fill_end # 0 /\ wp > 0 => 0 \in S

Tiled == \E S \in SUBSET Offsets : Tiles(S)

Used == IF fill_end = 0 THEN wp - rp ELSE fill_end - rp + wp

\* What is in the ring is unread or in the reader's hands.
Accounting ==
  /\ rpc = "reading" => got = rp /\ Live(rp) /\ Used = filled + mem[rp].len
  /\ rpc # "reading" => Used = filled

\* What the writer has reserved is there.
Granted ==
  /\ wpc # "idle" => want >= 1 /\ sent < MaxFrames
  /\ wpc = "filling" => Available(wp, rp, fill_end) >= want

\* The count of users is the number of threads inside.
Users ==
  user = (IF wpc = "idle" THEN 0 ELSE 1) + (IF rpc = "idle" THEN 0 ELSE 1)

IInv == TypeOK /\ Positions /\ Tiled /\ Accounting /\ Granted /\ Users /\ NoLostWakeup
-----------------------------------------------------------------------------
(* Facts about one state                                                   *)

USE SizeAssumption, HeadAssumption, RequestsAssumption, FramesAssumption
USE DEF Offsets, Frames, NoFrame, ring, bits, writer, reader

\* The reader finds the oldest frame: the position computed from filled and
\* wp is the read position.
LEMMA ReadsOldest ==
  ASSUME TypeOK, Positions, Accounting, rpc # "reading", filled # 0
  PROVE  ReadPos = rp /\ Live(rp)
BY DEF TypeOK, Positions, Accounting, Used, ReadPos, Live

\* Live bytes lie in the ring, and the write position is not one of them
\* while there is room.
LEMMA LiveBounds ==
  ASSUME TypeOK, Positions
  PROVE  /\ \A o \in Int : Live(o) => o < Size
         /\ Available(wp, rp, fill_end) >= 1 => ~Live(wp)
         /\ Available(wp, rp, fill_end) \in 0 .. Size
         /\ wp + Available(wp, rp, fill_end) <= Size
         /\ HaveData <=> Live(rp)
BY DEF TypeOK, Positions, Live, Available, HaveData

\* No frame lies in the free bytes behind the write position.
LEMMA FreeIsFree ==
  ASSUME TypeOK, Positions, NEW o \in Int, wp <= o, o < wp + Available(wp, rp, fill_end)
  PROVE  o \in Offsets /\ ~Live(o)
BY DEF TypeOK, Positions, Live, Available

\* The frame at the read position ends inside its run.
LEMMA HeadFrame ==
  ASSUME TypeOK, Positions, Tiled, Live(rp)
  PROVE  /\ rp \in Offsets /\ mem[rp].len \in 1 .. Size
         /\ rp + mem[rp].len <= RunEnd(rp)
         /\ mem[rp].len <= Used
BY DEF TypeOK, Positions, Tiled, Tiles, Live, RunEnd, Used
-----------------------------------------------------------------------------
(* What the sections under the lock do to the ring                         *)

\* What a writer does who looks for room: the live bytes stay what they are.
LEMMA AttemptKeeps ==
  ASSUME TypeOK, Positions, NEW n \in 1 .. Size, NEW u, Attempt(n, u)
  PROVE  /\ wp' = Placed(n).w /\ rp' = Placed(n).r /\ fill_end' = Placed(n).e
         /\ \A o \in Offsets : Live(o)' <=> Live(o)
         /\ \A o \in Offsets : Live(o) => mem'[o] = mem[o]
         /\ \A o \in Offsets : mem'[o] = mem[o] \/ mem'[o] = Junk
         /\ mem' \in [Offsets -> [len : 0 .. Size, frame : 0 .. MaxFrames]]
<1> DEFINE p == Placed(n)
           cut == [o \in Offsets |-> IF o >= p.w /\ o < p.w + n THEN Junk ELSE mem[o]]
<1>1. /\ wp' = p.w /\ rp' = p.r /\ fill_end' = p.e /\ user' = u + 1
      /\ \/ Fits(n) /\ wpc' = "filling" /\ mem' = cut
         \/ ~Fits(n) /\ wpc' = "wait" /\ mem' = mem
  BY DEF Attempt
<1>2. Fits(n) <=> Available(p.w, p.r, p.e) >= n
  BY DEF Fits
<1>3. /\ p.w \in 0 .. Size /\ p.r \in 0 .. Size /\ p.e \in 0 .. Size
      /\ p.e = 0 => p.r <= p.w
      /\ p.e # 0 => p.w <= p.r /\ p.r < p.e
  BY DEF TypeOK, Positions, Placed, Wraps, HaveData
<1>4. \A o \in Offsets : Live(o)' <=> Live(o)
  <2>1. CASE ~Wraps(n)
    BY <1>1, <2>1 DEF Live, Placed
  <2>2. CASE Wraps(n)
    BY <1>1, <2>2 DEF Live, Placed, Wraps, HaveData, TypeOK, Positions
  <2> QED BY <2>1, <2>2
<1>5. \A o \in Offsets : Live(o) => mem'[o] = mem[o]
  <2>1. CASE Fits(n)
    <3>1. ASSUME NEW o \in Offsets, o >= p.w, o < p.w + n  PROVE ~Live(o)'
      BY <1>1, <1>2, <1>3, <2>1, <3>1 DEF Live, Available
    <3> QED BY <1>1, <1>4, <2>1, <3>1
  <2>2. CASE ~Fits(n)
    BY <1>1, <2>2
  <2> QED BY <2>1, <2>2
<1>6. mem' \in [Offsets -> [len : 0 .. Size, frame : 0 .. MaxFrames]]
  <2>1. Junk \in [len : 0 .. Size, frame : 0 .. MaxFrames]
    BY DEF Junk
  <2> QED BY <1>1, <2>1 DEF TypeOK
<1>7. \A o \in Offsets : mem'[o] = mem[o] \/ mem'[o] = Junk
  BY <1>1
<1> QED BY <1>1, <1>4, <1>5, <1>6, <1>7

\* Looking for n bytes moves the positions, never the frames, and a writer
\* that goes to sleep does so because the ring really has no room.
LEMMA AttemptRing ==
  ASSUME TypeOK, Positions, Tiled, Accounting,
         NEW n \in 1 .. Size, NEW u, Attempt(n, u), UNCHANGED <<filled, rpc, got>>
  PROVE  /\ wp' \in 0 .. Size /\ rp' \in 0 .. Size /\ fill_end' \in 0 .. Size
         /\ mem' \in [Offsets -> [len : 0 .. Size, frame : 0 .. MaxFrames]]
         /\ Positions' /\ Tiled' /\ Accounting'
         /\ wpc' \in {"filling", "wait"} /\ user' = u + 1
         /\ wpc' = "filling" => Available(wp, rp, fill_end)' >= n
         /\ wpc' = "wait" => ~Fits(n)'
<1> DEFINE p == Placed(n)
           cut == [o \in Offsets |-> IF o >= p.w /\ o < p.w + n THEN Junk ELSE mem[o]]
<1>1. /\ wp' = p.w /\ rp' = p.r /\ fill_end' = p.e /\ user' = u + 1
      /\ \/ Fits(n) /\ wpc' = "filling" /\ mem' = cut
         \/ ~Fits(n) /\ wpc' = "wait" /\ mem' = mem
  BY DEF Attempt
<1>2. Fits(n) <=> Available(p.w, p.r, p.e) >= n
  BY DEF Fits
<1>3. /\ p.w \in 0 .. Size /\ p.r \in 0 .. Size /\ p.e \in 0 .. Size
      /\ p.e = 0 => p.r <= p.w
      /\ p.e # 0 => p.w <= p.r /\ p.r < p.e
  BY DEF TypeOK, Positions, Placed, Wraps, HaveData
<1>4. \A o \in Offsets : Live(o)' <=> Live(o)
  BY AttemptKeeps
<1>5. \A o \in Offsets : Live(o) => mem'[o] = mem[o]
  BY AttemptKeeps
<1>6. mem' \in [Offsets -> [len : 0 .. Size, frame : 0 .. MaxFrames]]
  BY AttemptKeeps
<1>7. Tiled'
  <2>1. PICK S \in SUBSET Offsets : Tiles(S)
    BY DEF Tiled
  <2>2. \A o \in S : RunEnd(o)' = RunEnd(o)
    <3>1. CASE ~Wraps(n)
      BY <1>1, <3>1 DEF RunEnd, Placed
    <3>2. CASE Wraps(n)
      BY <1>1, <2>1, <3>2 DEF RunEnd, Placed, Wraps, HaveData, TypeOK, Positions, Tiles, Live
    <3> QED BY <3>1, <3>2
  <2>3. Live(rp)' => rp' \in S
    BY <1>1, <2>1 DEF Tiles, Placed, Wraps, HaveData, TypeOK, Positions, Live
  <2>4. fill_end' # 0 /\ wp' > 0 => 0 \in S
    BY <1>1, <2>1 DEF Tiles, Placed, Wraps, HaveData, TypeOK, Positions
  <2>5. Tiles(S)'
    BY <1>4, <1>5, <2>1, <2>2, <2>3, <2>4 DEF Tiles
  <2> QED BY <2>5 DEF Tiled
<1>8. Used' = Used
  BY <1>1 DEF Used, Placed, Wraps, HaveData, TypeOK, Positions
<1>9. Accounting'
  <2>1. CASE rpc = "reading"
    <3>1. rp' = rp
      BY <1>1, <2>1 DEF Placed, Wraps, HaveData, Accounting, Live, TypeOK, Positions
    <3>2. rp \in Offsets
      BY <2>1, LiveBounds DEF Accounting, TypeOK
    <3> QED BY <1>4, <1>5, <1>8, <2>1, <3>1, <3>2 DEF Accounting
  <2>2. CASE rpc # "reading"
    BY <1>8, <2>2 DEF Accounting
  <2> QED BY <2>1, <2>2
<1>10. wpc' = "wait" => ~Fits(n)'
  BY <1>1, <1>2 DEF Fits, Placed, Wraps, HaveData, Available, TypeOK, Positions
<1> QED
  BY <1>1, <1>2, <1>3, <1>6, <1>7, <1>9, <1>10 DEF Positions

\* What a writer does who sends: the header goes to free bytes.
LEMMA SendKeeps ==
  ASSUME TypeOK, Positions, Granted, NEW n \in Requests, SendBuffer(n)
  PROVE  /\ n + HeadSize \in 1 .. Size /\ n + HeadSize <= want
         /\ wpc = "filling" /\ Available(wp, rp, fill_end) >= n + HeadSize
         /\ sent < MaxFrames /\ sent + 1 \in Frames /\ sent' = sent + 1
         /\ filled' = filled + (n + HeadSize) /\ arrive' = TRUE
         /\ mem' = [mem EXCEPT ![wp] = [len |-> n + HeadSize, frame |-> sent + 1]]
         /\ wp' = wp + (n + HeadSize) /\ wp' \in 0 .. Size
         /\ wp \in Offsets /\ ~Live(wp)
         /\ UNCHANGED <<rp, fill_end, reader>>
<1> DEFINE m == n + HeadSize
<1>1. n \in Nat \ {0} /\ m \in Nat /\ m >= 1
  OBVIOUS
<1>2. wpc = "filling" /\ m <= want /\ want \in 0 .. Size /\ m \in 1 .. Size
  BY <1>1 DEF SendBuffer, TypeOK
<1>3. sent < MaxFrames /\ Available(wp, rp, fill_end) >= m
  BY <1>2, LiveBounds DEF Granted
<1>4. ~(Available(wp, rp, fill_end) < m)
  BY <1>2, <1>3, LiveBounds
<1>5. wp \in Int /\ filled \in Int /\ sent \in 0 .. MaxFrames
  BY DEF TypeOK
<1>6. /\ mem' = [mem EXCEPT ![wp] = [len |-> m, frame |-> sent + 1]]
      /\ wp' = wp + m /\ filled' = filled + m /\ sent' = sent + 1
      /\ arrive' = TRUE /\ UNCHANGED <<rp, fill_end, reader>>
  BY <1>1, <1>4, <1>5 DEF SendBuffer
<1>7. wp \in Offsets /\ ~Live(wp) /\ wp' \in 0 .. Size
  BY <1>2, <1>3, <1>6 DEF Available, Live, TypeOK, Positions
<1> QED BY <1>2, <1>3, <1>5, <1>6, <1>7

\* A frame that is sent becomes the last tile of its run.
LEMMA SendRing ==
  ASSUME TypeOK, Positions, Tiled, Accounting, Granted,
         NEW n \in Requests, SendBuffer(n)
  PROVE  /\ wp' \in 0 .. Size /\ filled' \in 1 .. Size /\ sent' \in 0 .. MaxFrames
         /\ mem' \in [Offsets -> [len : 0 .. Size, frame : 0 .. MaxFrames]]
         /\ arrive' = TRUE
         /\ Positions' /\ Tiled' /\ Accounting'
<1> DEFINE m == n + HeadSize
<1>1. /\ m \in 1 .. Size /\ m <= want /\ wpc = "filling" /\ sent < MaxFrames
      /\ Available(wp, rp, fill_end) >= m
      /\ mem' = [mem EXCEPT ![wp] = [len |-> m, frame |-> sent + 1]]
      /\ wp' = wp + m /\ filled' = filled + m /\ sent' = sent + 1
      /\ UNCHANGED <<rp, fill_end, reader>>
  BY SendKeeps
<1>2. wp \in Offsets /\ ~Live(wp) /\ wp' \in 0 .. Size
  BY SendKeeps
<1>3. \A o \in Offsets : Live(o)' <=> Live(o) \/ (wp <= o /\ o < wp')
  BY <1>1 DEF Available, Live, TypeOK, Positions
<1>4. Positions' /\ Used' = Used + m
  BY <1>1 DEF Available, TypeOK, Positions, Used
<1>5. Accounting'
  <2>1. CASE rpc = "reading"
    <3>1. rp \in Offsets /\ rp # wp
      BY <2>1, <1>2, LiveBounds DEF Accounting, TypeOK
    <3>2. mem'[rp] = mem[rp] /\ mem[rp].len \in Int
      BY <1>1, <3>1 DEF TypeOK
    <3>3. Live(rp)'
      BY <1>1, <1>2, <2>1 DEF Accounting, Live, TypeOK
    <3>4. Used \in Int /\ filled \in Int
      BY DEF Used, TypeOK
    <3> QED BY <1>1, <1>4, <2>1, <3>2, <3>3, <3>4 DEF Accounting
  <2>2. CASE rpc # "reading"
    BY <1>1, <1>4, <2>2 DEF Accounting
  <2> QED BY <2>1, <2>2
<1>6. Tiled'
  <2>1. PICK S \in SUBSET Offsets : Tiles(S)
    BY DEF Tiled
  <2>2. wp \notin S
    BY <2>1, <1>2 DEF Tiles
  <2>0. PICK T \in SUBSET Offsets, top \in Offsets : top = wp /\ T = S \cup {top}
    BY <1>2
  <2>3. mem'[top].len = m /\ \A o \in S : mem'[o] = mem[o]
    BY <1>1, <1>2, <2>0, <2>2 DEF TypeOK
  <2>4. RunEnd(top)' = wp'
    BY <1>1, <2>0 DEF RunEnd, Available, TypeOK, Positions
  <2>5. ASSUME NEW o \in S
        PROVE  /\ Live(o)' /\ mem'[o].len >= 1
               /\ o + mem'[o].len <= RunEnd(o)'
               /\ o + mem'[o].len = RunEnd(o)' \/ o + mem'[o].len \in T
    <3>1. Live(o)' /\ mem'[o].len = mem[o].len /\ mem[o].len \in Int
      <4>1. Live(o) /\ o \in Offsets
        BY <2>1 DEF Tiles
      <4>2. mem'[o].len = mem[o].len
        BY <2>3
      <4>3. mem[o].len \in Int
        BY <4>1 DEF TypeOK
      <4> QED BY <4>1, <4>2, <4>3, <1>3
    <3>2. RunEnd(o)' = RunEnd(o) \/ (RunEnd(o) = wp /\ RunEnd(o)' = wp')
      BY <1>1 DEF RunEnd
    <3>3. o + mem[o].len <= RunEnd(o) /\ (o + mem[o].len = RunEnd(o) \/ o + mem[o].len \in S)
      BY <2>1 DEF Tiles
    <3>4. wp' >= wp /\ wp \in Int /\ wp' \in Int /\ RunEnd(o) \in Int /\ mem[o].len >= 1
      BY <1>1, <1>2, <2>1 DEF RunEnd, TypeOK, Tiles
    <3> QED BY <2>0, <3>1, <3>2, <3>3, <3>4
  <2>6. Live(top)'
    BY <1>1, <1>2, <1>3, <2>0
  <2>7. Live(rp)' => rp \in T
    BY <1>1, <1>2, <1>3, <2>0, <2>1 DEF Tiles, TypeOK, Positions, Live
  <2>8. fill_end # 0 => 0 \in T
    BY <2>0, <2>1, <1>2 DEF Tiles, TypeOK
  <2>9. Tiles(T)'
    <3>1. /\ Live(top)' /\ mem'[top].len >= 1
          /\ top + mem'[top].len = RunEnd(top)'
      BY <1>1, <2>0, <2>3, <2>4, <2>6
    <3>2. ASSUME NEW o \in T
          PROVE  /\ Live(o)' /\ mem'[o].len >= 1
                 /\ o + mem'[o].len <= RunEnd(o)'
                 /\ o + mem'[o].len = RunEnd(o)' \/ o + mem'[o].len \in T
      <4>1. CASE o \in S
        BY <2>5, <4>1
      <4>2. CASE o = top
        BY <3>1, <4>2, <1>2, <2>4
      <4> QED BY <2>0, <4>1, <4>2
    <3> QED BY <1>1, <2>7, <2>8, <3>2 DEF Tiles
  <2> QED BY <2>9 DEF Tiled
<1>7. mem' \in [Offsets -> [len : 0 .. Size, frame : 0 .. MaxFrames]]
  <2>1. sent + 1 \in 0 .. MaxFrames /\ m \in 0 .. Size
    BY <1>1 DEF TypeOK
  <2>2. mem \in [Offsets -> [len : 0 .. Size, frame : 0 .. MaxFrames]]
    BY DEF TypeOK
  <2> HIDE DEF m
  <2> QED BY <1>1, <1>2, <2>1, <2>2
<1>8. filled' \in 1 .. Size
  <2>1. Used' \in 0 .. Size
    BY <1>1, <1>2, <1>4 DEF Used, TypeOK, Positions
  <2>2. filled' <= Used'
    <3>1. CASE rpc = "reading"
      <4>1. rp \in Offsets
        BY <3>1, LiveBounds DEF Accounting, TypeOK
      <4>2. mem'[rp].len \in Nat /\ filled' \in Int /\ rp' = rp /\ rpc' = rpc
        BY <1>1, <1>7, <4>1 DEF TypeOK
      <4> QED BY <1>5, <2>1, <3>1, <4>2 DEF Accounting
    <3>2. CASE rpc # "reading"
      BY <1>1, <1>5, <2>1, <3>2 DEF Accounting
    <3> QED BY <3>1, <3>2
  <2>3. filled' = filled + m /\ filled \in Nat /\ m >= 1
    BY <1>1 DEF TypeOK
  <2> QED BY <2>1, <2>2, <2>3, <1>1
<1>9. sent' \in 0 .. MaxFrames /\ arrive' = TRUE
  <2>1. arrive' = TRUE
    BY SendKeeps
  <2> QED BY <1>1, <2>1 DEF TypeOK
<1> QED BY <1>2, <1>4, <1>5, <1>6, <1>7, <1>8, <1>9

\* The frame that is given back was the first tile of its run.
LEMMA UnlockRing ==
  ASSUME TypeOK, Positions, Tiled, Accounting, ReadUnlock
  PROVE  /\ rp' \in 0 .. Size /\ fill_end' \in 0 .. Size
         /\ user' = user - 1 /\ consume' = TRUE /\ free' = TRUE
         /\ Positions' /\ Tiled' /\ Accounting'
         /\ Available(wp, rp, fill_end)' >= Available(wp, rp, fill_end)
<1> DEFINE next == rp + mem[rp].len
           turns == fill_end # 0 /\ next >= fill_end
<1>1. Live(rp) /\ HaveData /\ got = rp /\ Used = filled + mem[rp].len
  BY LiveBounds DEF ReadUnlock, Accounting
<1>2. /\ rp' = IF turns THEN 0 ELSE next
      /\ fill_end' = IF turns THEN 0 ELSE fill_end
      /\ user' = user - 1 /\ consume' = TRUE /\ free' = TRUE
      /\ rpc' = "idle" /\ UNCHANGED <<wp, filled, mem>>
  BY <1>1 DEF ReadUnlock
<1>3. /\ rp \in Offsets /\ mem[rp].len \in 1 .. Size /\ next <= RunEnd(rp)
      /\ next \in Int
  BY <1>1, HeadFrame
<1> HIDE DEF next
<1>10. /\ wp \in 0 .. Size /\ rp \in 0 .. Size /\ fill_end \in 0 .. Size
       /\ next > rp
  BY <1>3 DEF TypeOK, next
<1>11. \/ fill_end = 0 /\ rp < wp /\ next <= wp /\ rp' = next /\ fill_end' = 0
       \/ /\ fill_end # 0 /\ wp <= rp /\ next < fill_end
          /\ rp' = next /\ fill_end' = fill_end
       \/ /\ fill_end # 0 /\ wp <= rp /\ next = fill_end
          /\ rp' = 0 /\ fill_end' = 0
  <2>1. next <= IF fill_end # 0 THEN fill_end ELSE wp
    BY <1>3, <1>10 DEF RunEnd
  <2>2. fill_end = 0 => rp < wp
    BY <1>1 DEF Live
  <2> QED BY <1>2, <1>3, <1>10, <2>1, <2>2 DEF Positions
<1>4. rp' \in 0 .. Size /\ fill_end' \in 0 .. Size /\ Positions'
  BY <1>2, <1>3, <1>10, <1>11 DEF Positions
<1>5. Used' = Used - mem[rp].len
  <2>1. next = rp + mem[rp].len /\ mem[rp].len \in Int
    BY <1>3 DEF next
  <2> QED BY <1>2, <1>10, <1>11, <2>1 DEF Used
<1>6. Accounting'
  <2>1. filled \in Int /\ mem[rp].len \in Int
    BY <1>3 DEF TypeOK
  <2> QED BY <1>1, <1>2, <1>5, <2>1 DEF Accounting
<1>7. Tiled'
  <2>1. PICK S \in SUBSET Offsets : Tiles(S)
    BY DEF Tiled
  <2>2. PICK T \in SUBSET Offsets : \A o \in Offsets : o \in T <=> o \in S /\ Live(o)'
    <3>1. {o \in S : Live(o)'} \in SUBSET Offsets
      OBVIOUS
    <3> QED BY <3>1
  <2>3. ASSUME NEW o \in T
        PROVE  /\ Live(o)' /\ mem'[o].len >= 1
               /\ o + mem'[o].len <= RunEnd(o)'
               /\ o + mem'[o].len = RunEnd(o)' \/ o + mem'[o].len \in T
    <3>1. /\ o \in S /\ Live(o) /\ Live(o)' /\ mem[o].len >= 1 /\ mem[o].len \in Int
          /\ o + mem[o].len <= RunEnd(o)
          /\ o + mem[o].len = RunEnd(o) \/ o + mem[o].len \in S
      BY <2>1, <2>2 DEF Tiles, TypeOK
    <3>2. RunEnd(o)' = RunEnd(o)
      BY <1>2, <1>3, <1>10, <1>11, <3>1 DEF RunEnd, Live
    <3>3. ASSUME o + mem[o].len \in S, o + mem[o].len # RunEnd(o)
          PROVE  o + mem[o].len \in T
      <4>1. PICK x \in Offsets : x = o + mem[o].len
        BY <3>3
      <4>2. Live(x)
        BY <2>1, <3>3, <4>1 DEF Tiles
      <4>3. Live(x)'
        <5>1. o < x /\ x < RunEnd(o)
          <6>1. x \in Int /\ RunEnd(o) \in Int
            BY <1>10 DEF RunEnd
          <6> QED BY <3>1, <3>3, <4>1, <6>1
        <5> QED BY <1>2, <1>3, <1>10, <1>11, <3>1, <4>2, <5>1 DEF RunEnd, Live
      <4> QED BY <2>2, <3>3, <4>1, <4>3
    <3> QED BY <1>2, <3>1, <3>2, <3>3
  <2>4. Live(rp)' => rp' \in T
    <3>1. SUFFICES ASSUME Live(rp)'  PROVE rp' \in T
      OBVIOUS
    <3>2. PICK x \in Offsets : x = rp'
      BY <1>2, <1>4, <3>1 DEF Live, TypeOK
    <3>3. x \in S
      <4>1. CASE turns
        BY <1>2, <1>3, <2>1, <3>1, <3>2, <4>1 DEF Tiles, Live, RunEnd, TypeOK, Positions
      <4>2. CASE ~turns
        <5>1. next = RunEnd(rp) \/ next \in S
          BY <1>1, <1>3, <2>1 DEF Tiles, next
        <5>2. next # RunEnd(rp)
          BY <1>2, <1>3, <1>10, <1>11, <3>1, <4>2 DEF Live, RunEnd
        <5> QED BY <1>2, <3>2, <4>2, <5>1, <5>2
      <4> QED BY <4>1, <4>2
    <3>4. Live(x)'
      BY <3>1, <3>2 DEF Live
    <3> QED BY <2>2, <3>2, <3>3, <3>4
  <2>5. fill_end' # 0 /\ wp' > 0 => 0 \in T
    <3>1. SUFFICES ASSUME fill_end' # 0, wp' > 0  PROVE 0 \in T
      OBVIOUS
    <3>2. 0 \in S /\ 0 \in Offsets
      BY <1>2, <2>1, <3>1 DEF Tiles
    <3>3. Live(0)'
      BY <1>2, <3>1 DEF Live
    <3> QED BY <2>2, <3>2, <3>3
  <2>6. Tiles(T)'
    BY <2>3, <2>4, <2>5 DEF Tiles
  <2> QED BY <2>6 DEF Tiled
<1>8. Available(wp, rp, fill_end)' >= Available(wp, rp, fill_end)
  BY <1>2, <1>3, <1>10, <1>11 DEF Available, Positions
<1> QED BY <1>2, <1>4, <1>6, <1>7, <1>8

\* Taking a frame moves its bytes from unread to the reader's hands.
LEMMA LookRing ==
  ASSUME TypeOK, Positions, Tiled, Accounting, rpc # "reading",
         NEW u, Look(u), UNCHANGED <<wp, rp, fill_end, mem>>
  PROVE  /\ filled' \in 0 .. Size /\ Positions' /\ Tiled' /\ Accounting'
         /\ user' = u + 1
         /\ rpc' \in {"wait", "reading"}
         /\ rpc' = "wait" => filled' = 0 /\ got' = got
         /\ rpc' = "reading" => got' \in 0 .. Size
<1>1. Positions' /\ Tiled' /\ Used' = Used
  BY DEF Positions, Tiled, Tiles, RunEnd, Live, Used
<1>2. CASE filled = 0
  <2>1. rpc' = "wait" /\ UNCHANGED <<filled, got>> /\ user' = u + 1
    BY <1>2 DEF Look
  <2> QED BY <1>1, <1>2, <2>1 DEF Accounting, TypeOK
<1>3. CASE filled # 0
  <2>1. ReadPos = rp /\ Live(rp)
    BY <1>3, ReadsOldest
  <2>2. /\ rpc' = "reading" /\ got' = rp /\ user' = u + 1
        /\ filled' = filled - mem[rp].len
    BY <1>3, <2>1 DEF Look
  <2>3. mem[rp].len \in 1 .. Size /\ mem[rp].len <= filled /\ rp \in Offsets
    BY <2>1, HeadFrame DEF Accounting
  <2>4. Live(rp)' /\ mem'[rp'] = mem[rp]
    BY <2>1 DEF Live
  <2>5. filled' \in 0 .. Size
    <3>1. filled \in 0 .. Size
      BY DEF TypeOK
    <3>2. PICK n \in 1 .. Size : n = mem[rp].len
      BY <2>3
    <3>3. n <= filled /\ filled' = filled - n
      BY <2>2, <2>3, <3>2
    <3> QED BY <3>1, <3>2, <3>3
  <2>6. Accounting'
    <3>1. Used = filled' + mem[rp].len
      BY <2>2, <2>3 DEF Accounting, TypeOK
    <3> QED BY <1>1, <2>2, <2>4, <3>1 DEF Accounting
  <2> QED BY <1>1, <2>2, <2>3, <2>5, <2>6
<1> QED BY <1>2, <1>3

\* Throwing everything away leaves an empty ring and nothing unread.
LEMMA DrainRing ==
  ASSUME TypeOK, Positions, Tiled, Accounting, ConsumeAll
  PROVE  /\ filled' = 0 /\ rp' \in 0 .. Size /\ fill_end' = 0
         /\ Positions' /\ Tiled' /\ Accounting'
         /\ Available(wp, rp, fill_end)' >= Available(wp, rp, fill_end)
<1>1. /\ rpc # "reading" /\ rpc' = rpc /\ rp' = wp /\ fill_end' = 0
      /\ wp' = wp /\ mem' = mem /\ filled' = filled - Used
  BY DEF ConsumeAll, Used
<1>2. filled' = 0
  BY <1>1 DEF Accounting, TypeOK
<1>3. Positions' /\ Used' = 0
  BY <1>1 DEF Positions, Used, TypeOK
<1>4. Tiles({})'
  BY <1>1 DEF Tiles, Live, TypeOK
<1>5. Tiled'
  BY <1>4 DEF Tiled
<1>6. Available(wp, rp, fill_end)' >= Available(wp, rp, fill_end)
  BY <1>1 DEF Available, TypeOK, Positions
<1> QED BY <1>1, <1>2, <1>3, <1>5, <1>6 DEF Accounting, TypeOK
-----------------------------------------------------------------------------
(* The invariant                                                           *)

\* A step that leaves the positions and the reservation alone leaves the room
\* for a waiting writer as it was.
LEMMA FitsSame ==
  ASSUME UNCHANGED <<wp, rp, fill_end, want>>
  PROVE  Fits(want)' <=> Fits(want)
BY DEF Fits, Placed, Wraps, HaveData, Available

\* A step that leaves the ring and the two frame holders alone.
LEMMA RingSame ==
  ASSUME Positions, Tiled, Accounting, UNCHANGED <<ring, rpc, got>>
  PROVE  Positions' /\ Tiled' /\ Accounting'
BY DEF Positions, Tiled, Tiles, RunEnd, Live, Accounting, Used

\* The reader's progress between two reads does not touch the accounting.
LEMMA RingSameIdle ==
  ASSUME Positions, Tiled, Accounting, UNCHANGED ring,
         rpc # "reading", rpc' # "reading"
  PROVE  Positions' /\ Tiled' /\ Accounting'
BY DEF Positions, Tiled, Tiles, RunEnd, Live, Accounting, Used

LEMMA InitInv == Init => IInv
<1> SUFFICES ASSUME Init PROVE IInv
  OBVIOUS
<1>1. TypeOK
  <2>1. Junk \in [len : 0 .. Size, frame : 0 .. MaxFrames]
    BY DEF Junk
  <2>2. mem \in [Offsets -> [len : 0 .. Size, frame : 0 .. MaxFrames]]
    BY <2>1 DEF Init
  <2>3. /\ wp \in 0 .. Size /\ rp \in 0 .. Size /\ fill_end \in 0 .. Size /\ filled \in 0 .. Size
        /\ user \in 0 .. 2 /\ want \in 0 .. Size /\ sent \in 0 .. MaxFrames /\ got \in 0 .. Size
    BY DEF Init
  <2>4. quit \in BOOLEAN /\ arrive \in BOOLEAN /\ consume \in BOOLEAN /\ free \in BOOLEAN
    BY DEF Init
  <2>5. wpc = "idle" /\ rpc = "idle" /\ cpc = "idle"
    BY DEF Init
  <2> QED BY <2>2, <2>3, <2>4, <2>5 DEF TypeOK
<1>2. Tiles({})
  BY DEF Init, Tiles, Live
<1>3. Tiled
  BY <1>2 DEF Tiled
<1>4. Positions /\ Accounting /\ Granted /\ Users /\ NoLostWakeup
  BY DEF Init, Positions, Accounting, Used, Granted, Users, NoLostWakeup
<1> QED BY <1>1, <1>3, <1>4 DEF IInv

\* Each operation of the queue keeps the invariant.
LEMMA StepInv == IInv /\ [Next]_vars => IInv'
<1> SUFFICES ASSUME IInv, [Next]_vars  PROVE IInv'
  OBVIOUS
<1> USE DEF IInv
<1>1. ASSUME NEW n \in Requests, GetBuffer(n)  PROVE IInv'
  <2> DEFINE m == n + HeadSize
  <2>1. m \in 1 .. Size /\ m \in Nat /\ Attempt(m, user) /\ want' = m /\ sent < MaxFrames
    BY <1>1 DEF GetBuffer
  <2>2. UNCHANGED <<filled, quit, bits, sent, reader, cpc>> /\ ~quit /\ wpc = "idle"
    BY <1>1 DEF GetBuffer
  <2>3. /\ wp' \in 0 .. Size /\ rp' \in 0 .. Size /\ fill_end' \in 0 .. Size
        /\ mem' \in [Offsets -> [len : 0 .. Size, frame : 0 .. MaxFrames]]
        /\ Positions' /\ Tiled' /\ Accounting'
        /\ wpc' \in {"filling", "wait"} /\ user' = user + 1
        /\ wpc' = "filling" => Available(wp, rp, fill_end)' >= m
        /\ wpc' = "wait" => ~Fits(m)'
    BY <2>1, <2>2, AttemptRing
  <2>4. Users'
    BY <2>2, <2>3 DEF Users
  <2>5. user' \in 0 .. 2
    BY <2>4 DEF Users
  <2>6. TypeOK'
    <3>1. want' \in 0 .. Size
      BY <2>1
    <3>2. /\ filled' \in 0 .. Size /\ quit' \in BOOLEAN /\ sent' \in 0 .. MaxFrames
          /\ arrive' \in BOOLEAN /\ consume' \in BOOLEAN /\ free' \in BOOLEAN
          /\ rpc' \in {"idle", "wait", "clear", "resume", "reading"} /\ got' \in 0 .. Size
          /\ cpc' \in {"idle", "wait", "clear", "resume", "done"}
      BY <2>2 DEF TypeOK
    <3> QED BY <2>3, <2>5, <3>1, <3>2 DEF TypeOK
  <2>7. Granted'
    BY <2>1, <2>2, <2>3 DEF Granted
  <2>8. wpc' = "wait" => ~Fits(want)'
    BY <2>1, <2>3 DEF Fits, Placed, Wraps
  <2>9. NoLostWakeup'
    BY <2>2, <2>3, <2>8 DEF NoLostWakeup, TypeOK
  <2> QED BY <2>3, <2>4, <2>6, <2>7, <2>9
<1>2. CASE WriterWakes
  <2>1. Positions' /\ Tiled' /\ Accounting'
    BY <1>2, RingSame DEF WriterWakes
  <2>2. TypeOK' /\ Granted' /\ Users'
    BY <1>2 DEF WriterWakes, TypeOK, Granted, Users
  <2>3. NoLostWakeup'
    BY <1>2 DEF WriterWakes, NoLostWakeup
  <2> QED BY <2>1, <2>2, <2>3
<1>3. CASE WriterClears
  <2>1. Positions' /\ Tiled' /\ Accounting'
    BY <1>3, RingSame DEF WriterClears
  <2>2. TypeOK' /\ Granted' /\ Users'
    BY <1>3 DEF WriterClears, TypeOK, Granted, Users
  <2>3. NoLostWakeup'
    BY <1>3 DEF WriterClears, NoLostWakeup
  <2> QED BY <2>1, <2>2, <2>3
<1>4. CASE WriterResumes
  <2>1. wpc = "resume" /\ free' = TRUE /\ UNCHANGED <<filled, quit, arrive, consume, sent, reader, cpc>>
    BY <1>4 DEF WriterResumes
  <2>2. CASE ~quit
    <3>1. Attempt(want, user - 1) /\ want' = want /\ want \in 1 .. Size /\ user \in Int
      BY <1>4, <2>1, <2>2 DEF WriterResumes, Granted, TypeOK
    <3>2. /\ wp' \in 0 .. Size /\ rp' \in 0 .. Size /\ fill_end' \in 0 .. Size
          /\ mem' \in [Offsets -> [len : 0 .. Size, frame : 0 .. MaxFrames]]
          /\ Positions' /\ Tiled' /\ Accounting'
          /\ wpc' \in {"filling", "wait"} /\ user' = user - 1 + 1
          /\ wpc' = "filling" => Available(wp, rp, fill_end)' >= want
          /\ wpc' = "wait" => ~Fits(want)'
      <4>1. PICK n \in 1 .. Size : n = want
        BY <3>1
      <4>2. Attempt(n, user - 1)
        BY <3>1, <4>1
      <4>3. /\ wp' \in 0 .. Size /\ rp' \in 0 .. Size /\ fill_end' \in 0 .. Size
            /\ mem' \in [Offsets -> [len : 0 .. Size, frame : 0 .. MaxFrames]]
            /\ Positions' /\ Tiled' /\ Accounting'
            /\ wpc' \in {"filling", "wait"} /\ user' = user - 1 + 1
            /\ wpc' = "filling" => Available(wp, rp, fill_end)' >= n
            /\ wpc' = "wait" => ~Fits(n)'
        BY <2>1, <4>2, AttemptRing
      <4>4. Fits(n)' <=> Fits(want)'
        BY <3>1, <4>1 DEF Fits, Placed, Wraps
      <4> QED BY <4>1, <4>3, <4>4
    <3>3. Users' /\ user' = user
      BY <2>1, <3>1, <3>2 DEF Users
    <3>4. TypeOK'
      BY <2>1, <3>1, <3>2, <3>3 DEF TypeOK
    <3>5. Granted'
      BY <2>1, <3>1, <3>2 DEF Granted
    <3>6. NoLostWakeup'
      BY <2>1, <2>2, <3>2 DEF NoLostWakeup
    <3> QED BY <3>2, <3>3, <3>4, <3>5, <3>6
  <2>3. CASE quit
    <3>1. /\ wpc' = "idle" /\ want' = 0 /\ user' = user - 1
          /\ UNCHANGED <<wp, rp, fill_end, mem>>
      BY <1>4, <2>3 DEF WriterResumes
    <3>2. Positions' /\ Tiled' /\ Accounting'
      BY <2>1, <3>1, RingSame
    <3>3. TypeOK' /\ Granted' /\ Users'
      BY <2>1, <3>1 DEF TypeOK, Granted, Users
    <3>4. NoLostWakeup'
      BY <2>1, <3>1 DEF NoLostWakeup
    <3> QED BY <3>2, <3>3, <3>4
  <2> QED BY <2>2, <2>3
<1>5. ASSUME NEW n \in Requests, SendBuffer(n)  PROVE IInv'
  <2>1. /\ wp' \in 0 .. Size /\ filled' \in 1 .. Size /\ sent' \in 0 .. MaxFrames
        /\ mem' \in [Offsets -> [len : 0 .. Size, frame : 0 .. MaxFrames]]
        /\ arrive' = TRUE
        /\ Positions' /\ Tiled' /\ Accounting'
    BY <1>5, SendRing
  <2>2. /\ wpc = "filling" /\ wpc' = "idle" /\ want' = 0 /\ user' = user - 1 /\ free' = TRUE
        /\ UNCHANGED <<rp, fill_end, quit, consume, reader, cpc>>
    BY <1>5 DEF SendBuffer
  <2>3. Users' /\ user' \in 0 .. 2
    BY <2>2 DEF Users, TypeOK
  <2>4. TypeOK'
    BY <2>1, <2>2, <2>3 DEF TypeOK
  <2>5. Granted' /\ NoLostWakeup'
    BY <2>1, <2>2 DEF Granted, NoLostWakeup
  <2> QED BY <2>1, <2>3, <2>4, <2>5
<1>6. CASE Abandon
  <2>1. Positions' /\ Tiled' /\ Accounting'
    BY <1>6, RingSame DEF Abandon
  <2>2. TypeOK' /\ Granted' /\ Users'
    BY <1>6 DEF Abandon, TypeOK, Granted, Users
  <2>3. NoLostWakeup'
    BY <1>6 DEF Abandon, NoLostWakeup
  <2> QED BY <2>1, <2>2, <2>3
<1>7. CASE ReadLock
  <2>1. /\ rpc = "idle" /\ ~quit /\ Look(user) /\ UNCHANGED <<wp, rp, fill_end, mem>>
        /\ UNCHANGED <<quit, bits, writer, cpc>>
    BY <1>7 DEF ReadLock
  <2>2. /\ filled' \in 0 .. Size /\ Positions' /\ Tiled' /\ Accounting'
        /\ user' = user + 1
        /\ rpc' \in {"wait", "reading"}
        /\ rpc' = "wait" => filled' = 0 /\ got' = got
        /\ rpc' = "reading" => got' \in 0 .. Size
    BY <2>1, LookRing
  <2>3. Users' /\ user' \in 0 .. 2
    BY <2>1, <2>2 DEF Users, TypeOK
  <2>4. TypeOK'
    BY <2>1, <2>2, <2>3 DEF TypeOK
  <2>5. Granted'
    BY <2>1 DEF Granted, Available
  <2>6. NoLostWakeup'
    BY <2>1, <2>2, <2>3, FitsSame DEF NoLostWakeup, TypeOK
  <2> QED BY <2>2, <2>3, <2>4, <2>5, <2>6
<1>8. CASE ReaderWakes
  <2>1. Positions' /\ Tiled' /\ Accounting'
    BY <1>8, RingSameIdle DEF ReaderWakes
  <2>2. TypeOK' /\ Granted' /\ Users'
    BY <1>8 DEF ReaderWakes, TypeOK, Granted, Users, Available
  <2>3. NoLostWakeup'
    BY <1>8, FitsSame DEF ReaderWakes, NoLostWakeup
  <2> QED BY <2>1, <2>2, <2>3
<1>9. CASE ReaderClears
  <2>1. Positions' /\ Tiled' /\ Accounting'
    BY <1>9, RingSameIdle DEF ReaderClears
  <2>2. TypeOK' /\ Granted' /\ Users'
    BY <1>9 DEF ReaderClears, TypeOK, Granted, Users, Available
  <2>3. NoLostWakeup'
    BY <1>9, FitsSame DEF ReaderClears, NoLostWakeup
  <2> QED BY <2>1, <2>2, <2>3
<1>10. CASE ReaderResumes
  <2>1. /\ rpc = "resume" /\ free' = TRUE
        /\ UNCHANGED <<wp, rp, fill_end, mem, quit, arrive, consume, writer, cpc>>
    BY <1>10 DEF ReaderResumes
  <2>2. CASE ~quit
    <3>1. Look(user - 1) /\ user \in Int
      BY <1>10, <2>2 DEF ReaderResumes, TypeOK
    <3>2. /\ filled' \in 0 .. Size /\ Positions' /\ Tiled' /\ Accounting'
          /\ user' = user - 1 + 1
          /\ rpc' \in {"wait", "reading"}
          /\ rpc' = "wait" => filled' = 0 /\ got' = got
          /\ rpc' = "reading" => got' \in 0 .. Size
      BY <2>1, <3>1, LookRing
    <3>3. Users' /\ user' = user
      BY <2>1, <3>1, <3>2 DEF Users
    <3>4. TypeOK'
      BY <2>1, <3>2, <3>3 DEF TypeOK
    <3>5. Granted'
      BY <2>1 DEF Granted, Available
    <3>6. NoLostWakeup'
      BY <2>1, <2>2, <3>2, FitsSame DEF NoLostWakeup
    <3> QED BY <3>2, <3>3, <3>4, <3>5, <3>6
  <2>3. CASE quit
    <3>1. rpc' = "idle" /\ user' = user - 1 /\ UNCHANGED <<filled, got>>
      BY <1>10, <2>3 DEF ReaderResumes
    <3>2. Positions' /\ Tiled' /\ Accounting'
      BY <2>1, <3>1, RingSameIdle
    <3>3. TypeOK' /\ Granted' /\ Users'
      BY <2>1, <3>1 DEF TypeOK, Granted, Users, Available
    <3>4. NoLostWakeup'
      BY <2>1, <3>1, FitsSame DEF NoLostWakeup
    <3> QED BY <3>2, <3>3, <3>4
  <2> QED BY <2>2, <2>3
<1>11. CASE ReadUnlock
  <2>1. /\ rp' \in 0 .. Size /\ fill_end' \in 0 .. Size
        /\ user' = user - 1 /\ consume' = TRUE /\ free' = TRUE
        /\ Positions' /\ Tiled' /\ Accounting'
        /\ Available(wp, rp, fill_end)' >= Available(wp, rp, fill_end)
    BY <1>11, UnlockRing
  <2>2. /\ rpc = "reading" /\ rpc' = "idle" /\ got' = 0
        /\ UNCHANGED <<wp, filled, mem, quit, arrive, writer, cpc>>
    BY <1>11 DEF ReadUnlock
  <2>3. Users' /\ user' \in 0 .. 2
    BY <2>1, <2>2 DEF Users, TypeOK
  <2>4. TypeOK'
    BY <2>1, <2>2, <2>3 DEF TypeOK
  <2>5. Granted'
    <3>1. Available(wp, rp, fill_end) \in Int /\ Available(wp, rp, fill_end)' \in Int
      BY <2>1, <2>2, LiveBounds DEF Available, TypeOK
    <3> QED BY <2>1, <2>2, <3>1 DEF Granted, TypeOK
  <2>6. NoLostWakeup'
    BY <2>1, <2>2 DEF NoLostWakeup
  <2> QED BY <2>1, <2>3, <2>4, <2>5, <2>6
<1>12. CASE ConsumeAll
  <2>1. /\ filled' = 0 /\ rp' \in 0 .. Size /\ fill_end' = 0
        /\ Positions' /\ Tiled' /\ Accounting'
        /\ Available(wp, rp, fill_end)' >= Available(wp, rp, fill_end)
    BY <1>12, DrainRing
  <2>2. /\ consume' = TRUE /\ ~quit
        /\ UNCHANGED <<wp, mem, user, quit, arrive, free, writer, reader, cpc>>
    BY <1>12 DEF ConsumeAll
  <2>3. TypeOK' /\ Users'
    BY <2>1, <2>2 DEF TypeOK, Users
  <2>4. Granted'
    <3>1. Available(wp, rp, fill_end) \in Int /\ Available(wp, rp, fill_end)' \in Int
      BY <2>1, <2>2, LiveBounds DEF Available, TypeOK
    <3> QED BY <2>1, <2>2, <3>1 DEF Granted, TypeOK
  <2>5. NoLostWakeup'
    BY <2>1, <2>2 DEF NoLostWakeup
  <2> QED BY <2>1, <2>3, <2>4, <2>5
<1>13. CASE Wakeup \/ CloserWakes \/ CloserClears \/ CloserResumes
  <2>1. UNCHANGED <<ring, user, writer, reader>>
    BY <1>13 DEF Wakeup, CloserWakes, CloserClears, CloserResumes
  <2>2. Positions' /\ Tiled' /\ Accounting'
    BY <2>1, RingSame
  <2>3. TypeOK'
    <3>1. /\ quit' \in BOOLEAN /\ arrive' \in BOOLEAN /\ consume' \in BOOLEAN
          /\ free' \in BOOLEAN
      <4>1. TypeOK
        OBVIOUS
      <4> QED BY <1>13, <4>1, Zenon DEF Wakeup, CloserWakes, CloserClears, CloserResumes, TypeOK
    <3>2. cpc' \in {"idle", "wait", "clear", "resume", "done"}
      BY <1>13 DEF Wakeup, CloserWakes, CloserClears, CloserResumes
    <3> QED BY <2>1, <3>1, <3>2 DEF TypeOK
  <2>4. Granted' /\ Users'
    BY <2>1 DEF Granted, Users, Available
  <2>5. NoLostWakeup'
    BY <1>13, <2>1, FitsSame
    DEF NoLostWakeup, Wakeup, CloserWakes, CloserClears, CloserResumes, TypeOK
  <2> QED BY <2>2, <2>3, <2>4, <2>5
<1>14. CASE UNCHANGED vars
  <2>1. Positions' /\ Tiled' /\ Accounting'
    BY <1>14, RingSame DEF vars
  <2>2. TypeOK' /\ Granted' /\ Users'
    BY <1>14 DEF vars, TypeOK, Granted, Users, Available
  <2>3. NoLostWakeup'
    BY <1>14, FitsSame DEF vars, NoLostWakeup
  <2> QED BY <2>1, <2>2, <2>3
<1> HIDE DEF IInv
<1> QED
  BY <1>1, <1>2, <1>3, <1>4, <1>5, <1>6, <1>7, <1>8, <1>9, <1>10, <1>11, <1>12, <1>13, <1>14
  DEF Next

-----------------------------------------------------------------------------
(* Theorems                                                                *)

LEMMA Inductive == Spec => []IInv
BY InitInv, StepInv, PTL DEF Spec

\* The positions and the accounting of the queue stay inside the ring.
THEOREM TypeCorrect == Spec => []TypeOK
<1>1. IInv => TypeOK
  BY DEF IInv
<1> QED BY <1>1, Inductive, PTL

\* A buffer handed out overlaps no frame and can always be sent.
THEOREM GrantsAreFree == Spec => []GrantIsFree
<1>1. IInv => GrantIsFree
  <2> SUFFICES ASSUME IInv, wpc = "filling"
      PROVE /\ Available(wp, rp, fill_end) >= want
            /\ \A o \in wp .. wp + want - 1 : o \in Offsets /\ ~Live(o)
    BY DEF GrantIsFree
  <2>1. TypeOK /\ Positions /\ Available(wp, rp, fill_end) >= want
    BY DEF IInv, Granted
  <2>2. ASSUME NEW o \in wp .. wp + want - 1
        PROVE  o \in Offsets /\ ~Live(o)
    <3>1. o \in Int /\ wp <= o /\ o < wp + Available(wp, rp, fill_end)
      BY <2>1, <2>2, LiveBounds DEF TypeOK
    <3> QED BY <2>1, <3>1, FreeIsFree
  <2> QED BY <2>1, <2>2
<1> QED BY <1>1, Inductive, PTL

\* Whoever waits and could go on finds its bit set.
THEOREM WakeupsArrive == Spec => []NoLostWakeup
<1>1. IInv => NoLostWakeup
  BY DEF IInv
<1> QED BY <1>1, Inductive, PTL

\* data_queue_get_available promises only what data_queue_get_buffer gives.
THEOREM AvailableIsHonest == Spec => []AvailableHonest
<1>1. IInv => AvailableHonest
  <2> SUFFICES ASSUME TypeOK, Positions, NEW n \in Requests, n <= GetAvailable
               PROVE  Fits(n + HeadSize)
    BY DEF IInv, AvailableHonest
  <2>1. n \in Nat \ {0} /\ n + HeadSize >= 1
    OBVIOUS
  <2>2. CASE HaveData
    <3>1. Available(wp, rp, fill_end) >= n + HeadSize
      BY <2>1, <2>2, LiveBounds DEF GetAvailable
    <3>2. ~Wraps(n + HeadSize)
      BY <2>1, <3>1, LiveBounds DEF Wraps
    <3> QED BY <3>1, <3>2 DEF Fits, Placed
  <2>3. CASE ~HaveData
    <3>1. Size >= n + HeadSize /\ fill_end = 0 /\ wp = rp
      BY <2>1, <2>3 DEF GetAvailable, HaveData
    <3> QED BY <2>1, <2>3, <3>1 DEF Fits, Placed, Wraps, Available, TypeOK
  <2> QED BY <2>2, <2>3
<1> QED BY <1>1, Inductive, PTL

-----------------------------------------------------------------------------
(* The order of the frames. FramesUpTo walks from header to header by a    *)
(* recursive function, so what it yields is shown by induction over the    *)
(* distance to the end of the ring, stated with sets of naturals.          *)

\* Every nonempty set of naturals has a least element.
LEMMA Least ==
  ASSUME NEW T, T \subseteq Nat, T # {}
  PROVE  \E n \in T : \A k \in T : n <= k
<1> DEFINE R == OpToRel(<, Nat)
<1>1. IsWellFoundedOn(R, Nat)
  BY NatLessThanWellFounded
<1>2. \A k, n \in Nat : k < n => <<k, n>> \in R
  BY DEF OpToRel
<1> HIDE DEF R
<1>3. PICK n \in T : \A k \in T : ~(<<k, n>> \in R)
  BY <1>1, WFMin
<1>4. \A k \in T : k \in Nat /\ n \in Nat /\ ~(k < n)
  BY <1>2, <1>3
<1>5. \A k \in T : n <= k
  BY <1>4
<1> QED BY <1>5

\* A set that holds 0 and with a number the next one holds all of Nat.
LEMMA Induct ==
  ASSUME NEW T, 0 \in T, \A n \in Nat : n \in T => n + 1 \in T
  PROVE  \A n \in Nat : n \in T
<1> SUFFICES ASSUME NEW m \in Nat, m \notin T PROVE FALSE
  OBVIOUS
<1>1. PICK n \in Nat \ T : \A k \in Nat \ T : n <= k
  <2>1. Nat \ T \subseteq Nat /\ Nat \ T # {}
    OBVIOUS
  <2> QED BY <2>1, Least
<1>2. n # 0 /\ n - 1 \in Nat /\ n - 1 \in T
  BY <1>1
<1> QED BY <1>1, <1>2

\* What holds at an offset of the ring whenever it holds at all later ones
\* holds at every offset.
LEMMA Backwards ==
  ASSUME NEW G,
         \A o \in 0 .. Size : (\A x \in 0 .. Size : x > o => x \in G) => o \in G
  PROVE  \A o \in 0 .. Size : o \in G
<1> DEFINE T == {n \in Nat : \A x \in 0 .. Size : x >= Size - n => x \in G}
<1>1. 0 \in T
  <2>1. ASSUME NEW x \in 0 .. Size, x >= Size - 0  PROVE x \in G
    <3>1. \A y \in 0 .. Size : ~(y > x)
      BY <2>1
    <3> QED BY <3>1
  <2> QED BY <2>1
<1>2. ASSUME NEW n \in Nat, n \in T  PROVE n + 1 \in T
  <2>1. ASSUME NEW x \in 0 .. Size, x >= Size - (n + 1)  PROVE x \in G
    <3>1. \A y \in 0 .. Size : y > x => y >= Size - n
      BY <2>1
    <3>2. \A y \in 0 .. Size : y >= Size - n => y \in G
      BY <1>2
    <3> QED BY <3>1, <3>2
  <2> QED BY <2>1
<1> HIDE DEF T
<1>3. Size \in T
  BY <1>1, <1>2, Induct
<1>4. \A x \in 0 .. Size : x >= Size - Size => x \in G
  BY <1>3 DEF T
<1> QED BY <1>4

\* FramesUpTo, as a function of what the memory holds.
FramesOf(m, o, e) ==
  LET from[i \in 0 .. Size] ==
        IF i >= e \/ m[i].len = 0 THEN <<>>
        ELSE <<m[i].frame>> \o from[i + m[i].len]
  IN  from[o]

\* One step of the walk, with f the walk from the next header.
Walk(m, e, f, i) ==
  IF i >= e \/ m[i].len = 0 THEN <<>> ELSE <<m[i].frame>> \o f[i + m[i].len]

IsWalk(m, e, f) == f = [i \in 0 .. Size |-> Walk(m, e, f, i)]

\* What the memory holds: no frame reaches beyond the ring.
Stored(m) ==
  /\ m \in [Offsets -> [len : 0 .. Size, frame : 0 .. MaxFrames]]
  /\ \A o \in Offsets : o + m[o].len <= Size /\ (m[o].len # 0 => m[o].frame \in Frames)

\* f is the walk for all offsets from Size - k on.
WalkFrom(m, e, f, k) == \A i \in 0 .. Size : i >= Size - k => f[i] = Walk(m, e, f, i)

HasWalkFrom(m, e, k) == \E f : f = [i \in 0 .. Size |-> f[i]] /\ WalkFrom(m, e, f, k)

\* The walk exists, because every step leads to a later offset of the ring.
LEMMA WalkExists ==
  ASSUME NEW m, Stored(m), NEW e \in 0 .. Size
  PROVE  \E f : IsWalk(m, e, f)
<1> DEFINE T == {k \in Nat : HasWalkFrom(m, e, k)}
<1>0. ASSUME NEW i \in 0 .. Size, ~(i >= e \/ m[i].len = 0)
      PROVE  i + m[i].len \in 0 .. Size /\ i + m[i].len > i
  <2>1. i \in Offsets /\ i + m[i].len <= Size /\ m[i].len \in 1 .. Size
    BY <1>0 DEF Stored
  <2> QED BY <2>1
<1>2. 0 \in T
  <2> DEFINE g == [i \in 0 .. Size |-> <<>>]
  <2>1. WalkFrom(m, e, g, 0)
    <3>1. ASSUME NEW i \in 0 .. Size, i >= Size - 0  PROVE g[i] = Walk(m, e, g, i)
      <4>1. i >= e
        BY <3>1
      <4> QED BY <4>1 DEF Walk
    <3> QED BY <3>1 DEF WalkFrom
  <2>2. g = [i \in 0 .. Size |-> g[i]]
    OBVIOUS
  <2> HIDE DEF g
  <2>3. HasWalkFrom(m, e, 0)
    BY <2>1, <2>2, Zenon DEF HasWalkFrom
  <2> QED BY <2>3
<1>3. ASSUME NEW k \in Nat, k \in T  PROVE k + 1 \in T
  <2>1. PICK f : f = [i \in 0 .. Size |-> f[i]] /\ WalkFrom(m, e, f, k)
    BY <1>3, Zenon DEF HasWalkFrom
  <2> DEFINE g == [i \in 0 .. Size |-> IF i >= Size - k THEN f[i] ELSE Walk(m, e, f, i)]
  <2>2. \A i \in 0 .. Size : i >= Size - k => g[i] = f[i]
    OBVIOUS
  <2>3. \A i \in 0 .. Size : g[i] = Walk(m, e, f, i)
    BY <2>1 DEF WalkFrom
  <2>4. g = [i \in 0 .. Size |-> g[i]]
    OBVIOUS
  <2> HIDE DEF g
  <2>5. ASSUME NEW i \in 0 .. Size, i >= Size - (k + 1)  PROVE g[i] = Walk(m, e, g, i)
    <3>1. CASE i >= e \/ m[i].len = 0
      BY <2>3, <3>1 DEF Walk
    <3>2. CASE ~(i >= e \/ m[i].len = 0)
      <4>1. PICK x \in 0 .. Size : x = i + m[i].len /\ x > i
        BY <1>0, <3>2
      <4>2. g[x] = f[x]
        BY <2>2, <2>5, <4>1
      <4> QED BY <2>3, <3>2, <4>1, <4>2 DEF Walk
    <3> QED BY <3>1, <3>2
  <2>6. WalkFrom(m, e, g, k + 1)
    BY <2>5 DEF WalkFrom
  <2>7. HasWalkFrom(m, e, k + 1)
    BY <2>4, <2>6, Zenon DEF HasWalkFrom
  <2> QED BY <2>7
<1>4. Size \in T
  <2> HIDE DEF T
  <2> QED BY <1>2, <1>3, Induct
<1>5. PICK f : f = [i \in 0 .. Size |-> f[i]] /\ WalkFrom(m, e, f, Size)
  BY <1>4, Zenon DEF HasWalkFrom
<1>6. \A i \in 0 .. Size : f[i] = Walk(m, e, f, i)
  <2>1. \A i \in 0 .. Size : i >= Size - Size
    OBVIOUS
  <2>2. WalkFrom(m, e, f, Size)
    BY <1>5
  <2> QED BY <2>1, <2>2, Zenon DEF WalkFrom
<1>7. f = [i \in 0 .. Size |-> Walk(m, e, f, i)]
  BY <1>5, <1>6
<1> QED BY <1>7 DEF IsWalk

\* The equation FramesOf is used by: an end, or a frame and the rest.
LEMMA Unfold ==
  ASSUME NEW m, Stored(m), NEW e \in 0 .. Size, NEW o \in 0 .. Size
  PROVE  /\ o >= e \/ m[o].len = 0 => FramesOf(m, o, e) = <<>>
         /\ ~(o >= e \/ m[o].len = 0) =>
              /\ o \in Offsets /\ o + m[o].len \in 0 .. Size /\ m[o].len >= 1
              /\ FramesOf(m, o, e) = <<m[o].frame>> \o FramesOf(m, o + m[o].len, e)
<1>1. PICK f : IsWalk(m, e, f)
  BY WalkExists
<1> DEFINE h == CHOOSE g : IsWalk(m, e, g)
<1>2. IsWalk(m, e, h)
  BY <1>1, Zenon
<1>3. \A i : FramesOf(m, i, e) = h[i]
  BY Zenon DEF FramesOf, IsWalk, Walk
<1> HIDE DEF h
<1>4. h[o] = Walk(m, e, h, o)
  BY <1>2 DEF IsWalk
<1>5. ASSUME ~(o >= e \/ m[o].len = 0)
      PROVE  o \in Offsets /\ o + m[o].len \in 0 .. Size /\ m[o].len >= 1
  <2>1. o \in Offsets /\ o + m[o].len <= Size /\ m[o].len \in 1 .. Size
    BY <1>5 DEF Stored
  <2> QED BY <2>1
<1> QED BY <1>3, <1>4, <1>5 DEF Walk

\* The walk yields frames.
LEMMA FramesType ==
  ASSUME NEW m, Stored(m), NEW e \in 0 .. Size, NEW o \in 0 .. Size
  PROVE  FramesOf(m, o, e) \in Seq(Frames)
<1> DEFINE G == {x \in 0 .. Size : FramesOf(m, x, e) \in Seq(Frames)}
<1>1. ASSUME NEW x \in 0 .. Size, \A y \in 0 .. Size : y > x => y \in G
      PROVE  x \in G
  <2>1. CASE x >= e \/ m[x].len = 0
    <3>1. FramesOf(m, x, e) = <<>>
      BY <2>1, Unfold
    <3> QED BY <3>1, EmptySeq
  <2>2. CASE ~(x >= e \/ m[x].len = 0)
    <3>1. /\ x \in Offsets /\ x + m[x].len \in 0 .. Size /\ m[x].len >= 1
          /\ FramesOf(m, x, e) = <<m[x].frame>> \o FramesOf(m, x + m[x].len, e)
      BY <2>2, Unfold
    <3>2. m[x].frame \in Frames /\ m[x].len \in Int
      BY <2>2, <3>1 DEF Stored
    <3>3. PICK y \in 0 .. Size : y = x + m[x].len /\ y > x
      BY <3>1, <3>2
    <3>4. FramesOf(m, y, e) \in Seq(Frames)
      BY <1>1, <3>3
    <3>5. <<m[x].frame>> \in Seq(Frames)
      BY <3>2
    <3>6. <<m[x].frame>> \o FramesOf(m, y, e) \in Seq(Frames)
      BY <3>4, <3>5, ConcatProperties
    <3> QED BY <3>1, <3>3, <3>6
  <2> QED BY <2>1, <2>2
<1> HIDE DEF G
<1>2. \A x \in 0 .. Size : x \in G
  BY <1>1, Backwards
<1> QED BY <1>2 DEF G

\* R is a run of headers that leads to e: from each the length leads to the
\* next one or to e.
Run(m, R, e) ==
  /\ R \subseteq Offsets
  /\ \A o \in R :
        /\ o < e /\ m[o].len >= 1 /\ o + m[o].len <= e
        /\ o + m[o].len = e \/ o + m[o].len \in R

\* A run of what the memory holds.
RunOf(m, R, e) == Stored(m) /\ e \in 0 .. Size /\ Run(m, R, e)

\* From header o of the run the walk comes to offset y.
Leads(m, R, e, o, y) ==
  /\ y \in 0 .. Size /\ y = o + m[o].len /\ y > o /\ (y = e \/ y \in R)
  /\ FramesOf(m, o, e) = <<m[o].frame>> \o FramesOf(m, y, e)

\* At a header of a run the walk finds its frame and goes on in the run.
LEMMA RunStep ==
  ASSUME NEW m, NEW R, NEW e, RunOf(m, R, e), NEW o \in R
  PROVE  /\ o \in 0 .. Size /\ m[o].frame \in Frames
         /\ \E y : Leads(m, R, e, o, y)
<1> Stored(m) /\ e \in 0 .. Size /\ Run(m, R, e)
  BY DEF RunOf
<1>1. o \in Offsets /\ ~(o >= e \/ m[o].len = 0) /\ m[o].len \in Int
  BY DEF Run, Stored
<1>2. /\ o + m[o].len \in 0 .. Size /\ m[o].len >= 1 /\ o \in 0 .. Size
      /\ FramesOf(m, o, e) = <<m[o].frame>> \o FramesOf(m, o + m[o].len, e)
  BY <1>1, Unfold
<1>3. o + m[o].len = e \/ o + m[o].len \in R
  BY DEF Run
<1>4. m[o].frame \in Frames
  BY <1>1 DEF Stored
<1>5. PICK y \in 0 .. Size : y = o + m[o].len
  BY <1>2
<1>6. y > o
  BY <1>1, <1>2, <1>5
<1>7. Leads(m, R, e, o, y)
  BY <1>2, <1>3, <1>5, <1>6 DEF Leads
<1> QED BY <1>2, <1>4, <1>7

\* m2 holds the same run as m.
SameOn(m, m2, R, e) ==
  /\ Stored(m) /\ Stored(m2) /\ e \in 0 .. Size
  /\ Run(m, R, e) /\ \A o \in R : m2[o] = m[o]

\* Memory that agrees on a run yields the same frames.
LEMMA SameRun ==
  ASSUME NEW m, NEW m2, NEW R, NEW e, SameOn(m, m2, R, e), NEW a \in R
  PROVE  FramesOf(m2, a, e) = FramesOf(m, a, e)
<1> /\ Stored(m) /\ Stored(m2) /\ e \in 0 .. Size
    /\ Run(m, R, e) /\ \A o \in R : m2[o] = m[o]
  BY DEF SameOn
<1> DEFINE G == {x \in 0 .. Size : x \in R => FramesOf(m2, x, e) = FramesOf(m, x, e)}
<1>0. RunOf(m, R, e) /\ RunOf(m2, R, e)
  BY DEF Run, RunOf
<1>1. ASSUME NEW x \in 0 .. Size, \A y \in 0 .. Size : y > x => y \in G
      PROVE  x \in G
  <2> SUFFICES ASSUME x \in R  PROVE FramesOf(m2, x, e) = FramesOf(m, x, e)
    OBVIOUS
  <2>1. PICK y : Leads(m, R, e, x, y)
    BY <1>0, RunStep
  <2>2. PICK z : Leads(m2, R, e, x, z)
    BY <1>0, RunStep
  <2>3. /\ m2[x] = m[x] /\ z = y
        /\ y \in 0 .. Size /\ y > x /\ (y = e \/ y \in R)
        /\ FramesOf(m, x, e) = <<m[x].frame>> \o FramesOf(m, y, e)
        /\ FramesOf(m2, x, e) = <<m2[x].frame>> \o FramesOf(m2, y, e)
    BY <2>1, <2>2 DEF Leads
  <2>4. FramesOf(m2, y, e) = FramesOf(m, y, e)
    <3>1. CASE y = e
      <4>1. FramesOf(m2, e, e) = <<>> /\ FramesOf(m, e, e) = <<>>
        BY e >= e, Unfold
      <4> QED BY <3>1, <4>1
    <3>2. CASE y \in R
      BY <1>1, <2>3, <3>2
    <3> QED BY <2>3, <3>1, <3>2
  <2> QED BY <2>3, <2>4
<1> HIDE DEF G
<1>2. \A x \in 0 .. Size : x \in G
  BY <1>1, Backwards
<1>3. a \in 0 .. Size
  BY DEF Run
<1> QED BY <1>2, <1>3 DEF G

\* What is appended to a sequence is appended to its last part.
LEMMA AppendAfter ==
  \A h, s \in Seq(Frames), x \in Frames : Append(h \o s, x) = h \o Append(s, x)
<1> DEFINE S == Frames
<1> SUFFICES ASSUME NEW h \in Seq(S), NEW s \in Seq(S), NEW x \in S
             PROVE  Append(h \o s, x) = h \o Append(s, x)
  OBVIOUS
<1> HIDE DEF S
<1> DEFINE t == <<x>>
<1>1. t \in Seq(S)
  OBVIOUS
<1>2. h \o s \in Seq(S)
  BY ConcatProperties
<1>3. Append(s, x) = s \o t /\ Append(h \o s, x) = (h \o s) \o t
  BY <1>2, AppendIsConcat
<1> HIDE DEF t
<1>4. (h \o s) \o t = h \o (s \o t)
  BY <1>1, ConcatAssociative
<1> QED BY <1>3, <1>4

\* m2 holds the same run as m and a frame from its end e to e2.
LongerOn(m, m2, R, e, e2) ==
  /\ Stored(m) /\ Stored(m2) /\ e \in Offsets /\ e2 \in 0 .. Size
  /\ Run(m, R, e) /\ \A o \in R : m2[o] = m[o]
  /\ m2[e].len >= 1 /\ e2 = e + m2[e].len

\* o is a header of a run or its end.
InRun(R, e, o) == o = e \/ o \in R

\* m2 holds one frame more than m, the one at e.
OneMore(m, m2, o, e, e2) == FramesOf(m2, o, e2) = Append(FramesOf(m, o, e), m2[e].frame)

\* A frame written behind a run is the last one the walk finds.
LEMMA LongerRun ==
  ASSUME NEW m, NEW m2, NEW R, NEW e, NEW e2, LongerOn(m, m2, R, e, e2),
         NEW a, InRun(R, e, a)
  PROVE  OneMore(m, m2, a, e, e2)
<1> /\ Stored(m) /\ Stored(m2) /\ e \in Offsets /\ e2 \in 0 .. Size
    /\ Run(m, R, e) /\ \A o \in R : m2[o] = m[o]
    /\ m2[e].len >= 1 /\ e2 = e + m2[e].len
  BY DEF LongerOn
<1> a = e \/ a \in R
  BY DEF InRun
<1> DEFINE fr == m2[e].frame
           G == {x \in 0 .. Size : x = e \/ x \in R =>
                    FramesOf(m2, x, e2) = Append(FramesOf(m, x, e), fr)}
<1>0. e \in 0 .. Size /\ fr \in Frames /\ m2[e].len \in Int /\ e2 > e
  <2>1. m2[e].len \in 0 .. Size /\ m2[e].len # 0
    BY DEF Stored
  <2>2. fr \in Frames
    BY <2>1 DEF Stored
  <2> QED BY <2>1, <2>2
<1>1. FramesOf(m2, e, e2) = Append(FramesOf(m, e, e), fr)
  <2>1. FramesOf(m2, e, e2) = <<fr>> \o FramesOf(m2, e + m2[e].len, e2)
    <3>1. ~(e >= e2 \/ m2[e].len = 0)
      BY <1>0
    <3> HIDE DEF fr
    <3>2. FramesOf(m2, e, e2) = <<m2[e].frame>> \o FramesOf(m2, e + m2[e].len, e2)
      BY <1>0, <3>1, Unfold
    <3> QED BY <3>2 DEF fr
  <2>2. FramesOf(m2, e2, e2) = <<>> /\ FramesOf(m, e, e) = <<>>
    BY <1>0, e2 >= e2, e >= e, Unfold
  <2>3. <<fr>> \in Seq(Frames) /\ <<>> \in Seq(Frames)
    BY <1>0, EmptySeq
  <2>4. <<fr>> \o <<>> = <<fr>>
    BY <2>3, ConcatEmptySeq
  <2>5. Append(<<>>, fr) = <<fr>>
    OBVIOUS
  <2> QED BY <2>1, <2>2, <2>4, <2>5
<1>2. ASSUME NEW x \in 0 .. Size, \A y \in 0 .. Size : y > x => y \in G
      PROVE  x \in G
  <2> SUFFICES ASSUME x \in R
               PROVE  FramesOf(m2, x, e2) = Append(FramesOf(m, x, e), fr)
    BY <1>1
  <2>0. PICK y : Leads(m, R, e, x, y)
    <3>1. RunOf(m, R, e)
      BY <1>0 DEF RunOf
    <3> QED BY <3>1, RunStep
  <2>1. /\ y \in 0 .. Size /\ y = x + m[x].len /\ y > x /\ (y = e \/ y \in R)
        /\ FramesOf(m, x, e) = <<m[x].frame>> \o FramesOf(m, y, e)
    BY <2>0 DEF Leads
  <2>2. m2[x] = m[x] /\ x < e /\ m[x].len >= 1 /\ x \in Offsets /\ m[x].frame \in Frames
    <3>1. RunOf(m, R, e)
      BY <1>0 DEF RunOf
    <3>2. x \in 0 .. Size /\ m[x].frame \in Frames
      BY <3>1, RunStep
    <3> QED BY <3>2 DEF Run
  <2>3. FramesOf(m2, x, e2) = <<m2[x].frame>> \o FramesOf(m2, x + m2[x].len, e2)
    <3>1. ~(x >= e2 \/ m2[x].len = 0)
      <4>1. m[x].len # 0
        BY <2>2 DEF Stored
      <4> QED BY <1>0, <2>2, <4>1
    <3> QED BY <3>1, Unfold
  <2>4. FramesOf(m2, y, e2) = Append(FramesOf(m, y, e), fr)
    <3>1. y = e \/ y \in R
      BY <2>1
    <3>2. y \in G
      BY <1>2, <2>1
    <3> QED BY <3>1, <3>2
  <2> DEFINE s == FramesOf(m, y, e)
             h == <<m[x].frame>>
  <2>5. s \in Seq(Frames) /\ h \in Seq(Frames)
    <3>1. FramesOf(m, y, e) \in Seq(Frames)
      BY <1>0, <2>1, FramesType
    <3>2. <<m[x].frame>> \in Seq(Frames)
      BY <2>2
    <3> QED BY <3>1, <3>2
  <2>6. FramesOf(m, x, e) = h \o s /\ FramesOf(m2, x, e2) = h \o Append(s, fr)
    BY <2>1, <2>2, <2>3, <2>4
  <2> HIDE DEF s, h, fr
  <2>7. Append(h \o s, fr) = h \o Append(s, fr)
    <3>1. fr \in Frames
      BY <1>0
    <3> QED BY <2>5, <3>1, AppendAfter, Zenon
  <2> QED BY <2>6, <2>7
<1> HIDE DEF G
<1>3. \A x \in 0 .. Size : x \in G
  BY <1>2, Backwards
<1>4. a \in 0 .. Size
  <2>1. R \subseteq Offsets
    BY DEF Run
  <2>2. CASE a = e
    BY <1>0, <2>2
  <2>3. CASE a \in R
    BY <2>1, <2>3
  <2> QED BY <2>2, <2>3
<1> QED BY <1>3, <1>4 DEF G, OneMore
-----------------------------------------------------------------------------
(* What the sections under the lock do to the frames                       *)

\* The frames between the given positions.
FramesBetween(m, r, w, e) ==
  IF e = 0 THEN FramesOf(m, r, w) ELSE FramesOf(m, r, e) \o FramesOf(m, 0, w)

LEMMA UnreleasedIs ==
  /\ Unreleased = FramesBetween(mem, rp, wp, fill_end)
  /\ Unreleased' = FramesBetween(mem', rp', wp', fill_end')
BY DEF Unreleased, FramesUpTo, FramesBetween, FramesOf

\* Where the frames end that start at the read position.
FirstEnd == IF fill_end = 0 THEN wp ELSE fill_end

\* R is the run at the read position, Q the one at the start of the ring.
Runs(R, Q) ==
  /\ Run(mem, R, FirstEnd) /\ (Live(rp) => rp \in R) /\ \A o \in R : Live(o)
  /\ fill_end # 0 =>
       Run(mem, Q, wp) /\ (wp > 0 => 0 \in Q) /\ \A o \in Q : Live(o)

\* The tiles of the ring are one run or two.
LEMMA TilesAreRuns ==
  ASSUME TypeOK, Positions, Tiled
  PROVE  \E R, Q : Runs(R, Q)
<1>1. PICK S \in SUBSET Offsets : Tiles(S)
  BY DEF Tiled
<1>2. \A o \in S : /\ o \in Offsets /\ Live(o) /\ mem[o].len \in Int /\ mem[o].len >= 1
                   /\ o + mem[o].len <= RunEnd(o)
                   /\ o + mem[o].len = RunEnd(o) \/ o + mem[o].len \in S
  BY <1>1 DEF Tiles, TypeOK
<1>3. wp \in 0 .. Size /\ rp \in 0 .. Size /\ fill_end \in 0 .. Size
  BY DEF TypeOK
<1>4. PICK R \in SUBSET S : \A o \in S : o \in R <=> fill_end = 0 \/ o >= rp
  <2>1. {o \in S : fill_end = 0 \/ o >= rp} \in SUBSET S
    OBVIOUS
  <2> QED BY <2>1
<1>5. PICK Q \in SUBSET S : \A o \in S : o \in Q <=> o < rp
  <2>1. {o \in S : o < rp} \in SUBSET S
    OBVIOUS
  <2> QED BY <2>1
<1>6. Run(mem, R, FirstEnd)
  <2>1. ASSUME NEW o \in R
        PROVE  /\ o < FirstEnd /\ mem[o].len >= 1 /\ o + mem[o].len <= FirstEnd
               /\ o + mem[o].len = FirstEnd \/ o + mem[o].len \in R
    <3>1. RunEnd(o) = FirstEnd /\ FirstEnd \in Int
      BY <1>2, <1>3, <1>4 DEF RunEnd, FirstEnd
    <3>2. o + mem[o].len \in S => o + mem[o].len \in R
      BY <1>2, <1>3, <1>4
    <3> QED BY <1>2, <3>1, <3>2
  <2> QED BY <2>1 DEF Run
<1>7. ASSUME fill_end # 0  PROVE Run(mem, Q, wp)
  <2>1. ASSUME NEW o \in Q
        PROVE  /\ o < wp /\ mem[o].len >= 1 /\ o + mem[o].len <= wp
               /\ o + mem[o].len = wp \/ o + mem[o].len \in Q
    <3>1. RunEnd(o) = wp /\ o < rp
      BY <1>2, <1>3, <1>5 DEF RunEnd
    <3>2. ASSUME o + mem[o].len \in S, o + mem[o].len # wp
          PROVE  o + mem[o].len \in Q
      BY <1>2, <1>3, <1>5, <1>7, <3>1, <3>2 DEF Positions
    <3> QED BY <1>2, <1>3, <3>1, <3>2
  <2> QED BY <2>1 DEF Run
<1>8. Live(rp) => rp \in R
  BY <1>1, <1>3, <1>4 DEF Tiles
<1>9. fill_end # 0 /\ wp > 0 => 0 \in Q
  BY <1>1, <1>3, <1>5 DEF Tiles, Positions
<1>10. Runs(R, Q)
  BY <1>2, <1>6, <1>7, <1>8, <1>9 DEF Runs
<1> QED BY <1>10

\* Memory that agrees on the live bytes holds the same frames.
LEMMA SameMemory ==
  ASSUME TypeOK, Positions, Tiled, Stored(mem), NEW m2, Stored(m2),
         \A o \in Offsets : Live(o) => m2[o] = mem[o]
  PROVE  /\ FramesOf(m2, rp, FirstEnd) = FramesOf(mem, rp, FirstEnd)
         /\ fill_end # 0 => FramesOf(m2, 0, wp) = FramesOf(mem, 0, wp)
<1>1. PICK R, Q : Runs(R, Q)
  BY TilesAreRuns
<1>2. /\ wp \in 0 .. Size /\ rp \in 0 .. Size /\ fill_end \in 0 .. Size
      /\ FirstEnd \in 0 .. Size /\ 0 \in 0 .. Size
  BY DEF TypeOK, FirstEnd
<1>3. Run(mem, R, FirstEnd) /\ \A o \in R : m2[o] = mem[o]
  BY <1>1 DEF Runs, Run
<1>4. FramesOf(m2, rp, FirstEnd) = FramesOf(mem, rp, FirstEnd)
  <2>1. CASE Live(rp)
    <3>1. rp \in R
      BY <1>1, <2>1 DEF Runs
    <3>2. SameOn(mem, m2, R, FirstEnd)
      BY <1>2, <1>3 DEF SameOn
    <3> QED BY <3>1, <3>2, SameRun
  <2>2. CASE ~Live(rp)
    <3>1. rp >= FirstEnd
      BY <1>2, <2>2 DEF Live, FirstEnd, Positions
    <3> QED BY <1>2, <3>1, Unfold
  <2> QED BY <2>1, <2>2
<1>5. ASSUME fill_end # 0  PROVE FramesOf(m2, 0, wp) = FramesOf(mem, 0, wp)
  <2>1. Run(mem, Q, wp) /\ \A o \in Q : m2[o] = mem[o]
    BY <1>1, <1>5 DEF Runs, Run
  <2>2. CASE wp > 0
    <3>1. 0 \in Q
      BY <1>1, <1>5, <2>2 DEF Runs
    <3>2. SameOn(mem, m2, Q, wp)
      BY <1>2, <2>1 DEF SameOn
    <3> QED BY <3>1, <3>2, SameRun
  <2>3. CASE ~(wp > 0)
    <3>1. 0 >= wp
      BY <1>2, <2>3
    <3> QED BY <1>2, <3>1, Unfold
  <2> QED BY <2>2, <2>3
<1> QED BY <1>4, <1>5

\* The frames between the positions are frames.
LEMMA FramesTyped ==
  ASSUME TypeOK, Stored(mem)
  PROVE  /\ Unreleased \in Seq(Frames)
         /\ FramesOf(mem, rp, FirstEnd) \in Seq(Frames)
         /\ FramesOf(mem, 0, wp) \in Seq(Frames)
<1>1. /\ wp \in 0 .. Size /\ rp \in 0 .. Size /\ fill_end \in 0 .. Size
      /\ FirstEnd \in 0 .. Size /\ 0 \in 0 .. Size
  BY DEF TypeOK, FirstEnd
<1>2. FramesOf(mem, rp, FirstEnd) \in Seq(Frames)
  BY <1>1, FramesType
<1>3. FramesOf(mem, 0, wp) \in Seq(Frames)
  BY <1>1, FramesType
<1>4. Unreleased = IF fill_end = 0 THEN FramesOf(mem, rp, FirstEnd)
                   ELSE FramesOf(mem, rp, FirstEnd) \o FramesOf(mem, 0, wp)
  BY UnreleasedIs DEF FramesBetween, FirstEnd
<1>5. FramesOf(mem, rp, FirstEnd) \o FramesOf(mem, 0, wp) \in Seq(Frames)
  BY <1>2, <1>3, ConcatProperties
<1> QED BY <1>2, <1>3, <1>4, <1>5

\* Looking for room, and starting again at 0, changes no frame.
LEMMA AttemptFrames ==
  ASSUME TypeOK, Positions, Tiled, Stored(mem),
         NEW n \in 1 .. Size, NEW u, Attempt(n, u)
  PROVE  Unreleased' = Unreleased /\ Stored(mem')
<1>1. /\ \A o \in Offsets : Live(o) => mem'[o] = mem[o]
      /\ \A o \in Offsets : mem'[o] = mem[o] \/ mem'[o] = Junk
      /\ mem' \in [Offsets -> [len : 0 .. Size, frame : 0 .. MaxFrames]]
  BY AttemptKeeps
<1>2. Stored(mem')
  <2>1. Junk.len = 0
    BY DEF Junk
  <2>2. ASSUME NEW o \in Offsets
        PROVE  o + mem'[o].len <= Size /\ (mem'[o].len # 0 => mem'[o].frame \in Frames)
    <3>1. CASE mem'[o] = mem[o]
      BY <3>1 DEF Stored
    <3>2. CASE mem'[o] = Junk
      BY <2>1, <3>2
    <3> QED BY <1>1, <3>1, <3>2
  <2> QED BY <1>1, <2>2 DEF Stored
<1>3. /\ FramesOf(mem', rp, FirstEnd) = FramesOf(mem, rp, FirstEnd)
      /\ fill_end # 0 => FramesOf(mem', 0, wp) = FramesOf(mem, 0, wp)
  BY <1>1, <1>2, SameMemory
<1>4. wp \in 0 .. Size /\ rp \in 0 .. Size /\ fill_end \in 0 .. Size /\ 0 \in 0 .. Size
  BY DEF TypeOK
<1>5. FramesOf(mem', 0, 0) = <<>>
  BY <1>2, <1>4, 0 >= 0, Unfold
<1>6. CASE ~Wraps(n)
  <2>1. wp' = wp /\ rp' = rp /\ fill_end' = fill_end
    BY <1>6, AttemptKeeps DEF Placed
  <2> QED BY <1>2, <1>3, <2>1, UnreleasedIs DEF FramesBetween, FirstEnd
<1>7. CASE Wraps(n) /\ HaveData
  <2>1. fill_end = 0 /\ wp' = 0 /\ rp' = rp /\ fill_end' = wp /\ wp # 0
    BY <1>7, AttemptKeeps DEF Placed, Wraps, HaveData, TypeOK, Positions
  <2>2. Unreleased = FramesOf(mem, rp, wp)
    BY <2>1, UnreleasedIs DEF FramesBetween
  <2>3. Unreleased' = FramesOf(mem', rp, wp) \o FramesOf(mem', 0, 0)
    BY <2>1, UnreleasedIs DEF FramesBetween
  <2>4. FramesOf(mem', rp, wp) = FramesOf(mem, rp, wp)
    BY <1>3, <2>1 DEF FirstEnd
  <2>5. FramesOf(mem, rp, wp) \in Seq(Frames)
    BY <1>4, FramesType
  <2>6. FramesOf(mem, rp, wp) \o <<>> = FramesOf(mem, rp, wp)
    BY <2>5, ConcatEmptySeq
  <2> QED BY <1>2, <1>5, <2>2, <2>3, <2>4, <2>6
<1>8. CASE Wraps(n) /\ ~HaveData
  <2>1. fill_end = 0 /\ wp = rp /\ wp' = 0 /\ rp' = 0 /\ fill_end' = 0
    BY <1>8, AttemptKeeps DEF Placed, Wraps, HaveData
  <2>2. Unreleased = FramesOf(mem, wp, wp) /\ Unreleased' = FramesOf(mem', 0, 0)
    BY <2>1, UnreleasedIs DEF FramesBetween
  <2>3. FramesOf(mem, wp, wp) = <<>>
    BY <1>4, wp >= wp, Unfold
  <2> QED BY <1>2, <1>5, <2>2, <2>3
<1> QED BY <1>6, <1>7, <1>8

\* A frame that is sent comes behind all others.
LEMMA SendFrames ==
  ASSUME TypeOK, Positions, Tiled, Granted, Stored(mem), NEW n \in Requests, SendBuffer(n)
  PROVE  /\ Unreleased' = Append(Unreleased, sent + 1) /\ Stored(mem')
         /\ \A o \in Offsets : Live(o) => mem'[o] = mem[o]
<1> DEFINE m == n + HeadSize
<1>1. /\ m \in 1 .. Size /\ sent + 1 \in Frames
      /\ mem' = [mem EXCEPT ![wp] = [len |-> m, frame |-> sent + 1]]
      /\ wp' = wp + m /\ wp' \in 0 .. Size /\ wp \in Offsets /\ ~Live(wp)
      /\ rp' = rp /\ fill_end' = fill_end
  BY SendKeeps
<1> HIDE DEF m
<1>2. /\ wp \in 0 .. Size /\ rp \in 0 .. Size /\ fill_end \in 0 .. Size
      /\ FirstEnd \in 0 .. Size /\ 0 \in 0 .. Size
  BY DEF TypeOK, FirstEnd
<1>3. /\ mem'[wp].len = m /\ mem'[wp].frame = sent + 1
      /\ \A o \in Offsets : o # wp => mem'[o] = mem[o]
      /\ mem' \in [Offsets -> [len : 0 .. Size, frame : 0 .. MaxFrames]]
  <2>1. mem \in [Offsets -> [len : 0 .. Size, frame : 0 .. MaxFrames]]
    BY DEF TypeOK
  <2>2. m \in 0 .. Size /\ sent + 1 \in 0 .. MaxFrames
    BY <1>1
  <2> QED BY <1>1, <2>1, <2>2
<1>4. Stored(mem')
  <2>1. ASSUME NEW o \in Offsets
        PROVE  o + mem'[o].len <= Size /\ (mem'[o].len # 0 => mem'[o].frame \in Frames)
    <3>1. CASE o = wp
      BY <1>1, <1>3, <3>1
    <3>2. CASE o # wp
      BY <1>3, <3>2 DEF Stored
    <3> QED BY <3>1, <3>2
  <2> QED BY <1>3, <2>1 DEF Stored
<1>5. \A o \in Offsets : Live(o) => mem'[o] = mem[o]
  BY <1>1, <1>3
<1>6. /\ FramesOf(mem', rp, FirstEnd) = FramesOf(mem, rp, FirstEnd)
      /\ fill_end # 0 => FramesOf(mem', 0, wp) = FramesOf(mem, 0, wp)
  BY <1>4, <1>5, SameMemory
<1>7. PICK R, Q : Runs(R, Q)
  BY TilesAreRuns
<1>8. mem'[wp].len >= 1 /\ wp' = wp + mem'[wp].len
  BY <1>1, <1>3
<1>9. ASSUME fill_end = 0
      PROVE  FramesOf(mem', rp, wp') = Append(FramesOf(mem, rp, wp), sent + 1)
  <2>1. LongerOn(mem, mem', R, wp, wp')
    <3>1. Run(mem, R, wp) /\ \A o \in R : mem'[o] = mem[o]
      BY <1>5, <1>7, <1>9 DEF Runs, Run, FirstEnd
    <3> QED BY <1>1, <1>4, <1>8, <3>1 DEF LongerOn
  <2>2. InRun(R, wp, rp)
    BY <1>2, <1>7, <1>9 DEF Runs, Live, Positions, InRun
  <2>3. OneMore(mem, mem', rp, wp, wp')
    BY <2>1, <2>2, LongerRun
  <2> QED BY <1>3, <2>3 DEF OneMore
<1>10. ASSUME fill_end # 0
       PROVE  FramesOf(mem', 0, wp') = Append(FramesOf(mem, 0, wp), sent + 1)
  <2>1. LongerOn(mem, mem', Q, wp, wp')
    <3>1. Run(mem, Q, wp) /\ \A o \in Q : mem'[o] = mem[o]
      BY <1>5, <1>7, <1>10 DEF Runs, Run
    <3> QED BY <1>1, <1>4, <1>8, <3>1 DEF LongerOn
  <2>2. InRun(Q, wp, 0)
    BY <1>2, <1>7, <1>10 DEF Runs, InRun
  <2>3. OneMore(mem, mem', 0, wp, wp')
    BY <2>1, <2>2, LongerRun
  <2> QED BY <1>3, <2>3 DEF OneMore
<1>11. CASE fill_end = 0
  <2>1. Unreleased = FramesOf(mem, rp, wp) /\ Unreleased' = FramesOf(mem', rp, wp')
    BY <1>1, <1>11, UnreleasedIs DEF FramesBetween
  <2> QED BY <1>4, <1>5, <1>9, <1>11, <2>1
<1>12. CASE fill_end # 0
  <2> DEFINE a == FramesOf(mem, rp, fill_end)
             b == FramesOf(mem, 0, wp)
  <2>1. Unreleased = a \o b
    BY <1>12, UnreleasedIs DEF FramesBetween
  <2>2. Unreleased' = FramesOf(mem', rp, fill_end) \o FramesOf(mem', 0, wp')
    BY <1>1, <1>12, UnreleasedIs DEF FramesBetween
  <2>3. FramesOf(mem', rp, fill_end) = a /\ FramesOf(mem', 0, wp') = Append(b, sent + 1)
    BY <1>6, <1>10, <1>12 DEF FirstEnd
  <2>4. a \in Seq(Frames) /\ b \in Seq(Frames)
    BY <1>12, FramesTyped DEF FirstEnd
  <2> HIDE DEF a, b
  <2>5. Append(a \o b, sent + 1) = a \o Append(b, sent + 1)
    BY <1>1, <2>4, AppendAfter, Zenon
  <2> QED BY <1>4, <1>5, <2>1, <2>2, <2>3, <2>5
<1> QED BY <1>11, <1>12

\* The first of a sequence of frames, and what is left without it.
LEMMA Parts ==
  \A x \in Frames, s \in Seq(Frames) :
     /\ <<x>> \o s \in Seq(Frames) /\ <<x>> \o s # <<>>
     /\ Head(<<x>> \o s) = x /\ Tail(<<x>> \o s) = s
OBVIOUS

\* The frames behind the one at the read position: where data_queue_read_unlock
\* leaves the positions.
AfterFirst ==
  LET next == rp + mem[rp].len
      turns == fill_end # 0 /\ next >= fill_end
  IN  FramesBetween(mem, IF turns THEN 0 ELSE next, wp, IF turns THEN 0 ELSE fill_end)

\* The frame at the read position is the oldest.
LEMMA FirstFrame ==
  ASSUME TypeOK, Positions, Tiled, Stored(mem), Live(rp)
  PROVE  /\ mem[rp].frame \in Frames /\ AfterFirst \in Seq(Frames)
         /\ Unreleased = <<mem[rp].frame>> \o AfterFirst
<1> DEFINE next == rp + mem[rp].len
           x == mem[rp].frame
           rest == FramesOf(mem, next, FirstEnd)
           b == FramesOf(mem, 0, wp)
<1>1. /\ wp \in 0 .. Size /\ rp \in 0 .. Size /\ fill_end \in 0 .. Size
      /\ FirstEnd \in 0 .. Size
  BY DEF TypeOK, FirstEnd
<1>2. /\ rp \in Offsets /\ mem[rp].len \in 1 .. Size /\ next <= FirstEnd
      /\ next \in 0 .. Size /\ rp < FirstEnd
  BY <1>1, HeadFrame DEF RunEnd, FirstEnd, Live, Positions
<1>3. x \in Frames
  BY <1>2 DEF Stored
<1>4. FramesOf(mem, rp, FirstEnd) = <<x>> \o rest
  <2>1. ~(rp >= FirstEnd \/ mem[rp].len = 0)
    BY <1>1, <1>2
  <2> QED BY <1>1, <2>1, Unfold
<1>5. rest \in Seq(Frames) /\ b \in Seq(Frames) /\ <<x>> \in Seq(Frames)
  <2>1. b \in Seq(Frames)
    BY FramesTyped
  <2>2. <<x>> \in Seq(Frames)
    BY <1>3
  <2>3. PICK k \in 0 .. Size : k = next
    BY <1>2
  <2>4. FramesOf(mem, k, FirstEnd) \in Seq(Frames)
    BY <1>1, FramesType
  <2> QED BY <2>1, <2>2, <2>3, <2>4
<1>6. next = FirstEnd => rest = <<>>
  <2>1. FirstEnd >= FirstEnd
    BY <1>1
  <2>2. FramesOf(mem, FirstEnd, FirstEnd) = <<>>
    BY <1>1, <2>1, Unfold
  <2> QED BY <2>2
<1>7. CASE fill_end = 0
  <2>1. Unreleased = FramesOf(mem, rp, FirstEnd) /\ AfterFirst = rest
    BY <1>7, UnreleasedIs DEF FramesBetween, FirstEnd, AfterFirst
  <2> QED BY <1>3, <1>4, <1>5, <2>1
<1>8. CASE fill_end # 0
  <2>1. Unreleased = FramesOf(mem, rp, FirstEnd) \o b
    BY <1>8, UnreleasedIs DEF FramesBetween, FirstEnd
  <2>2. AfterFirst = rest \o b
    <3>1. CASE next >= fill_end
      <4>1. next = FirstEnd /\ AfterFirst = b
        BY <1>1, <1>2, <1>8, <3>1 DEF FramesBetween, FirstEnd, AfterFirst
      <4>2. <<>> \o b = b
        BY <1>5, ConcatEmptySeq
      <4> QED BY <1>6, <4>1, <4>2
    <3>2. CASE ~(next >= fill_end)
      BY <1>8, <3>2 DEF FramesBetween, FirstEnd, AfterFirst
    <3> QED BY <3>1, <3>2
  <2> DEFINE t == <<x>>
  <2>3. Unreleased = (t \o rest) \o b
    BY <1>4, <2>1
  <2>4. t \in Seq(Frames)
    BY <1>5
  <2> HIDE DEF t, rest, b
  <2>5. (t \o rest) \o b = t \o (rest \o b) /\ rest \o b \in Seq(Frames)
    <3> DEFINE S == Frames
    <3>1. t \in Seq(S) /\ rest \in Seq(S) /\ b \in Seq(S)
      BY <1>5, <2>4
    <3> HIDE DEF S
    <3>2. (t \o rest) \o b = t \o (rest \o b)
      BY <3>1, ConcatAssociative
    <3>3. rest \o b \in Seq(S)
      BY <3>1, ConcatProperties
    <3> QED BY <3>2, <3>3 DEF S
  <2>6. Unreleased = t \o AfterFirst /\ AfterFirst \in Seq(Frames)
    BY <2>2, <2>3, <2>5
  <2> QED BY <1>3, <2>6 DEF t
<1> QED BY <1>7, <1>8

\* Without data there is no frame.
LEMMA NoFrames ==
  ASSUME TypeOK, Positions, Stored(mem), ~HaveData
  PROVE  Unreleased = <<>>
<1>1. fill_end = 0 /\ wp = rp /\ wp \in 0 .. Size
  BY DEF HaveData, TypeOK
<1>2. FramesOf(mem, wp, wp) = <<>>
  BY <1>1, wp >= wp, Unfold
<1> QED BY <1>1, <1>2, UnreleasedIs DEF FramesBetween
-----------------------------------------------------------------------------
(* The queue implements FrameFifo                                          *)

FifoInv == IInv /\ Stored(mem)

\* What FrameFifo is told of the ring.
Pending == IF rpc = "reading" THEN Tail(Unreleased) ELSE Unreleased
Held    == IF rpc = "reading" THEN mem[got].frame ELSE NoFrame

\* While a frame is read, it is held and those behind it are pending.
LEMMA WhileReading ==
  ASSUME FifoInv, rpc = "reading"
  PROVE  /\ got = rp /\ rp \in Offsets /\ Live(rp) /\ HaveData
         /\ Held \in Frames /\ Held = mem[rp].frame /\ Pending = AfterFirst
         /\ Unreleased \in Seq(Frames) /\ Unreleased # <<>>
<1>1. TypeOK /\ Positions /\ Tiled /\ Stored(mem) /\ got = rp /\ Live(rp)
  BY DEF FifoInv, IInv, Accounting
<1>2. rp \in Offsets /\ HaveData
  BY <1>1, HeadFrame, LiveBounds
<1>3. /\ mem[rp].frame \in Frames /\ AfterFirst \in Seq(Frames)
      /\ Unreleased = <<mem[rp].frame>> \o AfterFirst
  BY <1>1, FirstFrame
<1> DEFINE x == mem[rp].frame
           s == AfterFirst
<1>4. x \in Frames /\ s \in Seq(Frames) /\ Unreleased = <<x>> \o s
  BY <1>3
<1>5. Held = x
  BY <1>1 DEF Held
<1> HIDE DEF x, s
<1>6. Tail(Unreleased) = s /\ Unreleased # <<>> /\ Unreleased \in Seq(Frames)
  BY <1>4, Parts, Zenon
<1>7. Pending = s
  BY <1>6 DEF Pending
<1> QED BY <1>1, <1>2, <1>4, <1>5, <1>6, <1>7 DEF x, s

\* A step that keeps the frames and the reader's hold is none of the FIFO's.
LEMMA Quiet ==
  ASSUME Unreleased' = Unreleased, rpc' = "reading" <=> rpc = "reading",
         rpc = "reading" => mem'[got'].frame = mem[got].frame
  PROVE  Pending' = Pending /\ Held' = Held
BY DEF Pending, Held

\* Neither the ring nor the reader's frame moves.
LEMMA QuietRing ==
  ASSUME UNCHANGED <<wp, rp, fill_end, mem, got>>, rpc' = "reading" <=> rpc = "reading"
  PROVE  Pending' = Pending /\ Held' = Held
<1>1. Unreleased' = Unreleased
  BY UnreleasedIs
<1> QED BY <1>1, Quiet

\* A writer that looks for room is none of the FIFO's business.
LEMMA AttemptQuiet ==
  ASSUME FifoInv, NEW n \in 1 .. Size, NEW u, Attempt(n, u), UNCHANGED <<rpc, got>>
  PROVE  Pending' = Pending /\ Held' = Held /\ Stored(mem')
<1>1. TypeOK /\ Positions /\ Tiled /\ Stored(mem)
  BY DEF FifoInv, IInv
<1>2. Unreleased' = Unreleased /\ Stored(mem')
  BY <1>1, AttemptFrames
<1>3. \A o \in Offsets : Live(o) => mem'[o] = mem[o]
  BY <1>1, AttemptKeeps
<1>4. rpc = "reading" => mem'[got'].frame = mem[got].frame
  BY <1>3, WhileReading
<1> QED BY <1>2, <1>4, Quiet

\* Sending a frame is Put.
LEMMA SendPuts ==
  ASSUME FifoInv, NEW n \in Requests, SendBuffer(n)
  PROVE  /\ \E f \in Frames : Pending' = Append(Pending, f)
         /\ Held' = Held /\ Stored(mem')
<1>1. TypeOK /\ Positions /\ Tiled /\ Granted /\ Stored(mem)
  BY DEF FifoInv, IInv
<1>2. /\ Unreleased' = Append(Unreleased, sent + 1) /\ Stored(mem')
      /\ \A o \in Offsets : Live(o) => mem'[o] = mem[o]
  BY <1>1, SendFrames
<1>3. sent + 1 \in Frames /\ UNCHANGED <<rpc, got>>
  BY <1>1, SendKeeps
<1>4. Held' = Held
  <2>1. rpc = "reading" => mem'[got'].frame = mem[got].frame
    BY <1>2, <1>3, WhileReading
  <2> QED BY <1>3, <2>1 DEF Held
<1>5. Pending' = Append(Pending, sent + 1)
  <2>1. CASE rpc = "reading"
    <3>1. Unreleased \in Seq(Frames) /\ Unreleased # <<>>
      BY <2>1, WhileReading
    <3>2. Tail(Append(Unreleased, sent + 1)) = Append(Tail(Unreleased), sent + 1)
      BY <3>1, HeadTailAppend
    <3> QED BY <1>2, <1>3, <2>1, <3>2 DEF Pending
  <2>2. CASE rpc # "reading"
    BY <1>2, <1>3, <2>2 DEF Pending
  <2> QED BY <2>1, <2>2
<1> QED BY <1>2, <1>3, <1>4, <1>5

\* The reader finds nothing, or takes the oldest frame.
LEMMA LookTakes ==
  ASSUME FifoInv, rpc # "reading", NEW u, Look(u), UNCHANGED <<wp, rp, fill_end, mem>>
  PROVE  \/ Pending' = Pending /\ Held' = Held
         \/ /\ Held = NoFrame /\ Pending # <<>>
            /\ Held' = Head(Pending) /\ Pending' = Tail(Pending)
<1>1. TypeOK /\ Positions /\ Tiled /\ Accounting /\ Stored(mem)
  BY DEF FifoInv, IInv
<1>2. Unreleased' = Unreleased
  BY UnreleasedIs
<1>3. CASE filled = 0
  <2>1. rpc' = "wait"
    BY <1>3 DEF Look
  <2> QED BY <1>2, <2>1, Quiet
<1>4. CASE filled # 0
  <2>1. ReadPos = rp /\ Live(rp)
    BY <1>1, <1>4, ReadsOldest
  <2>2. rpc' = "reading" /\ got' = rp
    BY <1>4, <2>1 DEF Look
  <2>3. /\ mem[rp].frame \in Frames /\ AfterFirst \in Seq(Frames)
        /\ Unreleased = <<mem[rp].frame>> \o AfterFirst
    BY <1>1, <2>1, FirstFrame
  <2> DEFINE x == mem[rp].frame
             s == AfterFirst
  <2>4. x \in Frames /\ s \in Seq(Frames) /\ Unreleased = <<x>> \o s
    BY <2>3
  <2>5. Held' = x /\ Held = NoFrame /\ Pending = Unreleased /\ Pending' = Tail(Unreleased)
    BY <1>2, <2>2 DEF Held, Pending
  <2> HIDE DEF x, s
  <2>6. Head(Unreleased) = x /\ Unreleased # <<>>
    BY <2>4, Parts, Zenon
  <2> QED BY <2>5, <2>6
<1> QED BY <1>3, <1>4

\* Giving a frame back is Release.
LEMMA UnlockReleases ==
  ASSUME FifoInv, ReadUnlock
  PROVE  Held # NoFrame /\ Held' = NoFrame /\ Pending' = Pending
<1>1. rpc = "reading" /\ rpc' = "idle" /\ wp' = wp /\ mem' = mem
  BY DEF ReadUnlock
<1>2. HaveData /\ Held \in Frames /\ Pending = AfterFirst
  BY <1>1, WhileReading
<1>3. AfterFirst = FramesBetween(mem', rp', wp', fill_end')
  BY <1>1, <1>2 DEF ReadUnlock, AfterFirst
<1>4. Pending' = Unreleased' /\ Held' = NoFrame
  BY <1>1 DEF Pending, Held
<1> QED BY <1>2, <1>3, <1>4, UnreleasedIs

\* Throwing everything away is Drain.
LEMMA ConsumeDrains ==
  ASSUME FifoInv, ConsumeAll
  PROVE  Pending' = <<>> /\ Held' = Held
<1>1. rpc # "reading" /\ rpc' = rpc /\ wp' = wp /\ rp' = wp /\ fill_end' = 0 /\ mem' = mem
  BY DEF ConsumeAll
<1>2. wp \in 0 .. Size /\ wp >= wp /\ Stored(mem)
  BY DEF FifoInv, IInv, TypeOK
<1>3. FramesOf(mem, wp, wp) = <<>>
  BY <1>2, Unfold
<1>4. Unreleased' = <<>>
  BY <1>1, <1>3, UnreleasedIs DEF FramesBetween
<1> QED BY <1>1, <1>4 DEF Pending, Held

LEMMA FifoInit == Init => Stored(mem) /\ Fifo!Init
<1> SUFFICES ASSUME Init  PROVE Stored(mem) /\ Fifo!Init
  OBVIOUS
<1>1. Stored(mem)
  BY DEF Init, Stored, Junk
<1>2. TypeOK /\ Positions /\ ~HaveData /\ rpc = "idle"
  <2>1. IInv
    BY InitInv
  <2> QED BY <2>1 DEF IInv, Init, HaveData
<1>3. Unreleased = <<>>
  BY <1>1, <1>2, NoFrames
<1> QED BY <1>1, <1>2, <1>3 DEF Fifo!Init

LEMMA FifoStep == FifoInv /\ [Next]_vars => Stored(mem)' /\ [Fifo!Next]_(Fifo!vars)
<1> SUFFICES ASSUME FifoInv, [Next]_vars
             PROVE  Stored(mem') /\ [Fifo!Next]_(Fifo!vars)
  OBVIOUS
<1>1. \/ Stored(mem') /\ Pending' = Pending /\ Held' = Held
      \/ Stored(mem') /\ Held' = Held /\ \E f \in Frames : Pending' = Append(Pending, f)
      \/ /\ Stored(mem') /\ Held = NoFrame /\ Pending # <<>>
         /\ Held' = Head(Pending) /\ Pending' = Tail(Pending)
      \/ Stored(mem') /\ Held # NoFrame /\ Held' = NoFrame /\ Pending' = Pending
      \/ Stored(mem') /\ Pending' = <<>> /\ Held' = Held
  <2>0. Stored(mem)
    BY DEF FifoInv
  <2>1. ASSUME NEW n \in Requests, GetBuffer(n)
        PROVE  Stored(mem') /\ Pending' = Pending /\ Held' = Held
    <3>1. n + HeadSize \in 1 .. Size /\ Attempt(n + HeadSize, user) /\ UNCHANGED <<rpc, got>>
      BY <2>1 DEF GetBuffer
    <3> QED BY <3>1, AttemptQuiet
  <2>2. ASSUME WriterResumes  PROVE Stored(mem') /\ Pending' = Pending /\ Held' = Held
    <3>1. UNCHANGED <<rpc, got>>
      BY <2>2 DEF WriterResumes
    <3>2. CASE ~quit
      <4>1. Attempt(want, user - 1) /\ want \in 1 .. Size
        BY <2>2, <3>2 DEF WriterResumes, FifoInv, IInv, Granted, TypeOK
      <4> QED BY <3>1, <4>1, AttemptQuiet
    <3>3. CASE quit
      <4>1. UNCHANGED <<wp, rp, fill_end, mem>>
        BY <2>2, <3>3 DEF WriterResumes
      <4> QED BY <2>0, <3>1, <4>1, QuietRing
    <3> QED BY <3>2, <3>3
  <2>3. ASSUME ReadLock
        PROVE  \/ Pending' = Pending /\ Held' = Held
               \/ /\ Held = NoFrame /\ Pending # <<>>
                  /\ Held' = Head(Pending) /\ Pending' = Tail(Pending)
    <3>1. rpc # "reading" /\ Look(user) /\ UNCHANGED <<wp, rp, fill_end, mem>>
      BY <2>3 DEF ReadLock
    <3> QED BY <3>1, LookTakes
  <2>4. ASSUME ReaderResumes
        PROVE  \/ Pending' = Pending /\ Held' = Held
               \/ /\ Held = NoFrame /\ Pending # <<>>
                  /\ Held' = Head(Pending) /\ Pending' = Tail(Pending)
    <3>1. rpc # "reading" /\ UNCHANGED <<wp, rp, fill_end, mem>>
      BY <2>4 DEF ReaderResumes
    <3>2. CASE ~quit
      <4>1. Look(user - 1)
        BY <2>4, <3>2 DEF ReaderResumes
      <4> QED BY <3>1, <4>1, LookTakes
    <3>3. CASE quit
      <4>1. rpc' = "idle" /\ got' = got
        BY <2>4, <3>3 DEF ReaderResumes
      <4> QED BY <3>1, <4>1, QuietRing
    <3> QED BY <3>2, <3>3
  <2>5. ASSUME ReadLock \/ ReaderResumes \/ ReadUnlock \/ ConsumeAll  PROVE Stored(mem')
    BY <2>0, <2>5 DEF ReadLock, ReaderResumes, ReadUnlock, ConsumeAll
  <2>6. ASSUME \/ WriterWakes \/ WriterClears \/ Abandon
               \/ ReaderWakes \/ ReaderClears
               \/ Wakeup \/ CloserWakes \/ CloserClears \/ CloserResumes
               \/ UNCHANGED vars
        PROVE  Stored(mem') /\ Pending' = Pending /\ Held' = Held
    <3>1. /\ UNCHANGED <<wp, rp, fill_end, mem, got>>
          /\ rpc' = "reading" <=> rpc = "reading"
      BY <2>6 DEF WriterWakes, WriterClears, Abandon, ReaderWakes, ReaderClears,
                  Wakeup, CloserWakes, CloserClears, CloserResumes, vars
    <3> QED BY <2>0, <3>1, QuietRing
  <2>7. CASE ReadUnlock
    BY <2>5, <2>7, UnlockReleases
  <2>8. CASE ConsumeAll
    BY <2>5, <2>8, ConsumeDrains
  <2> QED BY <2>1, <2>2, <2>3, <2>4, <2>5, <2>6, <2>7, <2>8, SendPuts DEF Next
<1>2. /\ Fifo!vars = <<Pending, Held>> /\ Fifo!vars' = <<Pending', Held'>>
      /\ Fifo!Put <=> (\E f \in Frames : Pending' = Append(Pending, f)) /\ Held' = Held
      /\ Fifo!Take <=> /\ Held = NoFrame /\ Pending # <<>>
                       /\ Held' = Head(Pending) /\ Pending' = Tail(Pending)
      /\ Fifo!Release <=> Held # NoFrame /\ Held' = NoFrame /\ Pending' = Pending
      /\ Fifo!Drain <=> Pending' = <<>> /\ Held' = Held
  BY Zenon DEF Fifo!vars, Fifo!Put, Fifo!Take, Fifo!Release, Fifo!Drain, Pending, Held
<1> QED BY <1>1, <1>2 DEF Fifo!Next

\* What is read is what was sent, whole, once and in order: the ring
\* implements FrameFifo whatever its size, the sizes of the frames and the
\* order in which the threads run (data_queue.h:31-35, 93).
THEOREM FifoKept == Spec => KeepsFifo
<1>1. IInv /\ Stored(mem) /\ [Next]_vars => Stored(mem)' /\ [Fifo!Next]_(Fifo!vars)
  BY FifoStep DEF FifoInv
<1> QED BY <1>1, FifoInit, Inductive, PTL DEF Spec, KeepsFifo, Fifo!Spec
=============================================================================
