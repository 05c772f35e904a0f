----------------------------- MODULE DataQueue -----------------------------
(***************************************************************************)
(* The data queue of the media library (data_queue.c): a ring of bytes     *)
(* that hands out contiguous buffers.  A frame is stored behind a header   *)
(* with its length; when the rest of the ring is too short for the next    *)
(* frame the writer notes the end of the data in fill_end and starts again *)
(* at 0.  The encoder, decoder and render threads of a session pass their  *)
(* frames through such queues.                                             *)
(*                                                                         *)
(* Every section under q->lock is one action; waiting for an event bit,    *)
(* clearing it and taking the lock again are separate steps, because the   *)
(* other side may run in between.  write_lock is held from                 *)
(* data_queue_get_buffer to data_queue_send_buffer, so that all writers    *)
(* together are one: wpc is the progress of whoever holds it.  A queue has *)
(* one reading thread, as everywhere in this code.                         *)
(***************************************************************************)
EXTENDS Integers, Sequences

CONSTANTS
  Size,        \* bytes in the ring
  HeadSize,    \* DATA_Q_ALLOC_HEAD_SIZE
  Requests,    \* the payload sizes writers ask for
  MaxFrames    \* bound: frames that are sent

ASSUME SizeAssumption == Size \in Nat \ {0}
ASSUME HeadAssumption == HeadSize \in Nat \ {0}
ASSUME RequestsAssumption == Requests \subseteq (Nat \ {0})
\* A frame as long as the ring would stop the program in data_queue_consume_all,
\* whose check is stricter than that of the other calls (data_queue.c:148).
ASSUME FullRingAssumption == \A n \in Requests : n + HeadSize # Size
ASSUME FramesAssumption == MaxFrames \in Nat

VARIABLES
  wp, rp,      \* write and read position
  fill_end,    \* end of the data before the writer started again, or 0
  filled,      \* bytes sent and not yet handed to the reader
  mem,         \* at the offset of a header: length and frame; junk elsewhere
  user, quit,  \* calls under way; the queue is being given up
  arrive, consume, free,   \* the bits of the event group
  wpc, want,   \* progress of the writer, and the bytes it has reserved
  rpc, got,    \* progress of the reader, and the offset it was given
  cpc,         \* progress of the task in data_queue_wakeup
  sent         \* frames sent so far; numbers the frames

ring    == <<wp, rp, fill_end, filled, mem>>
bits    == <<arrive, consume, free>>
writer  == <<wpc, want, sent>>
reader  == <<rpc, got>>
vars == <<ring, user, quit, bits, writer, reader, cpc>>

Offsets == 0 .. Size - 1
Frames  == 1 .. MaxFrames
NoFrame == 0
Junk    == [len |-> 0, frame |-> NoFrame]

Init ==
  /\ wp = 0 /\ rp = 0 /\ fill_end = 0 /\ filled = 0
  /\ mem = [o \in Offsets |-> Junk]
  /\ user = 0 /\ quit = FALSE
  /\ arrive = FALSE /\ consume = FALSE /\ free = FALSE
  /\ wpc = "idle" /\ want = 0 /\ sent = 0
  /\ rpc = "idle" /\ got = 0
  /\ cpc = "idle"

-----------------------------------------------------------------------------
(* What the code computes from the positions                               *)

HaveData == wp # rp \/ fill_end # 0

\* Variant: takes a ring in which the writer has caught up for an empty one.
AvailableWhenFull(w, r, e) == IF w >= r THEN Size - w ELSE r - w

\* get_available_size: the contiguous bytes at the write position.
Available(w, r, e) ==
  IF w > r \/ (w = r /\ e = 0) THEN Size - w
  ELSE IF w = r THEN 0 ELSE r - w

\* Variant: forgets that the header needs room too.
GetAvailableWithHeader ==
  IF HaveData THEN Available(wp, rp, fill_end) ELSE Size

\* data_queue_get_available: what a caller may ask for without waiting.
GetAvailable ==
  LET all == IF HaveData THEN Available(wp, rp, fill_end) ELSE Size
  IN  IF all >= HeadSize THEN all - HeadSize ELSE 0

\* Where the loop of data_queue_get_buffer leaves wp, rp and fill_end when it
\* looks for n bytes: too little room at the end makes the writer start again
\* at 0, and an empty ring starts again as a whole.
Wraps(n) == Available(wp, rp, fill_end) < n /\ fill_end = 0
Placed(n) ==
  IF ~Wraps(n) THEN [w |-> wp, r |-> rp, e |-> fill_end]
  ELSE IF HaveData THEN [w |-> 0, r |-> rp, e |-> wp]
  ELSE [w |-> 0, r |-> 0, e |-> 0]
Fits(n) == LET p == Placed(n) IN Available(p.w, p.r, p.e) >= n

\* Where data_queue_read_lock looks for the oldest unread frame.
ReadPos == IF filled <= wp THEN wp - filled ELSE wp + fill_end - filled

-----------------------------------------------------------------------------
(* Writing                                                                 *)

\* The body of the loop of data_queue_get_buffer, with u calls under way.  A
\* writer that is given a buffer may fill all of it.
Attempt(n, u) ==
  LET p == Placed(n) IN
  /\ wp' = p.w /\ rp' = p.r /\ fill_end' = p.e
  /\ user' = u + 1
  /\ IF Fits(n)
     THEN /\ wpc' = "filling"
          /\ mem' = [o \in Offsets |-> IF o >= p.w /\ o < p.w + n THEN Junk ELSE mem[o]]
     ELSE wpc' = "wait" /\ UNCHANGED mem

\* data_queue_get_buffer up to the buffer or the first wait.
GetBuffer(n) ==
  /\ wpc = "idle" /\ sent < MaxFrames
  /\ n + HeadSize <= Size
  /\ ~quit
  /\ want' = n + HeadSize
  /\ Attempt(n + HeadSize, user)
  /\ UNCHANGED <<filled, quit, bits, sent, reader, cpc>>

\* data_queue_wait_consume: the bit is seen, cleared, and the lock taken.
WriterWakes ==
  /\ wpc = "wait" /\ consume
  /\ wpc' = "clear"
  /\ UNCHANGED <<ring, user, quit, bits, want, sent, reader, cpc>>

WriterClears ==
  /\ wpc = "clear"
  /\ wpc' = "resume" /\ consume' = FALSE
  /\ UNCHANGED <<ring, user, quit, arrive, free, want, sent, reader, cpc>>

\* The writer has the lock again and tries once more, or leaves on quit.
WriterResumes ==
  /\ wpc = "resume"
  /\ free' = TRUE
  /\ \/ /\ ~quit
        /\ Attempt(want, user - 1)
        /\ UNCHANGED want
     \/ /\ quit
        /\ wpc' = "idle" /\ want' = 0 /\ user' = user - 1
        /\ UNCHANGED <<wp, rp, fill_end, mem>>
  /\ UNCHANGED <<filled, quit, arrive, consume, sent, reader, cpc>>

\* Variant: does not tell the reader.
SendBufferSilently(n) ==
  /\ wpc = "filling" /\ n + HeadSize <= want
  /\ wpc' = "idle" /\ want' = 0
  /\ user' = user - 1 /\ free' = TRUE
  /\ mem' = [mem EXCEPT ![wp] = [len |-> n + HeadSize, frame |-> sent + 1]]
  /\ wp' = wp + n + HeadSize
  /\ filled' = filled + n + HeadSize
  /\ sent' = sent + 1
  /\ UNCHANGED <<rp, fill_end, quit, arrive, consume, reader, cpc>>

\* data_queue_send_buffer with n bytes of payload, at most what was reserved.
SendBuffer(n) ==
  /\ wpc = "filling" /\ n + HeadSize <= want
  /\ wpc' = "idle" /\ want' = 0
  /\ user' = user - 1 /\ free' = TRUE
  /\ \/ /\ Available(wp, rp, fill_end) >= n + HeadSize
        /\ mem' = [mem EXCEPT ![wp] = [len |-> n + HeadSize, frame |-> sent + 1]]
        /\ wp' = wp + n + HeadSize
        /\ filled' = filled + n + HeadSize
        /\ sent' = sent + 1
        /\ arrive' = TRUE
     \/ /\ Available(wp, rp, fill_end) < n + HeadSize
        /\ UNCHANGED <<mem, wp, filled, sent, arrive>>
  /\ UNCHANGED <<rp, fill_end, quit, consume, reader, cpc>>

\* data_queue_send_buffer with size 0: the encoder failed, the buffer is
\* given back unused.
Abandon ==
  /\ wpc = "filling"
  /\ wpc' = "idle" /\ want' = 0
  /\ user' = user - 1 /\ free' = TRUE
  /\ UNCHANGED <<ring, quit, arrive, consume, sent, reader, cpc>>

-----------------------------------------------------------------------------
(* Reading                                                                 *)

\* The body of the loop of data_queue_read_lock, with u calls under way.
Look(u) ==
  /\ user' = u + 1
  /\ \/ /\ filled = 0
        /\ rpc' = "wait"
        /\ UNCHANGED <<filled, got>>
     \/ /\ filled # 0
        /\ rpc' = "reading"
        /\ got' = ReadPos
        /\ filled' = filled - mem[ReadPos].len

ReadLock ==
  /\ rpc = "idle" /\ ~quit
  /\ Look(user)
  /\ UNCHANGED <<wp, rp, fill_end, mem, quit, bits, writer, cpc>>

ReaderWakes ==
  /\ rpc = "wait" /\ arrive
  /\ rpc' = "clear"
  /\ UNCHANGED <<ring, user, quit, bits, writer, got, cpc>>

ReaderClears ==
  /\ rpc = "clear"
  /\ rpc' = "resume" /\ arrive' = FALSE
  /\ UNCHANGED <<ring, user, quit, consume, free, writer, got, cpc>>

ReaderResumes ==
  /\ rpc = "resume"
  /\ free' = TRUE
  /\ \/ ~quit /\ Look(user - 1)
     \/ quit /\ rpc' = "idle" /\ user' = user - 1 /\ UNCHANGED <<filled, got>>
  /\ UNCHANGED <<wp, rp, fill_end, mem, quit, arrive, consume, writer, cpc>>

\* Variant: gives the frame back without telling the writer.
ReadUnlockSilently ==
  /\ rpc = "reading"
  /\ rpc' = "idle" /\ got' = 0
  /\ LET next == rp + mem[rp].len
         turns == fill_end # 0 /\ next >= fill_end
     IN  /\ rp' = IF turns THEN 0 ELSE next
         /\ fill_end' = IF turns THEN 0 ELSE fill_end
  /\ user' = user - 1 /\ free' = TRUE
  /\ UNCHANGED <<wp, filled, mem, quit, arrive, consume, writer, cpc>>

\* data_queue_read_unlock: the frame at rp is given back to the writers.
ReadUnlock ==
  /\ rpc = "reading"
  /\ rpc' = "idle" /\ got' = 0
  /\ LET next == rp + mem[rp].len IN
     \/ /\ HaveData
        /\ LET turns == fill_end # 0 /\ next >= fill_end IN
           /\ rp' = IF turns THEN 0 ELSE next
           /\ fill_end' = IF turns THEN 0 ELSE fill_end
        /\ user' = user - 1
        /\ consume' = TRUE /\ free' = TRUE
     \/ /\ ~HaveData
        /\ UNCHANGED <<rp, fill_end, user, consume, free>>
  /\ UNCHANGED <<wp, filled, mem, quit, arrive, writer, cpc>>

\* Variant: leaves the count of unread bytes as it is.
ConsumeAllKeepsFilled ==
  /\ rpc # "reading"
  /\ HaveData /\ ~quit
  /\ rp' = wp /\ fill_end' = 0
  /\ consume' = TRUE
  /\ UNCHANGED <<wp, filled, mem, user, quit, arrive, free, writer, reader, cpc>>

\* data_queue_consume_all, called by the reading thread between two frames or
\* by a control task while no frame is being read.  The loop drops frame after
\* frame until the positions meet.
ConsumeAll ==
  /\ rpc # "reading"
  /\ HaveData /\ ~quit
  /\ rp' = wp /\ fill_end' = 0
  /\ filled' = filled - (IF fill_end = 0 THEN wp - rp ELSE fill_end - rp + wp)
  /\ consume' = TRUE
  /\ UNCHANGED <<wp, mem, user, quit, arrive, free, writer, reader, cpc>>

-----------------------------------------------------------------------------
(* Giving the queue up: data_queue_wakeup                                  *)

\* Variant: wakes the readers only.
WakeupReadersOnly ==
  /\ cpc = "idle"
  /\ quit' = TRUE /\ arrive' = TRUE
  /\ cpc' = IF user = 0 THEN "done" ELSE "wait"
  /\ UNCHANGED <<ring, user, consume, free, writer, reader>>

\* The closer sets quit, wakes everybody and waits until nobody is inside.
Wakeup ==
  /\ cpc = "idle"
  /\ quit' = TRUE /\ arrive' = TRUE /\ consume' = TRUE
  /\ cpc' = IF user = 0 THEN "done" ELSE "wait"
  /\ UNCHANGED <<ring, user, free, writer, reader>>

CloserWakes ==
  /\ cpc = "wait" /\ free
  /\ cpc' = "clear"
  /\ UNCHANGED <<ring, user, quit, bits, writer, reader>>

CloserClears ==
  /\ cpc = "clear"
  /\ cpc' = "resume" /\ free' = FALSE
  /\ UNCHANGED <<ring, user, quit, arrive, consume, writer, reader>>

CloserResumes ==
  /\ cpc = "resume"
  /\ cpc' = IF user = 0 THEN "done" ELSE "wait"
  /\ UNCHANGED <<ring, user, quit, bits, writer, reader>>

-----------------------------------------------------------------------------
Sends == Abandon \/ \E n \in Requests : SendBuffer(n)

Next ==
  \/ \E n \in Requests : GetBuffer(n)
  \/ WriterWakes \/ WriterClears \/ WriterResumes
  \/ Abandon \/ \E n \in Requests : SendBuffer(n)
  \/ ReadLock \/ ReaderWakes \/ ReaderClears \/ ReaderResumes
  \/ ReadUnlock
  \/ ConsumeAll
  \/ Wakeup \/ CloserWakes \/ CloserClears \/ CloserResumes

\* Threads are scheduled, a writer sends or gives back what it has reserved,
\* and the reading thread keeps reading.  Nobody has to write, to throw the
\* data away or to give the queue up.
Fairness ==
  /\ WF_vars(WriterWakes) /\ WF_vars(WriterClears) /\ WF_vars(WriterResumes)
  /\ WF_vars(Sends)
  /\ WF_vars(ReadLock) /\ WF_vars(ReadUnlock)
  /\ WF_vars(ReaderWakes) /\ WF_vars(ReaderClears) /\ WF_vars(ReaderResumes)
  /\ WF_vars(CloserWakes) /\ WF_vars(CloserClears) /\ WF_vars(CloserResumes)

Spec     == Init /\ [][Next]_vars
FairSpec == Spec /\ Fairness
-----------------------------------------------------------------------------
(* Properties                                                              *)

\* Every variable keeps its type; the positions stay inside the ring.
TypeOK ==
  /\ wp \in 0 .. Size /\ rp \in 0 .. Size /\ fill_end \in 0 .. Size
  /\ filled \in 0 .. Size
  /\ mem \in [Offsets -> [len : 0 .. Size, frame : 0 .. MaxFrames]]
  /\ user \in 0 .. 2 /\ quit \in BOOLEAN
  /\ arrive \in BOOLEAN /\ consume \in BOOLEAN /\ free \in BOOLEAN
  /\ wpc \in {"idle", "wait", "clear", "resume", "filling"}
  /\ want \in 0 .. Size /\ sent \in 0 .. MaxFrames
  /\ rpc \in {"idle", "wait", "clear", "resume", "reading"}
  /\ got \in 0 .. Size
  /\ cpc \in {"idle", "wait", "clear", "resume", "done"}

\* The bytes that hold frames which the reader has not given back.
Live(o) ==
  IF fill_end = 0 THEN rp <= o /\ o < wp
  ELSE (rp <= o /\ o < fill_end) \/ o < wp

\* The buffer data_queue_get_buffer hands out lies in the ring and touches no
\* frame that is waiting or being read, for as long as the writer fills it,
\* whatever is read or thrown away meanwhile; data_queue_send_buffer then
\* finds the room it was promised.
GrantIsFree ==
  wpc = "filling" =>
    /\ Available(wp, rp, fill_end) >= want
    /\ \A o \in wp .. wp + want - 1 : o \in Offsets /\ ~Live(o)

\* Nobody sleeps on a bit that will not be set: a reader that could be served,
\* a writer that would find room, anybody who has to leave, and a wakeup whose
\* last user has gone all find their bit set when they wait.
NoLostWakeup ==
  /\ rpc = "wait" /\ (filled # 0 \/ quit) => arrive
  /\ wpc = "wait" /\ (Fits(want) \/ quit) => consume
  /\ cpc = "wait" /\ user = 0 => free

\* data_queue_get_available never promises too much: av_render_audio_fifo_enough
\* relies on a buffer of that size being handed out at once.
AvailableHonest ==
  \A n \in Requests : wpc = "idle" /\ n <= GetAvailable => Fits(n + HeadSize)

\* The frames from offset o up to e, in the order of the ring.
FramesUpTo(o, e) ==
  LET from[i \in 0 .. Size] ==
        IF i >= e \/ mem[i].len = 0 THEN <<>>
        ELSE <<mem[i].frame>> \o from[i + mem[i].len]
  IN  from[o]

Unreleased ==
  IF fill_end = 0 THEN FramesUpTo(rp, wp)
  ELSE FramesUpTo(rp, fill_end) \o FramesUpTo(0, wp)

\* The bytes of the ring, read as frames: a queue that keeps the order.
Fifo == INSTANCE FrameFifo WITH
  pending <- IF rpc = "reading" THEN Tail(Unreleased) ELSE Unreleased,
  held    <- IF rpc = "reading" THEN mem[got].frame ELSE NoFrame

\* The queue keeps its promise: what is read is what was sent, whole, once and
\* in order, and a frame being read is not overwritten (data_queue.h:31-35, 93).
KeepsFifo == Fifo!Spec

\* A writer that waits for room is served, or leaves because of quit.
WriterServed == wpc \in {"wait", "clear", "resume"} ~> wpc \in {"filling", "idle"}

\* data_queue_wakeup returns: everybody who is inside the queue gets out.
WakeupReturns == cpc = "wait" ~> cpc = "done"
=============================================================================
