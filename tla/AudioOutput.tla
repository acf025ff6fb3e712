---------------------------- MODULE AudioOutput ----------------------------
(* AndroidAudioOutput (apu/android_audio.cpp): a ring of frames written by  *)
(* the output's owner and read by the device's callback thread without a    *)
(* lock, and the stream whose starting, stopping and loss decide when the   *)
(* ring may be cleared.  A frame is its number; 0 is a cell never written.  *)
(* The device's error callback runs on a thread of the device's: it comes   *)
(* in the middle of a write as well, and frees the ring the write is using. *)
EXTENDS Naturals, Sequences

CONSTANTS capacity_,        \* cells of the ring, in frames: at least two
          Request,          \* frames one call may ask for: positive numbers
          MaxFrames         \* bound: frames queued in a behaviour

VARIABLES buffer_,          \* the ring's cells
          read_pos_, write_pos_,
          initialized_,     \* the ring exists exactly then
          playing_,
          stream_,          \* "none", or the device's state
          write,            \* the owner inside AudioRingBuffer::write
          lost_ring,        \* "held": the write in progress holds a ring that
                            \* is freed; "since": such a write ended, and the
                            \* ring has not been cleared since; or "no"
          callback,         \* the device thread inside on_audio_callback
          queued,           \* frames queued so far: names the next one
          played            \* frames of the ring handed to the device

avars == <<buffer_, read_pos_, write_pos_, initialized_, playing_, stream_,
           write, lost_ring, callback, queued, played>>
ring == <<buffer_, read_pos_, write_pos_>>
status == <<initialized_, playing_, stream_>>

NoRequest == [at |-> "idle", pos |-> 0, n |-> 0, data |-> <<>>]
Empty == [i \in 0 .. capacity_ - 1 |-> 0]
Least(a, b) == IF a <= b THEN a ELSE b

AudioInit == /\ buffer_ = Empty /\ read_pos_ = 0 /\ write_pos_ = 0
        /\ initialized_ = FALSE /\ playing_ = FALSE /\ stream_ = "none"
        /\ write = NoRequest /\ callback = NoRequest /\ lost_ring = "no"
        /\ queued = 0 /\ played = <<>>

AvailableRead == IF write_pos_ >= read_pos_ THEN write_pos_ - read_pos_
                 ELSE (capacity_ - read_pos_) + write_pos_
\* mutant: full is not told from empty
MutAvailableWrite == capacity_ - AvailableRead
AvailableWrite == capacity_ - AvailableRead - 1
-----------------------------------------------------------------------------
(* The ring's two ends.  Each loads the positions, moves the data, and      *)
(* publishes its own position.                                              *)

\* queue_samples up to the loads of write(): frames that do not fit are refused
WriteBegin(n) ==
  /\ write.at = "idle" /\ initialized_ /\ queued + n <= MaxFrames
  /\ LET count == Least(n, AvailableWrite)
     IN /\ count > 0
        /\ write' = [at |-> "copy", pos |-> write_pos_, n |-> count,
                     data |-> [i \in 1 .. count |-> queued + i]]
  /\ UNCHANGED <<ring, status, lost_ring, callback, queued, played>>

\* Whether a store of the write's reaches the ring there is.  One to a freed
\* ring is undefined: the ring made after it is of the same size and may be
\* the same memory, or is untouched.  (The process may also die, which ends
\* the behaviour.)
Landing == IF lost_ring # "held" THEN {TRUE}
           ELSE IF initialized_ THEN BOOLEAN ELSE {FALSE}

WriteCopy ==
  /\ write.at = "copy"
  /\ \E lands \in Landing :
       buffer_' = [c \in DOMAIN buffer_ |->
         IF lands /\ \E i \in 0 .. write.n - 1 : c = (write.pos + i) % capacity_
         THEN write.data[1 + (((c + capacity_) - write.pos) % capacity_)]
         ELSE buffer_[c]]
  /\ write' = [write EXCEPT !.at = "publish"]
  /\ UNCHANGED <<read_pos_, write_pos_, status, lost_ring, callback, queued, played>>

\* mutant: the position not wrapped
MutWritePublish ==
  /\ write.at = "publish"
  /\ \E lands \in Landing :
       write_pos_' = IF lands THEN write.pos + write.n ELSE write_pos_
  /\ lost_ring' = IF lost_ring = "held" THEN "since" ELSE lost_ring
  /\ queued' = queued + write.n
  /\ write' = NoRequest
  /\ UNCHANGED <<buffer_, read_pos_, status, callback, played>>

WritePublish ==
  /\ write.at = "publish"
  /\ \E lands \in Landing :
       write_pos_' = IF lands THEN (write.pos + write.n) % capacity_ ELSE write_pos_
  /\ lost_ring' = IF lost_ring = "held" THEN "since" ELSE lost_ring
  /\ queued' = queued + write.n
  /\ write' = NoRequest
  /\ UNCHANGED <<buffer_, read_pos_, status, callback, played>>

\* on_audio_callback: the frames the callback function did not supply come
\* from the ring, what is missing then is silence
CallbackBegin(n) ==
  /\ callback.at = "idle" /\ stream_ = "started" /\ initialized_
  /\ LET count == Least(n, AvailableRead)
     IN /\ count > 0
        /\ callback' = [at |-> "copy", pos |-> read_pos_, n |-> count,
                        data |-> <<>>]
  /\ UNCHANGED <<ring, status, write, lost_ring, queued, played>>

CallbackCopy ==
  /\ callback.at = "copy"
  /\ callback' = [callback EXCEPT !.at = "publish",
       !.data = [i \in 1 .. callback.n |->
                   buffer_[((callback.pos + i) - 1) % capacity_]]]
  /\ UNCHANGED <<ring, status, write, lost_ring, queued, played>>

CallbackPublish ==
  /\ callback.at = "publish"
  /\ read_pos_' = (callback.pos + callback.n) % capacity_
  /\ played' = played \o callback.data
  /\ callback' = NoRequest
  /\ UNCHANGED <<buffer_, write_pos_, status, write, lost_ring, queued>>
-----------------------------------------------------------------------------
(* The owner's calls, and the device's error callback.                      *)

\* a closed or stopped stream has no callback in progress
Quiet == callback.at = "idle"

\* stop: the flag is tested first, the device waited for, the ring cleared
StopNow == /\ playing_ => Quiet
           /\ playing_' = FALSE
ClearRing == /\ read_pos_' = 0 /\ write_pos_' = 0
             /\ lost_ring' = IF write.at = "idle" THEN "no" ELSE "held"

NewStream == \/ stream_' = "open" /\ initialized_' = TRUE
             \/ stream_' = "none" /\ initialized_' = FALSE   \* AAudio refuses

\* initialize, which shuts an initialized output down first
Initialize ==
  /\ write.at = "idle" /\ Quiet
  /\ StopNow
  /\ NewStream
  /\ buffer_' = Empty /\ ClearRing
  /\ UNCHANGED <<write, callback, queued, played>>

Shutdown ==
  /\ write.at = "idle" /\ initialized_ /\ Quiet
  /\ StopNow
  /\ buffer_' = Empty /\ ClearRing
  /\ stream_' = "none" /\ initialized_' = FALSE
  /\ UNCHANGED <<write, callback, queued, played>>

Start ==
  /\ write.at = "idle" /\ initialized_
  /\ stream_' = IF stream_ = "none" THEN "none" ELSE "started"
  /\ playing_' = TRUE
  /\ UNCHANGED <<ring, initialized_, write, lost_ring, callback, queued, played>>

Stop ==
  /\ write.at = "idle" /\ playing_
  /\ StopNow
  /\ stream_' = IF stream_ = "none" THEN "none" ELSE "open"
  /\ ClearRing
  /\ UNCHANGED <<buffer_, initialized_, write, callback, queued, played>>

\* a callback in progress when the pause is requested still ends
Pause ==
  /\ write.at = "idle" /\ playing_ /\ stream_ = "started"
  /\ stream_' = "paused"
  /\ UNCHANGED <<ring, initialized_, playing_, write, lost_ring, callback, queued,
                 played>>

Resume ==
  /\ write.at = "idle" /\ playing_ /\ stream_ = "paused"
  /\ stream_' = "started"
  /\ UNCHANGED <<ring, initialized_, playing_, write, lost_ring, callback, queued,
                 played>>

\* on_error(AAUDIO_ERROR_DISCONNECTED), on the device's thread whatever the
\* owner is doing: initialize finds initialized_ set and shuts down, which
\* frees the ring and clears playing_, so the test of playing_ after it fails
Disconnect ==
  /\ stream_ # "none" /\ Quiet
  /\ StopNow
  /\ NewStream
  /\ buffer_' = Empty /\ ClearRing
  /\ UNCHANGED <<write, callback, queued, played>>

AudioNext == \/ \E n \in Request : WriteBegin(n) \/ CallbackBegin(n)
        \/ WriteCopy \/ WritePublish \/ CallbackCopy \/ CallbackPublish
        \/ Initialize \/ Shutdown \/ Start \/ Stop \/ Pause \/ Resume
        \/ Disconnect
AudioSpec == AudioInit /\ [][AudioNext]_avars
-----------------------------------------------------------------------------
AudioOK == /\ buffer_ \in [0 .. capacity_ - 1 -> 0 .. MaxFrames]
          /\ read_pos_ \in 0 .. capacity_ - 1
          /\ write_pos_ \in 0 .. capacity_ - 1
          /\ stream_ \in {"none", "open", "started", "paused"}
          /\ initialized_ \in BOOLEAN /\ playing_ \in BOOLEAN

\* the frames between the two positions
Held == [i \in 1 .. AvailableRead |-> buffer_[((read_pos_ + i) - 1) % capacity_]]

\* a write that lost its ring to the error callback, and what came after it
Torn == lost_ring # "no" /\ lost_ring' # "no"

(* The lock-free ring implements a bounded queue: whatever the owner and    *)
(* the device thread do at once, the frames queued are delivered once and   *)
(* in order, none is overwritten before the device has it, and only a stop, *)
(* a shutdown or a lost device drops frames (android_audio.cpp:41).  The    *)
(* one case where the code does not keep it is left out by name: a device   *)
(* lost in the middle of a write, from there until the ring is next cleared *)
(* with no write in progress (android_audio.cpp:348).                       *)
Fifo == INSTANCE BoundedFifo WITH accepted <- queued, queue <- Held,
                                  delivered <- played, Bound <- capacity_ - 1
RingIsFifo == Fifo!Init /\ [][Torn \/ Fifo!Next]_(Fifo!fifo)

=============================================================================
