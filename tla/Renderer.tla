------------------------------ MODULE Renderer ------------------------------
(* What becomes of a frame between the command processor and the device:    *)
(* draws are batched (command_processor.cpp), written into per-frame        *)
(* descriptors and pooled buffers (descriptor_manager.cpp,                  *)
(* buffer_pool.cpp), recorded into one of the command buffers, submitted    *)
(* and presented (vulkan_backend.cpp, gpu.cpp).  The emulation thread does  *)
(* all that; the device completes what was submitted in its own time; the   *)
(* application's thread resizes the surface and changes the present mode.   *)
EXTENDS Naturals, Sequences

CONSTANTS
  Pipeline,            \* pipelines the draws ask for
  kMaxBatchedDraws,    \* draws of one batch
  frames_until_reuse_, \* frames before a pooled buffer may be used again
  MaxDraws             \* bound: draws

VARIABLES
  at,            \* where the emulation thread is
  cmd,           \* the draw that waits for its frame
  in_frame_,     \* the command processor's
  current_frame_index_,
  dirty,         \* constants changed since the last upload
  pipeline, pending_draws_,    \* the bound pipeline, the open batch
  contents,      \* a stamp for each frame index, changed when its descriptors are written
  pool,          \* the pooled buffers: the frame index and the draw of each
  current_frame_, fence,       \* the slot, the slots' fences
  open,          \* the slot's command buffer is being recorded
  recorded,      \* what it holds: draws, each with the pipeline it runs under
  inflight,      \* what the device has yet to complete, in order
  swapchain_, needs_recreation,
  wanted, draws  \* history: the frame's draws as asked for, all draws

batch == <<pipeline, pending_draws_>>
data == <<contents, pool>>
device == <<current_frame_, fence, open, recorded, inflight>>
surface == <<swapchain_, needs_recreation>>
frame_vars == <<at, cmd, in_frame_, current_frame_index_, dirty, batch, data, device, surface, wanted, draws>>

MAX_FRAMES_IN_FLIGHT == 2
MAX_FRAMES == 3
None == "none"
NoDraw == [pipeline |-> None, textures |-> FALSE]
Slots == 0 .. MAX_FRAMES_IN_FLIGHT - 1

FramesInit ==
  /\ at = "packets" /\ cmd = NoDraw
  /\ in_frame_ = FALSE /\ current_frame_index_ = 0
  /\ dirty = TRUE
  /\ pipeline = None /\ pending_draws_ = <<>>
  /\ contents = [i \in 0 .. MAX_FRAMES - 1 |-> 0] /\ pool = <<>>
  /\ current_frame_ = 0 /\ fence = [s \in Slots |-> "signaled"]
  /\ open = FALSE /\ recorded = <<>> /\ inflight = <<>>
  /\ swapchain_ = "ok" /\ needs_recreation = FALSE
  /\ wanted = <<>> /\ draws = 0

-----------------------------------------------------------------------------
(* VulkanBackend                                                            *)

\* mutant: the fence is reset before the image is acquired
MutBeginFails ==
  /\ fence[current_frame_] = "signaled"
  /\ fence' = [fence EXCEPT ![current_frame_] = "reset"]
  /\ needs_recreation' = FALSE
  /\ UNCHANGED <<current_frame_, open, recorded, inflight, swapchain_>>

\* begin_frame without an image: there is no swapchain, or the wait is over
\* and the one there is is out of date
BeginFails ==
  /\ \/ swapchain_ = None /\ UNCHANGED needs_recreation
     \/ /\ swapchain_ = "ok" /\ fence[current_frame_] = "signaled"
        /\ needs_recreation => inflight = <<>>
        /\ needs_recreation' = FALSE
  /\ UNCHANGED <<device, swapchain_>>

Waited == fence[current_frame_] = "signaled"

\* begin_frame: a changed present mode first waits for the device
BeginFrame ==
  /\ swapchain_ = "ok" /\ Waited
  /\ needs_recreation => inflight = <<>>
  /\ needs_recreation' = FALSE
  /\ fence' = [fence EXCEPT ![current_frame_] = "reset"]
  /\ open' = TRUE
  /\ UNCHANGED <<current_frame_, inflight, swapchain_>>

\* end_frame: the submission names the descriptors its draws read, if any
EndFrame(drawn, index) ==
  /\ inflight' = Append(inflight, [slot |-> current_frame_, index |-> index, draws |-> drawn])
  /\ open' = FALSE /\ recorded' = <<>>
  /\ current_frame_' = (current_frame_ + 1) % MAX_FRAMES_IN_FLIGHT
  /\ UNCHANGED fence

\* cleanup_swapchain and its re-creation, which the surface may refuse
Recreate == swapchain_' \in {"ok", None}

\* the device completes its oldest submission
Complete ==
  /\ inflight # <<>>
  /\ fence' = [fence EXCEPT ![Head(inflight).slot] = "signaled"]
  /\ inflight' = Tail(inflight)
  /\ UNCHANGED <<at, cmd, in_frame_, current_frame_index_, dirty, batch, data,
                 current_frame_, open, recorded, surface, wanted, draws>>
-----------------------------------------------------------------------------
(* Draws                                                                    *)

\* flush_draw_batch: what is pending is recorded under the bound pipeline
Flushed == recorded \o [i \in DOMAIN pending_draws_ |-> [draw |-> pending_draws_[i], under |-> pipeline]]

\* find_free_buffer, of the buffers that end_frame would have released
FindFree(index) == {b \in DOMAIN pool : ~pool[b].in_use /\ index >= pool[b].frame + frames_until_reuse_}

Allocate(index, draw) ==
  LET buffer == [in_use |-> TRUE, frame |-> index, draw |-> draw]
  IN IF FindFree(index) = {} THEN pool' = Append(pool, buffer)
     ELSE \E b \in FindFree(index) : pool' = [pool EXCEPT ![b] = buffer]

\* update_constants and bind_textures write the frame's descriptors
Upload(index, textures) ==
  /\ contents' = IF dirty \/ textures THEN [contents EXCEPT ![index] = 1 - @] ELSE contents
  /\ dirty' = FALSE

\* mutant: a pipeline is bound over the open batch
MutBindFlushes(p) == FALSE

\* bind_pipeline_dedup
BindFlushes(p) == p # pipeline

\* execute_draw in frame `index`, which holds `kept` and has `batched` pending
DrawIn(index, p, textures, kept, batched) ==
  LET flushed == BindFlushes(p) \/ Len(batched) = kMaxBatchedDraws
  IN /\ draws' = draws + 1
     /\ pipeline' = p
     /\ recorded' = IF flushed THEN kept ELSE recorded
     /\ pending_draws_' = Append(IF flushed THEN <<>> ELSE batched, draws')
     /\ Upload(index, textures)
     /\ Allocate(index, draws')

\* a draw of a frame already begun
Draw(p, textures) ==
  /\ at = "packets" /\ in_frame_ /\ draws < MaxDraws
  /\ DrawIn(current_frame_index_, p, textures, Flushed, pending_draws_)
  /\ wanted' = Append(wanted, [draw |-> draws', under |-> p])
  /\ UNCHANGED <<at, cmd, in_frame_, current_frame_index_, current_frame_, fence, open, inflight, surface>>

\* the first draw of a frame enters begin_frame
FirstDraw(p, textures) ==
  /\ at = "packets" /\ ~in_frame_ /\ draws < MaxDraws
  /\ at' = "begin draw" /\ cmd' = [pipeline |-> p, textures |-> textures]
  /\ UNCHANGED <<in_frame_, current_frame_index_, dirty, batch, data, device, surface, wanted, draws>>

\* mutant: the frame goes on with the last one's descriptors
MutNextIndex == current_frame_index_
NextIndex == (current_frame_index_ + 1) % MAX_FRAMES

\* and begins the frame: reset_bound_state forgets the pipeline and the batch
FirstDrawn ==
  /\ at = "begin draw" /\ at' = "packets"
  /\ BeginFrame
  /\ in_frame_' = TRUE
  /\ current_frame_index_' = NextIndex
  /\ draws' = draws + 1
  /\ pipeline' = cmd.pipeline /\ pending_draws_' = <<draws'>> /\ recorded' = <<>>
  /\ Upload(NextIndex, cmd.textures) /\ Allocate(NextIndex, draws')
  /\ wanted' = <<[draw |-> draws', under |-> cmd.pipeline]>>
  /\ cmd' = NoDraw

\* its shaders or its pipeline fail: the frame is begun, the draw is not made
FirstSkipped ==
  /\ at = "begin draw" /\ at' = "packets"
  /\ BeginFrame
  /\ in_frame_' = TRUE
  /\ current_frame_index_' = NextIndex
  /\ pipeline' = None /\ pending_draws_' = <<>> /\ recorded' = <<>> /\ wanted' = <<>>
  /\ cmd' = NoDraw
  /\ UNCHANGED <<dirty, data, draws>>

\* without a frame the draw is dropped; the next one tries again
FirstDropped ==
  /\ at = "begin draw" /\ at' = "packets"
  /\ BeginFails
  /\ cmd' = NoDraw
  /\ UNCHANGED <<in_frame_, current_frame_index_, dirty, batch, data, wanted, draws>>

SetConstants ==
  /\ at = "packets" /\ ~dirty
  /\ dirty' = TRUE
  /\ UNCHANGED <<at, cmd, in_frame_, current_frame_index_, batch, data, device, surface, wanted, draws>>
-----------------------------------------------------------------------------
(* The end of a frame                                                       *)

\* execute_resolve submits the frame it finds begun; one that clears, or that
\* has nowhere to copy to, only flushes
Resolve ==
  /\ at = "packets" /\ in_frame_
  /\ pending_draws_' = <<>>
  /\ \/ /\ EndFrame({Flushed[i].draw : i \in DOMAIN Flushed}, current_frame_index_)
        /\ in_frame_' = FALSE /\ at' = "present" /\ wanted' = <<>>
     \/ /\ recorded' = Flushed
        /\ UNCHANGED <<at, in_frame_, current_frame_, fence, open, inflight, wanted>>
  /\ UNCHANGED <<cmd, current_frame_index_, dirty, pipeline, data, surface, draws>>

\* EVENT_WRITE(SWAP): the command processor's frame ends, the device's stays open
Swap ==
  /\ at = "packets" /\ at' = "present"
  /\ recorded' = Flushed /\ pending_draws_' = <<>>
  /\ in_frame_' = FALSE
  /\ UNCHANGED <<cmd, current_frame_index_, dirty, pipeline, data, current_frame_, fence, open,
                 inflight, surface, wanted, draws>>

\* a hundred batches without a frame: the emulator presents all the same
SlowFrame ==
  /\ at = "packets" /\ at' = "present"
  /\ UNCHANGED <<cmd, in_frame_, current_frame_index_, dirty, batch, data, device, surface, wanted, draws>>

Stage(from, to) ==
  /\ at = from /\ at' = to
  /\ UNCHANGED <<cmd, in_frame_, current_frame_index_, dirty, batch, data, wanted, draws>>

\* Gpu::present with a frame skipped, or with no image after a second try
PresentNothing ==
  \/ Stage("present", "packets") /\ UNCHANGED <<device, surface>>
  \/ Stage("retry", "packets") /\ BeginFails

\* a frame of its own, whatever the command processor has open
PresentBegin ==
  /\ \/ Stage("present", "end") \/ Stage("retry", "end")
  /\ BeginFrame
  /\ recorded' = <<>>

PresentFails == Stage("present", "recover") /\ BeginFails

\* resize(0, 0) waits for the device
Recover ==
  /\ inflight = <<>>
  /\ Recreate
  /\ UNCHANGED <<device, needs_recreation>>
  /\ \/ Stage("recover", IF swapchain_' = None THEN "packets" ELSE "retry")
     \/ Stage("suboptimal", "packets")

PresentEnd ==
  /\ \/ Stage("end", "packets") \/ Stage("end", "suboptimal")
  /\ EndFrame({}, MAX_FRAMES)
  /\ UNCHANGED surface

Present == PresentNothing \/ PresentBegin \/ PresentFails \/ Recover \/ PresentEnd
-----------------------------------------------------------------------------
(* The application's thread                                                 *)

Resize ==
  /\ inflight = <<>>
  /\ Recreate
  /\ UNCHANGED <<at, cmd, in_frame_, current_frame_index_, dirty, batch, data, device,
                 needs_recreation, wanted, draws>>

SetPresentMode ==
  /\ needs_recreation' = TRUE
  /\ UNCHANGED <<at, cmd, in_frame_, current_frame_index_, dirty, batch, data, device, swapchain_, wanted, draws>>

FramesNext ==
  \/ \E p \in Pipeline, textures \in BOOLEAN : Draw(p, textures) \/ FirstDraw(p, textures)
  \/ FirstDrawn \/ FirstSkipped \/ FirstDropped \/ SetConstants
  \/ Resolve \/ Swap \/ SlowFrame \/ Present
  \/ Complete \/ Resize \/ SetPresentMode

FramesSpec == FramesInit /\ [][FramesNext]_frame_vars
-----------------------------------------------------------------------------
FramesOK ==
  /\ at \in {"packets", "begin draw", "present", "recover", "retry", "end", "suboptimal"}
  /\ pipeline \in Pipeline \cup {None} /\ Len(pending_draws_) <= kMaxBatchedDraws
  /\ current_frame_index_ \in DOMAIN contents /\ current_frame_ \in Slots
  /\ fence \in [Slots -> {"signaled", "reset"}]
  /\ Len(inflight) <= MAX_FRAMES_IN_FLIGHT
  /\ swapchain_ \in {"ok", None}

(* The commands of a frame are each of its draws, once, in order, under the *)
(* pipeline that was bound for it: batching, the skipping of redundant      *)
(* binds and the flushes before a bind, a resolve and a swap neither lose   *)
(* nor reorder nor restyle a draw (command_processor.cpp:3165).             *)
DrawsUnderTheirPipeline ==
  /\ open => recorded = SubSeq(wanted, 1, Len(recorded))
  /\ in_frame_ => Len(recorded) + Len(pending_draws_) = Len(wanted)
  /\ ~in_frame_ => pending_draws_ = <<>>

(* A fence that is not signalled is the device's to signal, or belongs to   *)
(* the frame being recorded: begin_frame waits in vain (vulkan_backend.cpp: *)
(* 916) only behind a frame that a swap or a slow frame has left open.      *)
FencesWillSignal ==
  \A s \in Slots : fence[s] = "reset" =>
    \/ \E i \in DOMAIN inflight : inflight[i].slot = s
    \/ open /\ s = current_frame_

(* While a submitted frame is on the device nobody touches what it reads:   *)
(* not the descriptors of its frame index, of which there are three to two  *)
(* slots, nor its vertex buffers, nor its command buffer.                   *)
Untouched(f) ==
  /\ f.index \in DOMAIN contents => contents'[f.index] = contents[f.index]
  /\ \A b \in DOMAIN pool :
       pool[b].draw \in f.draws => pool'[b] = pool[b]
  /\ ~(open' /\ current_frame_' = f.slot)
InFlightUntouched ==
  [][\A i \in DOMAIN inflight :
       (\E j \in DOMAIN inflight' : inflight'[j] = inflight[i]) => Untouched(inflight[i])]_frame_vars
=============================================================================
