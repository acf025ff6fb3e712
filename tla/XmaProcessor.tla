---------------------------- MODULE XmaProcessor ----------------------------
(***************************************************************************)
(* The XMA processor and its mixer (apu/xma_decoder.cpp), as the XMA calls  *)
(* of kernel/hle/xboxkrnl_extended.cpp drive it: contexts with two input    *)
(* buffers each, one being read while the guest fills the other; a voice    *)
(* for each context that was enabled; a pass over the contexts, the loops   *)
(* of XMABlockWhileInUse and the audio callback that plays the voices.      *)
(*                                                                         *)
(* Input counts packets, output and voices count samples; a packet decodes  *)
(* to PacketFrames of each channel or to none. A call is one step, but a    *)
(* pass and a blocked call go packet by packet: what sets a buffer takes no *)
(* lock. Left out: the codec, volumes, and calls after shutdown(). A        *)
(* context never loops: nothing ever sets its loop_count.                   *)
(***************************************************************************)
EXTENDS Integers

CONSTANTS
  XmaContexts,      \* MAX_CONTEXTS (256)
  Voices,           \* MAX_VOICES
  VoiceFrames,      \* a voice's ring holds that many frames (a second)
  PacketFrames,     \* a packet decodes to
  MixFrames,        \* the audio callback asks for
  PacketsPerPass,   \* of a context (4)
  InputSize,        \* of the guest's input buffers
  OutputSize,       \* and of its output buffers
  Channels,         \* of a stream (1 to 6)
  XmaThread,        \* guest threads that wait for a context
  MaxCalls          \* bounds the guest's calls

ASSUME XmaAssumption ==
  /\ XmaContexts \in Nat \ {0} /\ Voices \in Nat /\ PacketsPerPass \in Nat \ {0}
  /\ VoiceFrames \in Nat \ {0} /\ PacketFrames \in Nat \ {0} /\ MixFrames \in Nat
  /\ InputSize \subseteq Nat /\ OutputSize \subseteq Nat /\ Channels \subseteq 1 .. 6
  /\ MaxCalls \in Nat

VARIABLES
  contexts_,        \* what each is, "exists" aside when there is none
  voices_,
  running_,
  processing,       \* where process() is, if it is; it holds contexts_mutex_
  blocked,          \* the context each thread waits for
  unread,           \* history: packets given in each buffer and not read since
  spoilt,           \* history: contexts whose buffer was replaced as it was read
  calls,            \* history: the calls the guest has made
  unplayed            \* history: samples of each voice not played and not overwritten

xma_vars == <<contexts_, voices_, running_, processing, blocked, unread, spoilt, unplayed, calls>>
history_vars == <<unread, spoilt>>

Ids == 0 .. (XmaContexts - 1)
VoiceIds == 0 .. (Voices - 1)
Half == {0, 1}              \* the two input buffers
NoId == -1                  \* UINT32_MAX
Resting == [i |-> NoId, n |-> 0]

HardwareContext ==
  [exists : BOOLEAN, active : BOOLEAN, size : [Half -> Nat], consumed : [Half -> BOOLEAN],
   index : Half, read : Nat, out : Nat, written : Nat,
   channels : 1 .. 6, halves : {1, 2}, voice : VoiceIds \cup {NoId}]
\* halves: sample_increment, in halves of an input frame
Voice == [exists : BOOLEAN, channels : 1 .. 6, halves : {1, 2}, position : Half, read_pos : Nat, write_pos : Nat]

NoContext ==
  [exists |-> FALSE, active |-> FALSE, size |-> [h \in Half |-> 0], consumed |-> [h \in Half |-> FALSE],
   index |-> 0, read |-> 0, out |-> 0, written |-> 0, channels |-> 2, halves |-> 2, voice |-> NoId]
NoVoice == [exists |-> FALSE, channels |-> 1, halves |-> 2, position |-> 0, read_pos |-> 0, write_pos |-> 0]

XmaInit ==
  /\ contexts_ = [c \in Ids |-> NoContext] /\ voices_ = [v \in VoiceIds |-> NoVoice]
  /\ running_ = TRUE /\ processing = Resting /\ blocked = [t \in XmaThread |-> NoId]
  /\ unread = [c \in Ids |-> [h \in Half |-> 0]] /\ spoilt = {}
  /\ unplayed = [v \in VoiceIds |-> 0] /\ calls = 0

Unlocked == processing = Resting           \* contexts_mutex_ is free
Exists(c) == contexts_[c].exists
-----------------------------------------------------------------------------
(* The mixer.                                                               *)
BufferSize(v) == VoiceFrames * voices_[v].channels
Buffered(v) ==
  IF voices_[v].write_pos >= voices_[v].read_pos THEN voices_[v].write_pos - voices_[v].read_pos
  ELSE (BufferSize(v) - voices_[v].read_pos) + voices_[v].write_pos

FreeVoices == {v \in VoiceIds : ~voices_[v].exists}
create_voice(v, ctx) ==
  /\ voices_' = [voices_ EXCEPT ![v] = [NoVoice EXCEPT !.exists = TRUE, !.channels = ctx.channels, !.halves = ctx.halves]]
  /\ unplayed' = [unplayed EXCEPT ![v] = 0]
destroy_voices(V) ==
  /\ voices_' = [v \in VoiceIds |-> IF v \in V THEN NoVoice ELSE voices_[v]]
  /\ unplayed' = [v \in VoiceIds |-> IF v \in V THEN 0 ELSE unplayed[v]]

\* Nothing asks whether the ring has room: a ring that is overrun loses all it held.
submit_samples(v, n) ==
  /\ voices_' = [voices_ EXCEPT ![v].write_pos = (@ + n) % BufferSize(v)]
  /\ unplayed' = [unplayed EXCEPT ![v] = (@ + n) % BufferSize(v)]

\* resample_voice: the position after i frames; the frames there are samples for.
Position(v, i) == voices_[v].position + (i * voices_[v].halves)
Mixed(v) ==
  CHOOSE m \in 0 .. MixFrames :
    /\ \A i \in 0 .. (m - 1) : ((Position(v, i) \div 2) + 1) * voices_[v].channels < Buffered(v)
    /\ m < MixFrames => ((Position(v, m) \div 2) + 1) * voices_[v].channels >= Buffered(v)
Consumed(v) == (Position(v, Mixed(v)) \div 2) * voices_[v].channels
MutPlayed(v) ==     \* the frames consumed are not taken off the position
  [voices_[v] EXCEPT !.read_pos = (@ + Consumed(v)) % BufferSize(v), !.position = Position(v, Mixed(v))]
Played(v) ==
  [voices_[v] EXCEPT !.read_pos = (@ + Consumed(v)) % BufferSize(v), !.position = Position(v, Mixed(v)) % 2]
Playing == {v \in VoiceIds : voices_[v].exists /\ Buffered(v) >= voices_[v].channels}
get_output ==
  /\ voices_' = [v \in VoiceIds |-> IF v \in Playing THEN Played(v) ELSE voices_[v]]
  /\ unplayed' = [v \in VoiceIds |-> IF v \in Playing THEN unplayed[v] - Consumed(v) ELSE unplayed[v]]
  /\ UNCHANGED <<contexts_, running_, processing, blocked, history_vars>>
-----------------------------------------------------------------------------
(* The guest's calls.                                                       *)
create_context(c) ==
  /\ running_ /\ Unlocked /\ ~Exists(c) /\ \A d \in 0 .. (c - 1) : Exists(d)
  /\ contexts_' = [contexts_ EXCEPT ![c] = [NoContext EXCEPT !.exists = TRUE]]
  /\ unread' = [unread EXCEPT ![c] = [h \in Half |-> 0]] /\ spoilt' = spoilt \ {c}
  /\ UNCHANGED <<voices_, running_, processing, blocked, unplayed>>
destroy_context(c) ==
  /\ Unlocked /\ Exists(c)
  /\ contexts_' = [contexts_ EXCEPT ![c] = NoContext]
  /\ destroy_voices({contexts_[c].voice})
  /\ UNCHANGED <<running_, processing, blocked, history_vars>>

\* Where it is read from stays what it was, of the buffer that is being read too.
set_input_buffer(c, size, h) ==
  /\ Exists(c)
  /\ contexts_' = [contexts_ EXCEPT ![c].size[h] = size, ![c].consumed[h] = FALSE]
  /\ unread' = [unread EXCEPT ![c][h] = size]
  /\ spoilt' = IF contexts_[c].index = h /\ contexts_[c].read > 0 THEN spoilt \cup {c} ELSE spoilt
  /\ UNCHANGED <<voices_, running_, processing, blocked, unplayed>>
set_output_buffer(c, size) ==
  /\ Exists(c)
  /\ contexts_' = [contexts_ EXCEPT ![c].out = size, ![c].written = 0]
  /\ UNCHANGED <<voices_, running_, processing, blocked, history_vars, unplayed>>
\* HLE_XMASetContextData: rates and channel counts out of range are ignored.
SetContextData(c, channels, halves) ==
  /\ Exists(c)
  /\ contexts_' = [contexts_ EXCEPT ![c].channels = channels, ![c].halves = halves]
  /\ UNCHANGED <<voices_, running_, processing, blocked, history_vars, unplayed>>

\* Both buffers are read again, from the one that was read last.
Restarted(ctx) == [ctx EXCEPT !.active = TRUE, !.read = 0, !.consumed = [h \in Half |-> ctx.size[h] = 0]]
enable_context(c) ==
  LET ctx == Restarted(contexts_[c]) IN
  /\ Unlocked /\ Exists(c)
  /\ IF ctx.voice = NoId /\ FreeVoices # {}
       THEN \E v \in FreeVoices :
              /\ \A w \in FreeVoices : v <= w
              /\ contexts_' = [contexts_ EXCEPT ![c] = [ctx EXCEPT !.voice = v]] /\ create_voice(v, ctx)
       ELSE contexts_' = [contexts_ EXCEPT ![c] = ctx] /\ UNCHANGED <<voices_, unplayed>>
  /\ unread' = [unread EXCEPT ![c] = contexts_[c].size] /\ spoilt' = spoilt \ {c}
  /\ UNCHANGED <<running_, processing, blocked>>
disable_context(c) ==
  /\ Exists(c)
  /\ contexts_' = [contexts_ EXCEPT ![c].active = FALSE]
  /\ UNCHANGED <<voices_, running_, processing, blocked, history_vars, unplayed>>
-----------------------------------------------------------------------------
(* decode_packet: from the buffer being read, else from the other if it has *)
(* not been consumed, else nothing.                                         *)
Finished(ctx) == ctx.read >= ctx.size[ctx.index]
Other(ctx) == 1 - ctx.index
\* mutant: the other buffer is read from where this one ended
MutCurrent(ctx) ==
  IF ~Finished(ctx) THEN ctx
  ELSE IF ctx.size[Other(ctx)] > 0 /\ ~ctx.consumed[Other(ctx)]
    THEN [ctx EXCEPT !.consumed[ctx.index] = TRUE, !.index = Other(ctx)]
    ELSE [ctx EXCEPT !.consumed[ctx.index] = TRUE]
Current(ctx) ==
  IF ~Finished(ctx) THEN ctx
  ELSE IF ctx.size[Other(ctx)] > 0 /\ ~ctx.consumed[Other(ctx)]
    THEN [ctx EXCEPT !.consumed[ctx.index] = TRUE, !.index = Other(ctx), !.read = 0]
    ELSE [ctx EXCEPT !.consumed[ctx.index] = TRUE]

\* write_pcm_output: what the output buffer has no room for is dropped.
Written(ctx, n) == IF n <= ctx.out - ctx.written THEN ctx.written + n ELSE ctx.out

decode_packet(c, ok) ==
  LET ctx == Current(contexts_[c])
      n == PacketFrames * ctx.channels IN
  IF Finished(ctx)
    THEN contexts_' = [contexts_ EXCEPT ![c] = ctx] /\ UNCHANGED <<voices_, unplayed, history_vars>>
    ELSE /\ contexts_' = [contexts_ EXCEPT ![c] =
              [ctx EXCEPT !.read = @ + 1, !.written = IF ok THEN Written(ctx, n) ELSE @]]
         /\ IF ok /\ ctx.voice # NoId THEN submit_samples(ctx.voice, n) ELSE UNCHANGED <<voices_, unplayed>>
         /\ unread' = [unread EXCEPT ![c][ctx.index] = IF @ > 0 THEN @ - 1 ELSE 0]
         /\ UNCHANGED spoilt
Decoded(c, ok) == ok /\ ~Finished(Current(contexts_[c]))

Following(i) == IF i + 1 = XmaContexts THEN Resting ELSE [i |-> i + 1, n |-> 0]
process ==
  /\ running_ /\ Unlocked /\ processing' = [i |-> 0, n |-> 0]
  /\ UNCHANGED <<contexts_, voices_, running_, blocked, history_vars, unplayed>>
\* The pass: a packet of the context it is at, or the next context.
process_context(ok) ==
  /\ ~Unlocked
  /\ IF contexts_[processing.i].active
       THEN /\ decode_packet(processing.i, ok)
            /\ processing' = IF Decoded(processing.i, ok) /\ processing.n + 1 < PacketsPerPass
                               THEN [processing EXCEPT !.n = @ + 1] ELSE Following(processing.i)
       ELSE processing' = Following(processing.i) /\ UNCHANGED <<contexts_, voices_, history_vars, unplayed>>
  /\ UNCHANGED <<running_, blocked>>

\* HLE_XMABlockWhileInUse: only another thread ends it, no stream that has ended.
BlockWhileInUse(t, c) ==
  /\ running_ /\ blocked[t] = NoId /\ blocked' = [blocked EXCEPT ![t] = c]
  /\ UNCHANGED <<contexts_, voices_, running_, processing, history_vars, unplayed>>
Blocked(t, ok) ==
  /\ blocked[t] # NoId
  /\ IF contexts_[blocked[t]].active
       THEN decode_packet(blocked[t], ok) /\ UNCHANGED blocked
       ELSE blocked' = [blocked EXCEPT ![t] = NoId] /\ UNCHANGED <<contexts_, voices_, history_vars, unplayed>>
  /\ UNCHANGED <<running_, processing>>

xma_shutdown ==
  /\ running_ /\ Unlocked /\ running_' = FALSE
  /\ contexts_' = [c \in Ids |-> NoContext]
  /\ destroy_voices({contexts_[c].voice : c \in Ids})
  /\ UNCHANGED <<processing, blocked, history_vars>>

XmaCall ==
  \E c \in Ids :
    \/ create_context(c) \/ destroy_context(c) \/ enable_context(c) \/ disable_context(c)
    \/ \E size \in InputSize, h \in Half : set_input_buffer(c, size, h)
    \/ \E size \in OutputSize : set_output_buffer(c, size)
    \/ \E channels \in Channels, halves \in {1, 2} : SetContextData(c, channels, halves)
    \/ \E t \in XmaThread : BlockWhileInUse(t, c)
XmaNext ==
  \/ calls < MaxCalls /\ calls' = calls + 1 /\ XmaCall
  \/ UNCHANGED calls /\ (get_output \/ process \/ xma_shutdown)
  \/ UNCHANGED calls /\ \E ok \in BOOLEAN : process_context(ok) \/ \E t \in XmaThread : Blocked(t, ok)

XmaSpec == XmaInit /\ [][XmaNext]_xma_vars
-----------------------------------------------------------------------------
XmaOK ==
  /\ contexts_ \in [Ids -> HardwareContext] /\ voices_ \in [VoiceIds -> Voice]
  /\ running_ \in BOOLEAN /\ processing \in {Resting} \cup [i : Ids, n : 0 .. (PacketsPerPass - 1)]
  /\ blocked \in [XmaThread -> Ids \cup {NoId}]
  /\ unread \in [Ids -> [Half -> Nat]] /\ spoilt \subseteq Ids /\ unplayed \in [VoiceIds -> Int] /\ calls \in Nat

(* A buffer that is reported consumed has been read to its end, in the order *)
(* the buffers were given: unless the guest replaced the one being read.    *)
ConsumedMeansRead ==
  \A c \in Ids : Exists(c) /\ c \notin spoilt =>
    \A h \in Half : contexts_[c].consumed[h] => unread[c][h] = 0

(* No context writes past its output buffer.                                *)
OutputFits == \A c \in Ids : contexts_[c].written <= contexts_[c].out

(* Each voice is one context's, which exists: none is left behind by a      *)
(* destroyed context, and no two contexts share one.                        *)
VoicesOwned ==
  /\ \A c, d \in Ids : contexts_[c].voice = contexts_[d].voice /\ contexts_[c].voice # NoId => c = d
  /\ {v \in VoiceIds : voices_[v].exists} = {contexts_[c].voice : c \in {d \in Ids : Exists(d)}} \ {NoId}

(* The callback plays what was submitted and no more, in whatever portions  *)
(* and at whatever rate: what a ring holds is what was not played yet.      *)
PlaysWhatIsSubmitted ==
  \A v \in VoiceIds : unplayed[v] >= 0 /\ Buffered(v) = unplayed[v]
XmaKept == ConsumedMeansRead /\ OutputFits /\ VoicesOwned /\ PlaysWhatIsSubmitted
=============================================================================
