-------------------------------- MODULE Apu --------------------------------
(***************************************************************************)
(* apu/apu.cpp: the XMA contexts. The guest describes a stream in its      *)
(* context array and enables the context; passes over the contexts, begun  *)
(* by every guest thread that writes KICK and by the emulation thread's    *)
(* process(), decode a piece of each stream and report what is played out. *)
(* Nothing serialises two passes: they interleave at every read of a       *)
(* context that another step uses.                                         *)
(*                                                                         *)
(* Sizes count half packets (1024 bytes). Samples, voices and mixing are   *)
(* left out, and with them the output offsets and the error flag.          *)
(***************************************************************************)
EXTENDS Integers

CONSTANTS
  LastContext,    \* the highest context index (255)
  Pass,           \* who may run a pass: guest threads, the emulation thread
  Stream,         \* the streams the guest describes
  OffsetMod       \* 2^32 bytes

Context == 0 .. LastContext
Codec == {"xma", "xwma", "pcm", "pcm3"}
Offset == 0 .. OffsetMod - 1
XmaStream == [codec : Codec, packets : Nat, read : Offset, loops : Nat]

ASSUME ApuAssumption ==
  LastContext \in Nat /\ OffsetMod \in Nat \ {0} /\ Stream \subseteq XmaStream

VARIABLES
  hw,             \* the guest's array of XmaHwContext, from context_array_ptr_
  context_enable_, context_done_, context_lock_,
  interrupt_status_, interrupt_mask_,
  xma_contexts_,
  pass,           \* where each pass stands
  owed,           \* history: what a parse asked to play
  played_out,     \* history: what has been played of it
  raced           \* history: contexts two actors have been inside of since then

apu_registers == <<context_enable_, context_lock_, interrupt_mask_>>
apu_history == <<owed, played_out, raced>>
apu_vars == <<hw, apu_registers, context_done_, interrupt_status_, xma_contexts_, pass, apu_history>>

NoStream == [codec |-> "xma", packets |-> 0, read |-> 0, loops |-> 0]
NoXmaContext == [valid |-> FALSE, codec |-> "xma", write |-> 0, read |-> 0, loop |-> FALSE, loops |-> 0]
IdlePass == [at |-> "idle", i |-> 0, seen |-> 0, n |-> 0, any |-> FALSE]

ApuInit ==
  /\ hw = [c \in Context |-> NoStream]
  /\ context_enable_ = {} /\ context_done_ = {} /\ context_lock_ = {}
  /\ interrupt_status_ = FALSE /\ interrupt_mask_ = FALSE
  /\ xma_contexts_ = [c \in Context |-> NoXmaContext]
  /\ pass = [p \in Pass |-> IdlePass]
  /\ owed = [c \in Context |-> 0]
  /\ played_out = [c \in Context |-> 0]
  /\ raced = {}

\* Of a raced context nothing is owed, until it is enabled again.
Race(C) == /\ raced' = raced \cup C
           /\ owed' = [c \in Context |-> IF c \in C THEN 0 ELSE owed[c]]
           /\ played_out' = [c \in Context |-> IF c \in C THEN 0 ELSE played_out[c]]
Inside(p, c) == pass[p].at \in {"dma", "commit"} /\ pass[p].i = c
-----------------------------------------------------------------------------
Unsigned(n) == n % OffsetMod
\* parse_guest_context and writeback_guest_context.
XMA_PACKET_SIZE == 2
Parsed(c) ==
  [valid |-> TRUE, codec |-> hw[c].codec, write |-> hw[c].packets * XMA_PACKET_SIZE,
   read |-> hw[c].read, loop |-> hw[c].loops > 0, loops |-> hw[c].loops]
WrittenBack(c) == [hw[c] EXCEPT !.read = xma_contexts_[c].read, !.loops = xma_contexts_[c].loops]

\* The guest describes a stream to a context it has not enabled.
Describe(c) ==
  /\ c \notin context_enable_
  /\ \E s \in Stream : hw' = [hw EXCEPT ![c] = s]
  /\ UNCHANGED <<apu_registers, context_done_, interrupt_status_, xma_contexts_, pass, apu_history>>

\* XMA_CONTEXT_ENABLE: a bit that comes parses the context, one that goes
\* writes it back.
WriteEnable(value) ==
  LET on == value \ context_enable_
      off == context_enable_ \ value
  IN /\ value # context_enable_
     /\ context_enable_' = value
     /\ xma_contexts_' = [c \in Context |->
          IF c \in on THEN Parsed(c)
          ELSE IF c \in off THEN [xma_contexts_[c] EXCEPT !.valid = FALSE]
          ELSE xma_contexts_[c]]
     /\ hw' = [c \in Context |-> IF c \in off THEN WrittenBack(c) ELSE hw[c]]
     /\ raced' = (raced \ on) \cup {c \in on : \E p \in Pass : Inside(p, c)}
     /\ owed' = [c \in Context |->
          IF c \in raced' THEN 0
          ELSE IF c \in on THEN Unsigned(Unsigned(Parsed(c).write - Parsed(c).read) + hw[c].loops * Parsed(c).write)
          ELSE owed[c]]
     /\ played_out' = [c \in Context |-> IF c \in on \cup raced' THEN 0 ELSE played_out[c]]
     /\ UNCHANGED <<context_done_, context_lock_, interrupt_status_, interrupt_mask_, pass>>

WriteLock(value) ==
  /\ value # context_lock_
  /\ context_lock_' = value
  /\ UNCHANGED <<hw, context_enable_, interrupt_mask_, context_done_, interrupt_status_, xma_contexts_,
                 pass, apu_history>>
WriteClear(c) ==
  /\ c \in context_done_
  /\ context_done_' = context_done_ \ {c}
  /\ UNCHANGED <<hw, apu_registers, interrupt_status_, xma_contexts_, pass, apu_history>>
WriteMask ==
  /\ ~interrupt_mask_
  /\ interrupt_mask_' = TRUE
  /\ UNCHANGED <<hw, context_enable_, context_lock_, context_done_, interrupt_status_, xma_contexts_,
                 pass, apu_history>>
WriteStatus ==
  /\ interrupt_status_
  /\ interrupt_status_' = FALSE
  /\ UNCHANGED <<hw, apu_registers, context_done_, xma_contexts_, pass, apu_history>>

\* Emulator::reset clears the APU and the guest's memory, whoever is inside.
Reset ==
  /\ hw' = [c \in Context |-> NoStream]
  /\ context_enable_' = {} /\ context_done_' = {} /\ context_lock_' = {}
  /\ interrupt_status_' = FALSE /\ interrupt_mask_' = FALSE
  /\ xma_contexts_' = [c \in Context |-> NoXmaContext]
  /\ UNCHANGED <<pass, apu_history>>
-----------------------------------------------------------------------------
\* decode_xma_packets.
Remaining(c) == Unsigned(xma_contexts_[c].write - xma_contexts_[c].read)
Lesser(a, b) == IF a < b THEN a ELSE b
\* What one pass takes: a packet, a block, or whole frames; a frame of three
\* half packets ("pcm3") leaves a rest that is never taken.
Piece(codec, n) ==
  CASE codec = "xma" -> Lesser(n, XMA_PACKET_SIZE)
    [] codec = "xwma" -> Lesser(n, 3)
    [] codec = "pcm" -> Lesser(n, 4)
    [] codec = "pcm3" -> 3 * (Lesser(n, 6) \div 3)

At(p, at) == pass[p].at = at
Onward(p, any) ==
  pass' = [pass EXCEPT ![p] = [at |-> "scan", i |-> pass[p].i + 1, seen |-> 0, n |-> 0, any |-> any]]
\* What was read of a context is held across the decoding.
Decoding(p, c, n) == pass' = [pass EXCEPT ![p].at = "commit", ![p].n = n, ![p].seen = xma_contexts_[c].read]

Kick(p) ==
  /\ At(p, "idle")
  /\ pass' = [pass EXCEPT ![p].at = "scan"]
  /\ UNCHANGED <<hw, apu_registers, context_done_, interrupt_status_, xma_contexts_, apu_history>>

Scans(p, c) ==
  /\ At(p, "scan") /\ pass[p].i = c
  /\ xma_contexts_[c].valid /\ c \notin context_lock_
SkipContext(p) ==
  /\ At(p, "scan") /\ pass[p].i \in Context /\ ~Scans(p, pass[p].i)
  /\ Onward(p, pass[p].any)
  /\ UNCHANGED <<hw, apu_registers, context_done_, interrupt_status_, xma_contexts_, apu_history>>

Loops(c) == xma_contexts_[c].loop /\ xma_contexts_[c].loops > 0
Loop(p, c) ==
  /\ Scans(p, c) /\ Remaining(c) = 0 /\ Loops(c)
  /\ xma_contexts_' = [xma_contexts_ EXCEPT ![c].loops = @ - 1, ![c].read = 0]
  /\ Onward(p, pass[p].any)
  /\ UNCHANGED <<hw, apu_registers, context_done_, interrupt_status_, apu_history>>
\* For the check of DoneMeansPlayedOut: the last time round is taken for none.
MutComplete(p, c) ==
  /\ Scans(p, c) /\ Remaining(c) = 0 /\ xma_contexts_[c].loops <= 1
  /\ context_done_' = context_done_ \cup {c}
  /\ hw' = [hw EXCEPT ![c] = WrittenBack(c)]
  /\ Onward(p, TRUE)
  /\ UNCHANGED <<apu_registers, interrupt_status_, xma_contexts_, apu_history>>
Complete(p, c) ==
  /\ Scans(p, c) /\ Remaining(c) = 0 /\ ~Loops(c)
  /\ context_done_' = context_done_ \cup {c}
  /\ hw' = [hw EXCEPT ![c] = WrittenBack(c)]
  /\ Onward(p, TRUE)
  /\ UNCHANGED <<apu_registers, interrupt_status_, xma_contexts_, apu_history>>

\* decode_pcm_context and decode_xwma_context read the piece at once.
Take(p, c) ==
  LET n == Piece(xma_contexts_[c].codec, Remaining(c)) IN
  /\ Scans(p, c) /\ Remaining(c) # 0 /\ xma_contexts_[c].codec # "xma"
  /\ IF n = 0 THEN Onward(p, pass[p].any)
     ELSE Decoding(p, c, n)
  /\ UNCHANGED <<hw, apu_registers, context_done_, interrupt_status_, xma_contexts_, apu_history>>
ScanXma(p, c) ==
  /\ Scans(p, c) /\ Remaining(c) # 0 /\ xma_contexts_[c].codec = "xma"
  /\ pass' = [pass EXCEPT ![p].at = "dma"]
  /\ UNCHANGED <<hw, apu_registers, context_done_, interrupt_status_, xma_contexts_, apu_history>>
\* dma_read_context looks at the lock and at what is left again.
Dma(p, c) ==
  LET n == Piece("xma", Remaining(c)) IN
  /\ At(p, "dma") /\ pass[p].i = c
  /\ IF c \in context_lock_ \/ ~xma_contexts_[c].valid \/ n = 0 THEN Onward(p, pass[p].any)
     ELSE Decoding(p, c, n)
  /\ UNCHANGED <<hw, apu_registers, context_done_, interrupt_status_, xma_contexts_, apu_history>>

\* Decoding an XMA packet may give nothing: it is tried again. Two threads
\* adding to one offset may lose an addition.
DecodeFails(p, c) ==
  /\ At(p, "commit") /\ pass[p].i = c /\ xma_contexts_[c].codec = "xma"
  /\ Onward(p, pass[p].any)
  /\ UNCHANGED <<hw, apu_registers, context_done_, interrupt_status_, xma_contexts_, apu_history>>
Commit(p, c) ==
  /\ At(p, "commit") /\ pass[p].i = c
  /\ \E from \in {xma_contexts_[c].read, pass[p].seen} :
       /\ xma_contexts_' = [xma_contexts_ EXCEPT ![c].read = Unsigned(from + pass[p].n)]
       /\ hw' = [hw EXCEPT ![c].read = Unsigned(from + pass[p].n), ![c].loops = xma_contexts_[c].loops]
  /\ Onward(p, pass[p].any)
  /\ IF c \in raced \/ \E q \in Pass \ {p} : Inside(q, c)
       THEN Race({c})
       ELSE played_out' = [played_out EXCEPT ![c] = Unsigned(@ + pass[p].n)] /\ UNCHANGED <<owed, raced>>
  /\ UNCHANGED <<apu_registers, context_done_, interrupt_status_>>

\* check_and_raise_interrupt, when the pass has seen a stream's end.
FinishPass(p) ==
  /\ At(p, "scan") /\ pass[p].i = LastContext + 1
  /\ interrupt_status_' = (interrupt_status_ \/ (pass[p].any /\ context_done_ # {} /\ interrupt_mask_))
  /\ pass' = [pass EXCEPT ![p] = IdlePass]
  /\ UNCHANGED <<hw, apu_registers, context_done_, xma_contexts_, apu_history>>

ApuGuestStep ==
  \/ \E c \in Context : Describe(c) \/ WriteClear(c)
  \/ \E v \in SUBSET Context : WriteEnable(v) \/ WriteLock(v)
  \/ WriteMask \/ WriteStatus \/ Reset
ApuPassStep(p) ==
  \/ Kick(p) \/ SkipContext(p) \/ FinishPass(p)
  \/ \E c \in Context : \/ Loop(p, c) \/ Complete(p, c) \/ Take(p, c) \/ ScanXma(p, c)
                        \/ Dma(p, c) \/ DecodeFails(p, c) \/ Commit(p, c)
ApuNext == ApuGuestStep \/ \E p \in Pass : ApuPassStep(p)
ApuSpec == ApuInit /\ [][ApuNext]_apu_vars
-----------------------------------------------------------------------------
ApuOK ==
  /\ \A c \in Context : hw[c].packets \in Nat /\ hw[c].loops \in Nat
  /\ context_enable_ \cup context_done_ \cup context_lock_ \cup raced \subseteq Context
  /\ {interrupt_status_, interrupt_mask_} \subseteq BOOLEAN
  /\ \A c \in Context : xma_contexts_[c].read \in Offset /\ played_out[c] \in Offset
  /\ \A p \in Pass : pass[p].at \in {"idle", "scan", "dma", "commit"} /\ pass[p].i \in 0 .. LastContext + 1

\* A context is reported done only when every packet of the stream it was
\* enabled with, and of each of its loops, has been played, once: with locks,
\* failed decodings, resets and re-enabling in between. The exception is a
\* context two passes, or a pass and the enabling, were inside of at once:
\* nothing keeps them apart, and both play the same piece.
DoneMeansPlayedOut ==
  [][\A c \in (context_done_' \ context_done_) \ raced : played_out[c] = owed[c]]_apu_vars
=============================================================================
