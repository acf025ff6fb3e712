----------------------------- MODULE MCMachine -----------------------------
(* The threads run: ThreadScheduler, and beside it the parts of the machine *)
(* that have no run of their own, each on a small instance.  A behaviour is *)
(* one part's; the others stay as they are created.                         *)
EXTENDS MCThreadScheduler, AudioOutput, Renderer, GuestAtomics, JitCache

VARIABLE part               \* the part this behaviour is about

Insn(op, to) == [op |-> op, to |-> to]
MCProgram == <<Insn("load", 0), Insn("bc", 1), Insn("op", 0), Insn("sc", 0), Insn("b", 1)>>
MCPatches == {[at |-> 2, insn |-> Insn("op", 0)], [at |-> 5, insn |-> Insn("rfi", 0)]}
MCAccess == {{0}, {1}, {0, 1}}

VARIABLES insn, ctx, interpreted, compiled
engines == <<insn, ctx, interpreted, compiled>>
Engines == INSTANCE PpcEngines WITH W <- 4, Cells <- 4, Value <- {0, 8, 255}, Imm <- {1, -2},
                                    Shape <- {<<1, 2, 3>>, <<2, 2, 3>>, <<1, 0, 3>>}

PartsInit == JitInit /\ AudioInit /\ FramesInit /\ AtomicsInit /\ Engines!Init

Rest(k) ==                   \* the other parts do not move
  /\ UNCHANGED part
  /\ k # 1 => UNCHANGED vars
  /\ k # 2 => UNCHANGED avars
  /\ k # 3 => UNCHANGED frame_vars
  /\ k # 4 => UNCHANGED gvars
  /\ k # 5 => UNCHANGED engines
  /\ k # 6 => UNCHANGED jvars

SuiteInit == Init /\ PartsInit /\ part \in {"threads", "audio", "frames", "atomics", "cpu", "jit"}
SuiteNext ==
  \/ part = "threads" /\ Next /\ Rest(1)
  \/ part = "audio" /\ AudioNext /\ Rest(2)
  \/ part = "frames" /\ FramesNext /\ Rest(3)
  \/ part = "atomics" /\ AtomicsNext /\ Rest(4)
  \/ part = "cpu" /\ Engines!Next /\ Rest(5)
  \/ part = "jit" /\ JitNext /\ Rest(6)

svars == <<part, vars, avars, frame_vars, gvars, engines, jvars>>
SuiteSpec == SuiteInit /\ [][SuiteNext]_svars

\* Each part keeps the types of its variables.
PartsTypeOK == TypeOK /\ AudioOK /\ FramesOK /\ AtomicsOK /\ JitOK
\* Interpreter and generated code leave the same context, but for Diverges.
EnginesAgree == Engines!EnginesAgree
=============================================================================
