----------------------------- MODULE MCGraphics -----------------------------
(* The GPU's command ring, and beside it the address translations of tiled  *)
(* surfaces and the interfaces of translated shaders. A behaviour is one    *)
(* part's; the others stay as they are created.                             *)
EXTENDS GpuRing, Tiling, ShaderInterface

(* The proofs take the GPU's ring to be the guest's: so it is when the      *)
(* guest writes CP_RB_CNTL itself.                                          *)
ASSUME RegistersAssumption == Configure = "registers" => RingSize = RingDwords

MCShape == {[dwords |-> 3, swap |-> FALSE], [dwords |-> 2, swap |-> TRUE]}
MCDimension == [s \in Slots |-> IF s = 0 THEN "2D" ELSE "Cube"]

VARIABLE part               \* the part this behaviour is about

Rest(k) ==                   \* the other parts do not move
  /\ UNCHANGED part
  /\ k # 1 => UNCHANGED vars
  /\ k # 2 => UNCHANGED surface
  /\ k # 3 => UNCHANGED ivars

SuiteInit ==
  /\ Init /\ UntilerInit /\ InterfaceInit
  /\ part \in {"ring", "tiles", "shader"}
  /\ part # "shader" => shader_type = "vertex"
SuiteNext ==
  \/ part = "ring" /\ Next /\ Rest(1)
  \/ part = "tiles" /\ UntilerNext /\ Rest(2)
  \/ part = "shader" /\ InterfaceNext /\ Rest(3)

svars == <<part, vars, surface, ivars>>
SuiteSpec ==
  /\ SuiteInit /\ [][SuiteNext]_svars
  /\ WF_svars(part = "ring" /\ ConfigureRing /\ Rest(1))
  /\ WF_svars(part = "ring" /\ ProcessCommands /\ Rest(1))
  /\ WF_svars(part = "ring" /\ WaitForFence /\ Rest(1))

\* Each part keeps the types of its variables.
PartsTypeOK == TypeOK /\ SurfaceOK /\ (part = "shader" => InterfaceOK)
(* Both translations of a tiled address agree, and a translated shader has  *)
(* everything where the draw's pipeline, buffers and validation look for it. *)
GraphicsKept ==
  /\ TilingsAgree
  /\ part = "shader" => InterfacesMatch
(* Everything published is executed, and a wait for a fence returns: no     *)
(* wakeup is lost between wait_for_gpu_fence's predicate and its sleep.     *)
RingLives == RingDrains /\ FenceWaitReturns
=============================================================================
