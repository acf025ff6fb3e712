------------------------------- MODULE Tiling -------------------------------
(***************************************************************************)
(* Where a block of a surface is in the guest's tiled memory: written twice *)
(* (TextureUntiler of gpu/xenos/edram.cpp, namespace tiling of              *)
(* gpu/texture_cache.cpp). Offsets count blocks where the code counts bytes: *)
(* every one is a multiple of the bytes per block. A step untiles a surface. *)
(* Left out: linear surfaces, mip tails, packed 3D codes, the eDRAM's tiles. *)
(***************************************************************************)
EXTENDS Integers, FiniteSets, Bitwise

CONSTANTS
  Extent,           \* widths and heights, in blocks
  Slices            \* depths, and 6 for the faces of a cube

VARIABLE surface    \* untiled last

Surfaces == [width : Extent, height : Extent, slices : Slices]
MACRO_SIZE == 32
MICRO_SIZE == 8
-----------------------------------------------------------------------------
(* Morton codes, of what a tile needs. 00FF00FF, 0F0F0F0F, 33333333, 55555555. *)
M8 == 16711935
M4 == 252645135
M2 == 858993459
M1 == 1431655765
Coordinate == 0 .. (MICRO_SIZE - 1)

part1by1(n) ==
  LET a == (n ^^ (n * 256)) & M8
      b == (a ^^ (a * 16)) & M4
      c == (b ^^ (b * 4)) & M2 IN (c ^^ (c * 2)) & M1
\* TextureUntiler's
morton_encode == [x \in Coordinate, y \in Coordinate |-> part1by1(x) | (part1by1(y) * 2)]

Spread(n) ==
  LET a == (n | (n * 256)) & M8
      b == (a | (a * 16)) & M4
      c == (b | (b * 4)) & M2 IN (c | (c * 2)) & M1
\* namespace tiling's
encode_morton_2d == [x \in Coordinate, y \in Coordinate |-> Spread(x) | (Spread(y) * 2)]

compact1by1(n) ==
  LET a == n & M1
      b == (a ^^ (a \div 2)) & M2
      c == (b ^^ (b \div 4)) & M4
      d == (c ^^ (c \div 16)) & M8 IN (d ^^ (d \div 256)) & 65535
morton_decode == [code \in 0 .. (MICRO_SIZE * MICRO_SIZE - 1) |->
                    <<compact1by1(code), compact1by1(code \div 2)>>]
-----------------------------------------------------------------------------
(* Macro tiles in rows; in them micro tiles, and in those blocks, in Morton *)
(* order.                                                                   *)
Tiles(n) == ((n + MACRO_SIZE) - 1) \div MACRO_SIZE
Micro(c) == (c % MACRO_SIZE) \div MICRO_SIZE
Element(c) == (c % MACRO_SIZE) % MICRO_SIZE

\* mutant: the last, partial macro tile of a row is not counted
MutUntilerOffset(x, y, width) ==
  (((((y \div MACRO_SIZE) * (width \div MACRO_SIZE)) + (x \div MACRO_SIZE)) * MACRO_SIZE * MACRO_SIZE)
    + (morton_encode[Micro(x), Micro(y)] * MICRO_SIZE * MICRO_SIZE)) + morton_encode[Element(x), Element(y)]
\* TextureUntiler::get_tiled_offset_2d
UntilerOffset(x, y, width) ==
  LET macro == ((y \div MACRO_SIZE) * Tiles(width)) + (x \div MACRO_SIZE)
      micro == morton_encode[Micro(x), Micro(y)] * MICRO_SIZE * MICRO_SIZE
  IN ((macro * MACRO_SIZE * MACRO_SIZE) + micro) + morton_encode[Element(x), Element(y)]
\* tiling::get_tiled_offset_2d
CacheOffset(bx, by, blocks_x) ==
  LET macro == ((by \div MACRO_SIZE) * Tiles(blocks_x)) + (bx \div MACRO_SIZE)
      micro == encode_morton_2d[Micro(bx), Micro(by)] * MICRO_SIZE * MICRO_SIZE
  IN ((macro * MACRO_SIZE * MACRO_SIZE) + micro) + encode_morton_2d[Element(bx), Element(by)]

\* A slice of a 3D texture and a face of a cube are tiled on their own.
tiled_slice_size(s) == Tiles(s.width) * Tiles(s.height) * MACRO_SIZE * MACRO_SIZE
Blocks(s) == (0 .. (s.width - 1)) \X (0 .. (s.height - 1)) \X (0 .. (s.slices - 1))
linear(s, b) == (b[3] * s.width * s.height) + ((b[2] * s.width) + b[1])

\* untile_2d, _3d, _cube: where in the guest's memory each block is read
Untiled(s) ==
  [b \in Blocks(s) |-> (b[3] * tiled_slice_size(s)) + UntilerOffset(b[1], b[2], s.width)]
\* detile_texture, _3d, _cube
Detiled(s) ==
  [b \in Blocks(s) |-> (b[3] * tiled_slice_size(s)) + CacheOffset(b[1], b[2], s.width)]

UntilerInit == surface = [width |-> 0, height |-> 0, slices |-> 0]
Untile(s) == surface' = s
UntilerNext == \E s \in Surfaces : Untile(s)
-----------------------------------------------------------------------------
SurfaceOK == surface.width > 0 => surface \in Surfaces

(* Both translations read the same block for a pixel, no block twice, none  *)
(* outside the surface's tiles, and a code decodes to what it encodes.      *)
TilingsAgree ==
  surface.width > 0 =>
  LET from == Untiled(surface)
      read == {from[b] : b \in Blocks(surface)} IN
  /\ from = Detiled(surface)
  /\ Cardinality(read) = surface.width * surface.height * surface.slices
  /\ read \subseteq 0 .. ((surface.slices * tiled_slice_size(surface)) - 1)
  /\ {linear(surface, b) : b \in Blocks(surface)} = 0 .. ((surface.width * surface.height * surface.slices) - 1)
  /\ \A x, y \in Coordinate : morton_decode[morton_encode[x, y]] = <<x, y>>
=============================================================================
