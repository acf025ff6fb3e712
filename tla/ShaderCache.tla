---------------------------- MODULE ShaderCache ----------------------------
(***************************************************************************)
(* gpu/shader_cache.cpp: shaders by the hash of their microcode, in memory  *)
(* and as files of the current directory, with an index that is written at  *)
(* a change of game and at shutdown; the least recently used are evicted    *)
(* when the directory is over its limit.                                    *)
(*                                                                         *)
(* Faults: the process dies, also inside a write; a full disk cuts a write  *)
(* short; a file disappears. An index's times have a resolution of a        *)
(* second: after a load the order is any. Left out: pipelines, what modules *)
(* contain, files and indexes of another version.                           *)
(***************************************************************************)
EXTENDS Integers, SequencesExt, FiniteSetsExt

CONSTANTS
  Vertex, Pixel,    \* microcodes, by the type of shader
  Game,             \* the games' directories
  Base,             \* base_cache_path_
  Size,             \* of a shader's file
  max_cache_size_,
  MaxFaults         \* bounds the faults of a behaviour

VARIABLES
  files, index,     \* the disk: per directory, its .spv files and its shader_index.bin
  process,          \* "fresh": not initialized yet; "up"; "shut": vulkan_ is null again
  title_id_,        \* None, or the game's directory
  game_cache_path_,
  shader_cache_,    \* the shaders in memory, and what their modules were made from
  disk_index_, lru_order_, total_disk_size_,
  draw,             \* prepare_shaders: the shaders it got so far
  faults

disk == <<files, index>>
tables == <<disk_index_, lru_order_, total_disk_size_>>
shvars == <<disk, process, title_id_, game_cache_path_, shader_cache_, tables, draw, faults>>

Shader == Vertex \cup Pixel
None == "none"
Dir == Game \cup {Base}
NoIndex == [state |-> None, entries |-> {}]
SizeSum(S) == MapThenSumSet(LAMBDA h : Size[h], S)
NoDraw == [vs |-> None, ps |-> None]

Init ==
  /\ files = [d \in Dir |-> [h \in Shader |-> None]] /\ index = [d \in Dir |-> NoIndex]
  /\ process = "fresh" /\ title_id_ = None /\ game_cache_path_ = Base
  /\ shader_cache_ = [h \in Shader |-> None]
  /\ disk_index_ = {} /\ lru_order_ = <<>> /\ total_disk_size_ = 0
  /\ draw = NoDraw /\ faults = 0
-----------------------------------------------------------------------------
(* The index.                                                               *)
Kept(d, entries) == {h \in entries : files[d][h] # None}   \* stat: its file exists

\* load_index: a torn index may repeat the entry before the one cut short
Loaded(d) ==
  IF index[d].state = None THEN UNCHANGED tables
  ELSE LET kept == Kept(d, index[d].entries) IN
    /\ disk_index_' = kept
    /\ \E twice \in {{}} \cup (IF index[d].state = "torn" THEN {{h} : h \in kept} ELSE {}),
          order \in SetToSeqs(kept) :
         /\ lru_order_' = order \o SetToSeq(twice)
         /\ total_disk_size_' = SizeSum(kept) + SizeSum(twice)

\* save_index, whole or as a full disk leaves it
Whole == [state |-> "whole", entries |-> disk_index_]
Torn == {[state |-> "torn", entries |-> S] : S \in SUBSET disk_index_}
Faulty == faults < MaxFaults /\ faults' = faults + 1
SaveIndex ==
  \/ index' = [index EXCEPT ![game_cache_path_] = Whole] /\ UNCHANGED faults
  \/ Faulty /\ \E torn \in Torn : index' = [index EXCEPT ![game_cache_path_] = torn]
Forget ==                     \* the modules are destroyed
  shader_cache_' = [h \in Shader |-> None]

initialize ==
  /\ process # "up" /\ process' = "up" /\ game_cache_path_' = Base
  /\ Loaded(Base)             \* without an index file the old total stays
  /\ UNCHANGED <<disk, title_id_, shader_cache_, draw, faults>>

Cleared == disk_index_' = {} /\ lru_order_' = <<>>
shutdown ==
  /\ process = "up" /\ draw = NoDraw /\ process' = "shut"
  /\ SaveIndex /\ Forget /\ Cleared
  /\ UNCHANGED <<files, title_id_, game_cache_path_, total_disk_size_, draw>>

\* Before the first surface there is no base path: the title is only noted.
set_title_id(t) ==
  /\ process # "shut" /\ draw = NoDraw /\ (t # title_id_ \/ t = None)
  /\ title_id_' = t /\ Forget /\ UNCHANGED <<files, process, draw>>
  /\ IF title_id_ # None /\ process = "up" THEN SaveIndex ELSE UNCHANGED <<index, faults>>
  /\ IF t # None /\ process = "up"
     THEN /\ game_cache_path_' = t
          /\ IF index[t].state = None THEN Cleared /\ total_disk_size_' = 0 ELSE Loaded(t)
     ELSE UNCHANGED game_cache_path_ /\ Cleared /\ total_disk_size_' = 0
-----------------------------------------------------------------------------
(* The least recently used.                                                 *)
Touched(order, h) == <<h>> \o SelectSeq(order, LAMBDA g : g # h)

Victims(order, k) == Range(SubSeq(order, Len(order) - k + 1, Len(order)))
\* evict_lru, on the tables as save_shader_to_disk leaves them
Evicted(order, listed, total) ==
  LET Left(n) == total - SizeSum(Victims(order, n) \cap listed)
      k == CHOOSE n \in 0..Len(order) : /\ Left(n) <= max_cache_size_ \/ n = Len(order)
                                        /\ \A m \in 0..(n - 1) : Left(m) > max_cache_size_
  IN Victims(order, k)
-----------------------------------------------------------------------------
(* get_shader, on the thread that draws.                                    *)
Asks(h) ==                    \* the vertex shader first
  /\ process = "up"
  /\ \/ h \in Vertex /\ draw = NoDraw
     \/ h \in Pixel /\ draw.vs # None /\ draw.ps = None
Gets(h) == draw' = IF h \in Vertex THEN [draw EXCEPT !.vs = h] ELSE [draw EXCEPT !.ps = h]
Fixed == UNCHANGED <<process, title_id_, game_cache_path_>>

Hit(h) ==
  /\ Asks(h) /\ shader_cache_[h] # None /\ Gets(h)
  /\ lru_order_' = Touched(lru_order_, h)
  /\ Fixed /\ UNCHANGED <<disk, shader_cache_, disk_index_, total_disk_size_, faults>>

OnDisk(h) == files[game_cache_path_][h]
MutAccepts(h) ==              \* the last read is not checked
  h \in disk_index_ /\ OnDisk(h) \in {"whole", "short"}
Accepts(h) ==                 \* load_shader_from_disk
  h \in disk_index_ /\ OnDisk(h) = "whole"
DiskHit(h) ==
  /\ Asks(h) /\ shader_cache_[h] = None /\ Accepts(h) /\ Gets(h)
  /\ shader_cache_' = [shader_cache_ EXCEPT ![h] = OnDisk(h)]
  /\ lru_order_' = Touched(lru_order_, h)
  /\ Fixed /\ UNCHANGED <<disk, disk_index_, total_disk_size_, faults>>

\* no file or no header: the entry goes; cut short: it stays, and is counted again
Refused(h) == h \in disk_index_ /\ OnDisk(h) \in {None, "headless"}
Listed(h) == disk_index_ \ (IF Refused(h) THEN {h} ELSE {})
Counted(h) == total_disk_size_ - (IF Refused(h) THEN Size[h] ELSE 0)
Misses(h) == Asks(h) /\ shader_cache_[h] = None /\ ~Accepts(h)

Untranslated(h) ==            \* or no module: the draw takes the default shaders
  /\ Misses(h) /\ draw' = NoDraw
  /\ disk_index_' = Listed(h) /\ total_disk_size_' = Counted(h)
  /\ Fixed /\ UNCHANGED <<disk, shader_cache_, lru_order_, faults>>

Unsaved(h) ==                 \* the file cannot be opened: in memory only
  /\ Misses(h) /\ Gets(h) /\ Faulty
  /\ shader_cache_' = [shader_cache_ EXCEPT ![h] = "whole"]
  /\ disk_index_' = Listed(h) /\ total_disk_size_' = Counted(h)
  /\ lru_order_' = Touched(lru_order_, h)
  /\ Fixed /\ UNCHANGED disk

Compiled(h) ==
  LET listed == Listed(h) \cup {h}
      total == Counted(h) + Size[h]
      order == <<h>> \o lru_order_
      gone == Evicted(order, listed, total) IN
  /\ Misses(h) /\ Gets(h)
  /\ \E as \in {"whole", "short"} :
       /\ IF as = "short" THEN Faulty ELSE UNCHANGED faults
       /\ files' = [files EXCEPT ![game_cache_path_] =
            [g \in Shader |-> IF g \in gone THEN None ELSE IF g = h THEN as ELSE @[g]]]
  /\ disk_index_' = listed \ gone
  /\ total_disk_size_' = total - SizeSum(gone \cap listed)
  /\ lru_order_' = Touched(SelectSeq(order, LAMBDA g : g \notin gone), h)
  /\ shader_cache_' = [g \in Shader |-> IF g = h THEN "whole" ELSE IF g \in gone THEN None ELSE shader_cache_[g]]
  /\ Fixed /\ UNCHANGED index

DrawEnds ==
  /\ draw.ps # None /\ draw' = NoDraw
  /\ Fixed /\ UNCHANGED <<disk, shader_cache_, tables, faults>>
-----------------------------------------------------------------------------
(* The process ends: what was in memory is gone.                            *)
Dies ==
  /\ process' = "fresh" /\ title_id_' = None /\ game_cache_path_' = Base /\ Forget
  /\ Cleared /\ total_disk_size_' = 0 /\ draw' = NoDraw
Crash ==
  /\ process # "fresh" /\ Faulty /\ Dies /\ UNCHANGED disk
CrashInSave(h) ==
  /\ Misses(h) /\ Faulty /\ Dies /\ UNCHANGED index
  /\ \E as \in {"headless", "short"} : files' = [files EXCEPT ![game_cache_path_][h] = as]
\* set_title_id after a shutdown calls vulkan_: with a title before, the index is first written empty
CrashInSwitch ==
  /\ process = "shut" /\ Dies /\ UNCHANGED <<files, faults>>
  /\ IF title_id_ = None THEN UNCHANGED index ELSE index' = [index EXCEPT ![game_cache_path_] = Whole]
Vanishes(d, h) ==
  /\ files[d][h] # None /\ Faulty
  /\ files' = [files EXCEPT ![d][h] = None]
  /\ Fixed /\ UNCHANGED <<index, shader_cache_, tables, draw>>

Next ==
  \/ initialize \/ shutdown \/ DrawEnds \/ Crash \/ CrashInSwitch
  \/ \E t \in Game \cup {None} : set_title_id(t)
  \/ \E h \in Shader : Hit(h) \/ DiskHit(h) \/ Untranslated(h) \/ Unsaved(h) \/ Compiled(h) \/ CrashInSave(h)
  \/ \E d \in Dir, h \in Shader : Vanishes(d, h)
-----------------------------------------------------------------------------
TypeOK ==
  /\ disk_index_ \subseteq Range(lru_order_) /\ Range(lru_order_) \subseteq Shader
  /\ total_disk_size_ \in Nat /\ game_cache_path_ \in Dir /\ title_id_ \in Game \cup {None}

(* What the index lists never exceeds the limit, and the running total, which *)
(* short writes, torn indexes and shutdowns let drift, never falls below it:   *)
(* the subtractions of evict_lru and load_shader_from_disk cannot wrap.        *)
WithinLimit ==
  /\ SizeSum(disk_index_) <= total_disk_size_
  /\ process = "up" => SizeSum(disk_index_) <= max_cache_size_

(* No module is made from a file that a crash or a full disk cut short.      *)
OnlyWholeModules == \A h \in Shader : shader_cache_[h] \in {None, "whole"}

(* Getting the pixel shader does not destroy the vertex shader just got, nor  *)
(* itself: both are in memory when the pipeline is made, if the total is exact *)
(* and the limit holds two shaders.                                            *)
BothShadersAlive ==
  draw.ps # None /\ total_disk_size_ = SizeSum(disk_index_)
    /\ Size[draw.vs] + Size[draw.ps] <= max_cache_size_ =>
    shader_cache_[draw.vs] # None /\ shader_cache_[draw.ps] # None
=============================================================================
