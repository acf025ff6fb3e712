----------------------------- MODULE MCServices -----------------------------
(* The object table's run, and beside it what keeps files or forms code     *)
(* and has no run of its own, each on a small instance. A behaviour is one  *)
(* part's; the others stay as they are created.                             *)
EXTENDS ObjectTable, FileIo, TLC

VARIABLE part               \* the part this behaviour is about

\* A disc, something that is no image, and a folder mounted from the start; two
\* mount points name one device or two.
Disc == [kind |-> "iso", id |-> 1]
Unreadable == [kind |-> "bad", id |-> 1]
Folder == [kind |-> "host", id |-> 2]
MCDeviceOf == "game" :> "game" @@ "GAME" :> "game"
MCMedium == {Disc, Unreadable}
MCDefault == <<[point |-> "game", medium |-> Folder]>>
MCDisk == <<<<1>>, <<0>>>>

VARIABLES cached, index, process, title_id_, game_cache_path_, shader_cache_,
          disk_index_, lru_order_, total_disk_size_, draw, faults
shaders == <<cached, index, process, title_id_, game_cache_path_, shader_cache_,
             disk_index_, lru_order_, total_disk_size_, draw, faults>>
\* Two of three shaders fit the directory.
Shaders == INSTANCE ShaderCache WITH
  files <- cached, Vertex <- {"v1"}, Pixel <- {"p1", "p2"}, Game <- {"g"}, Base <- "base",
  Size <- [h \in {"v1", "p1", "p2"} |-> 1], max_cache_size_ <- 2, MaxFaults <- 1

VARIABLES shader_type, code, next_id_, loop_stack, taken, ended
translation == <<shader_type, code, next_id_, loop_stack, taken, ended>>
\* A clause is empty, or two kills in one predicated instruction and another.
Translator == INSTANCE ShaderTranslator WITH
  type <- shader_type, count <- taken, MaxCf <- 5, MaxDepth <- 2,
  Clause <- {<<>>, <<[predicated |-> TRUE, kill |-> {"vector", "scalar"}],
                     [predicated |-> TRUE, kill |-> {}]>>}

Rest(k) ==                   \* the other parts do not move
  /\ UNCHANGED part
  /\ k # 1 => UNCHANGED vars
  /\ k # 2 => UNCHANGED fvars
  /\ k # 3 => UNCHANGED shaders
  /\ k # 4 => UNCHANGED translation

SuiteInit ==
  /\ Init /\ FileInit /\ Shaders!Init /\ Translator!Init
  /\ part \in {"objects", "files", "shaders", "translator"}
  /\ part # "translator" => shader_type = "vertex"
SuiteNext ==
  \/ part = "objects" /\ Next /\ Rest(1)
  \/ part = "files" /\ FileNext /\ Rest(2)
  \/ part = "shaders" /\ Shaders!Next /\ Rest(3)
  \/ part = "translator" /\ Translator!Next /\ Rest(4)

svars == <<part, vars, fvars, shaders, translation>>
SuiteSpec == SuiteInit /\ [][SuiteNext]_svars

\* Objects are interchangeable, and so are guest references.
Symmetry == Permutations(Obj) \cup Permutations(Ref)

\* Each part keeps the types of its variables.
PartsTypeOK ==
  CASE part = "objects" -> TypeOK [] part = "files" -> FilesTypeOK
    [] part = "shaders" -> Shaders!TypeOK [] part = "translator" -> Translator!TypeOK
(* The cache never gives a draw a module that is gone or was made from a    *)
(* file cut short, and its accounts bound what the directory holds; a       *)
(* shader's translation is structured code whatever its control flow.       *)
ShadersKept ==
  /\ part = "shaders" => Shaders!WithinLimit /\ Shaders!OnlyWholeModules /\ Shaders!BothShadersAlive
  /\ part = "translator" => Translator!Structured
=============================================================================
