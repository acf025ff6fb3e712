----------------------------- MODULE XexLoader -----------------------------
(* Emulator::load_game of an executable: XexLoader decrypts and unpacks the *)
(* image, writes it to guest memory, and Kernel::load_xex records the       *)
(* module and writes a thunk for every import. Memory is seen in lines of   *)
(* 16 bytes: an AES block, and the room of one thunk. Ciphers are symbolic: *)
(* a line decrypts with its key after the line it was chained to.           *)
EXTENDS Integers, Sequences, SequencesExt

CONSTANTS
  Blocks,      \* [data, zeros] of a basic compression block, in lines
  Size,        \* image_size, in lines
  Base, Page,  \* base_address, and the alignment of the thunk area, in lines
  Half,        \* values of a half word: 2^16 in the code, less here
  Strings,     \* the import header's string table, in order
  Tables       \* import tables: sequences of [name, count, words]

Key == {"Retail", "DevKit", "XEX1"}
\* What tells executables apart: the magic, the key their own is wrapped
\* with, encryption and compression types, the block table, whether the file
\* lacks its last line, the imports.
File ==
  {f \in [magic : {"XEX1", "XEX2"}, key : Key, encryption : {0, 1}, compression : 0..3,
          blocks : {<<>>} \cup (Blocks \X Blocks), missing : {0, 1}, imports : Tables] :
     /\ f.encryption = 0 => f.key = "Retail"
     /\ f.compression # 1 => f.blocks = <<>>}

VARIABLES
  state_,      \* of the emulator: no game, loading one, or loaded
  file,        \* the file load_game was given
  image_data,  \* the image put together
  block, src_offset, dst_offset, iv,    \* of the loop over basic blocks
  memory,      \* guest memory from the image's base on
  modules_,    \* entries load_xex recorded
  thunks       \* imports whose thunks install_import_thunks has written
xvars == <<state_, file, image_data, block, src_offset, dst_offset, iv, memory, modules_, thunks>>

Zero == <<"zero">>
Garbage == <<"garbage">>
Data(i) == <<"data", i>>               \* the i-th line of the file, in the clear

DataLines(f) ==                        \* what follows the headers
  IF f.blocks = <<>> THEN Size ELSE f.blocks[1].data + f.blocks[2].data
Stored(f) == IF DataLines(f) > 0 THEN DataLines(f) - f.missing ELSE 0

(* ---- XexDecryptor ------------------------------------------------------ *)
\* aes_.decrypt_cbc of lines first..last: the first is chained to what the IV
\* is, every other to the line before it.
Decrypt(f, key, first, last, chained) ==
  [i \in first..last |->
    IF f.encryption = 0 THEN Data(i)
    ELSE IF key # f.key \/ (i = first /\ chained # i - 1) THEN Garbage
    ELSE Data(i)]

\* The key of parse_pe_image. try_keys looks for the DOS header in the first
\* bytes, which are the image's own only when it is not compressed.
DetectedKey(f) ==
  IF f.magic = "XEX1" THEN "XEX1"
  ELSE IF f.compression = 0 /\ Stored(f) > 0 THEN f.key ELSE "Retail"
BlockKey(f) == IF f.magic = "XEX1" THEN "XEX1" ELSE "Retail"

\* LZX unpacks the stream it is given whole and clear, with its window size
\* rounded up into 15..21 bits; anything else it refuses.
Unpacks(f, raw) == Stored(f) = DataLines(f) /\ \A i \in 1..Stored(f) : raw[i] = Data(i)

\* An image decrypted whole, then unpacked or copied: one with basic
\* compression is not decrypted here, and without a block table copied as it
\* is. When LZX fails the raw data is copied, and the load goes on.
Whole(f) ==
  LET raw == IF f.compression = 1 /\ f.encryption = 1 THEN [i \in 1..Stored(f) |-> Garbage]
             ELSE Decrypt(f, DetectedKey(f), 1, Stored(f), 0)
  IN [i \in 1..Size |->
       IF i > Stored(f) THEN Zero
       ELSE IF f.compression = 3 \/ (f.compression = 2 /\ ~Unpacks(f, raw)) THEN Garbage
       ELSE raw[i]]

Least(a, b) == IF a < b THEN a ELSE b

TypeOK ==
  /\ state_ \in {"Ready", "Blocks", "Map", "Thunks", "Loaded"}
  /\ state_ # "Ready" => file \in File
  /\ DOMAIN image_data = 1..Size
  /\ block \in 1..3 /\ src_offset \in Nat /\ dst_offset \in 0..Size /\ iv \in Nat
  /\ Len(modules_) <= 1 /\ thunks \in Nat

NoImage == [i \in 1..Size |-> Zero]
NoMemory == [a \in Base..(Base + (2 * Size) + Page) |-> Zero]
NoFile == [magic |-> "none"]

Init ==
  /\ state_ = "Ready" /\ file = NoFile /\ image_data = NoImage
  /\ block = 1 /\ src_offset = 0 /\ dst_offset = 0 /\ iv = 0
  /\ memory = NoMemory /\ modules_ = <<>> /\ thunks = 0

(* ---- Loading ----------------------------------------------------------- *)
\* Emulator::load_game, and load_buffer up to the image's bytes. A file that
\* does not open, or without the magic, is refused before anything changes.
LoadGame(f) ==
  /\ state_ = "Ready"
  /\ file' = f
  /\ IF f.blocks # <<>>
     THEN state_' = "Blocks" /\ image_data' = NoImage
     ELSE state_' = "Map" /\ image_data' = Whole(f)
  /\ block' = 1 /\ src_offset' = 0 /\ dst_offset' = 0 /\ iv' = 0
  /\ UNCHANGED <<memory, modules_, thunks>>

(* Mutant: every block is decrypted with the zero IV.                       *)
MutNextIv(first, last) == 0
\* The IV kept for the next block: the last line of this one's ciphertext.
NextIv(first, last) == IF last < first THEN iv ELSE last

\* One round of the loop over basic blocks, or its end.
UnpackBlock ==
  LET b == file.blocks[block]
      first == src_offset + 1
      last == src_offset + b.data
      clear == Decrypt(file, BlockKey(file), first, last, iv)
      copied == Least(b.data, Size - dst_offset)
      zeroed == Least(b.zeros, (Size - dst_offset) - copied)
  IN /\ state_ = "Blocks"
     /\ IF block > Len(file.blocks) \/ dst_offset >= Size \/ last > Stored(file)
        THEN state_' = "Map" /\ UNCHANGED <<image_data, block, src_offset, dst_offset, iv>>
        ELSE /\ image_data' = [i \in 1..Size |->
                  IF i \in (dst_offset + 1)..(dst_offset + copied)
                  THEN clear[src_offset + (i - dst_offset)]
                  ELSE IF i \in (dst_offset + copied + 1)..(dst_offset + copied + zeroed)
                  THEN Zero ELSE image_data[i]]
             /\ dst_offset' = dst_offset + copied + zeroed
             /\ src_offset' = last
             /\ iv' = NextIv(first, last)
             /\ block' = block + 1 /\ UNCHANGED state_
     /\ UNCHANGED <<file, memory, modules_, thunks>>

\* The image is written to guest memory, and the module recorded.
MapImage ==
  /\ state_ = "Map"
  /\ memory' = [a \in DOMAIN memory |->
       IF a \in Base..(Base + Size - 1) THEN image_data[(a - Base) + 1] ELSE memory[a]]
  /\ modules_' = Append(modules_, [base |-> Base, size |-> Size])
  /\ state_' = "Thunks" /\ thunks' = 0
  /\ image_data' = NoImage /\ block' = 1 /\ src_offset' = 0 /\ dst_offset' = 0 /\ iv' = 0
  /\ UNCHANGED file

(* ---- Imports ----------------------------------------------------------- *)
\* A word of a record: an ordinal, or a value that looks like an address in
\* the executable's space, which is taken for the thunk of the one before it.
ParseEntries(record) ==
  LET Read(entries, w) ==
        IF entries.open /\ w.address
        THEN [list |-> [entries.list EXCEPT ![Len(entries.list)].at = w.value], open |-> FALSE]
        ELSE IF Len(entries.list) < record.count
        THEN [list |-> Append(entries.list, [ordinal |-> w.value, at |-> 0]), open |-> TRUE]
        ELSE [entries EXCEPT !.open = FALSE]
  IN FoldLeft(Read, [list |-> <<>>, open |-> FALSE], record.words).list

LibraryName(record) ==
  IF record.name < Len(Strings) THEN Strings[record.name + 1] ELSE "<unknown>"
ModuleId(name) ==
  CASE name = "xboxkrnl.exe" -> 0 [] name = "xam.xex" -> 1 [] OTHER -> 2

Imports ==                             \* of all libraries, in their order
  LET Calls(record) ==
        LET entries == ParseEntries(record) IN
        [i \in DOMAIN entries |->
          [module |-> ModuleId(LibraryName(record)),
           ordinal |-> entries[i].ordinal, at |-> entries[i].at]]
  IN FlattenSeq([l \in DOMAIN file.imports |-> Calls(file.imports[l])])

\* li r0 alone for what a signed immediate holds, else lis and ori.
ThunkCode(import) ==
  LET encoded == (import.module * Half) + import.ordinal
  IN (IF encoded < Half \div 2
      THEN <<[op |-> "li", imm |-> encoded]>>
      ELSE <<[op |-> "lis", imm |-> encoded \div Half], [op |-> "ori", imm |-> encoded % Half]>>)
     \o <<[op |-> "sc", imm |-> 0], [op |-> "blr", imm |-> 0]>>

ThunkArea == (((Base + Size) + (Page - 1)) \div Page) * Page
\* Where a thunk goes: its own address, or the next line after the image.
ThunkAt(imports, i) ==
  IF imports[i].at # 0 THEN imports[i].at
  ELSE ThunkArea + Len(SelectSeq(SubSeq(imports, 1, i - 1), LAMBDA m : m.at = 0))

\* install_import_thunks, one import at a time; after the last load_game
\* sets the state.
InstallThunk ==
  LET imports == Imports IN
  /\ state_ = "Thunks"
  /\ IF thunks = Len(imports)
     THEN state_' = "Loaded" /\ thunks' = 0 /\ UNCHANGED memory
     ELSE /\ memory' = [memory EXCEPT ![ThunkAt(imports, thunks + 1)] =
                          <<"thunk", ThunkCode(imports[thunks + 1])>>]
          /\ thunks' = thunks + 1 /\ UNCHANGED state_
  /\ UNCHANGED <<file, image_data, block, src_offset, dst_offset, iv, modules_>>

\* Emulator::unload_game, with the reset of memory.
Unload ==
  /\ state_ = "Loaded"
  /\ state_' = "Ready" /\ file' = NoFile
  /\ memory' = NoMemory /\ modules_' = <<>>
  /\ UNCHANGED <<image_data, block, src_offset, dst_offset, iv, thunks>>

Next == (\E f \in File : LoadGame(f)) \/ UnpackBlock \/ MapImage \/ InstallThunk \/ Unload

(* ---- Properties -------------------------------------------------------- *)
\* The key the loader can find, for an image it can unpack.
Supported(f) ==
  /\ f.compression # 3
  /\ f.compression = 2 => f.missing = 0
  /\ f.compression = 1 /\ f.encryption = 1 => f.blocks # <<>>
  /\ f.encryption = 1 => f.key = BlockKey(f) \/ (f.compression = 0 /\ f.magic = "XEX2")

\* What the file's author put where: the blocks' lines and zeros in order.
Layout(f) ==
  LET b == f.blocks
      lines(n, k) == [i \in 1..k |-> Data(n + i)]
      zeros(k) == [i \in 1..k |-> Zero]
  IN IF b = <<>> THEN lines(0, Size)
     ELSE lines(0, b[1].data) \o zeros(b[1].zeros)
          \o lines(b[1].data, b[2].data) \o zeros(b[2].zeros) \o zeros(Size)

(* A loaded game's image in memory is what its file describes, line for     *)
(* line, whatever its blocks, wherever a key is found; where the file is    *)
(* cut short a line may be zero, never anything else. Only the lines the    *)
(* imports claim as their thunks differ.                                    *)
ImageInPlace ==
  (state_ = "Loaded" /\ Supported(file)) =>
    LET imports == Imports
        Claimed == {ThunkAt(imports, i) : i \in DOMAIN imports}
        Line(i) == memory[(Base + i) - 1]
    IN \A i \in 1..Size :
         \/ (Base + i) - 1 \in Claimed
         \/ Line(i) = Layout(file)[i]
         \/ file.missing = 1 /\ Line(i) = Zero

\* The guest runs a thunk: what r0 holds at its sc is what dispatch_syscall
\* splits into module and ordinal.
Called(code) ==
  LET Run(s, insn) ==
        CASE insn.op = "li" ->
               [s EXCEPT !.r0 = IF insn.imm < Half \div 2 THEN insn.imm
                                ELSE ((Half * Half) - Half) + insn.imm]
          [] insn.op = "lis" -> [s EXCEPT !.r0 = insn.imm * Half]
          [] insn.op = "ori" -> [s EXCEPT !.r0 = @ + insn.imm]
          [] insn.op = "sc" -> [s EXCEPT !.call = <<s.r0 \div Half, s.r0 % Half>>]
          [] OTHER -> s
  IN FoldLeft(Run, [r0 |-> 0, call |-> <<>>], code).call

(* Every import of a loaded game, run where the table puts its thunk, makes *)
(* the kernel call the table names; one without an address has a thunk of   *)
(* its own after the image.                                                 *)
ThunksCallTheirImports ==
  LET Makes(a, r, w) ==
        /\ memory[a][1] = "thunk"
        /\ Called(memory[a][2]) = <<ModuleId(Strings[r.name + 1]), w.value>>
      Placed(r, i) == i < Len(r.words) /\ r.words[i + 1].address
  IN state_ = "Loaded" =>
       \A l \in DOMAIN file.imports : LET r == file.imports[l] IN
         \A i \in {j \in DOMAIN r.words : ~r.words[j].address} :
           IF Placed(r, i) THEN Makes(r.words[i + 1].value, r, r.words[i])
           ELSE \E a \in DOMAIN memory : a >= Base + Size /\ Makes(a, r, r.words[i])

\* A loaded game has its image, whole and in place, and its thunks.
LoadedWhole == ImageInPlace /\ ThunksCallTheirImports
=============================================================================
