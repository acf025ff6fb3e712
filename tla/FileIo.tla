------------------------------- MODULE FileIo -------------------------------
(* The virtual file system (kernel/filesystem) and the file calls of guest  *)
(* threads over it (kernel/hle/xboxkrnl_io.cpp), while the emulator changes *)
(* the mounts. A call looks its handle up under handle_mutex and lets go of *)
(* it before each call of the file system, which takes that one's mutex.    *)
(*                                                                          *)
(* The file system and its three devices, a host folder, a disc image and   *)
(* an STFS package, are operations on one record "f".  A mount is known by  *)
(* how many there were up to it: the vector, only ever appended to, is in   *)
(* that order. A device numbers the files it opens from 1, and so does the  *)
(* file system; neither uses a number again, and a closed one keeps its     *)
(* place.  The content of a file is its place on its medium; only its       *)
(* length is kept. "born" and "foreign" are history: which mount a file was *)
(* opened on, and whether a handle opened on another has used this one's.   *)
EXTENDS Integers, Sequences, FiniteSetsExt

CONSTANTS Point,        \* the mount points in use, and what parse_device makes
          DeviceOf,     \* of each: the name of a device
          File, NoFile, \* the files of a medium, and the length of one not there
          Medium,       \* what can be mounted: records of a kind and an id
          Default,      \* the points and media that initialize mounts
          Disk,         \* the files of the media at the start, by id
          MaxSize,      \* bounds the length of a file
          Thread, MaxOpen, MaxMount

Media == [kind : {"host", "iso", "stfs", "bad"}, id : DOMAIN Disk]

ASSUME FileAssumption ==
  /\ Medium \subseteq Media
  /\ Default \in Seq([point : Point, medium : {m \in Media : m.kind # "bad"}])
  /\ Disk \in [DOMAIN Disk -> [File -> Int]]
  /\ MaxSize \in Nat /\ MaxOpen \in Nat /\ MaxMount \in Nat

VARIABLES vfs,      \* the virtual file system; it is gone after a crash
          handles,  \* kernel_to_vfs_handles: 0 for one that was closed
          call,     \* what each thread is inside of
          crashed

-----------------------------------------------------------------------------
(* The file system                                                          *)

ReadOnly(medium) == medium.kind \in {"iso", "stfs"}
Access == {"read", "write", "both"}
Disposition == {"Open", "Create", "OpenIf", "Overwrite", "OverwriteIf"}

\* The first mount of that name; 0 when there is none.
find_device(f, name) ==
  LET hits == {k \in DOMAIN f.mounts : DeviceOf[f.mounts[k].point] = name}
  IN IF hits = {} THEN 0 ELSE Min(hits)

\* mount_iso, mount_stfs, mount_folder: what was mounted there goes, with its
\* open files, before the new medium is tried.
NewMount(p, medium) == [point |-> p, medium |-> medium, open |-> <<>>]
Mounted(f, p, medium) ==
  LET kept == {k \in DOMAIN f.mounts : f.mounts[k].point # p}
      new == IF medium.kind = "bad" THEN {} ELSE {f.next}
  IN [f EXCEPT !.mounts = [k \in kept \cup new |-> IF k \in new THEN NewMount(p, medium) ELSE f.mounts[k]],
               !.next = @ + 1]
Kept(f, S) == [f EXCEPT !.mounts = [k \in S |-> f.mounts[k]]]

\* VirtualFileSystem::initialize.
Initialized ==
  [mounts |-> [k \in DOMAIN Default |-> NewMount(Default[k].point, Default[k].medium)],
   files |-> <<>>, next |-> Len(Default) + 1, disk |-> Disk]

FileSize(f, e, medium) == f.disk[medium.id][e.file]

\* HostDevice::open, IsoDevice::open, StfsDevice::open. A mode without write
\* access truncates nothing and creates nothing.
OpensHost(there, access, disposition) ==
  /\ disposition \in {"Open", "Overwrite"} => there
  /\ disposition = "Create" => ~there
  /\ access = "read" => there
OpensImage(there, access, disposition) ==
  /\ access = "read"
  /\ disposition \in {"Open", "OpenIf"}
  /\ there
Truncates(there, access, disposition) ==
  access # "read" /\ (~there \/ disposition \in {"Overwrite", "OverwriteIf"})
CanRead(there, access, disposition) ==      \* "wb" cannot be read
  ~(access = "write" /\ Truncates(there, access, disposition))

\* open_file: the new handle is the last of f.files; <<>> when it fails.
OpenFile(f, name, file, access, disposition) ==
  LET d == find_device(f, name)
      m == f.mounts[d].medium
      there == f.disk[m.id][file] # NoFile
      opens == IF m.kind = "host" THEN OpensHost(there, access, disposition)
               ELSE OpensImage(there, access, disposition)
      e == [file |-> file, pos |-> 0, closed |-> FALSE, foreign |-> FALSE,
            reads |-> CanRead(there, access, disposition), writes |-> access # "read"]
      h == [name |-> name, handle |-> Len(f.mounts[d].open) + 1, pos |-> 0, closed |-> FALSE,
            born |-> d, medium |-> m, file |-> file]
      disk == [f.disk EXCEPT ![m.id][file] = IF Truncates(there, access, disposition) THEN 0 ELSE @]
  IN IF d = 0 \/ (d # 0 /\ ~opens) THEN <<>>
     ELSE <<[f EXCEPT !.mounts[d].open = Append(@, e), !.files = Append(@, h), !.disk = disk]>>

Closed == [closed |-> TRUE]

\* The device that a handle's path leads to now, and its file of the number
\* the handle holds, which another mount's handle may have opened.
On(f, v) == find_device(f, f.files[v].name)
Stale(f, v) == On(f, v) # f.files[v].born
Reaches(f, v) ==
  /\ ~f.files[v].closed
  /\ On(f, v) # 0
  /\ f.files[v].handle \in DOMAIN f.mounts[On(f, v)].open
  /\ ~f.mounts[On(f, v)].open[f.files[v].handle].closed
Reached(f, v) == f.mounts[On(f, v)].open[f.files[v].handle]

\* seek_file, read_file, write_file on a file that is reached: the handle
\* takes over the position of the device's file.
At(f, v, pos) ==
  LET e == [Reached(f, v) EXCEPT !.pos = pos, !.foreign = @ \/ Stale(f, v)] IN
  [f EXCEPT !.mounts[On(f, v)].open[f.files[v].handle] = e, !.files[v].pos = pos]
\* For the check of ReadsItsFile: an offset taken from where the file is.
MutSeekFile(f, v, pos) == IF Reaches(f, v) THEN At(f, v, Reached(f, v).pos + pos) ELSE f
SeekFile(f, v, pos) == IF Reaches(f, v) THEN At(f, v, pos) ELSE f
ReadFile(f, v, n) ==
  LET e == Reached(f, v)
      left == FileSize(f, e, f.mounts[On(f, v)].medium) - e.pos
      taken == IF ~e.reads \/ left <= 0 THEN 0 ELSE Min({n, left})
  IN At(f, v, e.pos + taken)
Writable(f, v) == Reaches(f, v) /\ ~ReadOnly(f.mounts[On(f, v)].medium)
WriteFile(f, v, n) ==
  LET e == Reached(f, v)
      given == IF e.writes THEN n ELSE 0
      id == f.mounts[On(f, v)].medium.id
      disk == [f.disk EXCEPT ![id][e.file] = IF given = 0 THEN @ ELSE Max({@, e.pos + given})]
  IN [At(f, v, e.pos + given) EXCEPT !.disk = disk]

\* close_file closes the number on the device the path leads to now. Here for
\* the files of V, of which some may be closed already.
CloseFiles(f, V) ==
  LET hit(k, n) == \E v \in V : ~f.files[v].closed /\ On(f, v) = k /\ f.files[v].handle = n
      left(k) == [n \in DOMAIN f.mounts[k].open |-> IF hit(k, n) THEN Closed ELSE f.mounts[k].open[n]]
  IN [f EXCEPT !.mounts = [k \in DOMAIN @ |-> [@[k] EXCEPT !.open = left(k)]],
               !.files = [v \in DOMAIN @ |-> IF v \in V THEN Closed ELSE @[v]]]
-----------------------------------------------------------------------------
(* The calls                                                                *)

fvars == <<vfs, handles, call, crashed>>

Idle == [op |-> "idle"]
NoOffset == MaxSize + 1

FilesTypeOK ==
  /\ \A v \in DOMAIN vfs.files : vfs.files[v] # Closed => vfs.files[v].handle \in 1..MaxOpen
  /\ \A k \in DOMAIN handles : handles[k] \in 0..Len(vfs.files)
  /\ crashed \in BOOLEAN

FileInit ==
  /\ vfs = Initialized
  /\ handles = <<>>
  /\ call = [t \in Thread |-> Idle]
  /\ crashed = FALSE

\* Another thread's call on the handle sees it move.
Shared(t, v) ==
  [u \in Thread |-> IF u # t /\ call[u].op \in {"read", "write", "set"} /\ call[u].v = v
                    THEN [call[u] EXCEPT !.mixed = TRUE] ELSE call[u]]
Goto(t, c) == call' = [call EXCEPT ![t] = c]

(* The emulator.                                                           *)
Mount(p, medium) ==
  /\ vfs.next <= MaxMount
  /\ vfs' = Mounted(vfs, p, medium)
  /\ UNCHANGED <<handles, call, crashed>>
\* remove_if leaves a moved-from device at the end, unless the mount removed
\* was the last: its unmount is called through a null pointer.
Unmount(p) ==
  /\ \E k \in DOMAIN vfs.mounts : vfs.mounts[k].point = p
  /\ LET last == Max(DOMAIN vfs.mounts) IN
     IF vfs.mounts[last].point = p
     THEN /\ vfs' = Kept(vfs, DOMAIN vfs.mounts \ {last})
          /\ UNCHANGED <<handles, call, crashed>>
     ELSE /\ crashed' = TRUE
          /\ UNCHANGED <<vfs, handles, call>>
unmount_all ==
  /\ DOMAIN vfs.mounts # {}
  /\ vfs' = Kept(vfs, {})
  /\ UNCHANGED <<handles, call, crashed>>
\* shutdown_file_io_state, and init_file_io_state for the next game: the guest
\* threads have been stopped.
RestartIo ==
  /\ handles # <<>>
  /\ \A t \in Thread : call[t] = Idle
  /\ vfs' = CloseFiles(vfs, {handles[k] : k \in DOMAIN handles} \ {0})
  /\ handles' = <<>>
  /\ UNCHANGED <<call, crashed>>

(* HLE_NtCreateFile_IO.                                                    *)
NtCreateFile(t, name, file, access, disposition) ==
  LET opened == OpenFile(vfs, name, file, access, disposition) IN
  /\ call[t] = Idle
  /\ Len(vfs.files) < MaxOpen
  /\ opened # <<>>
  /\ vfs' = opened[1]
  /\ Goto(t, [op |-> "bind", v |-> Len(vfs.files) + 1])
  /\ UNCHANGED <<handles, crashed>>
Bind(t) ==
  /\ call[t].op = "bind"
  /\ handles' = Append(handles, call[t].v)
  /\ Goto(t, Idle)
  /\ UNCHANGED <<vfs, crashed>>

(* HLE_NtReadFile_IO, HLE_NtWriteFile_IO, HLE_NtSetInformationFile_IO of a *)
(* position: a seek if the caller gives an offset, then the transfer.      *)
Begin(t, op, k, at) ==
  /\ call[t] = Idle /\ handles[k] # 0
  /\ op = "set" => at # NoOffset
  /\ Goto(t, [op |-> op, v |-> handles[k], mixed |-> FALSE, sought |-> at = NoOffset,
              at |-> IF at = NoOffset THEN vfs.files[handles[k]].pos ELSE at])
  /\ UNCHANGED <<vfs, handles, crashed>>
Seek(t) ==
  LET c == call[t] IN
  /\ c.op \in {"read", "write", "set"} /\ ~c.sought
  /\ vfs' = SeekFile(vfs, c.v, c.at)
  /\ call' = [Shared(t, c.v) EXCEPT ![t] = IF c.op = "set" THEN Idle ELSE [c EXCEPT !.sought = TRUE]]
  /\ UNCHANGED <<handles, crashed>>
Transfer(t, n) ==
  LET c == call[t] IN
  /\ c.op \in {"read", "write"} /\ c.sought
  /\ IF Reaches(vfs, c.v) /\ (c.op = "write" => Writable(vfs, c.v))
     THEN /\ c.op = "write" => Reached(vfs, c.v).pos + n <= MaxSize
          /\ vfs' = IF c.op = "read" THEN ReadFile(vfs, c.v, n) ELSE WriteFile(vfs, c.v, n)
     ELSE UNCHANGED vfs             \* the call fails
  /\ call' = [Shared(t, c.v) EXCEPT ![t] = Idle]
  /\ UNCHANGED <<handles, crashed>>

(* HLE_NtClose_IO: out of the table, then closed.                           *)
NtClose(t, k) ==
  /\ call[t] = Idle /\ handles[k] # 0
  /\ handles' = [handles EXCEPT ![k] = 0]
  /\ Goto(t, [op |-> "close", v |-> handles[k]])
  /\ UNCHANGED <<vfs, crashed>>
Close(t) ==
  /\ call[t].op = "close"
  /\ vfs' = CloseFiles(vfs, {call[t].v})
  /\ Goto(t, Idle)
  /\ UNCHANGED <<handles, crashed>>

FileNext ==
  /\ ~crashed
  /\ \/ \E p \in Point, m \in Medium : Mount(p, m)
     \/ \E p \in Point : Unmount(p)
     \/ unmount_all \/ RestartIo
     \/ \E t \in Thread :
          \/ \E p \in Point, x \in File, a \in Access, d \in Disposition : NtCreateFile(t, DeviceOf[p], x, a, d)
          \/ Bind(t) \/ Seek(t) \/ Close(t)
          \/ \E op \in {"read", "write", "set"}, k \in DOMAIN handles, at \in {0, NoOffset} : Begin(t, op, k, at)
          \/ Transfer(t, 1)
          \/ \E k \in DOMAIN handles : NtClose(t, k)

FileSpec == FileInit /\ [][FileNext]_fvars

\* A transfer takes place in the file the handle was opened on, and at the
\* offset the caller gave, or where the handle's last one ended: except for a
\* handle whose device was mounted anew since, for a file such a handle has
\* used, and for two calls on one handle that overlap (xboxkrnl_io.cpp:511).
ReadsItsFile ==
  \A t \in Thread :
    LET c == call[t]
        h == vfs.files[c.v]
        e == Reached(vfs, c.v)
    IN c.op \in {"read", "write"} /\ c.sought /\ Reaches(vfs, c.v) =>
         \/ Stale(vfs, c.v)
         \/ /\ vfs.mounts[On(vfs, c.v)].medium = h.medium /\ e.file = h.file
            /\ e.pos = c.at \/ c.mixed \/ e.foreign
=============================================================================
