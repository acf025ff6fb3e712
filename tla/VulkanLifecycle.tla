--------------------------- MODULE VulkanLifecycle ---------------------------
(* The device's objects from a surface's arrival to its loss: what           *)
(* VulkanBackend (vulkan_backend.cpp) and the managers of Gpu::set_surface   *)
(* (gpu.cpp) create, in which order, what a failure leaves, what recreating  *)
(* the swapchain and shutting down destroy.  A handle keeps its value until  *)
(* the code assigns it: one that outlives its object is stale, and passing   *)
(* it to the device is undefined.  The objects a loop creates count as one.  *)
(* A handler of the application's thread, and a packet's handler, is a step. *)
EXTENDS Naturals, FiniteSets
LOCAL INSTANCE SequencesExt

CONSTANTS MaxSessions       \* bound: surfaces

VARIABLES
  handle,          \* the objects members name, a plain handle or a vector: <<member, object>>
  live,            \* the objects that exist: <<kind, object>>
  holders,         \* the managers whose vulkan_ is set
  flags,           \* those of Flag that are set
  history          \* undefined: an object that is gone, or none, was given to the device;
                   \* failed: a call; sessions, shutdowns: those that ran

objects == <<handle, live, history>>
vars == <<objects, holders, flags>>
Flag == {"surface_active_", "needs_recreation", "query_pool_initialized", "closed"}

OfInstance == {"instance", "messenger", "surface", "device"}
OfDevice ==
  {"swapchain", "views", "depth", "render_pass", "mrt", "framebuffers", "command_pool", "sync",
   "layouts", "pipeline_layout", "descriptor_pool", "edram_buffer", "edram_memory", "vk_cache",
   "pipelines", "memexport", "query_pool", "query_buffer", "default_shaders", "pool_buffers",
   "dm_layout", "dm_ssbo", "dm_pipeline_layout", "dm_pool", "dm_defaults", "dm_frames", "rt_staging"}
Kind == OfInstance \cup OfDevice
\* ShaderCache's pipelines are the backend's
Member == Kind \cup {"cached"}
KindOf(m) == IF m = "cached" THEN "pipelines" ELSE m

Null == <<0, 0>>             \* a vector's entry that was never created
NoFault == "none"
Fault == Kind \cup {NoFault}

Init ==
  /\ handle = {} /\ live = {} /\ holders = {} /\ flags = {}
  /\ history = [undefined |-> FALSE, failed |-> FALSE, sessions |-> 0, shutdowns |-> 0]

-----------------------------------------------------------------------------
(* One call: a record of what it has done so far                             *)

Of(pairs, m) == {p[2] : p \in {q \in pairs : q[1] = m}}
Pairs(f) == UNION {{m} \X f[m] : m \in DOMAIN f}
Named(m) == Of(handle, m)
Live(k) == Of(live, k)

Call(fault) ==
  [handle |-> [m \in Member |-> Named(m)], live |-> [k \in Kind |-> Live(k)], ok |-> TRUE, fault |-> fault,
   undefined |-> history.undefined, failed |-> history.failed, session |-> history.sessions]

Stopped(b) == b.undefined \/ ~b.ok
\* an object is alive, and of the device the handle names
Usable(b, m) ==
  /\ b.handle[m] # {} /\ b.handle[m] \subseteq b.live[KindOf(m)]
  /\ KindOf(m) \in OfDevice =>
       \A o \in b.handle[m] : \E d \in b.handle["device"] : o[1] = d[1]
Touch(b, ms) ==
  IF Stopped(b) THEN b ELSE [b EXCEPT !.undefined = \E m \in ms : ~Usable(b, m)]
New(b, m) ==
  <<b.session, CHOOSE n \in 1 .. 9 : <<b.session, n>> \notin b.live[m] \cup b.handle[m]>>

\* a vkCreate of m from the objects ms; failing leaves the member its value
Make(b, m, ms) ==
  LET t == Touch(b, ms) IN
  IF Stopped(t) THEN t
  ELSE IF m = t.fault THEN [t EXCEPT !.ok = FALSE, !.failed = TRUE]
  ELSE [t EXCEPT !.handle[m] = {New(t, m)}, !.live[m] = @ \cup {New(t, m)}]
\* a member assigned from a function that returns a null object on failure
Assign(b, m, ms) ==
  LET t == Make(b, m, ms) IN IF t.ok THEN t ELSE [t EXCEPT !.handle[m] = {}]
\* a vector that is resized before its entries are created
Fill(b, m, ms) ==
  LET t == Make(b, m, ms) IN IF t.ok \/ ~b.ok THEN t ELSE [t EXCEPT !.handle[m] = {Null}]

\* a vkDestroy of all m names; a null handle is nothing
Destroy(b, m) ==
  LET gone == b.handle[m] \ {Null}
      t == IF gone = {} THEN b
           ELSE Touch([b EXCEPT !.handle[m] = gone], {m} \cup (IF m \in OfInstance THEN {} ELSE {"device"}))
  IN IF Stopped(t) THEN t ELSE [t EXCEPT !.live[KindOf(m)] = @ \ gone]
Drop(b, m) ==                \* the handle is assigned VK_NULL_HANDLE, the vector cleared
  LET t == Destroy(b, m) IN IF Stopped(t) THEN t ELSE [t EXCEPT !.handle[m] = {}]
DestroyAll(b, ms) == FoldLeft(Destroy, b, ms)
DropAll(b, ms) == FoldLeft(Drop, b, ms)
Optional(b, t) == IF ~b.ok THEN b ELSE [t EXCEPT !.ok = TRUE]   \* its failure is only logged

\* shuts: how many shutdowns of the backend it made
Ended(b, shuts) ==
  /\ handle' = Pairs(b.handle) /\ live' = Pairs(b.live)
  /\ history' = [undefined |-> b.undefined, failed |-> b.failed, sessions |-> b.session,
                 shutdowns |-> history.shutdowns + (IF Named("device") = {} THEN 0 ELSE shuts)]
Done(b) == Ended(b, 0)
Running == ~history.undefined /\ "closed" \notin flags
CanFail(fault) == fault # NoFault => ~history.failed

-----------------------------------------------------------------------------
(* VulkanBackend                                                             *)

CreateInstance(b) == Make(b, "instance", {})
SetupDebugUtils(b) == Optional(b, Make(b, "messenger", {"instance"}))
CreateSurface(b) == Make(b, "surface", {"instance"})
CreateDevice(b) == Make(b, "device", {"instance", "surface"})
CreateSwapchain(b) == Fill(Make(b, "swapchain", {"device", "surface"}), "views", {"swapchain"})
CreateDepthResources(b) == Assign(b, "depth", {"device"})
CreateRenderPass(b) == Make(b, "render_pass", {"device"})
CreateMrtRenderPasses(b) == Make(b, "mrt", {"device"})
CreateFramebuffers(b) ==     \* one for each view
  IF Stopped(b) THEN b
  ELSE IF b.handle["views"] = {} THEN [b EXCEPT !.handle["framebuffers"] = {}]
  ELSE Fill(b, "framebuffers", {"device", "render_pass", "views", "depth"})
CreateCommandResources(b) == Make(b, "command_pool", {"device"})
CreateSyncObjects(b) == Fill(b, "sync", {"device"})
CreateDescriptorResources(b) ==   \* the layouts are appended to those there are
  LET t == Make(b, "layouts", {"device"})
      u == IF Stopped(t) THEN t
           ELSE [t EXCEPT !.handle["layouts"] = @ \cup b.handle["layouts"]]
  IN Make(Make(u, "pipeline_layout", {"device", "layouts"}), "descriptor_pool", {"device"})
CreateEdramResources(b) == Make(Make(b, "edram_buffer", {"device"}), "edram_memory", {"device"})
CreatePipelineCache(b) ==
  LET t == Make(b, "vk_cache", {"device"}) IN
  Optional(b, IF t.ok \/ ~b.ok THEN t ELSE [t EXCEPT !.handle["vk_cache"] = {}])

Initialize(b) ==
  CreatePipelineCache(CreateEdramResources(CreateDescriptorResources(CreateSyncObjects(
  CreateCommandResources(CreateFramebuffers(CreateMrtRenderPasses(CreateRenderPass(
  CreateDepthResources(CreateSwapchain(CreateDevice(CreateSurface(SetupDebugUtils(
  CreateInstance(b))))))))))))))

DestroyQueryPool(b) == DropAll(b, <<"query_pool", "query_buffer">>)
DestroySync(b) ==            \* the vectors are indexed whatever their size
  IF b.handle["sync"] = {} THEN [b EXCEPT !.undefined = TRUE] ELSE Destroy(b, "sync")
Shutdown(b) ==
  IF b.handle["device"] = {} THEN b
  ELSE LET memory == DropAll(DestroyQueryPool(Touch(b, {"device"})), <<"memexport">>)
           pipes == Drop(DestroyAll(memory, <<"edram_buffer", "edram_memory", "descriptor_pool",
                                              "layouts", "pipeline_layout", "pipelines">>), "vk_cache")
           frames == Drop(DestroyAll(DestroySync(pipes), <<"command_pool", "framebuffers">>), "depth")
           device == DestroyAll(frames, <<"mrt", "render_pass", "views", "swapchain", "device", "surface">>)
       IN Destroy(Drop(device, "messenger"), "instance")

\* mutant: the depth image is replaced without being destroyed
MutCleanupSwapchain(b) == DropAll(b, <<"framebuffers", "views", "swapchain">>)
CleanupSwapchain(b) == DropAll(b, <<"framebuffers", "depth", "views", "swapchain">>)

\* resize stops at the first failure
Recreated(b) ==
  CreateFramebuffers(CreateDepthResources(CreateSwapchain(CleanupSwapchain(Touch(b, {"device"})))))
\* begin_frame goes on
RecreatedAnyway(b) ==
  LET chain == Optional(b, CreateSwapchain(CleanupSwapchain(Touch(b, {"device"}))))
      depth == Optional(b, CreateDepthResources(chain))
  IN Optional(b, CreateFramebuffers(depth))

Record(b) == Touch(b, {"device", "sync", "swapchain", "command_pool", "render_pass", "framebuffers"})
ClearScreen(b) == Touch(b, {"device", "sync", "swapchain", "command_pool"})

LoadPipelineCache(b) ==      \* a failure falls back on an empty cache, or on none
  Optional(b, Assign(Destroy(b, "vk_cache"), "vk_cache", {"device"}))

-----------------------------------------------------------------------------
(* The managers, in the order of Gpu::set_surface and of its undoing         *)

DescriptorsUp(b) ==
  LET layouts == Make(Make(b, "dm_layout", {"device"}), "dm_ssbo", {"device"})
      pool == Make(Make(layouts, "dm_pipeline_layout", {"device", "dm_layout", "dm_ssbo"}), "dm_pool", {"device"})
  IN Make(Make(pool, "dm_defaults", {"device"}), "dm_frames", {"device", "dm_pool", "dm_layout"})
\* ssbo_layout_ is not among them
DescriptorsDown(b) ==
  DropAll(Touch(b, {"device"}), <<"dm_frames", "dm_defaults", "dm_pipeline_layout", "dm_layout", "dm_pool">>)
TargetsUp(b) == Assign(b, "rt_staging", {"device"})
TargetsDown(b) == Drop(Touch(b, {"device"}), "rt_staging")
ProcessorDown(b) == Drop(b, "default_shaders")
PoolDown(b) == Drop(b, "pool_buffers")
ShadersDown(b) == Drop(b, "cached")

ManagersDown(b) ==           \* each returns at once when it has no backend
  LET Down(t, m) == IF m \notin holders THEN t
                    ELSE CASE m = "processor" -> ProcessorDown(t) [] m = "targets" -> TargetsDown(t)
                           [] m = "pool" -> PoolDown(t) [] m = "descriptors" -> DescriptorsDown(t)
                           [] m = "shaders" -> ShadersDown(t)
  IN FoldLeft(Down, b, <<"processor", "targets", "pool", "descriptors", "shaders">>)

Rest == UNCHANGED <<holders, flags>>

\* set_surface(window): a manager that fails leaves the ones before it, and
\* its own vulkan_, set; file: a pipeline cache is on the disk
SetSurface(fault, file) ==
  LET start == [Call(fault) EXCEPT !.session = @ + 1]
      up == Initialize(start)
      shaders == IF file THEN LoadPipelineCache(up) ELSE up
      descriptors == DescriptorsUp(shaders)
      targets == TargetsUp(descriptors)
      shown == ClearScreen(targets)
  IN /\ Running /\ history.sessions < MaxSessions /\ CanFail(fault)
     /\ Done(shown)
     /\ holders' = holders \cup (IF up.ok THEN {"shaders", "descriptors"} ELSE {})
                            \cup (IF descriptors.ok THEN {"pool", "targets"} ELSE {})
                            \cup (IF targets.ok THEN {"processor"} ELSE {})
     /\ flags' = flags \cup (IF targets.ok THEN {"surface_active_"} ELSE {})

\* set_surface(null)
ClearSurface ==
  LET down == Shutdown(ManagersDown(Call(NoFault))) IN
  /\ Running /\ Ended(down, 1)
  /\ holders' = {} /\ flags' = flags \ {"surface_active_"}

\* Gpu::shutdown: the backend's destructor shuts it down once more
Close ==
  LET down == Shutdown(ManagersDown(Call(NoFault))) IN
  /\ Running /\ Ended(Shutdown(down), 2)
  /\ holders' = {} /\ flags' = (flags \ {"surface_active_"}) \cup {"closed"}

-----------------------------------------------------------------------------
(* Between the two                                                           *)

Resize(fault) ==             \* surfaceChanged, or present() after an error
  /\ Running /\ "surface_active_" \in flags /\ CanFail(fault) /\ Named("device") # {}
  /\ Done(Recreated(Call(fault))) /\ Rest

SetPresentMode ==
  /\ Running /\ flags' = flags \cup {"needs_recreation"} /\ flags' # flags
  /\ UNCHANGED <<objects, holders>>

\* begin_frame, of a draw or of present(); with no swapchain it is an error
BeginFrame(fault) ==
  LET again == "needs_recreation" \in flags
      chain == IF again THEN RecreatedAnyway(Call(fault)) ELSE Call(NoFault) IN
  /\ Running /\ ("surface_active_" \in flags \/ "processor" \in holders) /\ Named("swapchain") # {}
  /\ CanFail(fault) /\ (fault # NoFault => again)
  /\ Done(Record(chain)) /\ flags' = flags \ {"needs_recreation"}
  /\ UNCHANGED holders

\* create_default_shaders, on the first draw that has none of its own
UseDefaultShaders(b) ==
  IF b.handle["default_shaders"] # {} THEN b ELSE Optional(b, Make(b, "default_shaders", {"device"}))
\* BufferPool: a buffer is kept until the pool is shut down or it is old
Allocate(b) ==
  IF b.handle["pool_buffers"] # {} THEN Touch(b, {"pool_buffers"})
  ELSE Optional(b, Assign(b, "pool_buffers", {"device"}))
\* get_pipeline asks its own map, then the backend's, which nothing clears
GetOrCreatePipeline(b) ==
  IF b.handle["pipelines"] # {} THEN Touch(b, {"pipelines"})
  ELSE Optional(b, Make(b, "pipelines", {"device", "dm_pipeline_layout", "render_pass"}))
PreparePipeline(b) ==
  IF b.handle["cached"] # {} THEN Touch(b, {"cached"})
  ELSE LET t == GetOrCreatePipeline(b) IN [t EXCEPT !.handle["cached"] = t.handle["pipelines"]]

Draw(fault) ==
  /\ Running /\ "processor" \in holders /\ CanFail(fault)
  /\ Done(PreparePipeline(Allocate(UseDefaultShaders(Call(fault))))) /\ Rest

MemExport(fault) ==          \* the buffer is kept even when no set can be allocated
  /\ Running /\ "processor" \in holders /\ CanFail(fault) /\ Named("memexport") = {}
  /\ Done(Touch(Assign(Call(fault), "memexport", {"device"}), {"layouts", "descriptor_pool"})) /\ Rest

\* the flag is never taken back: after a surface is lost there is no pool
VizQuery(fault) ==
  LET pool == Make(DestroyQueryPool(Call(fault)), "query_pool", {"device"})
      buffer == Optional(pool, Assign(pool, "query_buffer", {"device"}))
  IN /\ Running /\ "processor" \in holders /\ CanFail(fault) /\ "query_pool_initialized" \notin flags
     /\ Done(buffer) /\ flags' = flags \cup (IF buffer.ok THEN {"query_pool_initialized"} ELSE {})
     /\ UNCHANGED holders

SetTitleId ==                \* another game: the shader cache starts again
  /\ Running /\ "shaders" \in holders
  /\ Done(Drop(Call(NoFault), "cached")) /\ Rest

Halted == ~Running /\ UNCHANGED vars

Next ==
  \/ \E fault \in Fault :
       \/ \E file \in BOOLEAN : SetSurface(fault, file)
       \/ Resize(fault) \/ BeginFrame(fault) \/ Draw(fault) \/ MemExport(fault) \/ VizQuery(fault)
  \/ ClearSurface \/ Close \/ SetPresentMode \/ SetTitleId \/ Halted

Spec == Init /\ [][Next]_vars

-----------------------------------------------------------------------------
TypeOK ==
  /\ handle \subseteq Member \X ({Null} \cup ((1 .. MaxSessions) \X (1 .. 9)))
  /\ live \subseteq Kind \X ((1 .. MaxSessions) \X (1 .. 9))
  /\ holders \subseteq {"shaders", "descriptors", "pool", "targets", "processor"}
  /\ flags \subseteq Flag
  /\ history \in [undefined : BOOLEAN, failed : BOOLEAN, sessions : 0 .. MaxSessions, shutdowns : Nat]

\* one surface, no creation failed, and the shader cache has not destroyed a
\* pipeline that the backend keeps
Plain ==
  history.sessions <= 1 /\ history.shutdowns <= 1 /\ ~history.failed /\ Named("pipelines") \subseteq Live("pipelines")

(* In a plain session the device is never given an object that is gone, or  *)
(* none: everything is created from what exists and destroyed once, however *)
(* recreations of the swapchain, queries, exports and draws interleave.     *)
PlainIsDefined == Plain => ~history.undefined

(* Losing the surface of a plain session leaves one object of all it made:  *)
(* the descriptor manager's layout of the exports' set.                     *)
NothingLeft ==
  Plain /\ history.shutdowns = 1 => \A k \in Kind \ {"dm_ssbo"} : Live(k) = {}

(* What is recreated replaces: there is one of each of the swapchain's      *)
(* objects, and none without a swapchain.                                   *)
OneSwapchain ==
  history.sessions <= 1 => \A k \in {"swapchain", "views", "depth", "framebuffers"} : Cardinality(Live(k)) <= 1
=============================================================================
