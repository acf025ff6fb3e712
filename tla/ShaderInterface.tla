-------------------------- MODULE ShaderInterface --------------------------
(***************************************************************************)
(* What the SPIR-V of a shader shares with the rest of a draw               *)
(* (gpu/xenos/shader_translator.cpp): the variables it declares, where they *)
(* are, which of them its instructions reach; and what it meets there: the  *)
(* pipeline's layout (vulkan_backend.cpp), the vertex input state and the   *)
(* vertex buffers (command_processor.cpp). A step decodes an instruction    *)
(* more or sets a fetch constant. The function's code is ShaderTranslator's. *)
(*                                                                         *)
(* Shaders are as the console's compiler makes them: a vertex shader exports *)
(* no colour and a pixel shader no interpolant, and the fetches of a slot   *)
(* agree on its texture's dimension. Left out: registers, formats, levels   *)
(* of detail, predication, kills, and a buffer pool that is exhausted.      *)
(***************************************************************************)
EXTENDS Naturals, SequencesExt, FiniteSetsExt

CONSTANTS
  ConstIndex,       \* of fetches
  Dimension,        \* of the texture in a slot: "1D", "2D", "3D", "Cube"
  ExportIndex,      \* of exports
  MaxInstructions   \* bounds a shader

VARIABLES
  shader_type,
  fetch_instructions_, alu_instructions_,    \* ShaderMicrocode's, as decoded so far
  vertex_fetch      \* the fetch constants: no address, no data or too much, or data

ivars == <<shader_type, fetch_instructions_, alu_instructions_, vertex_fetch>>

Slots == 0 .. 15
slot(fetch) == fetch.const_index % 16
Fetches == [fetch_type : {"vertex", "texture"}, const_index : ConstIndex]
Exports(type) ==
  LET index == IF type = "vertex" THEN {"Interpolator", "MemExport"} ELSE {"Color", "MemExport"}
  IN [export_type : index, export_index : ExportIndex]
       \cup [export_type : IF type = "vertex" THEN {"Position", "PointSize"} ELSE {"Depth"},
             export_index : {0}]
Fetched == {slot(f) : f \in Fetches}

InterfaceOK ==
  /\ shader_type \in {"vertex", "pixel"}
  /\ fetch_instructions_ \in Seq(Fetches) /\ alu_instructions_ \in Seq(Exports(shader_type))
  /\ vertex_fetch \in [Fetched -> {"none", "no data", "data"}]

\* ShaderMicrocode::parse
InterfaceInit ==
  /\ shader_type \in {"vertex", "pixel"}
  /\ fetch_instructions_ = <<>> /\ alu_instructions_ = <<>>
  /\ vertex_fetch = [s \in Fetched |-> "none"]

Room == Len(fetch_instructions_) + Len(alu_instructions_) < MaxInstructions
decode_fetch_clause(fetch) ==
  /\ Room /\ fetch_instructions_' = Append(fetch_instructions_, fetch)
  /\ UNCHANGED <<shader_type, alu_instructions_, vertex_fetch>>
decode_alu_clause(alu) ==
  /\ Room /\ alu_instructions_' = Append(alu_instructions_, alu)
  /\ UNCHANGED <<shader_type, fetch_instructions_, vertex_fetch>>
SetFetchConstant(s, value) ==
  /\ vertex_fetch' = [vertex_fetch EXCEPT ![s] = value]
  /\ UNCHANGED <<shader_type, fetch_instructions_, alu_instructions_>>

InterfaceNext ==
  \/ \E fetch \in Fetches : decode_fetch_clause(fetch)
  \/ \E alu \in Exports(shader_type) : decode_alu_clause(alu)
  \/ \E s \in Fetched, value \in {"none", "no data", "data"} : SetFetchConstant(s, value)
-----------------------------------------------------------------------------
(* ShaderTranslator::analyze.                                               *)
vertex_fetch_slots == {slot(f) : f \in {g \in Range(fetch_instructions_) : g.fetch_type = "vertex"}}
\* Each texture once, with the dimension of the fetch that is first of it.
textures ==
  FoldLeft(LAMBDA seen, f :
             IF f.fetch_type = "vertex" \/ \E t \in Range(seen) : t.binding = slot(f) THEN seen
             ELSE Append(seen, [binding |-> slot(f), dimension |-> Dimension[slot(f)]]),
           <<>>, fetch_instructions_)
texture_bindings == {t.binding : t \in Range(textures)}
Exporting(kind) == {alu \in Range(alu_instructions_) : alu.export_type = kind}
interpolants == {alu.export_index : alu \in Exporting("Interpolator")} \cap Slots
color_export_count == Max({0} \cup {alu.export_index + 1 : alu \in Exporting("Color")})
-----------------------------------------------------------------------------
(* The variables: where one is, is its location, or its set and binding.    *)
Variable(class, name, builtin, at) == [class |-> class, name |-> name, builtin |-> builtin, at |-> at]
BuiltIn(class, name) == Variable(class, <<name>>, TRUE, <<>>)
Located(class, name, location) == Variable(class, <<name, location>>, FALSE, <<location>>)
Binding(class, name, set, binding) == Variable(class, <<name, binding>>, FALSE, <<set, binding>>)
If(condition, variables) == IF condition THEN variables ELSE {}

setup_inputs ==
  {BuiltIn("Input", name) : name \in IF shader_type = "vertex" THEN {"gl_VertexIndex", "gl_InstanceIndex"}
                                     ELSE {"gl_FragCoord", "gl_FrontFacing"}}
setup_outputs ==
  IF shader_type = "vertex"
    THEN {BuiltIn("Output", "gl_Position")}
           \cup If(Exporting("PointSize") # {}, {BuiltIn("Output", "gl_PointSize")})
    ELSE {Located("Output", "fragColor", i) : i \in {0} \cup (1 .. (Min({color_export_count, 4}) - 1))}
           \cup If(Exporting("Depth") # {}, {BuiltIn("Output", "gl_FragDepth")})
setup_uniforms ==
  {IF shader_type = "vertex" THEN Binding("Uniform", "vs_constants", 0, 0)
                             ELSE Binding("Uniform", "ps_constants", 0, 1),
   Binding("Uniform", "bool_constants", 0, 2), Binding("Uniform", "loop_constants", 0, 3)}
\* mutant: textures are bound in the order of their fetches
Mut_setup_samplers ==
  {Binding("UniformConstant", "tex", 1, i - 1) : i \in DOMAIN textures}
\* The vertex inputs are declared here too: after the return for a shader
\* without textures.
setup_samplers ==
  If(textures # <<>>,
     If(shader_type = "vertex", {Located("Input", "vtx_attr", s) : s \in vertex_fetch_slots})
       \cup {Binding("UniformConstant", "tex", 1, b) : b \in texture_bindings})
setup_interpolants ==
  {Located(IF shader_type = "vertex" THEN "Output" ELSE "Input", "interp", i) : i \in interpolants}
\* At the first export to memory.
setup_memexport == If(Exporting("MemExport") # {}, {Binding("StorageBuffer", "memexport_buf", 2, 0)})

Declared == UNION {setup_inputs, setup_outputs, setup_uniforms, setup_samplers,
                   setup_interpolants, setup_memexport}
\* translate: what the entry point lists
interface_vars ==
  {v \in Declared :
     v.name[1] \in IF shader_type = "vertex"
       THEN {"gl_Position", "gl_VertexIndex", "gl_InstanceIndex", "gl_PointSize", "vtx_attr", "interp"}
       ELSE {"gl_FragCoord", "gl_FrontFacing", "gl_FragDepth", "fragColor", "interp"}}
-----------------------------------------------------------------------------
(* What the instructions reach of the variables, as a set of one or none.   *)
Named(name) == {v \in Declared : v.name = name}
\* Without an input the fetch is of zeros.
translate_vertex_fetch(fetch) == Named(<<"vtx_attr", slot(fetch)>>)
\* Without a texture it is grey.
translate_texture_fetch(fetch) == Named(<<"tex", slot(fetch)>>)
get_texture_coord(fetch) ==
  CASE Dimension[slot(fetch)] = "1D" -> 1
    [] Dimension[slot(fetch)] \in {"3D", "Cube"} -> 3
    [] OTHER -> 2
image_dimension(binding) == (CHOOSE t \in Range(textures) : t.binding = binding).dimension

get_constant == Named(IF shader_type = "vertex" THEN <<"vs_constants", 0>> ELSE <<"ps_constants", 1>>)
get_bool_constant == Named(<<"bool_constants", 2>>)
get_loop_constant == Named(<<"loop_constants", 3>>)

write_interpolant(index) == If(index \in Slots, Named(<<"interp", index>>))
write_color(index) ==
  LET own == If(index < 4, Named(<<"fragColor", index>>))
  IN IF own # {} THEN own ELSE Named(<<"fragColor", 0>>)
handle_export(alu) ==
  CASE alu.export_type = "Position" -> Named(<<"gl_Position">>)
    [] alu.export_type = "Interpolator" -> write_interpolant(alu.export_index)
    [] alu.export_type = "PointSize" -> Named(<<"gl_PointSize">>)
    [] alu.export_type = "Color" -> write_color(alu.export_index)
    [] alu.export_type = "Depth" -> Named(<<"gl_FragDepth">>)
    [] alu.export_type = "MemExport" -> Named(<<"memexport_buf", 0>>)
-----------------------------------------------------------------------------
(* reflect_spirv, and the warnings of validate_shader_bindings: of what the *)
(* shader cache keeps of the analysis, its masks of slots.                  *)
Reflected(class) == {v \in Declared : v.class = class}
bindings == {v.at : v \in Reflected("Uniform") \cup Reflected("UniformConstant")}
has_input_location(location) == \E v \in Reflected("Input") : ~v.builtin /\ v.at = <<location>>
validate_shader_bindings ==
  LET unfed == {s \in vertex_fetch_slots : ~has_input_location(s)}
      unasked == {v \in Reflected("Input") : ~v.builtin /\ v.at[1] \notin vertex_fetch_slots}
      constants == IF shader_type = "vertex" THEN <<0, 0>> ELSE <<0, 1>>
      unbound == {b \in texture_bindings : <<1, b>> \notin bindings}
      unknown == {b \in bindings : b[1] = 1 /\ b[2] \notin texture_bindings}
  IN (IF shader_type = "vertex" THEN Cardinality(unfed) + Cardinality(unasked) ELSE 0)
     + (IF constants \in bindings THEN 0 ELSE 1) + Cardinality(unbound) + Cardinality(unknown)

(* create_descriptor_resources: what is at a set and binding, and for which *)
(* stages.                                                                  *)
Layout ==
  [at : {<<0, 0>>}, class : {"Uniform"}, stages : {{"vertex"}}]
    \cup [at : {<<0, 1>>}, class : {"Uniform"}, stages : {{"pixel"}}]
    \cup [at : {<<0, 2>>, <<0, 3>>}, class : {"Uniform"}, stages : {{"vertex", "pixel"}}]
    \cup [at : {<<1, s>> : s \in Slots}, class : {"UniformConstant"}, stages : {{"pixel"}}]
    \cup [at : {<<2, 0>>}, class : {"StorageBuffer"}, stages : {{"vertex"}}]

\* The attributes, each at its slot's location, of the shader's slots.
build_vertex_input_state == {s \in vertex_fetch_slots : vertex_fetch[s] # "none"}
\* The buffers, of every slot.
bind_vertex_buffers == {s \in Fetched : vertex_fetch[s] = "data"}
-----------------------------------------------------------------------------
(* Two variables are never in one place, and the entry point lists what is  *)
(* the shader's interface.                                                  *)
DeclaredOnce ==
  /\ \A v, w \in Declared : v.class = w.class /\ v.at = w.at /\ v.at # <<>> => v = w
  /\ interface_vars = Reflected("Input") \cup Reflected("Output")

(* A fetch and an export reach the variable at their own slot or index. But *)
(* for a colour past the fourth, which is the first's, and for the vertices *)
(* of a shader without textures.                                            *)
EachReachesItsOwn ==
  /\ \A fetch \in Range(fetch_instructions_) :
       IF fetch.fetch_type = "texture"
         THEN \E v \in translate_texture_fetch(fetch) :
                v.at = <<1, slot(fetch)>>
                /\ image_dimension(slot(fetch)) \in CASE get_texture_coord(fetch) = 1 -> {"1D"}
                     [] get_texture_coord(fetch) = 2 -> {"2D"} [] OTHER -> {"3D", "Cube"}
         ELSE IF shader_type = "vertex" /\ textures # <<>>
                THEN \E v \in translate_vertex_fetch(fetch) : v.at = <<slot(fetch)>>
                ELSE translate_vertex_fetch(fetch) = {}
  /\ \A alu \in Range(alu_instructions_) :
       \E v \in handle_export(alu) :
         /\ v.class = IF alu.export_type = "MemExport" THEN "StorageBuffer" ELSE "Output"
         /\ alu.export_type = "Interpolator" => v.at = <<alu.export_index>>
         /\ alu.export_type = "Color" => v.at = <<IF alu.export_index < 4 THEN alu.export_index ELSE 0>>
  /\ get_constant # {} /\ get_bool_constant # {} /\ get_loop_constant # {}

(* The validation of a draw finds nothing but those vertices.               *)
ValidatedButVertices ==
  validate_shader_bindings =
    IF shader_type = "vertex" /\ textures = <<>> THEN Cardinality(vertex_fetch_slots) ELSE 0

(* The pipeline's layout has what the shader declares, for its stage: but   *)
(* for the textures of a vertex shader and a pixel shader's memory export.  *)
WithinLayout ==
  \A v \in Declared : Len(v.at) = 2 =>
    \E l \in Layout :
      /\ l.at = v.at /\ l.class = v.class
      /\ shader_type \in l.stages
           \/ <<shader_type, v.class>> \in {<<"vertex", "UniformConstant">>, <<"pixel", "StorageBuffer">>}

(* An input whose constant names data has its attribute and its buffer, and *)
(* an attribute is of an input or of a fetch that reads zeros.              *)
InputsFed ==
  /\ \A s \in Fetched : has_input_location(s) /\ shader_type = "vertex" /\ vertex_fetch[s] = "data"
       => s \in build_vertex_input_state \cap bind_vertex_buffers
  /\ \A s \in build_vertex_input_state : shader_type = "vertex" /\ textures # <<>> => has_input_location(s)

(* A shader and what is around it agree on where everything is.             *)
InterfacesMatch == DeclaredOnce /\ EachReachesItsOwn /\ ValidatedButVertices /\ WithinLayout /\ InputsFed
=============================================================================
