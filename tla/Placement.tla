----------------------------- MODULE Placement -----------------------------
(***************************************************************************)
(* From a machine's GPUs to the stages of a pipeline: what the workers     *)
(* detect (sysinfo/src/gpu.rs, gpu_metal.rs), the JSON of a report and     *)
(* what the coordinator makes of it (sysinfo/src/inventory.rs,             *)
(* common/src/nodes.rs), and the scheduler crate: the precision all GPUs   *)
(* share, compute groups, and GreedyVramWeighted, which gives every GPU a  *)
(* part of the layers after its share of the free memory.                  *)
(*                                                                         *)
(* The loops of plan are steps.  A GPU is named by its node's place in the *)
(* list and its index on the machine.  Memory is in units; 64-bit sums do  *)
(* not overflow.  The share is a floating point number: the layers of a    *)
(* GPU are a nearest integer of the exact quotient, either one at a tie.   *)
(***************************************************************************)
EXTENDS Integers, FiniteSets, Sequences

CONSTANTS
    Node,        \* places in the list of nodes
    Index,       \* GPU indices on a machine
    Fleet,       \* the fleets considered: for each node, the GPUs that answered
    MaxLayers,   \* bound on the layers of a model
    MaxMemory,   \* bound on the free memory of a GPU
    Word         \* 2^32, or anything above what layers and GPUs add up to

\* major and minor: the compute capability, 0 when NVML does not tell, with a minor
\* version of one digit; major of an Apple GPU: the number in its name, 0 when that
\* does not parse.
Hardware == [vendor : {"nvidia", "apple"}, major : Nat, minor : 0 .. 9,
             free : 0 .. MaxMemory]

ASSUME PlacementAssumption ==
    /\ Node \subseteq Nat
    /\ Index \subseteq Nat
    /\ IsFiniteSet(Node) /\ IsFiniteSet(Index)
    /\ \A f \in Fleet : \A n \in Node : \A i \in DOMAIN f[n] : f[n][i] \in Hardware
    /\ MaxLayers \in Nat
    /\ MaxMemory \in Nat
    /\ Word \in Nat
    /\ Word > MaxLayers + Cardinality(Node) * Cardinality(Index)

VARIABLES
    fleet,    \* the machines
    req,      \* the request: layers and precision
    phase,    \* which loop of plan
    gpus,     \* the eligible GPUs, most free memory first
    sums,     \* sums[k + 1]: free memory of the first k of them
    cursor,   \* the next layer to give away
    at,       \* the GPU whose turn it is
    out       \* the stages

vars == <<fleet, req, phase, gpus, sums, cursor, at, out>>

-----------------------------------------------------------------------------
(* Detection. *)

Precision == {"fp16", "bf16", "fp8", "fp4"}

\* Most aggressive first.
Aggressive == <<"fp4", "fp8", "bf16", "fp16">>

classify_arch(major, minor) ==
    CASE major = 12 -> <<"Blackwell">>
      [] major = 9 -> <<"Hopper">>
      [] major = 8 -> IF minor = 9 THEN <<"Ada">> ELSE <<"Ampere">>
      [] major = 7 -> IF minor = 5 THEN <<"Turing">> ELSE <<"Volta">>
      [] major = 6 -> <<"Pascal">>
      [] major = 0 -> <<>>
      [] OTHER -> <<"sm", major, minor>>

\* Mutated: every 8.x is taken for an Ada.
build_capability_Fp8(major, minor) ==
    {p \in Precision :
        \/ p = "fp16" /\ major >= 6
        \/ p = "bf16" /\ major >= 8
        \/ p = "fp8" /\ major >= 8
        \/ p = "fp4" /\ major >= 12}

\* The precisions of an NVIDIA GPU.
build_capability(major, minor) ==
    {p \in Precision :
        \/ p = "fp16" /\ major >= 6
        \/ p = "bf16" /\ major >= 8
        \/ p = "fp8" /\ (major >= 9 \/ (major = 8 /\ minor >= 9))
        \/ p = "fp4" /\ major >= 12}

metal_capability(generation) ==
    {"fp16"} \cup (IF generation >= 3 THEN {"bf16"} ELSE {})

\* The values of GpuBackend that some machine reports.
Cuda == 1
Metal == 2

nvml_detect(hw) ==
    [architecture |-> classify_arch(hw.major, hw.minor), major |-> hw.major,
     minor |-> hw.minor, free |-> hw.free, backend |-> Cuda,
     capability |-> build_capability(hw.major, hw.minor)]

metal_detect(hw) ==
    [architecture |-> <<"Apple", hw.major>>, major |-> 0, minor |-> 0,
     free |-> hw.free, backend |-> Metal, capability |-> metal_capability(hw.major)]

detect(hw) == IF hw.vendor = "nvidia" THEN nvml_detect(hw) ELSE metal_detect(hw)

-----------------------------------------------------------------------------
(* The report. *)

backend_label(backend) ==
    CASE backend = 1 -> "cuda"
      [] backend = 2 -> "metal"
      [] backend = 3 -> "rocm"
      [] backend = 4 -> "vulkan"
      [] OTHER -> "unspecified"

cap_json(capability) == [p \in Precision |-> p \in capability]

gpu_json(g) == [g EXCEPT !.backend = backend_label(@), !.capability = cap_json(@)]

BackendView(label) ==
    CASE label = "cuda" -> 1
      [] label = "metal" -> 2
      [] label = "rocm" -> 3
      [] label = "vulkan" -> 4
      [] label = "unspecified" -> 0

GpuCapabilityProfile(json) == {p \in Precision : json[p]}

GpuInfo(json) ==
    [json EXCEPT !.backend = BackendView(@), !.capability = GpuCapabilityProfile(@)]

\* What the coordinator knows about GPU i of node n.
Gpu(n, i) == GpuInfo(gpu_json(detect(fleet[n][i])))

Gpus == {g \in Node \X Index : g[2] \in DOMAIN fleet[g[1]]}

Free(g) == Gpu(g[1], g[2]).free

supported_by(p, g) == p \in Gpu(g[1], g[2]).capability

-----------------------------------------------------------------------------
(* Precision and groups. *)

\* Mutated: BF16 is forgotten.
cluster_gcd_Skips(S) ==
    LET common == {k \in {1, 2, 4} : \A g \in S : supported_by(Aggressive[k], g)}
    IN  IF common = {} THEN "fp16"
        ELSE Aggressive[CHOOSE k \in common : \A l \in common : k <= l]

cluster_gcd(S) ==
    LET common == {k \in 1 .. 4 : \A g \in S : supported_by(Aggressive[k], g)}
    IN  IF common = {} THEN "fp16"
        ELSE Aggressive[CHOOSE k \in common : \A l \in common : k <= l]

\* Mutated: the key has only the major version.
group_key_Major(g) ==
    IF g.backend = Metal THEN <<"metal", g.architecture>> ELSE <<"cuda", g.major>>

\* No machine reports ROCm or Vulkan.
group_key(g) ==
    IF g.backend = Metal THEN <<"metal", g.architecture>>
    ELSE <<"cuda", g.architecture, g.major, g.minor>>

\* partition looks at the first GPU of a node.
First(n) == CHOOSE i \in DOMAIN fleet[n] : \A j \in DOMAIN fleet[n] : i <= j

SameGroup(n, m) ==
    /\ DOMAIN fleet[n] # {} /\ DOMAIN fleet[m] # {}
    /\ group_key(Gpu(n, First(n))) = group_key(Gpu(m, First(m)))

-----------------------------------------------------------------------------
(* GreedyVramWeighted. *)

Request == [layers : 0 .. MaxLayers, precision : Precision]

Stage == [gpu : Node \X Index, layer_start : 0 .. Word - 1, layer_end : 0 .. Word - 1,
          backend : 0 .. 4]

TypeOK ==
    /\ fleet \in Fleet
    /\ req \in Request
    /\ phase \in {"collect", "sum", "assign", "done", "panicked"}
    /\ gpus \in Seq(Gpus)
    /\ sums \in Seq(Nat)
    /\ cursor \in 0 .. Word - 1
    /\ at \in Nat
    /\ out \in Seq(Stage)

Init ==
    /\ fleet \in Fleet
    /\ req \in Request
    /\ phase = "collect"
    /\ gpus = <<>>
    /\ sums = <<0>>
    /\ cursor = 0
    /\ at = 1
    /\ out = <<>>

Eligible == {g \in Gpus : supported_by(req.precision, g)}

\* The sort is stable.
Before(g, h) ==
    \/ Free(g) > Free(h)
    \/ /\ Free(g) = Free(h)
       /\ g[1] < h[1] \/ (g[1] = h[1] /\ g[2] < h[2])

Collect ==
    /\ phase = "collect"
    /\ \E s \in [1 .. Cardinality(Eligible) -> Eligible] :
          /\ \A j, k \in DOMAIN s : j < k => Before(s[j], s[k])
          /\ gpus' = s
    /\ phase' = "sum"
    /\ UNCHANGED <<fleet, req, sums, cursor, at, out>>

Add ==
    /\ phase = "sum"
    /\ Len(sums) <= Len(gpus)
    /\ sums' = Append(sums, sums[Len(sums)] + Free(gpus[Len(sums)]))
    /\ UNCHANGED <<fleet, req, phase, gpus, cursor, at, out>>

total_vram == sums[Len(gpus) + 1]

\* Without memory, and without GPUs, there are no stages.
Divide ==
    /\ phase = "sum"
    /\ Len(sums) = Len(gpus) + 1
    /\ phase' = IF total_vram = 0 THEN "done" ELSE "assign"
    /\ UNCHANGED <<fleet, req, gpus, sums, cursor, at, out>>

\* Mutated: rounded up.
Rounded_Up(r) ==
    LET exact == Free(gpus[at]) * req.layers
    IN  /\ total_vram * r >= exact
        /\ total_vram * r < exact + total_vram

\* r is share * model_total_layers, rounded.
Rounded(r) ==
    LET exact == Free(gpus[at]) * req.layers
    IN  /\ 2 * total_vram * r <= 2 * exact + total_vram
        /\ 2 * exact <= 2 * total_vram * r + total_vram

\* A GPU without layers gets no stage.
Push(layers) ==
    /\ out' = IF layers = 0 THEN out
              ELSE Append(out, [gpu |-> gpus[at],
                                layer_start |-> cursor,
                                layer_end |-> (cursor + layers) % Word,
                                backend |-> Gpu(gpus[at][1], gpus[at][2]).backend])
    /\ cursor' = (cursor + layers) % Word

Assign ==
    /\ phase = "assign"
    /\ at < Len(gpus)
    /\ \E r \in 0 .. req.layers : Rounded(r) /\ Push(r)
    /\ at' = at + 1
    /\ UNCHANGED <<fleet, req, phase, gpus, sums>>

\* Mutated: the last GPU gets its own share like the others.
AssignLast_Share ==
    /\ phase = "assign"
    /\ at = Len(gpus)
    /\ \E r \in 0 .. req.layers : Rounded(r) /\ Push(r)
    /\ phase' = "done"
    /\ UNCHANGED <<fleet, req, gpus, sums, at>>

\* Mutated: the stages are not numbered in 32 bits.
AssignLast_Wide ==
    LET layers == (req.layers - cursor) % Word
    IN  /\ phase = "assign"
        /\ at = Len(gpus)
        /\ out' = IF layers = 0 THEN out
                  ELSE Append(out, [gpu |-> gpus[at], layer_start |-> cursor,
                                    layer_end |-> cursor + layers,
                                    backend |-> Gpu(gpus[at][1], gpus[at][2]).backend])
        /\ phase' = "done"
        /\ UNCHANGED <<fleet, req, gpus, sums, at, cursor>>

\* The last GPU gets what is left.  Where the others got too much already, a
\* release build goes on with the wrapped difference ...
AssignLast ==
    /\ phase = "assign"
    /\ at = Len(gpus)
    /\ Push((req.layers - cursor) % Word)
    /\ phase' = "done"
    /\ UNCHANGED <<fleet, req, gpus, sums, at>>

\* ... and a debug build panics.
AssignLastOverflows ==
    /\ phase = "assign"
    /\ at = Len(gpus)
    /\ cursor > req.layers
    /\ phase' = "panicked"
    /\ UNCHANGED <<fleet, req, gpus, sums, cursor, at, out>>

Next ==
    \/ Collect
    \/ Add
    \/ Divide
    \/ Assign
    \/ AssignLast
    \/ AssignLastOverflows

Spec == Init /\ [][Next]_vars

-----------------------------------------------------------------------------
(* Properties. *)

\* The GPU with the least memory is due more than (n - 3) / 2 layers; so it is
\* for up to three GPUs with memory.
LastHasRoom ==
    total_vram * (Len(gpus) - 3) < 2 * req.layers * Free(gpus[Len(gpus)])

Tiles ==
    \A k \in 1 .. Len(out) :
        /\ out[k].layer_start = IF k = 1 THEN 0 ELSE out[k - 1].layer_end
        /\ out[k].layer_start < out[k].layer_end

\* The rounding of the shares neither loses nor doubles a layer: if the last GPU
\* has room for what the rounding may add, the stages follow one another from
\* the first layer to the last and none is empty.
StagesTile ==
    (phase \in {"done", "panicked"} /\ gpus # <<>> /\ total_vram > 0 /\ LastHasRoom) =>
        /\ phase = "done"
        /\ Tiles
        /\ IF req.layers = 0 THEN out = <<>>
           ELSE out # <<>> /\ out[Len(out)].layer_end = req.layers

\* Layer number p is at most (k - 1) / 2 layers from where the exact shares of the
\* first k - 1 GPUs end.
Near(p, k) ==
    /\ 2 * total_vram * p <= 2 * req.layers * sums[k] + total_vram * (k - 1)
    /\ 2 * req.layers * sums[k] <= 2 * total_vram * p + total_vram * (k - 1)

\* Every GPU gets the layers its memory is worth, give or take the roundings before
\* it: they do not add up in one direction to more than half a layer per GPU, and
\* the last GPU, the one with the least memory, is not left with more than that on
\* top of its share; also where placement.rs:38 wraps.
NearShare ==
    \A s \in 1 .. Len(out) :
        \E k \in 1 .. Len(gpus) :
            /\ out[s].gpu = gpus[k]
            /\ Near(out[s].layer_start, k)
            /\ IF k < Len(gpus) THEN Near(out[s].layer_end, k + 1)
               ELSE out[s].layer_end = req.layers

\* The architectures before Ada, those that detection only numbers included.
PreAda == {<<"Ampere">>, <<"Turing">>, <<"Volta">>, <<"Pascal">>, <<>>}
          \cup {<<"sm", major, minor>> : major \in 0 .. 5, minor \in 0 .. 9}

\* placement.rs:13-14: an FP8 job skips everything pre-Ada and every Apple GPU;
\* precision.rs:5-6 for BF16.  From what a machine has, through detection, report
\* and filter, to the backend its worker is told to start.
EligibleOnly ==
    \A k \in 1 .. Len(out) :
        LET g == out[k].gpu
            hw == fleet[g[1]][g[2]]
        IN  /\ req.precision = "fp8" =>
                  hw.vendor = "nvidia" /\ classify_arch(hw.major, hw.minor) \notin PreAda
            /\ req.precision = "bf16" =>
                  IF hw.vendor = "nvidia"
                  THEN classify_arch(hw.major, hw.minor) \notin PreAda \ {<<"Ampere">>}
                  ELSE hw.major >= 3
            /\ out[k].backend = IF hw.vendor = "nvidia" THEN Cuda ELSE Metal

\* How aggressive the best precision of a GPU is, 5 for none.
Best(g) ==
    LET able == {k \in 1 .. 4 : supported_by(Aggressive[k], g)}
    IN  IF able = {} THEN 5 ELSE CHOOSE k \in able : \A l \in able : k <= l

\* precision.rs:30-31: the wire format is the best that every GPU can do, which
\* because the capabilities are nested is the best of the weakest GPU, and a
\* request for it excludes no GPU; unless some GPU can do nothing.
GcdAgreed ==
    LET p == cluster_gcd(Gpus)
        weakest == CHOOSE g \in Gpus : \A h \in Gpus : Best(h) <= Best(g)
    IN  (Gpus # {} /\ Best(weakest) < 5) =>
            /\ p = Aggressive[Best(weakest)]
            /\ \A g \in Gpus : supported_by(p, g)

\* compute_group.rs:24-25: tensor parallelism is allowed within a group.  The
\* first GPUs of its nodes have one backend and one set of precisions.
GroupsAlike ==
    \A n, m \in Node :
        SameGroup(n, m) =>
            LET g == Gpu(n, First(n))
                h == Gpu(m, First(m))
            IN  g.capability = h.capability /\ g.backend = h.backend

\* What makes StagesTile and NearShare inductive: the sums are the sums of a prefix
\* and grow; and before its turn the cursor is near the share of a GPU.
Prepared ==
    /\ phase \in {"collect", "sum"} => out = <<>> /\ cursor = 0 /\ at = 1
    /\ phase = "collect" => gpus = <<>> /\ sums = <<0>>
    /\ Len(gpus) <= Cardinality(Node) * Cardinality(Index)

Summed ==
    /\ Len(sums) \in 1 .. Len(gpus) + 1
    /\ sums[1] = 0
    /\ \A k \in 1 .. Len(sums) - 1 : sums[k + 1] = sums[k] + Free(gpus[k])
    /\ \A k \in 1 .. Len(sums) : sums[k] <= sums[Len(sums)]
    /\ phase \notin {"collect", "sum"} => Len(sums) = Len(gpus) + 1

OnTrack ==
    phase = "assign" =>
        /\ total_vram > 0
        /\ at \in 1 .. Len(gpus)
        /\ Near(cursor, at)
        /\ req.layers = 0 => cursor = 0
        /\ Tiles
        /\ cursor = IF out = <<>> THEN 0 ELSE out[Len(out)].layer_end

PlacementInv ==
    /\ TypeOK
    /\ Prepared
    /\ Summed
    /\ OnTrack
    /\ StagesTile
    /\ NearShare

\* What makes EligibleOnly inductive: stages are made from eligible GPUs.
FromEligible ==
    /\ gpus \in Seq(Eligible)
    /\ \A k \in 1 .. Len(out) :
          /\ out[k].gpu \in Eligible
          /\ out[k].backend = Gpu(out[k].gpu[1], out[k].gpu[2]).backend
=============================================================================
