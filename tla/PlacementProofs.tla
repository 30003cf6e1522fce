-------------------------- MODULE PlacementProofs --------------------------
(***************************************************************************)
(* Proofs about Placement.  PlacementInv is inductive: the cursor is never *)
(* off the exact share by more than half a layer per GPU, which bounds how *)
(* far a stage can be off and leaves the last GPU its rest when it is due  *)
(* enough.                                                                 *)
(***************************************************************************)
EXTENDS Placement, FiniteSetTheorems, SequenceTheorems, TLAPS

-----------------------------------------------------------------------------
(* Arithmetic. *)

\* The remainder modulo Word is a u32.
LEMMA ModRange == ASSUME NEW x \in Int, Word > 0 PROVE x % Word \in 0 .. Word - 1
  BY PlacementAssumption

\* It changes nothing within the range of u32.
LEMMA ModSmall == ASSUME NEW x \in 0 .. Word - 1 PROVE x % Word = x
  BY PlacementAssumption

\* A negative difference wraps once.
LEMMA ModBelow ==
    ASSUME NEW x \in Int, x < 0, x >= -Word PROVE x % Word = x + Word
  BY PlacementAssumption

\* A sum past the range wraps once.
LEMMA ModAbove ==
    ASSUME NEW x \in Int, x >= Word, x < 2 * Word PROVE x % Word = x - Word
  BY PlacementAssumption

\* A positive factor can be cancelled.
LEMMA Cancel ==
    ASSUME NEW t \in Nat, t > 0, NEW a \in Int, NEW b \in Int, t * a <= t * b
    PROVE  a <= b
<1> SUFFICES ASSUME a >= b + 1 PROVE FALSE
  OBVIOUS
<1>1. t * a >= t * (b + 1)
  OBVIOUS
<1>2. t * (b + 1) = t * b + t
  OBVIOUS
<1> QED BY <1>1, <1>2

\* One more rounded share: half a layer more ahead.
LEMMA ShareAdded ==
    ASSUME NEW t \in Nat, NEW l \in Nat, NEW c \in Nat, NEW r \in Nat,
           NEW s \in Nat, NEW f \in Nat, NEW k \in Nat,
           2 * t * c <= 2 * l * s + t * (k - 1),
           2 * t * r <= 2 * (f * l) + t
    PROVE  2 * t * (c + r) <= 2 * l * (s + f) + t * k
<1>1. 2 * t * (c + r) = 2 * t * c + 2 * t * r
  OBVIOUS
<1>2. 2 * l * (s + f) = 2 * l * s + 2 * (f * l)
  OBVIOUS
<1>3. t * k = t * (k - 1) + t
  OBVIOUS
<1> QED BY <1>1, <1>2, <1>3

\* And half a layer more behind.
LEMMA ShareLacks ==
    ASSUME NEW t \in Nat, NEW l \in Nat, NEW c \in Nat, NEW r \in Nat,
           NEW s \in Nat, NEW f \in Nat, NEW k \in Nat,
           2 * l * s <= 2 * t * c + t * (k - 1),
           2 * (f * l) <= 2 * t * r + t
    PROVE  2 * l * (s + f) <= 2 * t * (c + r) + t * k
<1>1. 2 * t * (c + r) = 2 * t * c + 2 * t * r
  OBVIOUS
<1>2. 2 * l * (s + f) = 2 * l * s + 2 * (f * l)
  OBVIOUS
<1>3. t * k = t * (k - 1) + t
  OBVIOUS
<1> QED BY <1>1, <1>2, <1>3

\* Half a layer per GPU before k is all the cursor is ahead by.
LEMMA AheadBounded ==
    ASSUME NEW t \in Nat, t > 0, NEW l \in Nat, NEW c \in Nat, NEW s \in Nat, s <= t,
           NEW k \in Int, 2 * t * c <= 2 * l * s + t * k
    PROVE  2 * c <= 2 * l + k
<1>1. l * s <= l * t
  OBVIOUS
<1>2. 2 * l * s <= 2 * l * t
  <2>1. 2 * l * s = 2 * (l * s) /\ 2 * l * t = 2 * (l * t)
    OBVIOUS
  <2> QED BY <1>1, <2>1
<1>3. t * (2 * c) = 2 * t * c /\ t * (2 * l + k) = 2 * l * t + t * k
  OBVIOUS
<1>4. t * (2 * c) <= t * (2 * l + k)
  BY <1>2, <1>3
<1> QED BY <1>4, Cancel

\* A last GPU that is due enough still has room.
LEMMA RoomLeft ==
    ASSUME NEW t \in Nat, t > 0, NEW l \in Nat, NEW c \in Nat, NEW s \in Nat,
           NEW f \in Nat, t = s + f, NEW n \in Nat,
           2 * t * c <= 2 * l * s + t * (n - 1),
           t * (n - 3) < 2 * l * f
    PROVE  c <= l
<1>1. 2 * l * t = 2 * l * s + 2 * l * f
  OBVIOUS
<1>2. t * (n - 1) = t * (n - 3) + 2 * t
  OBVIOUS
<1>3. 2 * t * c < 2 * l * t + 2 * t
  BY <1>1, <1>2
<1>4. 2 * t * c = 2 * (t * c) /\ 2 * l * t = 2 * (t * l)
  OBVIOUS
<1>5. t * c < t * l + t
  BY <1>3, <1>4
<1> SUFFICES ASSUME c >= l + 1 PROVE FALSE
  OBVIOUS
<1>6. t * c >= t * (l + 1)
  OBVIOUS
<1>7. t * (l + 1) = t * l + t
  OBVIOUS
<1> QED BY <1>5, <1>6, <1>7

-----------------------------------------------------------------------------
(* GPUs. *)

\* Detection and the report leave a GPU its memory and a backend with a label.
LEMMA GpuType ==
    ASSUME fleet \in Fleet, NEW g \in Gpus
    PROVE  /\ g \in Node \X Index
           /\ Free(g) \in Nat
           /\ Gpu(g[1], g[2]).backend \in 0 .. 4
<1> DEFINE hw == fleet[g[1]][g[2]]
<1>1. g \in Node \X Index /\ hw \in Hardware
  BY PlacementAssumption DEF Gpus
<1>2. hw.free \in Nat
  BY <1>1, PlacementAssumption DEF Hardware
<1>3. CASE hw.vendor = "nvidia"
  <2>1. detect(hw) \in [architecture : {classify_arch(hw.major, hw.minor)},
                        major : {hw.major}, minor : {hw.minor}, free : {hw.free},
                        backend : {1},
                        capability : {build_capability(hw.major, hw.minor)}]
    BY <1>3 DEF detect, nvml_detect, Cuda
  <2>2. gpu_json(detect(hw)).free = hw.free /\ gpu_json(detect(hw)).backend = "cuda"
    BY <2>1 DEF gpu_json, backend_label
  <2> QED BY <1>1, <1>2, <2>1, <2>2 DEF Free, Gpu, GpuInfo, gpu_json, BackendView
<1>4. CASE hw.vendor # "nvidia"
  <2>1. detect(hw) \in [architecture : {<<"Apple", hw.major>>},
                        major : {0}, minor : {0}, free : {hw.free}, backend : {2},
                        capability : {metal_capability(hw.major)}]
    BY <1>4 DEF detect, metal_detect, Metal
  <2>2. gpu_json(detect(hw)).free = hw.free /\ gpu_json(detect(hw)).backend = "metal"
    BY <2>1 DEF gpu_json, backend_label
  <2> QED BY <1>1, <1>2, <2>1, <2>2 DEF Free, Gpu, GpuInfo, gpu_json, BackendView
<1> QED BY <1>3, <1>4

\* There are no more GPUs than places for them.
LEMMA GpuCount ==
    /\ IsFiniteSet(Eligible)
    /\ Cardinality(Eligible) \in Nat
    /\ Cardinality(Eligible) <= Cardinality(Node) * Cardinality(Index)
<1>1. /\ IsFiniteSet(Node \X Index)
      /\ Cardinality(Node \X Index) = Cardinality(Node) * Cardinality(Index)
  BY PlacementAssumption, FS_Product
<1>2. Eligible \subseteq Node \X Index
  BY DEF Eligible, Gpus
<1>3. IsFiniteSet(Eligible) /\ Cardinality(Eligible) <= Cardinality(Node \X Index)
  BY <1>1, <1>2, FS_Subset
<1> QED BY <1>1, <1>3, FS_CardinalityType

-----------------------------------------------------------------------------
(* Steps. *)

\* A function on 1 .. c is a sequence of length c.
LEMMA FunctionIsSeq ==
    ASSUME NEW c \in Nat, NEW R, NEW S, R \subseteq S, NEW s \in [1 .. c -> R]
    PROVE  s \in Seq(S) /\ Len(s) = c
  OBVIOUS

\* A step that leaves the machines alone leaves what is known of them alone.
LEMMA Unmoved ==
    ASSUME fleet' = fleet
    PROVE  /\ Gpus' = Gpus
           /\ \A g : Free(g)' = Free(g)
  BY DEF Gpus, Free, Gpu

\* The invariant holds before plan starts.
LEMMA InitInv == Init => PlacementInv
<1> SUFFICES ASSUME Init PROVE PlacementInv
  OBVIOUS
<1> USE PlacementAssumption DEF Init
<1>0. Cardinality(Node) * Cardinality(Index) \in Nat
  BY FS_CardinalityType
<1>1. TypeOK
  BY <1>0 DEF TypeOK
<1>2. Prepared
  BY <1>0 DEF Prepared
<1>3. Summed
  BY DEF Summed
<1>4. OnTrack /\ StagesTile /\ NearShare
  BY DEF OnTrack, StagesTile, NearShare
<1> QED BY <1>1, <1>2, <1>3, <1>4 DEF PlacementInv

\* A step that changes nothing keeps it.
LEMMA StutterInv ==
    ASSUME PlacementInv, UNCHANGED vars PROVE PlacementInv'
<1> USE DEF vars
<1>0. Gpus' = Gpus /\ \A g : Free(g)' = Free(g)
  BY Unmoved
<1>1. TypeOK'
  BY <1>0 DEF PlacementInv, TypeOK
<1>2. Prepared' /\ Summed'
  BY <1>0 DEF PlacementInv, Prepared, Summed
<1>3. OnTrack'
  BY DEF PlacementInv, OnTrack, Near, Tiles, total_vram
<1>4. StagesTile' /\ NearShare'
  BY <1>0 DEF PlacementInv, StagesTile, NearShare, Near, Tiles, total_vram, LastHasRoom
<1> QED BY <1>1, <1>2, <1>3, <1>4 DEF PlacementInv

\* The filter and the sort keep it.
LEMMA CollectInv ==
    ASSUME PlacementInv, Collect PROVE PlacementInv'
<1> USE DEF PlacementInv
<1>0. Gpus' = Gpus /\ \A g : Free(g)' = Free(g)
  BY Unmoved DEF Collect
<1>1. PICK s \in [1 .. Cardinality(Eligible) -> Eligible] : gpus' = s
  BY DEF Collect
<1>2. gpus' \in Seq(Gpus) /\ Len(gpus') = Cardinality(Eligible)
  <2>1. Eligible \subseteq Gpus
    BY DEF Eligible
  <2> QED BY <1>1, <2>1, GpuCount, FunctionIsSeq
<1>3. TypeOK'
  BY <1>0, <1>2 DEF TypeOK, Collect
<1>4. Prepared'
  BY <1>2, GpuCount DEF Prepared, Collect
<1>5. Summed'
  BY <1>2, GpuCount DEF Summed, Prepared, Collect
<1>6. OnTrack' /\ StagesTile' /\ NearShare'
  BY DEF OnTrack, StagesTile, NearShare, Prepared, Collect
<1> QED BY <1>3, <1>4, <1>5, <1>6

\* One more term of total_vram keeps it.
LEMMA AddInv ==
    ASSUME PlacementInv, Add PROVE PlacementInv'
<1> USE DEF PlacementInv
<1>0. Gpus' = Gpus /\ \A g : Free(g)' = Free(g)
  BY Unmoved DEF Add
<1> DEFINE m == Len(sums)
           f == Free(gpus[m])
<1>1. sums \in Seq(Nat) /\ gpus \in Seq(Gpus) /\ m \in 1 .. Len(gpus)
  BY DEF TypeOK, Summed, Add
<1>2. gpus[m] \in Gpus
  BY <1>1
<1>3. f \in Nat
  BY <1>2, GpuType DEF TypeOK
<1>4. /\ sums' \in Seq(Nat)
      /\ Len(sums') = m + 1
      /\ \A k \in 1 .. m : sums'[k] = sums[k]
      /\ sums'[m + 1] = sums[m] + f
  BY <1>1, <1>3, AppendProperties DEF Add
<1>5. TypeOK'
  BY <1>0, <1>4 DEF TypeOK, Add
<1>6. Prepared'
  BY DEF Prepared, Add
<1>7. Summed'
  <2>1. sums'[1] = 0 /\ Len(sums') \in 1 .. Len(gpus) + 1
    BY <1>1, <1>4 DEF Summed
  <2>2. ASSUME NEW k \in 1 .. Len(sums') - 1
        PROVE  sums'[k + 1] = sums'[k] + Free(gpus[k])
    <3>1. CASE k = m
      BY <1>1, <1>4, <3>1
    <3>2. CASE k # m
      <4>1. k \in 1 .. m - 1 /\ k + 1 \in 1 .. m
        BY <1>1, <1>4, <3>2
      <4>2. sums[k + 1] = sums[k] + Free(gpus[k])
        BY <4>1 DEF Summed
      <4> QED BY <1>1, <1>4, <4>1, <4>2
    <3> QED BY <3>1, <3>2
  <2>3. ASSUME NEW k \in 1 .. Len(sums') PROVE sums'[k] <= sums'[Len(sums')]
    <3>1. \A j \in 1 .. m : sums[j] \in Nat /\ sums[j] <= sums[m]
      BY <1>1 DEF Summed
    <3>2. Len(sums') = m + 1 /\ sums'[m + 1] = sums[m] + f
      BY <1>4
    <3>3. CASE k = m + 1
      <4>1. sums[m] \in Nat
        BY <1>1, <3>1
      <4> QED BY <1>3, <3>2, <3>3, <4>1
    <3>4. CASE k # m + 1
      <4>1. k \in 1 .. m
        BY <1>1, <3>2, <3>4
      <4>2. sums'[k] = sums[k] /\ sums[k] \in Nat /\ sums[m] \in Nat /\ sums[k] <= sums[m]
        BY <1>1, <1>4, <3>1, <4>1
      <4> QED BY <1>3, <3>2, <4>2
    <3> QED BY <3>3, <3>4
  <2> QED BY <1>0, <2>1, <2>2, <2>3 DEF Summed, Add
<1>8. OnTrack' /\ StagesTile' /\ NearShare'
  BY DEF OnTrack, StagesTile, NearShare, Prepared, Add
<1> QED BY <1>5, <1>6, <1>7, <1>8

\* The end of the sum keeps it: nothing is given away yet.
LEMMA DivideInv ==
    ASSUME PlacementInv, Divide PROVE PlacementInv'
<1> USE DEF PlacementInv
<1>0. Gpus' = Gpus /\ \A g : Free(g)' = Free(g)
  BY Unmoved DEF Divide
<1>1. sums \in Seq(Nat) /\ Len(gpus) \in Nat /\ Len(sums) = Len(gpus) + 1
  BY DEF TypeOK, Divide
<1>2. total_vram \in Nat /\ total_vram' = total_vram
  BY <1>1 DEF total_vram, Divide
<1>3. TypeOK'
  BY <1>0 DEF TypeOK, Divide
<1>4. Prepared' /\ Summed'
  BY <1>0 DEF Prepared, Summed, Divide
<1>5. OnTrack'
  <2> SUFFICES ASSUME phase' = "assign" PROVE OnTrack'
    BY DEF OnTrack
  <2>1. total_vram > 0
    BY <1>2 DEF Divide
  <2>2. Len(gpus) >= 1
    BY <1>1, <2>1 DEF Summed, total_vram
  <2>3. out' = <<>> /\ cursor' = 0 /\ at' = 1 /\ sums'[1] = 0
    BY DEF Prepared, Summed, Divide
  <2>4. /\ 2 * total_vram * 0 <= 2 * req.layers * 0 + total_vram * (1 - 1)
        /\ 2 * req.layers * 0 <= 2 * total_vram * 0 + total_vram * (1 - 1)
    BY <1>2 DEF TypeOK, Request
  <2>5. Tiles'
    BY <2>3 DEF Tiles
  <2> QED BY <1>1, <1>2, <2>1, <2>2, <2>3, <2>4, <2>5 DEF OnTrack, Near, Divide
<1>6. StagesTile' /\ NearShare'
  BY <1>2 DEF StagesTile, NearShare, Prepared, Divide
<1> QED BY <1>3, <1>4, <1>5, <1>6

-----------------------------------------------------------------------------
(* The turn of a GPU. *)

\* What a turn knows: the numbers of the invariant and their ranges.
LEMMA TurnFacts ==
    ASSUME PlacementInv, phase = "assign"
    PROVE  /\ req.layers \in Nat /\ req.layers <= MaxLayers
           /\ cursor \in Nat /\ cursor < Word
           /\ at \in 1 .. Len(gpus)
           /\ Len(gpus) \in Nat /\ req.layers + Len(gpus) < Word
           /\ gpus[at] \in Gpus
           /\ Free(gpus[at]) \in Nat
           /\ total_vram \in Nat /\ total_vram > 0
           /\ sums[at] \in Nat /\ sums[at + 1] \in Nat
           /\ sums[at + 1] = sums[at] + Free(gpus[at])
           /\ sums[at] <= total_vram /\ sums[at + 1] <= total_vram
<1> USE DEF PlacementInv
<1>1. /\ req.layers \in Nat /\ req.layers <= MaxLayers
      /\ cursor \in Nat /\ cursor < Word
      /\ gpus \in Seq(Gpus) /\ sums \in Seq(Nat)
  BY PlacementAssumption DEF TypeOK, Request
<1>2. at \in 1 .. Len(gpus) /\ total_vram > 0
  BY DEF OnTrack
<1>3. Len(gpus) \in Nat /\ Len(sums) = Len(gpus) + 1
  BY <1>1 DEF Summed
<1>4. /\ gpus[at] \in Gpus
      /\ sums[at] \in Nat /\ sums[at + 1] \in Nat /\ total_vram \in Nat
  <2>1. gpus \in Seq(Gpus) /\ sums \in Seq(Nat)
    BY <1>1
  <2>2. /\ at \in 1 .. Len(gpus)
        /\ at \in 1 .. Len(sums) /\ at + 1 \in 1 .. Len(sums)
        /\ Len(gpus) + 1 \in 1 .. Len(sums)
    BY <1>2, <1>3
  <2>3. gpus[at] \in Gpus
    BY <2>1, <2>2, ElementOfSeq
  <2>4. sums[at] \in Nat /\ sums[at + 1] \in Nat /\ sums[Len(gpus) + 1] \in Nat
    BY <2>1, <2>2, ElementOfSeq
  <2> QED BY <2>3, <2>4 DEF total_vram
<1>5. Free(gpus[at]) \in Nat
  BY <1>4, GpuType DEF TypeOK
<1>6. /\ sums[at + 1] = sums[at] + Free(gpus[at])
      /\ sums[at] <= total_vram /\ sums[at + 1] <= total_vram
  BY <1>2, <1>3 DEF Summed, total_vram
<1>7. req.layers + Len(gpus) < Word
  <2>1. Cardinality(Node) * Cardinality(Index) \in Nat
    BY PlacementAssumption, FS_CardinalityType
  <2> QED BY <1>1, <1>3, <2>1, PlacementAssumption DEF Prepared
<1> QED BY <1>1, <1>2, <1>3, <1>4, <1>5, <1>6, <1>7

\* The cursor is at most (at - 1) / 2 layers from the exact share.
LEMMA TurnNear ==
    ASSUME PlacementInv, phase = "assign"
    PROVE  /\ Near(cursor, at)
           /\ 2 * total_vram * cursor
                 <= 2 * req.layers * sums[at] + total_vram * (at - 1)
           /\ 2 * req.layers * sums[at]
                 <= 2 * total_vram * cursor + total_vram * (at - 1)
  BY DEF PlacementInv, OnTrack, Near

\* The stage that Push(d) may append.
NewStage(d) ==
    [gpu |-> gpus[at], layer_start |-> cursor, layer_end |-> (cursor + d) % Word,
     backend |-> Gpu(gpus[at][1], gpus[at][2]).backend]

\* A stage of this turn.
Given(st) == st.gpu = gpus[at] /\ st.layer_start = cursor /\ st.layer_end = cursor'

\* What Push leaves true whatever it is given: types, and where nothing wraps
\* the stages still follow one another up to the cursor.
LEMMA PushTiles ==
    ASSUME PlacementInv, phase = "assign", NEW d \in 0 .. Word - 1, Push(d)
    PROVE  /\ out' \in Seq(Stage)
           /\ cursor' \in 0 .. Word - 1
           /\ \A k \in 1 .. Len(out') :
                 (k \in 1 .. Len(out) /\ out'[k] = out[k]) \/ Given(out'[k])
           /\ cursor + d < Word =>
                 /\ cursor' = cursor + d
                 /\ Tiles'
                 /\ cursor' = IF out' = <<>> THEN 0 ELSE out'[Len(out')].layer_end
<1> USE DEF PlacementInv
<1>1. /\ out \in Seq(Stage) /\ cursor \in 0 .. Word - 1 /\ Word \in Nat /\ Word > 0
      /\ Tiles
      /\ cursor = IF out = <<>> THEN 0 ELSE out[Len(out)].layer_end
  BY PlacementAssumption, TurnFacts DEF TypeOK, OnTrack
<1>2. cursor' = (cursor + d) % Word /\ cursor' \in 0 .. Word - 1
  <2>1. cursor + d \in Int /\ Word > 0
    BY <1>1
  <2>2. (cursor + d) % Word \in 0 .. Word - 1
    BY <2>1, ModRange
  <2> QED BY <2>2 DEF Push
<1>3. cursor + d < Word => cursor' = cursor + d
  <2> SUFFICES ASSUME cursor + d < Word PROVE cursor' = cursor + d
    OBVIOUS
  <2>1. cursor + d \in 0 .. Word - 1
    BY <1>1
  <2> QED BY <1>2, <2>1, ModSmall
<1>4. CASE d = 0
  <2>1. out' = out /\ cursor' = cursor
    BY <1>1, <1>3, <1>4 DEF Push
  <2>2. Tiles'
    BY <1>1, <2>1 DEF Tiles
  <2> QED BY <1>1, <1>2, <1>3, <2>1, <2>2
<1>5. CASE d # 0
  <2> DEFINE st == NewStage(d)
  <2>1. out' = Append(out, st)
    BY <1>5 DEF Push, NewStage
  <2>2. gpus[at] \in Node \X Index /\ Gpu(gpus[at][1], gpus[at][2]).backend \in 0 .. 4
    BY TurnFacts, GpuType DEF TypeOK
  <2>3. /\ st \in Stage
        /\ st.gpu = gpus[at] /\ st.layer_start = cursor /\ st.layer_end = cursor'
    BY <1>1, <1>2, <2>2 DEF Stage, NewStage
  <2> HIDE DEF st
  <2>4. /\ out' \in Seq(Stage)
        /\ Len(out) \in Nat /\ Len(out') = Len(out) + 1
        /\ \A k \in 1 .. Len(out) : out'[k] = out[k]
        /\ out'[Len(out) + 1] = st
        /\ out' # <<>>
    BY <1>1, <2>1, <2>3, AppendProperties
  <2>5. \A k \in 1 .. Len(out') :
            (k \in 1 .. Len(out) /\ out'[k] = out[k]) \/ Given(out'[k])
    BY <2>3, <2>4 DEF Given
  <2>6. ASSUME cursor + d < Word PROVE Tiles'
    <3> SUFFICES ASSUME NEW k \in 1 .. Len(out')
                 PROVE  /\ out'[k].layer_start = IF k = 1 THEN 0 ELSE out'[k - 1].layer_end
                        /\ out'[k].layer_start < out'[k].layer_end
      BY DEF Tiles
    <3>1. CASE k \in 1 .. Len(out)
      <4>1. k # 1 => k - 1 \in 1 .. Len(out)
        BY <2>4, <3>1
      <4> QED BY <1>1, <2>4, <3>1, <4>1 DEF Tiles
    <3>2. CASE k = Len(out) + 1
      <4>1. out'[k].layer_start = cursor /\ out'[k].layer_end = cursor + d
        BY <1>3, <2>3, <2>4, <2>6, <3>2
      <4>2. cursor < cursor + d
        BY <1>1, <1>5
      <4>3. out = <<>> <=> Len(out) = 0
        BY <1>1
      <4>4. k # 1 => out'[k - 1] = out[Len(out)]
        BY <2>4, <3>2
      <4> QED BY <1>1, <2>4, <3>2, <4>1, <4>2, <4>3, <4>4
    <3> QED BY <2>4, <3>1, <3>2
  <2> QED BY <1>2, <1>3, <2>3, <2>4, <2>5, <2>6
<1> QED BY <1>4, <1>5

\* A turn keeps the stages near their shares if its own stage is.
LEMMA NearKept ==
    ASSUME NearShare, at \in 1 .. Len(gpus), UNCHANGED <<sums, req, gpus>>,
           \A k \in 1 .. Len(out') :
               (k \in 1 .. Len(out) /\ out'[k] = out[k]) \/ Given(out'[k]),
           Near(cursor, at),
           IF at < Len(gpus) THEN Near(cursor', at + 1) ELSE cursor' = req.layers
    PROVE  NearShare'
<1> DEFINE Fits(st, k) ==
             /\ st.gpu = gpus[k]
             /\ Near(st.layer_start, k)
             /\ IF k < Len(gpus) THEN Near(st.layer_end, k + 1)
                ELSE st.layer_end = req.layers
<1>1. ASSUME NEW s \in 1 .. Len(out') PROVE \E k \in 1 .. Len(gpus) : Fits(out'[s], k)
  <2>1. CASE s \in 1 .. Len(out) /\ out'[s] = out[s]
    BY <2>1 DEF NearShare
  <2>2. CASE Given(out'[s])
    <3>1. Fits(out'[s], at)
      BY <2>2 DEF Given
    <3> QED BY <3>1
  <2> QED BY <1>1, <2>1, <2>2
<1> QED BY <1>1 DEF NearShare, Near, total_vram

\* The turn of a GPU that is not the last keeps it: half a layer more at most.
LEMMA AssignInv ==
    ASSUME PlacementInv, Assign PROVE PlacementInv'
<1> USE DEF PlacementInv
<1>0. Gpus' = Gpus /\ \A g : Free(g)' = Free(g)
  BY Unmoved DEF Assign
<1>1. PICK r \in 0 .. req.layers : Rounded(r) /\ Push(r)
  BY DEF Assign
<1>2. phase = "assign" /\ phase' = "assign" /\ at < Len(gpus) /\ at' = at + 1
  BY DEF Assign
<1>t. /\ req.layers \in Nat /\ cursor \in Nat /\ at \in Nat /\ Len(gpus) \in Nat
      /\ at \in 1 .. Len(gpus)
      /\ req.layers + Len(gpus) < Word
      /\ Free(gpus[at]) \in Nat /\ total_vram \in Nat /\ total_vram > 0
      /\ sums[at] \in Nat /\ sums[at + 1] \in Nat /\ sums[at + 1] <= total_vram
      /\ sums[at + 1] = sums[at] + Free(gpus[at])
  BY <1>2, TurnFacts
<1>r. r \in Nat /\ r <= req.layers /\ cursor + r \in Nat
  BY <1>1, <1>t
<1>3. /\ 2 * total_vram * (cursor + r)
           <= 2 * req.layers * sums[at + 1] + total_vram * at
      /\ 2 * req.layers * sums[at + 1]
           <= 2 * total_vram * (cursor + r) + total_vram * at
      /\ 2 * (cursor + r) <= 2 * req.layers + at
  <2>1. /\ 2 * total_vram * r <= 2 * (Free(gpus[at]) * req.layers) + total_vram
        /\ 2 * (Free(gpus[at]) * req.layers) <= 2 * total_vram * r + total_vram
    BY <1>1 DEF Rounded
  <2>2. /\ 2 * total_vram * (cursor + r)
             <= 2 * req.layers * (sums[at] + Free(gpus[at])) + total_vram * at
        /\ 2 * req.layers * (sums[at] + Free(gpus[at]))
             <= 2 * total_vram * (cursor + r) + total_vram * at
    <3>1. /\ 2 * total_vram * cursor
               <= 2 * req.layers * sums[at] + total_vram * (at - 1)
          /\ 2 * req.layers * sums[at]
               <= 2 * total_vram * cursor + total_vram * (at - 1)
      BY <1>2, TurnNear
    <3> QED BY <1>t, <1>r, <2>1, <3>1, ShareAdded, ShareLacks
  <2>3. /\ 2 * total_vram * (cursor + r)
             <= 2 * req.layers * sums[at + 1] + total_vram * at
        /\ 2 * req.layers * sums[at + 1]
             <= 2 * total_vram * (cursor + r) + total_vram * at
    BY <1>t, <2>2
  <2>4. /\ total_vram \in Nat /\ total_vram > 0 /\ req.layers \in Nat
        /\ cursor + r \in Nat /\ sums[at + 1] \in Nat /\ sums[at + 1] <= total_vram
        /\ at \in Int
    BY <1>t, <1>r
  <2> QED BY <2>3, <2>4, AheadBounded
<1>4. cursor + r < Word /\ r \in 0 .. Word - 1
  <2>1. 2 * (cursor + r) <= 2 * req.layers + at
    BY <1>3
  <2>2. /\ cursor \in Nat /\ req.layers \in Nat /\ at \in Nat /\ Len(gpus) \in Nat
        /\ at < Len(gpus) /\ req.layers + Len(gpus) < Word
    BY <1>2, <1>t
  <2>3. r \in Nat /\ r <= req.layers /\ Word \in Nat
    BY <1>r, PlacementAssumption
  <2> QED BY <2>1, <2>2, <2>3
<1>5. /\ out' \in Seq(Stage) /\ cursor' \in 0 .. Word - 1
      /\ \A k \in 1 .. Len(out') :
            (k \in 1 .. Len(out) /\ out'[k] = out[k]) \/ Given(out'[k])
      /\ cursor' = cursor + r
      /\ Tiles'
      /\ cursor' = IF out' = <<>> THEN 0 ELSE out'[Len(out')].layer_end
  BY <1>1, <1>2, <1>4, PushTiles
<1>6. TypeOK'
  BY <1>0, <1>5 DEF TypeOK, Assign
<1>7. Prepared' /\ Summed'
  BY <1>0 DEF Prepared, Summed, Assign
<1>8. Near(cursor + r, at + 1)
  <2>1. (at + 1) - 1 = at
    BY <1>t
  <2> QED BY <1>3, <2>1 DEF Near
<1>9. total_vram' = total_vram /\ sums' = sums /\ req' = req /\ gpus' = gpus
  BY DEF total_vram, Assign
<1>10. OnTrack'
  <2>1. at + 1 \in 1 .. Len(gpus)
    BY <1>2, <1>t
  <2>2. req.layers = 0 => cursor' = 0
    BY <1>2, <1>5, <1>r, <1>t DEF OnTrack
  <2> QED BY <1>2, <1>5, <1>8, <1>9, <1>t, <2>1, <2>2 DEF OnTrack, Near
<1>11. StagesTile'
  BY <1>2 DEF StagesTile
<1>12. NearShare'
  <2>1. Near(cursor, at)
    BY <1>2, TurnNear
  <2>2. Near(cursor', at + 1)
    BY <1>5, <1>8
  <2> QED BY <1>2, <1>5, <1>9, <1>t, <2>1, <2>2, NearKept
<1> QED BY <1>6, <1>7, <1>10, <1>11, <1>12

\* Where the last GPU has room, the cursor has not passed the end.
LEMMA RoomAtLast ==
    ASSUME PlacementInv, phase = "assign", at = Len(gpus), LastHasRoom
    PROVE  cursor <= req.layers
<1>1. total_vram = sums[at] + Free(gpus[at])
  BY TurnFacts DEF total_vram
<1>2. total_vram * (Len(gpus) - 3) < 2 * req.layers * Free(gpus[at])
  BY DEF LastHasRoom
<1>3. 2 * total_vram * cursor
        <= 2 * req.layers * sums[at] + total_vram * (Len(gpus) - 1)
  BY TurnNear
<1>4. /\ total_vram \in Nat /\ total_vram > 0 /\ req.layers \in Nat /\ cursor \in Nat
      /\ sums[at] \in Nat /\ Free(gpus[at]) \in Nat /\ Len(gpus) \in Nat
  BY TurnFacts
<1> QED BY <1>1, <1>2, <1>3, <1>4, RoomLeft

\* The turn of the last GPU keeps it, whether its difference wraps or not.
LEMMA AssignLastInv ==
    ASSUME PlacementInv, AssignLast PROVE PlacementInv'
<1> USE DEF PlacementInv
<1>0. Gpus' = Gpus /\ \A g : Free(g)' = Free(g)
  BY Unmoved DEF AssignLast
<1> DEFINE d == (req.layers - cursor) % Word
<1>1. phase = "assign" /\ phase' = "done" /\ at = Len(gpus) /\ Push(d)
  BY DEF AssignLast
<1>2. Word \in Nat /\ Word > 0 /\ req.layers \in 0 .. Word - 1 /\ cursor \in 0 .. Word - 1
  <2>1. Word \in Nat
    BY PlacementAssumption
  <2>2. /\ req.layers \in Nat /\ cursor \in Nat /\ cursor < Word
        /\ Len(gpus) \in Nat /\ req.layers + Len(gpus) < Word
    BY <1>1, TurnFacts
  <2> QED BY <2>1, <2>2
<1>3. /\ d \in 0 .. Word - 1
      /\ cursor <= req.layers => d = req.layers - cursor
      /\ cursor > req.layers => d = req.layers - cursor + Word
  BY <1>2, ModRange, ModSmall, ModBelow
<1>4. cursor' = req.layers
  <2>1. cursor' = (cursor + d) % Word
    BY <1>1 DEF Push
  <2>2. CASE cursor <= req.layers
    BY <1>2, <1>3, <2>1, <2>2, ModSmall
  <2>3. CASE cursor > req.layers
    <3>1. cursor + d = req.layers + Word /\ cursor + d \in Int
      BY <1>2, <1>3, <2>3
    <3>2. cursor + d >= Word /\ cursor + d < 2 * Word
      BY <1>2, <3>1
    <3>3. (cursor + d) % Word = (cursor + d) - Word
      BY <3>1, <3>2, ModAbove
    <3> QED BY <1>2, <2>1, <3>1, <3>3
  <2> QED BY <1>2, <2>2, <2>3
<1> HIDE DEF d
<1>5. /\ out' \in Seq(Stage) /\ cursor' \in 0 .. Word - 1
      /\ \A k \in 1 .. Len(out') :
            (k \in 1 .. Len(out) /\ out'[k] = out[k]) \/ Given(out'[k])
      /\ cursor + d < Word =>
            /\ Tiles'
            /\ cursor' = IF out' = <<>> THEN 0 ELSE out'[Len(out')].layer_end
  BY <1>1, <1>3, PushTiles
<1>6. TypeOK'
  BY <1>0, <1>5 DEF TypeOK, AssignLast
<1>7. Prepared' /\ Summed' /\ OnTrack'
  BY <1>0 DEF Prepared, Summed, OnTrack, AssignLast
<1>8. StagesTile'
  <2> SUFFICES ASSUME LastHasRoom'
               PROVE  /\ Tiles'
                      /\ IF req.layers = 0 THEN out' = <<>>
                         ELSE out' # <<>> /\ out'[Len(out')].layer_end = req.layers
    BY <1>1 DEF StagesTile, AssignLast
  <2>1. LastHasRoom
    BY <1>0 DEF LastHasRoom, total_vram, AssignLast
  <2>2. cursor + d < Word
    BY <1>1, <1>2, <1>3, <2>1, RoomAtLast
  <2>3. ASSUME req.layers = 0, out' # <<>> PROVE FALSE
    <3>1. Len(out') \in 1 .. Len(out') /\ out'[Len(out')] \in Stage
      BY <1>5, <2>3
    <3>2. out'[Len(out')].layer_end = 0
      BY <1>4, <1>5, <2>2, <2>3
    <3>3. out'[Len(out')].layer_start \in Nat
      BY <3>1 DEF Stage
    <3>4. Tiles'
      BY <1>5, <2>2
    <3>5. out'[Len(out')].layer_start < out'[Len(out')].layer_end
      BY <3>1, <3>4 DEF Tiles
    <3> QED BY <3>2, <3>3, <3>5
  <2> QED BY <1>2, <1>4, <1>5, <2>2, <2>3
<1>9. NearShare'
  <2>1. total_vram' = total_vram /\ sums' = sums /\ req' = req /\ gpus' = gpus
    BY DEF total_vram, AssignLast
  <2>2. Near(cursor, at) /\ at \in 1 .. Len(gpus) /\ ~(at < Len(gpus))
    BY <1>1, TurnNear, TurnFacts
  <2> QED BY <1>4, <1>5, <2>1, <2>2, NearKept
<1> QED BY <1>6, <1>7, <1>8, <1>9

\* The panic of a debug build keeps it: it happens only without room.
LEMMA AssignLastOverflowsInv ==
    ASSUME PlacementInv, AssignLastOverflows PROVE PlacementInv'
<1> USE DEF PlacementInv, AssignLastOverflows
<1>0. Gpus' = Gpus /\ \A g : Free(g)' = Free(g)
  BY Unmoved
<1>1. TypeOK'
  BY <1>0 DEF TypeOK
<1>2. Prepared' /\ Summed' /\ OnTrack'
  BY <1>0 DEF Prepared, Summed, OnTrack
<1>3. StagesTile'
  <2>1. ~LastHasRoom
    BY RoomAtLast, TurnFacts
  <2>2. LastHasRoom' <=> LastHasRoom
    BY <1>0 DEF LastHasRoom, total_vram
  <2> QED BY <2>1, <2>2 DEF StagesTile
<1>4. NearShare'
  BY DEF NearShare, Near, total_vram
<1> QED BY <1>1, <1>2, <1>3, <1>4

-----------------------------------------------------------------------------
(* Theorems. *)

\* So it holds throughout.
LEMMA InvInductive == Spec => []PlacementInv
<1>1. PlacementInv /\ [Next]_vars => PlacementInv'
  BY StutterInv, CollectInv, AddInv, DivideInv, AssignInv, AssignLastInv,
     AssignLastOverflowsInv DEF Next
<1> QED BY <1>1, InitInv, PTL DEF Spec

\* Indices, layer numbers and sums stay in the ranges of their types; in
\* particular every layer number that plan stores is a u32.
THEOREM PlacementTyped == Spec => []TypeOK
<1>1. PlacementInv => TypeOK
  BY DEF PlacementInv
<1> QED BY <1>1, InvInductive, PTL

\* For any number of GPUs and layers: if the smallest GPU is due more than
\* (n - 3) / 2 layers, plan's stages cover the layers exactly once, in order.
THEOREM PlacementTiles == Spec => []StagesTile
<1>1. PlacementInv => StagesTile
  BY DEF PlacementInv
<1> QED BY <1>1, InvInductive, PTL

\* For any number of GPUs and layers, also where the last subtraction wraps: a
\* stage begins and ends where the memory of the GPUs before it puts it, up to
\* half a layer for each of them.
THEOREM PlacementNear == Spec => []NearShare
<1>1. PlacementInv => NearShare
  BY DEF PlacementInv
<1> QED BY <1>1, InvInductive, PTL

-----------------------------------------------------------------------------
(* What the coordinator knows of a GPU. *)

\* The report neither adds nor loses a precision.
LEMMA ProfileKept ==
    ASSUME NEW c \in SUBSET Precision PROVE GpuCapabilityProfile(cap_json(c)) = c
  BY DEF GpuCapabilityProfile, cap_json

\* An NVIDIA GPU arrives with its compute capability and what it can do.
LEMMA NvidiaKnown ==
    ASSUME NEW n, NEW i, fleet[n][i].vendor = "nvidia"
    PROVE  /\ Gpu(n, i).capability = build_capability(fleet[n][i].major, fleet[n][i].minor)
           /\ Gpu(n, i).backend = 1
           /\ Gpu(n, i).major = fleet[n][i].major
           /\ Gpu(n, i).minor = fleet[n][i].minor
<1> DEFINE hw == fleet[n][i]
           d == detect(hw)
           j == gpu_json(d)
<1>1. d \in [architecture : {classify_arch(hw.major, hw.minor)}, major : {hw.major},
             minor : {hw.minor}, free : {hw.free}, backend : {1},
             capability : {build_capability(hw.major, hw.minor)}]
  BY DEF detect, nvml_detect, Cuda
<1>2. /\ j.backend = "cuda"
      /\ j.capability = cap_json(build_capability(hw.major, hw.minor))
  BY <1>1 DEF gpu_json, backend_label
<1>3. /\ GpuInfo(j).capability = GpuCapabilityProfile(j.capability)
      /\ GpuInfo(j).backend = 1
      /\ GpuInfo(j).major = hw.major
      /\ GpuInfo(j).minor = hw.minor
  BY <1>1, <1>2 DEF GpuInfo, gpu_json, BackendView
<1>4. build_capability(hw.major, hw.minor) \in SUBSET Precision
  BY DEF build_capability
<1>5. GpuCapabilityProfile(j.capability) = build_capability(hw.major, hw.minor)
  BY <1>2, <1>4, ProfileKept
<1> QED BY <1>3, <1>5 DEF Gpu

\* An Apple GPU arrives with its generation and what it can do.
LEMMA AppleKnown ==
    ASSUME NEW n, NEW i, fleet[n][i].vendor # "nvidia"
    PROVE  /\ Gpu(n, i).capability = metal_capability(fleet[n][i].major)
           /\ Gpu(n, i).backend = 2
           /\ Gpu(n, i).architecture = <<"Apple", fleet[n][i].major>>
<1> DEFINE hw == fleet[n][i]
           d == detect(hw)
           j == gpu_json(d)
<1>1. d \in [architecture : {<<"Apple", hw.major>>}, major : {0},
             minor : {0}, free : {hw.free}, backend : {2},
             capability : {metal_capability(hw.major)}]
  BY DEF detect, metal_detect, Metal
<1>2. /\ j.backend = "metal"
      /\ j.capability = cap_json(metal_capability(hw.major))
  BY <1>1 DEF gpu_json, backend_label
<1>3. /\ GpuInfo(j).capability = GpuCapabilityProfile(j.capability)
      /\ GpuInfo(j).backend = 2
      /\ GpuInfo(j).architecture = <<"Apple", hw.major>>
  BY <1>1, <1>2 DEF GpuInfo, gpu_json, BackendView
<1>4. metal_capability(hw.major) \in SUBSET Precision
  BY DEF metal_capability, Precision
<1>5. GpuCapabilityProfile(j.capability) = metal_capability(hw.major)
  BY <1>2, <1>4, ProfileKept
<1> QED BY <1>3, <1>5 DEF Gpu

\* Machines of one compute group have GPUs that can do the same, whatever the
\* fleet.
THEOREM GroupsSound == Spec => []GroupsAlike
<1>1. GroupsAlike
  <2> SUFFICES ASSUME NEW n \in Node, NEW m \in Node, SameGroup(n, m)
               PROVE  /\ Gpu(n, First(n)).capability = Gpu(m, First(m)).capability
                      /\ Gpu(n, First(n)).backend = Gpu(m, First(m)).backend
    BY DEF GroupsAlike
  <2> DEFINE i == First(n)
             j == First(m)
  <2>1. group_key(Gpu(n, i)) = group_key(Gpu(m, j))
    BY DEF SameGroup
  <2> HIDE DEF i, j
  <2>2. CASE fleet[n][i].vendor = "nvidia" /\ fleet[m][j].vendor = "nvidia"
    <3>1. Gpu(n, i).backend = 1 /\ Gpu(m, j).backend = 1
      BY <2>2, NvidiaKnown
    <3>2. Gpu(n, i).major = Gpu(m, j).major /\ Gpu(n, i).minor = Gpu(m, j).minor
      BY <2>1, <3>1 DEF group_key, Metal
    <3>3. fleet[n][i].major = fleet[m][j].major /\ fleet[n][i].minor = fleet[m][j].minor
      BY <2>2, <3>2, NvidiaKnown
    <3> QED BY <2>2, <3>1, <3>3, NvidiaKnown DEF i, j
  <2>3. CASE fleet[n][i].vendor # "nvidia" /\ fleet[m][j].vendor # "nvidia"
    <3>1. Gpu(n, i).backend = 2 /\ Gpu(m, j).backend = 2
      BY <2>3, AppleKnown
    <3>2. Gpu(n, i).architecture = Gpu(m, j).architecture
      BY <2>1, <3>1 DEF group_key, Metal
    <3>3. fleet[n][i].major = fleet[m][j].major
      BY <2>3, <3>2, AppleKnown
    <3> QED BY <2>3, <3>1, <3>3, AppleKnown DEF i, j
  <2>4. CASE (fleet[n][i].vendor = "nvidia") # (fleet[m][j].vendor = "nvidia")
    <3>1. {Gpu(n, i).backend, Gpu(m, j).backend} = {1, 2}
      BY <2>4, AppleKnown, NvidiaKnown
    <3> QED BY <2>1, <3>1 DEF group_key, Metal
  <2> QED BY <2>2, <2>3, <2>4
<1> QED BY <1>1, PTL

\* A GPU that can do FP8 is neither an Apple nor older than Ada, one that can do
\* BF16 not older than Ampere or M3.
LEMMA EligibleKinds ==
    ASSUME NEW hw \in Hardware
    PROVE  /\ "fp8" \in build_capability(hw.major, hw.minor) =>
                 classify_arch(hw.major, hw.minor) \notin PreAda
           /\ "bf16" \in build_capability(hw.major, hw.minor) =>
                 classify_arch(hw.major, hw.minor) \notin PreAda \ {<<"Ampere">>}
           /\ "fp8" \notin metal_capability(hw.major)
           /\ "bf16" \in metal_capability(hw.major) => hw.major >= 3
<1>1. hw.major \in Nat /\ hw.minor \in 0 .. 9
  BY DEF Hardware
<1>2. ASSUME "fp8" \in build_capability(hw.major, hw.minor)
      PROVE  classify_arch(hw.major, hw.minor) \notin PreAda
  <2>1. hw.major >= 9 \/ (hw.major = 8 /\ hw.minor = 9)
    BY <1>1, <1>2 DEF build_capability
  <2> QED BY <1>1, <2>1 DEF classify_arch, PreAda
<1>3. ASSUME "bf16" \in build_capability(hw.major, hw.minor)
      PROVE  classify_arch(hw.major, hw.minor) \notin PreAda \ {<<"Ampere">>}
  <2>1. hw.major >= 8
    BY <1>1, <1>3 DEF build_capability
  <2> QED BY <1>1, <2>1 DEF classify_arch, PreAda
<1>4. /\ "fp8" \notin metal_capability(hw.major)
      /\ "bf16" \in metal_capability(hw.major) => hw.major >= 3
  BY <1>1 DEF metal_capability
<1> QED BY <1>2, <1>3, <1>4

\* The GPUs of the stages are eligible ones.
LEMMA EligibleInductive == Spec => []FromEligible
<1>1. Init => FromEligible
  BY DEF Init, FromEligible
<1>2. PlacementInv /\ FromEligible /\ [Next]_vars => FromEligible'
  <2> SUFFICES ASSUME PlacementInv, FromEligible, [Next]_vars PROVE FromEligible'
    OBVIOUS
  <2>0. fleet' = fleet /\ req' = req
    BY DEF Next, vars, Collect, Add, Divide, Assign, AssignLast, AssignLastOverflows
  <2>1. Eligible' = Eligible /\ \A n, i : Gpu(n, i)' = Gpu(n, i)
    BY <2>0 DEF Eligible, supported_by, Gpus, Gpu
  <2>2. CASE Collect
    <3>1. PICK s \in [1 .. Cardinality(Eligible) -> Eligible] : gpus' = s
      BY <2>2 DEF Collect
    <3>2. gpus' \in Seq(Eligible)
      BY <3>1, GpuCount, FunctionIsSeq
    <3> QED BY <2>1, <2>2, <3>2 DEF FromEligible, Collect
  <2>3. CASE gpus' = gpus /\ out' = out
    BY <2>1, <2>3 DEF FromEligible
  <2>4. ASSUME phase = "assign", gpus' = gpus, NEW d, Push(d) PROVE FromEligible'
    <3>1. gpus[at] \in Eligible
      <4>1. at \in 1 .. Len(gpus)
        BY <2>4, TurnFacts
      <4> QED BY <4>1 DEF FromEligible
    <3>2. out \in Seq(Stage)
      BY DEF PlacementInv, TypeOK
    <3>3. CASE out' = out
      BY <2>1, <2>4, <3>3 DEF FromEligible
    <3>4. CASE out' # out
      <4>1. out' = Append(out, NewStage(d))
        BY <2>4, <3>4 DEF Push, NewStage
      <4>2. /\ NewStage(d).gpu = gpus[at]
            /\ NewStage(d).backend = Gpu(gpus[at][1], gpus[at][2]).backend
        BY DEF NewStage
      <4>3. /\ Len(out) \in Nat /\ Len(out') = Len(out) + 1
            /\ \A k \in 1 .. Len(out) : out'[k] = out[k]
            /\ out'[Len(out) + 1] = NewStage(d)
        BY <3>2, <4>1
      <4> SUFFICES ASSUME NEW k \in 1 .. Len(out')
                   PROVE  /\ out'[k].gpu \in Eligible
                          /\ out'[k].backend = Gpu(out'[k].gpu[1], out'[k].gpu[2]).backend
        BY <2>1, <2>4 DEF FromEligible
      <4>4. CASE k \in 1 .. Len(out)
        BY <4>3, <4>4 DEF FromEligible
      <4>5. CASE k = Len(out) + 1
        BY <3>1, <4>2, <4>3, <4>5
      <4> QED BY <4>3, <4>4, <4>5
    <3> QED BY <3>3, <3>4
  <2>5. CASE Assign
    BY <2>4, <2>5 DEF Assign
  <2>6. CASE AssignLast
    BY <2>4, <2>6 DEF AssignLast
  <2> QED BY <2>2, <2>3, <2>5, <2>6 DEF Next, vars, Add, Divide, AssignLastOverflows
<1> QED BY <1>1, <1>2, InvInductive, PTL DEF Spec

\* From the hardware through detection, report and filter: an FP8 job runs on no
\* GPU older than Ada and on no Apple GPU, a BF16 job on none older than Ampere
\* or M3, and each stage names the backend of its GPU.
THEOREM PlacementEligible == Spec => []EligibleOnly
<1>1. PlacementInv /\ FromEligible => EligibleOnly
  <2> SUFFICES ASSUME PlacementInv, FromEligible, NEW k \in 1 .. Len(out)
               PROVE  LET g == out[k].gpu
                          hw == fleet[g[1]][g[2]]
                      IN  /\ req.precision = "fp8" =>
                                hw.vendor = "nvidia" /\ classify_arch(hw.major, hw.minor) \notin PreAda
                          /\ req.precision = "bf16" =>
                                IF hw.vendor = "nvidia"
                                THEN classify_arch(hw.major, hw.minor) \notin PreAda \ {<<"Ampere">>}
                                ELSE hw.major >= 3
                          /\ out[k].backend = IF hw.vendor = "nvidia" THEN Cuda ELSE Metal
    BY DEF EligibleOnly
  <2> DEFINE g == out[k].gpu
             n == g[1]
             i == g[2]
             hw == fleet[n][i]
  <2>1. g \in Gpus /\ supported_by(req.precision, g)
    BY DEF FromEligible, Eligible
  <2>2. out[k].backend = Gpu(n, i).backend
    BY DEF FromEligible
  <2>3. hw \in Hardware
    BY <2>1, PlacementAssumption DEF PlacementInv, TypeOK, Gpus
  <2>4. req.precision \in Gpu(n, i).capability
    BY <2>1 DEF supported_by
  <2>5. CASE hw.vendor = "nvidia"
    <3>1. Gpu(n, i).capability = build_capability(hw.major, hw.minor) /\ Gpu(n, i).backend = 1
      BY <2>5, NvidiaKnown
    <3> HIDE DEF g, n, i, hw
    <3>2. /\ req.precision = "fp8" => classify_arch(hw.major, hw.minor) \notin PreAda
          /\ req.precision = "bf16" =>
                classify_arch(hw.major, hw.minor) \notin PreAda \ {<<"Ampere">>}
      BY <2>3, <2>4, <3>1, EligibleKinds
    <3> QED BY <2>2, <2>5, <3>1, <3>2 DEF Cuda, g, n, i, hw
  <2>6. CASE hw.vendor # "nvidia"
    <3>1. Gpu(n, i).capability = metal_capability(hw.major) /\ Gpu(n, i).backend = 2
      BY <2>6, AppleKnown
    <3> HIDE DEF g, n, i, hw
    <3>2. /\ req.precision # "fp8"
          /\ req.precision = "bf16" => hw.major >= 3
      BY <2>3, <2>4, <3>1, EligibleKinds
    <3> QED BY <2>2, <2>6, <3>1, <3>2 DEF Metal, g, n, i, hw
  <2> QED BY <2>5, <2>6
<1> QED BY <1>1, InvInductive, EligibleInductive, PTL

-----------------------------------------------------------------------------
(* The precision all GPUs share. *)

\* A non-empty set of places in Aggressive has a first one.
LEMMA FirstPlace ==
    ASSUME NEW S \in SUBSET (1 .. 4), S # {}
    PROVE  \E k \in S : \A l \in S : k <= l
<1>1. CASE 1 \in S
  BY <1>1
<1>2. CASE 1 \notin S /\ 2 \in S
  BY <1>2
<1>3. CASE 1 \notin S /\ 2 \notin S /\ 3 \in S
  BY <1>3
<1>4. CASE 1 \notin S /\ 2 \notin S /\ 3 \notin S
  <2>1. \A l \in S : l = 4
    BY <1>4
  <2>2. PICK k \in S : TRUE
    OBVIOUS
  <2>3. \A l \in S : k <= l
    BY <2>1
  <2> QED BY <2>3
<1> QED BY <1>1, <1>2, <1>3, <1>4

\* A GPU that can do a precision can do every less aggressive one.
LEMMA Nested ==
    ASSUME fleet \in Fleet, NEW g \in Gpus, NEW k \in 1 .. 4, NEW l \in 1 .. 4, k <= l,
           supported_by(Aggressive[k], g)
    PROVE  supported_by(Aggressive[l], g)
<1> DEFINE n == g[1]
           i == g[2]
           hw == fleet[n][i]
<1>1. hw \in Hardware
  BY PlacementAssumption DEF Gpus
<1>2. hw.major \in Nat /\ hw.minor \in Nat
  BY <1>1 DEF Hardware
<1>3. CASE hw.vendor = "nvidia"
  <2>1. Gpu(n, i).capability = build_capability(hw.major, hw.minor)
    BY <1>3, NvidiaKnown
  <2>2. Aggressive[k] \in build_capability(hw.major, hw.minor)
    BY <2>1 DEF supported_by
  <2> HIDE DEF n, i, hw
  <2>3. Aggressive[l] \in build_capability(hw.major, hw.minor)
    BY <1>2, <2>2 DEF build_capability, Aggressive, Precision
  <2> QED BY <2>1, <2>3 DEF supported_by, n, i
<1>4. CASE hw.vendor # "nvidia"
  <2>1. Gpu(n, i).capability = metal_capability(hw.major)
    BY <1>4, AppleKnown
  <2>2. Aggressive[k] \in metal_capability(hw.major)
    BY <2>1 DEF supported_by
  <2> HIDE DEF n, i, hw
  <2>3. Aggressive[l] \in metal_capability(hw.major)
    BY <1>2, <2>2 DEF metal_capability, Aggressive
  <2> QED BY <2>1, <2>3 DEF supported_by, n, i
<1> QED BY <1>3, <1>4

\* So its best precision says all that it can do.
LEMMA BestIs ==
    ASSUME fleet \in Fleet, NEW g \in Gpus
    PROVE  /\ Best(g) \in 1 .. 5
           /\ \A k \in 1 .. 4 : supported_by(Aggressive[k], g) <=> Best(g) <= k
<1> DEFINE able == {k \in 1 .. 4 : supported_by(Aggressive[k], g)}
<1>1. CASE able = {}
  <2>1. Best(g) = 5
    BY <1>1 DEF Best
  <2> QED BY <1>1, <2>1
<1>2. CASE able # {}
  <2>1. able \in SUBSET (1 .. 4)
    OBVIOUS
  <2>2. Best(g) = CHOOSE k \in able : \A l \in able : k <= l
    BY <1>2 DEF Best
  <2> HIDE DEF able
  <2>3. Best(g) \in able /\ \A l \in able : Best(g) <= l
    BY <1>2, <2>1, <2>2, FirstPlace
  <2>4. Best(g) \in 1 .. 4
    BY <2>1, <2>3
  <2>5. \A k \in 1 .. 4 : k \in able <=> Best(g) <= k
    <3> SUFFICES ASSUME NEW k \in 1 .. 4, Best(g) <= k PROVE k \in able
      BY <2>3
    <3>1. supported_by(Aggressive[Best(g)], g)
      BY <2>3 DEF able
    <3>2. supported_by(Aggressive[k], g)
      BY <2>4, <3>1, Nested
    <3> QED BY <3>2 DEF able
  <2> QED BY <2>4, <2>5 DEF able
<1> QED BY <1>1, <1>2

\* Some GPU is the weakest.
LEMMA WeakestExists ==
    ASSUME fleet \in Fleet, Gpus # {}
    PROVE  \E g \in Gpus : \A h \in Gpus : Best(h) <= Best(g)
<1>1. \A g \in Gpus : Best(g) \in 1 .. 5
  BY BestIs
<1> DEFINE At(k) == \E g \in Gpus : Best(g) = k
<1>2. CASE At(5)
  BY <1>1, <1>2
<1>3. CASE ~At(5) /\ At(4)
  BY <1>1, <1>3
<1>4. CASE ~At(5) /\ ~At(4) /\ At(3)
  BY <1>1, <1>4
<1>5. CASE ~At(5) /\ ~At(4) /\ ~At(3) /\ At(2)
  BY <1>1, <1>5
<1>6. CASE ~At(5) /\ ~At(4) /\ ~At(3) /\ ~At(2)
  BY <1>1, <1>6
<1> QED BY <1>2, <1>3, <1>4, <1>5, <1>6

\* For any fleet: the common precision is the best one of the weakest GPU, and
\* every GPU can do it, unless some GPU can do nothing.
THEOREM GcdSound == Spec => []GcdAgreed
<1>1. fleet \in Fleet => GcdAgreed
  <2> DEFINE w == CHOOSE g \in Gpus : \A h \in Gpus : Best(h) <= Best(g)
             common == {k \in 1 .. 4 : \A g \in Gpus : supported_by(Aggressive[k], g)}
  <2> SUFFICES ASSUME fleet \in Fleet, Gpus # {}, Best(w) < 5
               PROVE  /\ cluster_gcd(Gpus) = Aggressive[Best(w)]
                      /\ \A g \in Gpus : supported_by(cluster_gcd(Gpus), g)
    BY DEF GcdAgreed
  <2>1. w \in Gpus /\ \A h \in Gpus : Best(h) <= Best(w)
    BY WeakestExists
  <2>2. cluster_gcd(Gpus) = IF common = {} THEN "fp16"
                            ELSE Aggressive[CHOOSE k \in common : \A l \in common : k <= l]
    BY DEF cluster_gcd
  <2> HIDE DEF w
  <2>3. Best(w) \in 1 .. 4
    BY <2>1, BestIs
  <2>4. \A k \in 1 .. 4 : k \in common <=> Best(w) <= k
    <3> TAKE k \in 1 .. 4
    <3>1. ASSUME k \in common PROVE Best(w) <= k
      BY <2>1, <3>1, BestIs
    <3>2. ASSUME Best(w) <= k, NEW g \in Gpus PROVE supported_by(Aggressive[k], g)
      <4>1. Best(g) \in 1 .. 5 /\ Best(g) <= Best(w)
        BY <2>1, BestIs
      <4>2. Best(g) <= k
        BY <2>3, <3>2, <4>1
      <4> QED BY <4>2, BestIs
    <3> QED BY <3>1, <3>2
  <2>5. \A g \in Gpus : supported_by(Aggressive[Best(w)], g)
    BY <2>3, <2>4
  <2>6. common \in SUBSET (1 .. 4)
    OBVIOUS
  <2> HIDE DEF common
  <2>7. (CHOOSE k \in common : \A l \in common : k <= l) = Best(w)
    <3>1. Best(w) \in common /\ \A l \in common : Best(w) <= l
      BY <2>3, <2>4, <2>6
    <3>2. \A k \in common : (\A l \in common : k <= l) => k = Best(w)
      BY <2>3, <2>6, <3>1
    <3> QED BY <3>1, <3>2
  <2>8. cluster_gcd(Gpus) = Aggressive[Best(w)]
    <3>1. common # {}
      BY <2>3, <2>4
    <3> QED BY <2>2, <2>7, <3>1
  <2> QED BY <2>5, <2>8
<1>2. PlacementInv => fleet \in Fleet
  BY DEF PlacementInv, TypeOK
<1> QED BY <1>1, <1>2, InvInductive, PTL
=============================================================================
