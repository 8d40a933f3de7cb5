-------------------------------- MODULE Parts --------------------------------
(***************************************************************************)
(* The parts that share no state with each other or with the engine, in    *)
(* one specification: a behaviour is one of a single machine, chosen at    *)
(* the start, and the variables of the others keep a fixed value.          *)
(***************************************************************************)
EXTENDS Integers, Sequences

CONSTANTS
    BlockSize, NBlocks,              \* cache.block_size, and the blocks of a pool
    Lengths, Budgets, CacheLayers,   \* Compaction: prefills, kv_budget, layers
    MinBudget, MaxBudget, Streaming, \* Compaction: Ada-KV's limits, the window of duoattn
    Gpus, Layers, Experts, MaxDepth, \* Planner
    Reqs, MaxTokens, Readers,        \* Telemetry
    WindowS, LatencyWindow, MaxClock,
    Served, Prompts, MaxLen, Chunk,  \* Attention
    Window, Kernel, Drafts,
    PromptLens, AnswerLens, Steps,   \* Diffusion
    Sides, Ratio, Patch, Merge,      \* Multimodal
    MinPixels, MaxPixels, Before, ChunkSizes,
    Checkpoint, Jobs, Disks, Floor,  \* Forge
    MaxLaunches,
    Base, Mass, StateLow, Payloads   \* Transport: the coder, what is sent

VARIABLES active, comp, plan, tele, att, diff, mm, forge, xfer

Compacting == INSTANCE Compaction WITH Layers <- CacheLayers, Window <- Streaming
Planning   == INSTANCE Planner
Metrics    == INSTANCE Telemetry
Layering   == INSTANCE Attention
Denoising  == INSTANCE Diffusion WITH MaxTokens <- AnswerLens
Imaging    == INSTANCE Multimodal
Forging    == INSTANCE Forge
Sending    == INSTANCE Transport WITH Low <- StateLow

\* What the checkpoints and jobs of a forge are, and the disk they run on.
ASSUME ForgeAssumption == Forging!ForgeConstants

\* What the parameters of a diffusion request and its cache are.
ASSUME DiffusionAssumption == Denoising!DiffusionConstants

\* What machines and models a plan is made for.
ASSUME PlannerAssumption == Planning!PlannerConstants

\* What the configuration of an eviction is.
ASSUME CompactionAssumption == Compacting!CompactionConstants

\* What models run on which path, and the sizes of a forward pass.
ASSUME AttentionAssumption == Layering!AttentionConstants

\* What the requests and windows of the metrics are.
ASSUME TelemetryAssumption == Metrics!TelemetryConstants

\* What images come, and what limits their sizes.
ASSUME MultimodalAssumption == Imaging!MultimodalConstants

\* What the parameters of the coder are, and what is sent.
ASSUME TransportAssumption == Sending!TransportConstants

-----------------------------------------------------------------------------
Off == [pc |-> "off"]

PartsInit ==
    /\ active \in {"compaction", "planner", "telemetry", "attention", "diffusion",
                   "multimodal", "forge", "transport"}
    /\ IF active = "compaction" THEN Compacting!Init ELSE comp = Off
    /\ IF active = "planner"    THEN Planning!Init   ELSE plan = Off
    /\ IF active = "telemetry"  THEN Metrics!Init    ELSE tele = Off
    /\ IF active = "attention"  THEN Layering!Init   ELSE att = Off
    /\ IF active = "diffusion"  THEN Denoising!Init  ELSE diff = Off
    /\ IF active = "multimodal" THEN Imaging!Init    ELSE mm = Off
    /\ IF active = "forge"      THEN Forging!Init    ELSE forge = Off
    /\ IF active = "transport"  THEN Sending!Init    ELSE xfer = Off

partsVars == <<active, comp, plan, tele, att, diff, mm, forge, xfer>>

\* Where a bound of this model may end a behaviour: a clock, the launches.
Bounded == active \in {"telemetry", "forge"} /\ UNCHANGED partsVars

PartsNext ==
    \/ active = "compaction" /\ Compacting!Next /\ UNCHANGED <<active, plan, tele, att, diff, mm, forge, xfer>>
    \/ active = "planner"    /\ Planning!Next   /\ UNCHANGED <<active, comp, tele, att, diff, mm, forge, xfer>>
    \/ active = "telemetry"  /\ Metrics!Next    /\ UNCHANGED <<active, comp, plan, att, diff, mm, forge, xfer>>
    \/ active = "attention"  /\ Layering!Next   /\ UNCHANGED <<active, comp, plan, tele, diff, mm, forge, xfer>>
    \/ active = "diffusion"  /\ Denoising!Next  /\ UNCHANGED <<active, comp, plan, tele, att, mm, forge, xfer>>
    \/ active = "multimodal" /\ Imaging!Next    /\ UNCHANGED <<active, comp, plan, tele, att, diff, forge, xfer>>
    \/ active = "forge"      /\ Forging!Next    /\ UNCHANGED <<active, comp, plan, tele, att, diff, mm, xfer>>
    \/ active = "transport"  /\ Sending!Next    /\ UNCHANGED <<active, comp, plan, tele, att, diff, mm, forge>>
    \/ Bounded

PartsSpec == PartsInit /\ [][PartsNext]_partsVars

-----------------------------------------------------------------------------
\* A compacted slot reads exactly the kept rows, and blocks are neither lost
\* nor doubled (engine/kv_cache.py, KVEviction).
CompactionKeeps == active = "compaction" => Compacting!CompactionKeeps

\* A plan covers the layers and experts once, fits the devices and is the
\* best by the planner's own order (scheduling.py, config.py).
PlansPartition == active = "planner" => Planning!PlansPartition

\* What a snapshot reports fits together with what the clients were told
\* (metrics.py against api/runtime.py).
MetricsAgree == active = "telemetry" => Metrics!MetricsAgree

\* Every layer computes every committed position from exactly its causal
\* past (layers, models/cache.py, engine/model_runner.py).
SeesItsPast == active = "attention" => Layering!SeesItsPast

\* A canvas is emitted with every position decided once, in rounds that see
\* each other (engine/decode_strategy.py).
CanvasIsDecided == active = "diffusion" => Denoising!CanvasIsDecided

\* Each placeholder of a prompt stands for its own cell of the resized image
\* (multimodal, models/vlm.py).
ImageInItsPlace == active = "multimodal" => Imaging!ImageInItsPlace

\* Whatever fails or is killed, a recorded output is a whole file with the
\* checkpoint's values (tools/forge.py, convert.py).
ForgedIsWhole == active = "forge" => Forging!ForgedIsWhole

\* Staging and outputs never take the disk further below its floor than the
\* shard at hand (tools/forge.py, convert.py).
DiskFloorKept == active = "forge" => Forging!DiskFloorKept

\* What recv rebuilds is what send compressed, and pops undo pushes one by
\* one (dist/entropy.py, dist/__init__.py).
TransferInverts == active = "transport" => Sending!TransferInverts
=============================================================================
