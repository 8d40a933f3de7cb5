-------------------------------- MODULE Forge --------------------------------
(***************************************************************************)
(* tools/forge.py over convert.py: jobs that download a checkpoint to a    *)
(* staging directory, quantize it shard by shard into one .fni8 file,      *)
(* delete each source shard as it is consumed, and record the output in a  *)
(* manifest.  The process may be killed at any point and be started again, *)
(* for one job or for a batch; a job may also fail with an exception.      *)
(*                                                                         *)
(* A tensor has the name of the builder's tensor it becomes (two, when it  *)
(* is fused), a form that decides how it is stored, and a size on disk.    *)
(* What FQWriter leaves at the output path when it is not finalized is not *)
(* known here: Init chooses whether the path has a partial file.           *)
(***************************************************************************)
EXTENDS Integers, Sequences, FiniteSets, Functions

CONSTANTS
    Checkpoint,   \* [repo -> Seq(shard)], a shard a set of tensors
    Jobs,         \* the lines of the batch: [repo, kind, bits]
    Disks, Floor, \* possible sizes of the archive, and MIN_FREE_GB
    MaxLaunches   \* bound on the number of processes

VARIABLE forge

Repos == DOMAIN Checkpoint
Lines == {Jobs[j] : j \in DOMAIN Jobs}
Outs == {[repo |-> l.repo, bits |-> l.bits] : l \in Lines}
Absent == [state |-> "absent", tensors |-> {}]
NoJob == [repo |-> "", kind |-> "", bits |-> 0]

Init ==
    \E direct \in BOOLEAN, disk \in Disks :
        forge = [pc |-> "idle", queue |-> <<>>, batch |-> FALSE, launches |-> 0, disk |-> disk,
                 job |-> NoJob, at |-> 1, probed |-> FALSE, orderly |-> TRUE, direct |-> direct,
                 staged |-> [r \in Repos |-> {}], weights |-> [o \in Outs |-> Absent],
                 status |-> [r \in Repos |-> "none"], outputs |-> {}, torn |-> FALSE]

-----------------------------------------------------------------------------
\* quantize_state_dict over one shard.

\* Only the scales of the shard at hand.
FaultyScalesOf(repo, k) == {t \in Checkpoint[repo][k] : t.form = "scale"}

\* fp8_scales, collected from every shard before the first is consumed.
ScalesOf(repo, k) ==
    {t \in UNION {Checkpoint[repo][i] : i \in DOMAIN Checkpoint[repo]} : t.form = "scale"}

\* is_quantizable_linear and the shape: four bits only where groups fit.
Scheme(t, bits) ==
    CASE t.form = "raw"                       -> "raw"
      [] t.form # "narrow" /\ bits = 4        -> "per_group_i4"
      [] OTHER                                -> "per_row_i8"

\* _remap_qwen3_next: in_proj_qkvz becomes qkv_proj and z_proj.
Renamed(t) == IF t.form = "fused" THEN {<<t.name, "qkv">>, <<t.name, "z">>} ELSE {<<t.name>>}

\* Whether the stored values are those of the checkpoint: an fp8 weight
\* without its scale is upcast as it is.
Valued(t, scales) == t.fp8 => \E s \in scales : s.name = t.name

Quantized(shard, bits, scales) ==
    UNION {{[name |-> n, scheme |-> Scheme(t, bits), valued |-> Valued(t, scales)] : n \in Renamed(t)} :
              t \in {u \in shard : u.form # "scale"}}

\* A size on disk: four per bf16 tensor, two per fp8 or int8, one per int4;
\* a fused tensor is two.
SizeOf(t) == (IF t.form = "fused" THEN 2 ELSE 1) * (IF t.fp8 THEN 2 ELSE 4)
StoredSize(x) == CASE x.scheme = "raw" -> 4 [] x.scheme = "per_row_i8" -> 2 [] OTHER -> 1

ShardSize(repo, k) == SumFunction([t \in Checkpoint[repo][k] |-> SizeOf(t)])
ShardSizes(repo) == [k \in DOMAIN Checkpoint[repo] |-> ShardSize(repo, k)]
RepoSize(repo) == SumFunction(ShardSizes(repo))
OutputSize(tensors) == SumFunction([x \in tensors |-> StoredSize(x)])

\* What a checkpoint and a batch are: shards are numbered from one and finite;
\* norms and biases are not in fp8, an fp8 weight of a language model has its
\* scale in some shard, and a DiT is in full precision.
ForgeConstants ==
    /\ IsFiniteSet(Repos)
    /\ \A r \in Repos :
        /\ Len(Checkpoint[r]) \in Nat \ {0}
        /\ DOMAIN Checkpoint[r] = 1..Len(Checkpoint[r])
        /\ \A k \in DOMAIN Checkpoint[r] :
            /\ IsFiniteSet(Checkpoint[r][k])
            /\ \A t \in Checkpoint[r][k] : t.fp8 \in BOOLEAN /\ (t.fp8 => t.form # "raw")
    /\ Jobs \in Seq(Lines)
    /\ \A l \in Lines :
        /\ l.repo \in Repos
        /\ l.kind \in {"llm", "dit"}
        /\ \A k \in DOMAIN Checkpoint[l.repo] : \A t \in Checkpoint[l.repo][k] :
            t.fp8 /\ t.form # "scale" =>
                /\ l.kind = "llm"
                /\ \E i \in DOMAIN Checkpoint[l.repo] : \E s \in Checkpoint[l.repo][i] :
                    s.form = "scale" /\ s.name = t.name
    /\ Disks \subseteq Int
    /\ Floor \in Int

-----------------------------------------------------------------------------
Job == forge.job
Out == [repo |-> Job.repo, bits |-> Job.bits]
Shards == DOMAIN Checkpoint[Job.repo]

Used ==
    SumFunction([r \in Repos |-> SumFunctionOnSet(ShardSizes(r), forge.staged[r])])
    + SumFunction([o \in Outs |-> OutputSize(forge.weights[o].tensors)])
Free == forge.disk - Used

\* The process starts: `one` with a job, or `batch`, which purges staging.
Launch(queue, batch) ==
    /\ forge.pc = "idle"
    /\ forge.launches < MaxLaunches
    /\ forge' = [forge EXCEPT
            !.pc = "next", !.queue = queue, !.batch = batch, !.launches = @ + 1,
            !.orderly = FALSE, !.staged = IF batch THEN [r \in Repos |-> {}] ELSE @]

\* The next line of the batch; below the floor it halts.
NextJob ==
    LET halt == forge.queue = <<>> \/ (forge.batch /\ Free < Floor) IN
    /\ forge.pc = "next"
    /\ forge' = IF halt THEN [forge EXCEPT !.pc = "idle", !.orderly = TRUE, !.queue = <<>>,
                                           !.job = NoJob]
                ELSE [forge EXCEPT !.pc = "begin", !.job = Head(forge.queue),
                                   !.queue = Tail(@), !.probed = FALSE]

\* An unreadable manifest: _set raises, in the handler of its own exception
\* too, and the process ends after the purge of `finally`.
TornManifest ==
    /\ forge.torn
    /\ forge.pc \in {"failing", "record"}
    /\ forge' = [forge EXCEPT !.pc = "idle", !.orderly = TRUE, !.staged[Job.repo] = {},
                              !.queue = <<>>, !.job = NoJob]

\* The output exists: done already.
Skip ==
    /\ forge.pc = "begin"
    /\ forge.weights[Out].state # "absent"
    /\ forge' = [forge EXCEPT !.pc = "next"]

\* Free space against the floor, and against what the Hub says of the size,
\* when it answers.
Probe(answers) ==
    LET low == Free < Floor \/ (answers /\ Free - RepoSize(Job.repo) < Floor) IN
    /\ forge.pc = "begin"
    /\ forge.weights[Out].state = "absent"
    /\ forge' = CASE forge.torn -> [forge EXCEPT !.pc = "failing"]
                  [] ~forge.torn /\ low ->
                        [forge EXCEPT !.status[Job.repo] = "skipped_disk", !.pc = "purge"]
                  [] OTHER ->
                        [forge EXCEPT !.status[Job.repo] = "downloading", !.pc = "download",
                                      !.probed = answers]

\* snapshot_download: the shards that are not there yet, one by one.
Download ==
    /\ forge.pc = "download"
    /\ \E k \in Shards \ forge.staged[Job.repo] :
        forge' = [forge EXCEPT !.staged[Job.repo] = @ \cup {k}]

Downloaded ==
    /\ forge.pc = "download"
    /\ forge.staged[Job.repo] = Shards
    /\ forge' = [forge EXCEPT !.pc = IF Job.kind = "dit" THEN "dit" ELSE "shard", !.at = 1,
                              !.weights[Out].state = IF forge.direct THEN "partial" ELSE @]

\* A shard is loaded, quantized and written.
Quantize ==
    /\ forge.pc = "shard"
    /\ forge' = [forge EXCEPT
            !.pc = "remove",
            !.weights[Out].tensors = @ \cup
                Quantized(Checkpoint[Job.repo][forge.at], Job.bits, ScalesOf(Job.repo, forge.at))]

\* Leaves the source where it is.
FaultyRemove ==
    /\ forge.pc = "remove"
    /\ forge' = [forge EXCEPT !.pc = IF forge.at = Len(Checkpoint[Job.repo]) THEN "finalize" ELSE "shard",
                              !.at = @ + 1]

\* os.remove of the consumed shard (delete_source); then the next.
Remove ==
    /\ forge.pc = "remove"
    /\ forge' = [forge EXCEPT
            !.staged[Job.repo] = @ \ {forge.at},
            !.pc = IF forge.at = Len(Checkpoint[Job.repo]) THEN "finalize" ELSE "shard",
            !.at = @ + 1]

\* quant_dit: all shards at once, none removed; a DiT is in full precision.
QuantizeDit ==
    /\ forge.pc = "dit"
    /\ forge' = [forge EXCEPT
            !.pc = "finalize",
            !.weights[Out].tensors = UNION {Quantized(Checkpoint[Job.repo][k], Job.bits, {}) : k \in Shards}]

\* finalize, with the metadata.
Finalize ==
    /\ forge.pc = "finalize"
    /\ forge' = [forge EXCEPT !.pc = "record", !.weights[Out].state = "whole"]

\* The manifest: status done, and the output of this precision beside those
\* of others.
Record ==
    /\ forge.pc = "record"
    /\ ~forge.torn
    /\ forge' = [forge EXCEPT !.pc = "purge", !.status[Job.repo] = "done",
                              !.outputs = @ \cup {Out}]

\* What is left of the output when it was not finalized.
Leftover == IF forge.weights[Out].state = "whole" THEN forge.weights[Out]
            ELSE IF forge.direct THEN [forge.weights[Out] EXCEPT !.state = "partial"] ELSE Absent

\* An exception while downloading or converting; a shard at hand is removed
\* all the same.
Raise ==
    /\ forge.pc \in {"download", "shard", "dit", "finalize"}
    /\ forge' = [forge EXCEPT
            !.pc = "failing",
            !.staged[Job.repo] = IF forge.pc = "shard" THEN @ \ {forge.at} ELSE @,
            !.weights[Out] = IF forge.pc = "download" THEN @ ELSE Leftover]

\* except: status failed.
Fail ==
    /\ forge.pc = "failing"
    /\ ~forge.torn
    /\ forge' = [forge EXCEPT !.pc = "purge", !.status[Job.repo] = "failed"]

\* finally: the staging directory goes.
Purge ==
    /\ forge.pc = "purge"
    /\ forge' = [forge EXCEPT !.pc = "next", !.staged[Job.repo] = {}]

\* SIGKILL: what is on disk stays as it is.  Inside a write_text, the
\* manifest is left truncated.
Kill(tears) ==
    /\ forge.pc # "idle"
    /\ tears => forge.pc \in {"begin", "record", "failing"}
    /\ forge' = [forge EXCEPT
            !.pc = "idle", !.queue = <<>>, !.job = NoJob, !.torn = @ \/ tears,
            !.weights = IF forge.pc \in {"shard", "remove", "dit", "finalize"}
                        THEN [@ EXCEPT ![Out] = Leftover] ELSE @]

Next ==
    \/ \E j \in DOMAIN Jobs : Launch(<<Jobs[j]>>, FALSE)
    \/ Launch(Jobs, TRUE)
    \/ NextJob
    \/ TornManifest
    \/ Skip
    \/ \E answers \in BOOLEAN : Probe(answers)
    \/ Download
    \/ Downloaded
    \/ Quantize
    \/ Remove
    \/ QuantizeDit
    \/ Finalize
    \/ Record
    \/ Raise
    \/ Fail
    \/ Purge
    \/ \E tears \in BOOLEAN : Kill(tears)

-----------------------------------------------------------------------------
\* What the builder needs of a checkpoint.
Expected(o) ==
    UNION {{[name |-> n, scheme |-> Scheme(t, o.bits), valued |-> TRUE] : n \in Renamed(t)} :
              t \in {u \in UNION {Checkpoint[o.repo][k] : k \in DOMAIN Checkpoint[o.repo]} :
                        u.form # "scale"}}

\* Shards are deleted as they are consumed, jobs fail and processes are
\* killed, and still: an output the manifest records is a finished file with
\* every tensor the builder needs, each of the right precision and with the
\* checkpoint's values; and where an unfinished file does not stay at the
\* output path, so is every file there, so that a job which is skipped as
\* done is done.
ForgedIsWhole ==
    /\ \A o \in forge.outputs :
        forge.weights[o].state = "whole" /\ forge.weights[o].tensors = Expected(o)
    /\ ~forge.direct => \A o \in Outs :
        forge.weights[o].state # "absent" => forge.weights[o].tensors = Expected(o)

\* The disk does not fill.  While the shards of a checkpoint whose size was
\* known are turned into its output, free space is never below the floor by
\* more than what one shard was quantized to; a process that ended by itself
\* left no staging of its job; and a batch has the staging of one job only,
\* whatever was killed before it.
DiskFloorKept ==
    /\ forge.pc \in {"download", "shard", "remove", "finalize"} /\ forge.probed /\ Job.kind = "llm" =>
        Free >= Floor - (IF forge.pc # "remove" THEN 0
                         ELSE OutputSize(Quantized(Checkpoint[Job.repo][forge.at], Job.bits,
                                                   ScalesOf(Job.repo, forge.at))))
    /\ forge.batch /\ forge.pc # "idle" =>
        \A r \in Repos : forge.staged[r] # {} => r = Job.repo
    /\ forge.batch /\ forge.pc = "idle" /\ forge.orderly => \A r \in Repos : forge.staged[r] = {}
=============================================================================
