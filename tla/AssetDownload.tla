--------------------------- MODULE AssetDownload ---------------------------
(***************************************************************************)
(* The preparation of the semantic runtime on disk (crates/ui/src/         *)
(* semantic_bootstrap.rs, semantic_runtime/embedder.rs, runtime/bootstrap):*)
(* the ONNX Runtime packages of the preferred backend, then the pinned     *)
(* model and tokenizer, each kept when it verifies and downloaded when it  *)
(* does not, with resumed partial files, finite retries, a fall back from  *)
(* DirectML to the CPU, and a server and a disk that may do anything.      *)
(*                                                                         *)
(* A file is how many blocks it has and whether they are the first blocks  *)
(* of the pinned file. One process at a time prepares a directory; it may  *)
(* die and be started again.                                               *)
(***************************************************************************)
EXTENDS Integers, Sequences, FiniteSets

CONSTANTS
    Size,        \* blocks of a pinned file
    Limit,       \* MAX_RUNTIME_ARCHIVE_BYTES, in blocks
    HasGpu,      \* Windows: the platform has DirectML specs and prunes its directory
    MaxStarts,   \* bound on the preparations
    MaxFaults    \* bound on the preparations with faults and on damaged files

ASSUME SizeAssumption == Size \in Nat \ {0}
ASSUME LimitAssumption == Limit \in Nat /\ Limit >= Size
ASSUME HasGpuAssumption == HasGpu \in BOOLEAN
ASSUME MaxStartsAssumption == MaxStarts \in Nat
ASSUME MaxFaultsAssumption == MaxFaults \in Nat

VARIABLES
    disk,    \* disk.part: archives and *.download files; disk.final: libraries and assets
    job,     \* prepare_semantic_runtime
    starts,  \* how many preparations there were
    faults,  \* how many preparations met faults and how many files were damaged
    excused  \* something explains a failure of this job: a fault, or its preference

vars == <<disk, job, starts, faults, excused>>

-----------------------------------------------------------------------------
(* Files. *)

None == -1
Package == {"onnxruntime", "directml"}
Asset == {"cpu_model", "gpu_model", "tokenizer"}
Item == Package \union Asset

Absent == [len |-> None, sound |-> FALSE]
Pinned == [len |-> Size, sound |-> TRUE]
Torn == [len |-> 1, sound |-> FALSE]
Content == {Absent} \union [len : 0 .. Limit, sound : BOOLEAN]
Replaced == {Absent} \union [len : {Size, Limit}, sound : {FALSE}]

Exists(file) == file # Absent

\* asset_integrity_mismatch, verify_checksum: the size and the digest.
Verifies(file) == file = Pinned

-----------------------------------------------------------------------------
(* Preferences, candidates and what they need. *)

Backend == {"cpu", "gpu"}
Enabled == {"auto", "cpu", "gpu"}

\* candidate_specs
Candidates(preference) ==
    CASE preference = "cpu"  -> <<"cpu">>
      [] preference = "gpu"  -> IF HasGpu THEN <<"gpu">> ELSE <<>>
      [] preference = "auto" -> IF HasGpu THEN <<"gpu", "cpu">> ELSE <<"cpu">>

\* custom_runtime_backend, with the DirectML capability of the custom library
CustomBackend(preference, directml) ==
    IF preference # "cpu" /\ HasGpu /\ directml THEN "gpu" ELSE "cpu"
CustomSupported(preference, directml) ==
    preference = "gpu" => HasGpu /\ directml

Packages(backend) == IF backend = "gpu" THEN <<"onnxruntime", "directml">> ELSE <<"onnxruntime">>
Assets(backend) ==
    <<IF backend = "gpu" THEN "gpu_model" ELSE "cpu_model", "tokenizer">>

-----------------------------------------------------------------------------
(* The job. *)

Idle == [pc |-> "idle", stage |-> "runtime", preference |-> "cpu", backend |-> "cpu",
         custom |-> FALSE, others |-> <<>>, todo |-> <<>>,
         restarted |-> FALSE, retried |-> FALSE,
         resume |-> 0, end |-> None, left |-> None, sane |-> FALSE]

Working == {"item", "prepare", "request", "body", "verify", "finalize", "extract",
            "extracting", "initialize", "load"}

DownloadTypeOK ==
    /\ disk \in [part : [Item -> Content], final : [Item -> Content]]
    /\ job \in [pc : Working \union {"idle", "ready", "failed"},
                stage : {"runtime", "assets", "fallback"},
                preference : Enabled, backend : Backend, custom : BOOLEAN,
                others : Seq(Backend), todo : Seq(Item),
                restarted : BOOLEAN, retried : BOOLEAN, resume : 0 .. Limit,
                end : None .. Limit, left : None .. Limit, sane : BOOLEAN]
    /\ starts \in 0 .. MaxStarts
    /\ faults \in 0 .. MaxFaults
    /\ excused \in BOOLEAN

Init ==
    /\ disk = [part |-> [i \in Item |-> Absent], final |-> [i \in Item |-> Absent]]
    /\ job = Idle
    /\ starts = 0
    /\ faults = 0
    /\ excused = FALSE

\* The network, the disk and the library do what they should, or not: a
\* preparation that met one fault may meet any number.
Behaves(well) ==
    \/ /\ well \/ excused
       /\ UNCHANGED <<faults, excused>>
    \/ /\ ~well /\ ~excused /\ faults < MaxFaults
       /\ faults' = faults + 1
       /\ excused' = TRUE

Current == Head(job.todo)
Part == disk.part[Current]
SetPart(file) == [disk EXCEPT !.part[Current] = file]
Removed == SetPart(Absent)

\* The next package or asset; after the last package the runtime is
\* initialized, after the last asset the model is loaded.
Advanced ==
    LET rest == Tail(job.todo) IN
    [job EXCEPT !.todo = rest,
                !.pc = IF rest # <<>> THEN "item"
                       ELSE IF job.stage = "assets" THEN "load" ELSE "initialize"]

\* A package that fails sends the first stage to its next candidate;
\* every other failure ends the job.
Failed ==
    IF job.stage = "runtime" /\ Current \in Package /\ job.others # <<>>
    THEN [job EXCEPT !.pc = "item", !.backend = Head(job.others),
                     !.todo = Packages(Head(job.others)), !.others = Tail(job.others)]
    ELSE [job EXCEPT !.pc = "failed"]

Begin ==
    /\ job.pc \notin Working
    /\ starts < MaxStarts
    /\ starts' = starts + 1
    /\ UNCHANGED <<disk, faults>>

\* The packages of the first candidate; initial_runtime_label has seen to it
\* that there is one.
Start(preference) ==
    /\ Begin
    /\ Candidates(preference) # <<>>
    /\ LET first == Head(Candidates(preference)) IN
       job' = [Idle EXCEPT !.pc = "item", !.preference = preference, !.backend = first,
                           !.others = Tail(Candidates(preference)), !.todo = Packages(first)]
    /\ excused' = FALSE

\* user_runtime_override: the library that ORT_DYLIB_PATH names
StartCustom(preference, directml) ==
    /\ Begin
    /\ LET supported == CustomSupported(preference, directml) IN
       /\ job' = [Idle EXCEPT !.preference = preference, !.custom = TRUE,
                              !.pc = IF supported THEN "initialize" ELSE "failed",
                              !.backend = CustomBackend(preference, directml)]
       /\ excused' = ~supported

\* prune_runtime_dir: the archives that a failed candidate left
Pruned ==
    [disk EXCEPT !.part = [i \in Item |-> IF i \in Package THEN Absent ELSE @[i]]]

\* What is on disk already, and verifies, is kept.
KeepItem ==
    /\ job.pc = "item"
    /\ Verifies(disk.final[Current])
    /\ job' = Advanced
    /\ disk' = IF HasGpu /\ Advanced.pc = "initialize" THEN Pruned ELSE disk
    /\ UNCHANGED <<faults, excused>>

Fetched == [job EXCEPT !.pc = "prepare", !.restarted = FALSE, !.retried = FALSE]

\* A library that does not verify is overwritten later.
FetchPackage ==
    /\ job.pc = "item" /\ Current \in Package
    /\ ~Verifies(disk.final[Current])
    /\ job' = Fetched
    /\ UNCHANGED <<disk, faults, excused>>

\* An asset that does not verify is removed.
FetchAsset ==
    /\ job.pc = "item" /\ Current \in Asset
    /\ ~Verifies(disk.final[Current])
    /\ job' = Fetched
    /\ disk' = [disk EXCEPT !.final[Current] = Absent]
    /\ UNCHANGED <<faults, excused>>

-----------------------------------------------------------------------------
(* Where the download starts. *)

\* resume_action: StartFresh or Resume
ResumeFrom(file) == IF Exists(file) THEN file.len ELSE 0
RequestFrom(n) == [job EXCEPT !.pc = "request", !.resume = n]

\* An archive has no known size: what may be continued is.
PrepareArchive ==
    /\ job.pc = "prepare" /\ Current \in Package
    /\ LET tooLong == Part.len > Limit IN
       /\ job' = RequestFrom(IF tooLong THEN 0 ELSE ResumeFrom(Part))
       /\ disk' = IF tooLong THEN Removed ELSE disk
    /\ UNCHANGED <<faults, excused>>

\* A partial asset of the full size is verified instead of requested.
PrepareAsset ==
    /\ job.pc = "prepare" /\ Current \in Asset
    /\ \/ /\ Part.len < Size
          /\ job' = RequestFrom(ResumeFrom(Part))
          /\ UNCHANGED disk
       \/ /\ Part.len >= Size /\ Verifies(Part)
          /\ job' = [job EXCEPT !.pc = "finalize"]
          /\ UNCHANGED disk
       \/ /\ Part.len >= Size /\ ~Verifies(Part)
          /\ job' = RequestFrom(0)
          /\ disk' = Removed
    /\ UNCHANGED <<faults, excused>>

-----------------------------------------------------------------------------
(* What the server may answer; a field that is None is missing. *)

Full == [status : {"full"}, length : None .. Limit]
Partial == [status : {"partial"}, length : None .. Limit,
            start : 0 .. Limit, end : 0 .. Limit, total : {Size, Limit}]
HonestAnswers(resume) ==
    {[status |-> "full", length |-> n] : n \in {None, Size}}
      \union (IF resume \in 1 .. Size - 1
              THEN {[status |-> "partial", length |-> n, start |-> resume,
                     end |-> Size - 1, total |-> Size] : n \in {None, Size - resume}}
              ELSE {})
\* DownloadLimit::validate_total and max_bytes
Accepts(total) == IF Current \in Asset THEN total = Size ELSE total <= Limit
MaxBytes == IF Current \in Asset THEN Size ELSE Limit

\* parse_content_range
RangeOK(answer) == answer.start <= answer.end /\ answer.end < answer.total

\* full_response_plan and partial_response_plan: what is acceptable
FullPlanOK(answer) == answer.length # None => Accepts(answer.length)
PartialPlanOK(answer) ==
    /\ job.resume > 0
    /\ job.resume <= MaxBytes
    /\ RangeOK(answer)
    /\ answer.start = job.resume
    /\ Accepts(answer.total)
    /\ answer.end < MaxBytes
    /\ answer.end + 1 = answer.total
    /\ answer.length # None => answer.length = answer.end - answer.start + 1
PlanOK(answer) ==
    IF answer.status = "full" THEN FullPlanOK(answer) ELSE PartialPlanOK(answer)
\* response_plan: where the body must end
PlanEnd(answer) ==
    IF answer.status = "partial" THEN answer.end + 1
    ELSE IF answer.length # None THEN answer.length
    ELSE IF Current \in Asset THEN Size ELSE None

-----------------------------------------------------------------------------
(* The answer and its body. *)

\* send() fails, or error_for_status: the partial file stays.
RequestFails ==
    /\ job.pc = "request"
    /\ Behaves(FALSE)
    /\ job' = Failed
    /\ UNCHANGED disk

\* 416: the partial file may be whole. Otherwise one clean retry.
RangeRejected(kind, whole) ==
    /\ job.pc = "request" /\ Current \in kind
    /\ Behaves(job.resume >= Size)
    /\ \/ /\ Verifies(Part)
          /\ job' = [job EXCEPT !.pc = whole]
          /\ UNCHANGED disk
       \/ /\ ~Verifies(Part)
          /\ disk' = Removed
          /\ job' = IF job.retried THEN Failed
                    ELSE [job EXCEPT !.retried = TRUE, !.pc = "prepare"]
\* Mutant: a rejected range means that the file is whole.
AssetRangeTaken ==
    /\ job.pc = "request" /\ Current \in Asset
    /\ Behaves(job.resume >= Size)
    /\ job' = [job EXCEPT !.pc = "finalize"]
    /\ UNCHANGED disk

\* Mutant: the clean retry is not remembered.
ArchiveRangeAlwaysRetried ==
    /\ job.pc = "request" /\ Current \in Package
    /\ Behaves(job.resume >= Size)
    /\ disk' = Removed
    /\ job' = [job EXCEPT !.pc = "prepare"]

ArchiveRangeRejected == RangeRejected(Package, "verify")
AssetRangeRejected == RangeRejected(Asset, "finalize")

\* write_http_response, up to the body. A sane response has the head and the
\* body that the server of the pinned file sends; any other may do anything.
Respond(answer, sane) ==
    /\ job.pc = "request"
    /\ sane => answer \in HonestAnswers(job.resume)
    /\ Behaves(sane)
    /\ \/ /\ ~PlanOK(answer) \/ (answer.status = "partial" /\ Part.len # job.resume)
          /\ disk' = Removed
          /\ job' = Failed
       \/ /\ PlanOK(answer) /\ (answer.status = "partial" => Part.len = job.resume)
          /\ disk' = IF answer.status = "partial" THEN disk
                     ELSE SetPart([len |-> 0, sound |-> TRUE])
          /\ job' = [job EXCEPT !.pc = "body", !.end = PlanEnd(answer),
                                !.left = answer.length, !.sane = sane]

\* Mutant: the body is not capped.
ReceiveUncapped(sound) ==
    /\ job.pc = "body" /\ job.left # 0
    /\ disk' = SetPart([len |-> Part.len + 1, sound |-> FALSE])
    /\ UNCHANGED <<job, faults, excused>>

ReceiveChunk(sound) ==
    /\ job.pc = "body"
    /\ job.left # 0
    /\ job.sane => sound /\ Part.len < Size
    /\ \/ /\ Part.len < MaxBytes
          /\ disk' = SetPart([len |-> Part.len + 1,
                              sound |-> Part.sound /\ sound /\ Part.len < Size])
          /\ job' = [job EXCEPT !.left = IF @ = None THEN None ELSE @ - 1]
       \/ /\ Part.len = MaxBytes
          /\ disk' = Removed
          /\ job' = Failed
    /\ UNCHANGED <<faults, excused>>

\* A read or transfer deadline, or a lost connection: what came is kept.
BodyFails ==
    /\ job.pc = "body" /\ ~job.sane
    /\ job' = Failed
    /\ UNCHANGED <<faults, excused>>
    /\ UNCHANGED disk

BodyEnds ==
    /\ job.pc = "body"
    /\ job.left \in {None, 0}
    /\ job.sane => Part.len = Size
    /\ \/ /\ job.end \in {None, Part.len} /\ Accepts(Part.len)
          /\ job' = [job EXCEPT !.pc = "verify"]
          /\ UNCHANGED disk
       \/ /\ job.end \notin {None, Part.len} \/ ~Accepts(Part.len)
          /\ disk' = Removed
          /\ job' = Failed
    /\ UNCHANGED <<faults, excused>>

-----------------------------------------------------------------------------
(* Verification and publication. *)

\* A mismatch removes the file; the first one restarts a clean download. A
\* restarted archive may be rejected once more, an asset may not.
Verify(kind, whole, retried) ==
    /\ job.pc = "verify" /\ Current \in kind
    /\ \/ /\ Verifies(Part)
          /\ job' = [job EXCEPT !.pc = whole]
          /\ UNCHANGED disk
       \/ /\ ~Verifies(Part)
          /\ disk' = Removed
          /\ job' = IF job.restarted THEN Failed
                    ELSE [job EXCEPT !.pc = "prepare", !.restarted = TRUE, !.retried = retried]
    /\ UNCHANGED <<faults, excused>>
\* Mutant: an asset that does not match fails at once.
VerifyAssetOnce ==
    /\ job.pc = "verify" /\ Current \in Asset
    /\ job' = IF Verifies(Part) THEN [job EXCEPT !.pc = "finalize"] ELSE Failed
    /\ disk' = IF Verifies(Part) THEN disk ELSE Removed
    /\ UNCHANGED <<faults, excused>>

VerifyArchive == Verify(Package, "extract", FALSE)
VerifyAsset == Verify(Asset, "finalize", job.retried)

\* finalize_temp_asset: rename
FinalizeAsset ==
    /\ job.pc = "finalize"
    /\ disk' = [disk EXCEPT !.final[Current] = Part, !.part[Current] = Absent]
    /\ job' = Advanced
    /\ UNCHANGED <<faults, excused>>

\* write_archive_entry overwrites the library in place.
BeginExtraction ==
    /\ job.pc = "extract"
    /\ disk' = [disk EXCEPT !.final[Current] = Torn]
    /\ job' = [job EXCEPT !.pc = "extracting"]
    /\ UNCHANGED <<faults, excused>>

\* verify_artifacts, then the next check of the same item prunes or goes on.
EndExtraction ==
    /\ job.pc = "extracting"
    /\ \/ /\ disk' = [disk EXCEPT !.final[Current] = Pinned, !.part[Current] = Absent]
          /\ job' = [job EXCEPT !.pc = "item"]
          /\ UNCHANGED <<faults, excused>>
       \/ /\ disk' \in {Removed, disk}  \* an I/O error here, or in verify_artifacts
          /\ job' = Failed
          /\ Behaves(FALSE)

-----------------------------------------------------------------------------
(* Initialization of the runtime, and the model. *)

InitializeRuntime ==
    /\ job.pc = "initialize"
    /\ \/ /\ job' = IF job.stage = "fallback" THEN [job EXCEPT !.pc = "load"]
                    ELSE [job EXCEPT !.pc = "item", !.stage = "assets",
                                     !.todo = Assets(job.backend)]
          /\ UNCHANGED <<faults, excused>>
       \/ /\ job' = [job EXCEPT !.pc = "failed"]
          /\ Behaves(FALSE)
    /\ UNCHANGED disk

LoadModel ==
    /\ job.pc = "load"
    /\ job' = [job EXCEPT !.pc = "ready"]
    /\ UNCHANGED <<disk, faults, excused>>

\* fallback_to_cpu: a GPU model that does not load under Auto is tried once
\* more on the CPU, with the runtime of the CPU.
FallBack ==
    [job EXCEPT !.pc = IF job.custom THEN "initialize" ELSE "item",
                !.stage = "fallback", !.backend = "cpu", !.others = <<>>,
                !.todo = Packages("cpu")]

LoadFails ==
    /\ job.pc = "load"
    /\ Behaves(FALSE)
    /\ job' = IF job.preference = "auto" /\ job.backend = "gpu" THEN FallBack
              ELSE [job EXCEPT !.pc = "failed"]
    /\ UNCHANGED disk

JobStep ==
    /\ \/ KeepItem \/ FetchPackage \/ FetchAsset \/ PrepareArchive \/ PrepareAsset
       \/ RequestFails \/ ArchiveRangeRejected \/ AssetRangeRejected
       \/ \E answer \in Full \union Partial, sane \in BOOLEAN : Respond(answer, sane)
       \/ \E sound \in BOOLEAN : ReceiveChunk(sound)
       \/ BodyFails \/ BodyEnds \/ VerifyArchive \/ VerifyAsset \/ FinalizeAsset
       \/ BeginExtraction \/ EndExtraction \/ InitializeRuntime \/ LoadModel \/ LoadFails
    /\ UNCHANGED starts

\* The process ends, or is killed: the files stay as they are.
Die ==
    /\ job # Idle
    /\ job' = Idle
    /\ UNCHANGED <<disk, starts, faults, excused>>

\* Somebody else deletes or replaces a file while no preparation runs.
Damage(i, file) ==
    /\ job.pc \notin Working
    /\ faults < MaxFaults
    /\ faults' = faults + 1
    /\ \/ disk' = [disk EXCEPT !.part[i] = file]
       \/ disk' = [disk EXCEPT !.final[i] = file]
    /\ UNCHANGED <<job, starts, excused>>

Next ==
    \/ \E preference \in Enabled :
          Start(preference) \/ \E directml \in BOOLEAN : StartCustom(preference, directml)
    \/ JobStep
    \/ Die
    \/ \E i \in Item, file \in Replaced : Damage(i, file)

\* The task of the coordinator is run, and every wait of it is bounded by the
\* connect, read and transfer deadlines of the client.
Spec == Init /\ [][Next]_vars /\ WF_vars(JobStep)

-----------------------------------------------------------------------------
(* Properties. *)

\* What the library opens is what the release pins: when the model is loaded,
\* the tokenizer, a model of the backend (the GPU model also after the fall
\* back to the CPU) and the packages that poqi installed verify, whatever the
\* server sent, whatever was on disk, wherever an earlier process died
\* (prepare_semantic_runtime, ensure_runtime_for_spec).
LoadedFilesVerify ==
    job.pc = "load" =>
        /\ Verifies(disk.final["tokenizer"])
        /\ \/ Verifies(disk.final["gpu_model"])
           \/ job.backend = "cpu" /\ job.stage = "assets" /\ Verifies(disk.final["cpu_model"])
        /\ job.custom \/ \A i \in 1 .. Len(Packages(job.backend)) :
                           Verifies(disk.final[Packages(job.backend)[i]])

\* What earlier preparations left behind never defeats a sound one: a
\* preparation that met no fault of its own does not fail, whatever partial,
\* stale or oversized files it found. The clean retries after a mismatch and
\* after a rejected range are there for that (download_asset, download_http,
\* download_archive_entry).
SoundPreparationSucceeds == job.pc = "failed" => excused

\* The preparation implements Preparation: once started it ends, however often
\* the server rejects a range, sends the wrong bytes or breaks off; every retry
\* is bounded.
Preparation == INSTANCE Preparation WITH
    phase <- IF job.pc \in Working THEN "working" ELSE job.pc
ImplementsPreparation == Preparation!PreparationSpec
=============================================================================
