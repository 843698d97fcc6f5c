------------------------ MODULE AssetDownloadProofs ------------------------
(***************************************************************************)
(* Proofs about module AssetDownload, for any sizes, any number of         *)
(* preparations and any number of faults.                                  *)
(*                                                                         *)
(* The argument: nobody but the job writes a file while it runs, and it    *)
(* writes the file of its current item only, so what left the list of the  *)
(* items to do still verifies.  And a preparation without a fault of its   *)
(* own can only meet a wrong partial file that was there before: the first *)
(* rejection removes it, and what is downloaded from the start verifies.   *)
(***************************************************************************)
EXTENDS AssetDownload, SequenceTheorems, TLAPS

Fetching == {"prepare", "request", "body", "verify", "finalize", "extract", "extracting"}
Downloading == Fetching \union {"item"}

JobState == [pc : Working \union {"idle", "ready", "failed"},
             stage : {"runtime", "assets", "fallback"},
             preference : Enabled, backend : Backend, custom : BOOLEAN,
             others : Seq(Backend), todo : Seq(Item),
             restarted : BOOLEAN, retried : BOOLEAN, resume : 0 .. Limit,
             end : None .. Limit, left : None .. Limit, sane : BOOLEAN]
Files == [Item -> Content]

Model(backend) == IF backend = "gpu" THEN "gpu_model" ELSE "cpu_model"
OnDisk(i) == Verifies(disk.final[i])
PackagesOnDisk == OnDisk("onnxruntime") /\ (job.backend = "gpu" => OnDisk("directml"))

\* The list of a stage, or what is left of it when its first item is on disk.
TodoIsLeft ==
    job.pc \in Downloading =>
        \/ /\ job.stage = "runtime" /\ ~job.custom
           /\ \/ job.backend = "cpu" /\ job.todo = <<"onnxruntime">>
              \/ job.backend = "gpu" /\ job.todo = <<"onnxruntime", "directml">>
              \/ job.backend = "gpu" /\ job.todo = <<"directml">> /\ OnDisk("onnxruntime")
        \/ job.stage = "fallback" /\ ~job.custom /\ job.todo = <<"onnxruntime">>
        \/ /\ job.stage = "assets"
           /\ \/ job.todo = <<Model(job.backend), "tokenizer">>
              \/ job.todo = <<"tokenizer">> /\ OnDisk(Model(job.backend))

\* An archive is extracted, and only an asset that verifies is published.
Publishes ==
    /\ job.pc = "finalize" => Current \in Asset /\ Verifies(Part)
    /\ job.pc \in {"extract", "extracting"} => Current \in Package

\* What the stages before this one left on disk is still there.
StagesDone ==
    /\ job.pc = "initialize" => job.stage # "assets" /\ (job.custom \/ PackagesOnDisk)
    /\ job.pc \in Working /\ job.stage = "assets" => job.custom \/ PackagesOnDisk
    /\ job.pc \in Working /\ job.stage = "fallback" =>
          job.backend = "cpu" /\ OnDisk("gpu_model") /\ OnDisk("tokenizer")
    /\ job.pc = "load" =>
          /\ job.custom \/ PackagesOnDisk
          /\ \/ job.stage = "assets" /\ OnDisk(Model(job.backend)) /\ OnDisk("tokenizer")
             \/ job.stage = "fallback"

\* A download continues at the end of the partial file.
Resumes == job.pc = "request" /\ job.resume > 0 => Part.len = job.resume

\* Without a fault the body is that of the pinned file, and after a rejection
\* it is all of it.
SoundSoFar ==
    ~excused =>
        /\ job.pc # "failed"
        /\ job.pc = "body" => job.sane /\ Part.len \in 0 .. Size /\ job.end \in {None, Size}
        /\ job.restarted \/ job.retried =>
              /\ job.pc = "prepare" => Part = Absent
              /\ job.pc = "request" => job.resume = 0
              /\ job.pc = "body" => Part.sound
              /\ job.pc = "verify" => Verifies(Part)

DownloadInv ==
    /\ DownloadTypeOK
    /\ TodoIsLeft
    /\ Publishes
    /\ StagesDone
    /\ Resumes
    /\ SoundSoFar

-----------------------------------------------------------------------------
(* The current item.                                                       *)

LEMMA Types ==
  ASSUME DownloadInv
  PROVE  /\ job \in JobState
         /\ disk \in [part : Files, final : Files]
         /\ disk.part \in Files /\ disk.final \in Files
         /\ Size \in Nat \ {0} /\ Limit \in Nat /\ Limit >= Size
         /\ None = -1
  BY SizeAssumption, LimitAssumption DEF DownloadInv, DownloadTypeOK, JobState, Files, None

\* What the lists of items can be while one of them is fetched.
LEMMA CurrentItem ==
  ASSUME DownloadInv, job.pc \in Downloading
  PROVE  /\ Current \in Item
         /\ Part \in Content
         /\ Tail(job.todo) \in Seq(Item)
         /\ Current \in Package <=> job.stage # "assets"
         /\ Current \in Asset <=> job.stage = "assets"
         /\ job.todo = <<"directml">> => Current = "directml"
         /\ job.todo = <<"tokenizer">> => Current = "tokenizer"
         /\ Tail(job.todo) = <<>> =>
               \/ job.stage = "runtime" /\ job.backend = "cpu" /\ Current = "onnxruntime"
               \/ job.stage = "runtime" /\ job.backend = "gpu" /\ Current = "directml"
                    /\ OnDisk("onnxruntime")
               \/ job.stage = "fallback" /\ Current = "onnxruntime"
               \/ job.stage = "assets" /\ Current = "tokenizer" /\ OnDisk(Model(job.backend))
         /\ Tail(job.todo) # <<>> =>
               \/ job.stage = "runtime" /\ job.backend = "gpu" /\ Current = "onnxruntime"
                    /\ Tail(job.todo) = <<"directml">>
               \/ job.stage = "assets" /\ Current = Model(job.backend)
                    /\ Tail(job.todo) = <<"tokenizer">>
<1>1. ASSUME NEW a \in Item
      PROVE  Head(<<a>>) = a /\ Tail(<<a>>) = <<>> /\ Tail(<<a>>) \in Seq(Item)
  BY EmptySeq
<1>2. ASSUME NEW a \in Item, NEW b \in Item
      PROVE  /\ Head(<<a, b>>) = a
             /\ Tail(<<a, b>>) = <<b>> /\ Tail(<<a, b>>) # <<>> /\ Tail(<<a, b>>) \in Seq(Item)
  OBVIOUS
<1>3. /\ Model(job.backend) \in {"gpu_model", "cpu_model"}
      /\ "onnxruntime" \in Item /\ "directml" \in Item /\ "tokenizer" \in Item
      /\ Model(job.backend) \in Item
  BY DEF Model, Item, Package, Asset
<1>4. \A a \in Item : job.todo = <<a>> =>
         Current = a /\ Tail(job.todo) = <<>> /\ Tail(job.todo) \in Seq(Item)
  BY <1>1 DEF Current
<1>5. \A a, b \in Item : job.todo = <<a, b>> =>
         /\ Current = a
         /\ Tail(job.todo) = <<b>> /\ Tail(job.todo) # <<>> /\ Tail(job.todo) \in Seq(Item)
  BY <1>2 DEF Current
<1>6. /\ Current \in Item
      /\ Tail(job.todo) \in Seq(Item)
      /\ Current \in Package <=> job.stage # "assets"
      /\ Current \in Asset <=> job.stage = "assets"
      /\ job.todo = <<"directml">> => Current = "directml"
      /\ job.todo = <<"tokenizer">> => Current = "tokenizer"
  BY <1>3, <1>4, <1>5 DEF DownloadInv, TodoIsLeft, Package, Asset, Item
<1>7. Part \in Content
  BY <1>6, Types DEF DownloadInv, Part, Files
<1>8. CASE job.stage = "runtime"
  BY <1>3, <1>4, <1>5, <1>6, <1>7, <1>8 DEF DownloadInv, TodoIsLeft
<1>9. CASE job.stage = "fallback"
  BY <1>3, <1>4, <1>5, <1>6, <1>7, <1>9 DEF DownloadInv, TodoIsLeft
<1>10. CASE job.stage = "assets"
  BY <1>3, <1>4, <1>5, <1>6, <1>7, <1>10 DEF DownloadInv, TodoIsLeft
<1>11. QED
  BY <1>8, <1>9, <1>10, Types DEF DownloadInv, JobState

-----------------------------------------------------------------------------
(* The three ways in which a step of the download goes on.                 *)

\* The job stays at its item, and writes no other.
LEMMA SameItemKeeps ==
  ASSUME DownloadInv, job.pc \in Downloading,
         job' \in JobState, job'.pc \in Downloading,
         UNCHANGED <<job.stage, job.backend, job.custom, job.todo, starts>>,
         disk' \in [part : Files, final : Files],
         \A i \in Item \ {Current} : disk'.final[i] = disk.final[i],
         faults' \in 0 .. MaxFaults, excused' \in BOOLEAN,
         Publishes', Resumes', SoundSoFar'
  PROVE  DownloadInv'
<1>1. DownloadTypeOK'
  BY DEF DownloadInv, DownloadTypeOK, JobState, Files
<1>2. \A i \in Item \ {Current} : OnDisk(i)' = OnDisk(i)
  BY DEF OnDisk
<1>3. TodoIsLeft'
  BY <1>2, CurrentItem, Types
     DEF DownloadInv, TodoIsLeft, Model, Item, Package, Asset, JobState
<1>4. job.stage = "assets" => PackagesOnDisk' = PackagesOnDisk
  BY <1>2, CurrentItem DEF PackagesOnDisk, Item, Package, Asset
<1>5. job.stage = "fallback" => /\ OnDisk("gpu_model")' = OnDisk("gpu_model")
                                /\ OnDisk("tokenizer")' = OnDisk("tokenizer")
  BY <1>2, CurrentItem DEF Item, Package, Asset
<1>6. StagesDone'
  BY <1>4, <1>5 DEF DownloadInv, StagesDone, Downloading, Fetching, Working
<1>7. QED
  BY <1>1, <1>3, <1>6 DEF DownloadInv

\* The item is on disk: the next one, or the end of the stage.
LEMMA AdvancedKeeps ==
  ASSUME DownloadInv, job.pc \in Downloading, job' = Advanced,
         disk' \in [part : Files, final : Files],
         \A i \in Item \ {Current} : disk'.final[i] = disk.final[i],
         Verifies(disk'.final[Current]),
         UNCHANGED <<starts, faults, excused>>
  PROVE  DownloadInv'
<1>1. /\ job' \in JobState
      /\ UNCHANGED <<job.stage, job.backend, job.custom>>
      /\ job'.todo = Tail(job.todo)
      /\ job'.pc = IF job'.todo # <<>> THEN "item"
                   ELSE IF job.stage = "assets" THEN "load" ELSE "initialize"
  BY CurrentItem, Types DEF Advanced, JobState, Working
<1>2. DownloadTypeOK'
  BY <1>1 DEF DownloadInv, DownloadTypeOK, JobState, Files
<1>3. /\ \A i \in Item \ {Current} : OnDisk(i)' = OnDisk(i)
      /\ \A i \in Item : i = Current => OnDisk(i)'
  BY DEF OnDisk
<1>4. TodoIsLeft'
  BY <1>1, <1>3, CurrentItem, Types
     DEF DownloadInv, TodoIsLeft, Model, Downloading, Fetching, JobState
<1>5. job.stage = "assets" => PackagesOnDisk' = PackagesOnDisk
  BY <1>1, <1>3, CurrentItem DEF PackagesOnDisk, Item, Package, Asset
<1>6. job.stage = "fallback" => /\ OnDisk("gpu_model")' = OnDisk("gpu_model")
                                /\ OnDisk("tokenizer")' = OnDisk("tokenizer")
  BY <1>3, CurrentItem DEF Item, Package, Asset
<1>7. job'.pc = "initialize" => job'.stage # "assets" /\ PackagesOnDisk'
  BY <1>1, <1>3, CurrentItem, Types
     DEF DownloadInv, StagesDone, PackagesOnDisk, Downloading, Fetching, Working, Item,
         Package, JobState
<1>8. job'.pc = "load" =>
         job'.stage = "assets" /\ OnDisk(Model(job.backend))' /\ OnDisk("tokenizer")'
  BY <1>1, <1>3, CurrentItem DEF Model, Item, Asset
<1>9. StagesDone'
  BY <1>1, <1>5, <1>6, <1>7, <1>8 DEF DownloadInv, StagesDone, Downloading, Fetching, Working
<1>10. Publishes' /\ Resumes' /\ SoundSoFar'
  BY <1>1 DEF Publishes, Resumes, SoundSoFar
<1>11. QED
  BY <1>2, <1>4, <1>9, <1>10 DEF DownloadInv

LEMMA PackageList ==
  ASSUME NEW backend \in Backend
  PROVE  Packages(backend) \in Seq(Item)
<1>1. "onnxruntime" \in Item /\ "directml" \in Item
  BY DEF Item, Package
<1>2. <<"onnxruntime", "directml">> \in Seq(Item) /\ <<"onnxruntime">> \in Seq(Item)
  BY <1>1
<1>3. QED
  BY <1>2 DEF Packages

\* The job starts with the list of the packages of a backend.
LEMMA CandidateKeeps ==
  ASSUME DownloadInv, job' \in JobState, job'.pc = "item", job'.stage = "runtime",
         ~job'.custom, job'.todo = Packages(job'.backend),
         disk' \in [part : Files, final : Files],
         starts' \in 0 .. MaxStarts, faults' \in 0 .. MaxFaults, excused' \in BOOLEAN
  PROVE  DownloadInv'
<1>1. DownloadTypeOK'
  BY DEF DownloadTypeOK, JobState, Files
<1>2. job'.backend \in {"cpu", "gpu"}
  BY DEF JobState, Backend
<1>3. TodoIsLeft'
  BY <1>2 DEF TodoIsLeft, Packages
<1>4. StagesDone' /\ Publishes' /\ Resumes' /\ SoundSoFar'
  BY DEF StagesDone, Publishes, Resumes, SoundSoFar
<1>5. QED
  BY <1>1, <1>3, <1>4 DEF DownloadInv

\* The item fails, in a preparation that is excused: the next candidate, or
\* the end of the job.
LEMMA FailedKeeps ==
  ASSUME DownloadInv, job.pc \in Downloading, job' = Failed,
         disk' \in [part : Files, final : Files], disk'.final = disk.final,
         UNCHANGED starts, faults' \in 0 .. MaxFaults, excused' = TRUE
  PROVE  DownloadInv'
<1>1. CASE job.stage = "runtime" /\ Current \in Package /\ job.others # <<>>
  <2>1. Head(job.others) \in Backend /\ Tail(job.others) \in Seq(Backend)
    BY <1>1, HeadTailProperties, Types DEF JobState
  <2>2. PICK b \in Backend, t \in Seq(Item), o \in Seq(Backend) :
           /\ t = Packages(b)
           /\ job' = [job EXCEPT !.pc = "item", !.backend = b, !.todo = t, !.others = o]
    BY <1>1, <2>1, PackageList DEF Failed
  <2>3. /\ job' \in JobState
        /\ job'.pc = "item" /\ job'.backend = b /\ job'.todo = t
        /\ job'.stage = job.stage /\ job'.custom = job.custom
    <3>1. job \in JobState
      BY Types
    <3>2. job' \in JobState
      BY <2>2, <3>1 DEF JobState, Working
    <3>3. job'.todo = t /\ job'.pc = "item" /\ job'.backend = b
      BY <2>2, <3>1 DEF JobState
    <3>4. job'.stage = job.stage /\ job'.custom = job.custom
      BY <2>2, <3>1 DEF JobState
    <3>5. QED
      BY <3>2, <3>3, <3>4
  <2>4. ~job'.custom /\ starts' \in 0 .. MaxStarts
    BY <1>1, <2>3 DEF DownloadInv, TodoIsLeft, DownloadTypeOK
  <2>5. QED
    BY <1>1, <2>2, <2>3, <2>4, CandidateKeeps
<1>2. CASE ~(job.stage = "runtime" /\ Current \in Package /\ job.others # <<>>)
  <2>1. job' = [job EXCEPT !.pc = "failed"]
    BY <1>2 DEF Failed
  <2>2. job' \in JobState /\ job'.pc = "failed"
    BY <2>1, Types DEF JobState
  <2>3. DownloadTypeOK'
    BY <2>2 DEF DownloadInv, DownloadTypeOK, JobState, Files
  <2>4. TodoIsLeft' /\ StagesDone' /\ Publishes' /\ Resumes' /\ SoundSoFar'
    BY <2>2 DEF TodoIsLeft, StagesDone, Publishes, Resumes, SoundSoFar, Downloading, Fetching,
                Working
  <2>5. QED
    BY <2>3, <2>4 DEF DownloadInv
<1>3. QED
  BY <1>1, <1>2

-----------------------------------------------------------------------------
(* Files and faults.                                                       *)

LEMMA Contents ==
  ASSUME DownloadInv
  PROVE  Absent \in Content /\ Pinned \in Content /\ Torn \in Content
  BY Types DEF Absent, Pinned, Torn, Content

\* A partial file is written, or removed.
LEMMA PartIsSet ==
  ASSUME DownloadInv, job.pc \in Downloading, NEW file \in Content,
         disk' = SetPart(file), job'.todo = job.todo
  PROVE  /\ disk' \in [part : Files, final : Files]
         /\ disk'.final = disk.final
         /\ Current' = Current /\ Part' = file
<1>1. disk \in [part : Files, final : Files] /\ Current \in Item
  BY Types, CurrentItem
<1>2. disk' = [disk EXCEPT !.part = [disk.part EXCEPT ![Current] = file]]
  BY <1>1 DEF SetPart
<1>3. [disk.part EXCEPT ![Current] = file] \in Files
  BY <1>1 DEF Files
<1>4. QED
  BY <1>1, <1>2, <1>3 DEF Part, Current, Files

LEMMA RemovedKeeps ==
  ASSUME DownloadInv, job.pc \in Downloading, disk' = Removed
  PROVE  disk' \in [part : Files, final : Files] /\ disk'.final = disk.final
<1>1. disk \in [part : Files, final : Files] /\ Current \in Item
  BY Types, CurrentItem
<1>2. disk' = [disk EXCEPT !.part = [disk.part EXCEPT ![Current] = Absent]]
  BY <1>1 DEF SetPart, Removed
<1>3. [disk.part EXCEPT ![Current] = Absent] \in Files
  BY <1>1, Contents DEF Files
<1>4. QED
  BY <1>1, <1>2, <1>3

LEMMA PartIsKept ==
  ASSUME DownloadInv, UNCHANGED disk, job'.todo = job.todo
  PROVE  /\ disk' \in [part : Files, final : Files]
         /\ disk'.final = disk.final
         /\ Current' = Current /\ Part' = Part
  BY Types DEF Part, Current

LEMMA FaultsCounted ==
  ASSUME DownloadInv, NEW well \in BOOLEAN, Behaves(well)
  PROVE  /\ faults' \in 0 .. MaxFaults /\ excused' \in BOOLEAN
         /\ ~excused' => well /\ ~excused
<1>1. faults \in 0 .. MaxFaults /\ excused \in BOOLEAN
  BY DEF DownloadInv, DownloadTypeOK
<1>2. CASE (well \/ excused) /\ UNCHANGED <<faults, excused>>
  BY <1>1, <1>2
<1>3. CASE faults < MaxFaults /\ faults' = faults + 1 /\ excused' = TRUE
  <2>1. faults' \in 0 .. MaxFaults
    BY <1>1, <1>3, MaxFaultsAssumption
  <2>2. QED
    BY <1>3, <2>1
<1>4. QED
  BY <1>2, <1>3 DEF Behaves

LEMMA NoFault ==
  ASSUME DownloadInv, UNCHANGED <<faults, excused>>
  PROVE  faults' \in 0 .. MaxFaults /\ excused' \in BOOLEAN
  BY DEF DownloadInv, DownloadTypeOK

-----------------------------------------------------------------------------
(* Every action keeps the invariant.                                       *)

LEMMA KeepItemKeeps ==
  ASSUME DownloadInv, KeepItem, UNCHANGED starts
  PROVE  DownloadInv'
<1>1. job.pc \in Downloading
  BY DEF KeepItem, Downloading
<1>2. Pruned \in [part : Files, final : Files] /\ Pruned.final = disk.final
  BY Types, Contents DEF Pruned, Files
<1>3. disk' \in [part : Files, final : Files] /\ disk'.final = disk.final
  BY <1>2, Types DEF KeepItem
<1>4. QED
  BY <1>1, <1>3, AdvancedKeeps DEF KeepItem

LEMMA FetchKeeps ==
  ASSUME DownloadInv, FetchPackage \/ FetchAsset, UNCHANGED starts
  PROVE  DownloadInv'
<1>1. /\ job.pc \in Downloading
      /\ job' = Fetched
      /\ UNCHANGED <<faults, excused>>
  BY DEF FetchPackage, FetchAsset, Downloading
<1>2. /\ job' \in JobState /\ job'.pc = "prepare" /\ ~job'.restarted /\ ~job'.retried
      /\ UNCHANGED <<job.stage, job.backend, job.custom, job.todo>>
  BY <1>1, Types DEF Fetched, JobState, Working
<1>3. /\ disk' \in [part : Files, final : Files]
      /\ \A i \in Item \ {Current} : disk'.final[i] = disk.final[i]
  <2>1. CASE FetchPackage
    BY <2>1, Types DEF FetchPackage
  <2>2. CASE FetchAsset
    <3>1. disk' = [disk EXCEPT !.final = [disk.final EXCEPT ![Current] = Absent]]
      BY <1>1, <2>2, Types, CurrentItem DEF FetchAsset
    <3>2. [disk.final EXCEPT ![Current] = Absent] \in Files
      BY Types, Contents DEF Files
    <3>3. QED
      BY <1>1, <3>1, <3>2, Types, CurrentItem DEF Files
  <2>3. QED
    BY <2>1, <2>2
<1>4. Publishes' /\ Resumes' /\ SoundSoFar'
  BY <1>2 DEF Publishes, Resumes, SoundSoFar
<1>5. job'.pc \in Downloading
  BY <1>2 DEF Downloading, Fetching
<1>6. QED
  BY <1>1, <1>2, <1>3, <1>4, <1>5, NoFault, SameItemKeeps

LEMMA PrepareArchiveKeeps ==
  ASSUME DownloadInv, PrepareArchive, UNCHANGED starts
  PROVE  DownloadInv'
<1>1. /\ job.pc \in Downloading /\ job.pc = "prepare"
      /\ UNCHANGED <<faults, excused>>
  BY DEF PrepareArchive, Downloading, Fetching
<1>2. Part \in Content /\ Part.len <= Limit
  BY <1>1, CurrentItem, Types DEF Content, Absent
<1>3. /\ job' = RequestFrom(ResumeFrom(Part))
      /\ UNCHANGED disk
  BY <1>2, Types DEF PrepareArchive, Content, Absent
<1>4. ResumeFrom(Part) \in 0 .. Limit /\ (ResumeFrom(Part) > 0 => Part.len = ResumeFrom(Part))
  BY <1>2, Types DEF ResumeFrom, Exists, Content
<1>5. /\ job' \in JobState /\ job'.pc = "request" /\ job'.resume = ResumeFrom(Part)
      /\ UNCHANGED <<job.stage, job.backend, job.custom, job.todo, job.restarted, job.retried>>
  BY <1>3, <1>4, Types DEF RequestFrom, JobState, Working
<1>6. Part' = Part
  BY <1>3, <1>5, PartIsKept
<1>7. Publishes' /\ Resumes'
  BY <1>4, <1>5, <1>6 DEF Publishes, Resumes
<1>8. SoundSoFar'
  BY <1>1, <1>4, <1>5 DEF DownloadInv, SoundSoFar, ResumeFrom, Exists
<1>9. QED
  BY <1>1, <1>3, <1>5, <1>7, <1>8, Types, NoFault, SameItemKeeps DEF Downloading, Fetching

LEMMA PrepareAssetKeeps ==
  ASSUME DownloadInv, PrepareAsset, UNCHANGED starts
  PROVE  DownloadInv'
<1>1. /\ job.pc \in Downloading /\ job.pc = "prepare" /\ Current \in Asset
      /\ UNCHANGED <<faults, excused>>
      /\ Part \in Content
  BY CurrentItem DEF PrepareAsset, Downloading, Fetching
<1>2. CASE /\ Part.len < Size
           /\ job' = RequestFrom(ResumeFrom(Part))
           /\ UNCHANGED disk
  <2>1. ResumeFrom(Part) \in 0 .. Limit /\ (ResumeFrom(Part) > 0 => Part.len = ResumeFrom(Part))
    BY <1>1, Types DEF ResumeFrom, Exists, Content
  <2>2. /\ job' \in JobState /\ job'.pc = "request" /\ job'.resume = ResumeFrom(Part)
        /\ UNCHANGED <<job.stage, job.backend, job.custom, job.todo, job.restarted, job.retried>>
    BY <1>2, <2>1, Types DEF RequestFrom, JobState, Working
  <2>3. Part' = Part
    BY <1>2, <2>2, PartIsKept
  <2>4. Publishes' /\ Resumes'
    BY <2>1, <2>2, <2>3 DEF Publishes, Resumes
  <2>5. SoundSoFar'
    BY <1>1, <2>1, <2>2 DEF DownloadInv, SoundSoFar, ResumeFrom, Exists
  <2>6. QED
    BY <1>1, <1>2, <2>2, <2>4, <2>5, Types, NoFault, SameItemKeeps DEF Downloading, Fetching
<1>3. CASE /\ Part.len >= Size /\ Verifies(Part)
           /\ job' = [job EXCEPT !.pc = "finalize"]
           /\ UNCHANGED disk
  <2>1. /\ job' \in JobState /\ job'.pc = "finalize"
        /\ UNCHANGED <<job.stage, job.backend, job.custom, job.todo, job.restarted, job.retried>>
    BY <1>3, Types DEF JobState, Working
  <2>2. Part' = Part /\ Current' = Current
    BY <1>3, <2>1, PartIsKept
  <2>3. Publishes' /\ Resumes' /\ SoundSoFar'
    BY <1>1, <1>3, <2>1, <2>2 DEF Publishes, Resumes, SoundSoFar, Verifies
  <2>4. QED
    BY <1>1, <1>3, <2>1, <2>3, Types, NoFault, SameItemKeeps DEF Downloading, Fetching
<1>4. CASE job' = RequestFrom(0) /\ disk' = Removed
  <2>1. /\ job' \in JobState /\ job'.pc = "request" /\ job'.resume = 0
        /\ UNCHANGED <<job.stage, job.backend, job.custom, job.todo, job.restarted, job.retried>>
    <3>1. job' = [job EXCEPT !.pc = "request", !.resume = 0]
      BY <1>4 DEF RequestFrom
    <3>2. job \in JobState /\ 0 \in 0 .. Limit
      BY Types
    <3>3. QED
      BY <3>1, <3>2 DEF JobState, Working
  <2>2. disk' \in [part : Files, final : Files] /\ disk'.final = disk.final
    BY <1>1, <1>4, <2>1, PartIsSet, Contents DEF Removed
  <2>3. Publishes' /\ Resumes' /\ SoundSoFar'
    BY <2>1 DEF Publishes, Resumes, SoundSoFar
  <2>4. QED
    BY <1>1, <2>1, <2>2, <2>3, NoFault, SameItemKeeps DEF Downloading, Fetching
<1>5. QED
  BY <1>2, <1>3, <1>4 DEF PrepareAsset

LEMMA RequestFailsKeeps ==
  ASSUME DownloadInv, RequestFails, UNCHANGED starts
  PROVE  DownloadInv'
<1>1. faults' \in 0 .. MaxFaults /\ excused' = TRUE
  BY FaultsCounted DEF RequestFails
<1>2. QED
  BY <1>1, Types, FailedKeeps DEF RequestFails, Downloading, Fetching

LEMMA RangeRejectedKeeps ==
  ASSUME DownloadInv, UNCHANGED starts, NEW kind \in {Package, Asset}, NEW whole,
         whole = (IF kind = Asset THEN "finalize" ELSE "verify"),
         RangeRejected(kind, whole)
  PROVE  DownloadInv'
<1>1. /\ job.pc \in Downloading /\ job.pc = "request" /\ Current \in kind
      /\ faults' \in 0 .. MaxFaults /\ excused' \in BOOLEAN
      /\ ~excused' => job.resume >= Size /\ ~excused
  <2>1. Behaves(job.resume >= Size) /\ (job.resume >= Size) \in BOOLEAN
    BY DEF RangeRejected
  <2>2. /\ faults' \in 0 .. MaxFaults /\ excused' \in BOOLEAN
        /\ ~excused' => job.resume >= Size /\ ~excused
    BY <2>1, FaultsCounted
  <2>3. QED
    BY <2>2 DEF RangeRejected, Downloading, Fetching
<1>2. CASE /\ Verifies(Part)
           /\ job' = [job EXCEPT !.pc = whole]
           /\ UNCHANGED disk
  <2>1. whole \in {"finalize", "verify"} /\ (whole = "finalize" => Current \in Asset)
    BY <1>1
  <2>2. /\ job' \in JobState /\ job'.pc = whole
        /\ UNCHANGED <<job.stage, job.backend, job.custom, job.todo, job.restarted, job.retried>>
    BY <1>2, <2>1, Types DEF JobState, Working
  <2>3. Part' = Part /\ Current' = Current
    BY <1>2, <2>2, PartIsKept
  <2>4. Publishes' /\ Resumes' /\ SoundSoFar'
    BY <1>2, <2>1, <2>2, <2>3 DEF Publishes, Resumes, SoundSoFar, Verifies
  <2>5. QED
    BY <1>1, <1>2, <2>1, <2>2, <2>4, Types, SameItemKeeps DEF Downloading, Fetching
<1>3. CASE job.retried /\ disk' = Removed /\ job' = Failed
  <2>1. excused' = TRUE
    BY <1>1, <1>3, Types DEF DownloadInv, SoundSoFar
  <2>2. disk' \in [part : Files, final : Files] /\ disk'.final = disk.final
    BY <1>1, <1>3, RemovedKeeps
  <2>3. QED
    BY <1>1, <1>3, <2>1, <2>2, FailedKeeps
<1>4. CASE disk' = Removed /\ job' = [job EXCEPT !.retried = TRUE, !.pc = "prepare"]
  <2>1. /\ job' \in JobState /\ job'.pc = "prepare"
        /\ UNCHANGED <<job.stage, job.backend, job.custom, job.todo>>
    BY <1>4, Types DEF JobState, Working
  <2>2. Part' = Absent /\ disk' \in [part : Files, final : Files] /\ disk'.final = disk.final
    BY <1>1, <1>4, <2>1, PartIsSet, Contents DEF Removed
  <2>3. Publishes' /\ Resumes' /\ SoundSoFar'
    BY <2>1, <2>2 DEF Publishes, Resumes, SoundSoFar
  <2>4. QED
    BY <1>1, <2>1, <2>2, <2>3, SameItemKeeps DEF Downloading, Fetching
<1>5. QED
  BY <1>2, <1>3, <1>4 DEF RangeRejected

\* A sane answer is accepted, and ends where the pinned file ends.
LEMMA SaneAnswer ==
  ASSUME DownloadInv, job.pc = "request",
         NEW answer, answer \in HonestAnswers(job.resume)
  PROVE  /\ PlanOK(answer) /\ PlanEnd(answer) \in {None, Size}
         /\ answer.status = "partial" => job.resume > 0 /\ job.resume < Size
         /\ answer.status \in {"full", "partial"}
<1>1. /\ Current \in Item /\ Asset \cap Package = {} /\ job.resume \in 0 .. Limit
      /\ MaxBytes \in {Size, Limit} /\ Accepts(Size)
  BY CurrentItem, Types DEF Downloading, Fetching, JobState, MaxBytes, Accepts, Asset, Package
<1>2. CASE answer \in {[status |-> "full", length |-> n] : n \in {None, Size}}
  <2>1. /\ answer.status = "full" /\ answer.length \in {None, Size}
    BY <1>2
  <2>2. QED
    BY <1>1, <2>1 DEF PlanOK, PlanEnd, FullPlanOK
<1>3. CASE /\ job.resume \in 1 .. Size - 1
           /\ answer \in {[status |-> "partial", length |-> n, start |-> job.resume,
                           end |-> Size - 1, total |-> Size] : n \in {None, Size - job.resume}}
  <2>1. /\ answer.status = "partial" /\ answer.length \in {None, Size - job.resume}
        /\ answer.start = job.resume /\ answer.end = Size - 1 /\ answer.total = Size
    BY <1>3
  <2>2. QED
    BY <1>1, <1>3, <2>1, Types DEF PlanOK, PlanEnd, PartialPlanOK, RangeOK
<1>4. QED
  BY <1>2, <1>3 DEF HonestAnswers

LEMMA RespondKeeps ==
  ASSUME DownloadInv, UNCHANGED starts, NEW answer \in Full \union Partial, NEW sane \in BOOLEAN,
         Respond(answer, sane)
  PROVE  DownloadInv'
<1>1. /\ job.pc \in Downloading /\ job.pc = "request"
      /\ faults' \in 0 .. MaxFaults /\ excused' \in BOOLEAN
      /\ ~excused' => ~excused /\ sane /\ answer \in HonestAnswers(job.resume)
  BY FaultsCounted DEF Respond, Downloading, Fetching
<1>2. CASE /\ ~PlanOK(answer) \/ (answer.status = "partial" /\ Part.len # job.resume)
           /\ disk' = Removed /\ job' = Failed
  <2>1. excused' = TRUE
    BY <1>1, <1>2, SaneAnswer DEF DownloadInv, Resumes
  <2>2. QED
    BY <1>1, <1>2, <2>1, RemovedKeeps, FailedKeeps
<1>3. CASE /\ PlanOK(answer) /\ (answer.status = "partial" => Part.len = job.resume)
           /\ disk' = IF answer.status = "partial" THEN disk
                      ELSE SetPart([len |-> 0, sound |-> TRUE])
           /\ job' = [job EXCEPT !.pc = "body", !.end = PlanEnd(answer),
                                 !.left = answer.length, !.sane = sane]
  <2>1. PlanEnd(answer) \in None .. Limit /\ answer.length \in None .. Limit
    BY <1>3, Types DEF PlanEnd, PlanOK, PartialPlanOK, Full, Partial
  <2>2. /\ job' \in JobState /\ job'.pc = "body"
        /\ job'.end = PlanEnd(answer) /\ job'.sane = sane
        /\ UNCHANGED <<job.stage, job.backend, job.custom, job.todo, job.restarted, job.retried>>
    <3>1. job \in JobState
      BY Types
    <3>2. PICK end \in None .. Limit, left \in None .. Limit :
             /\ end = PlanEnd(answer)
             /\ job' = [job EXCEPT !.pc = "body", !.end = end, !.left = left, !.sane = sane]
      BY <1>3, <2>1
    <3>3. job' \in JobState
      BY <3>1, <3>2 DEF JobState, Working
    <3>4. job'.pc = "body" /\ job'.end = end /\ job'.sane = sane
      BY <3>1, <3>2 DEF JobState
    <3>5. UNCHANGED <<job.stage, job.backend, job.custom, job.todo, job.restarted, job.retried>>
      BY <3>1, <3>2 DEF JobState
    <3>6. QED
      BY <3>2, <3>3, <3>4, <3>5
  <2>3. /\ disk' \in [part : Files, final : Files] /\ disk'.final = disk.final
        /\ IF answer.status = "partial" THEN Part' = Part
           ELSE Part' = [len |-> 0, sound |-> TRUE]
    <3>1. CASE answer.status = "partial"
      BY <1>3, <2>2, <3>1, PartIsKept
    <3>2. CASE answer.status # "partial"
      <4>1. [len |-> 0, sound |-> TRUE] \in Content
        BY Types DEF Content
      <4>2. QED
        BY <1>1, <1>3, <2>2, <3>2, <4>1, PartIsSet
    <3>3. QED
      BY <3>1, <3>2
  <2>4. Publishes' /\ Resumes'
    BY <2>2 DEF Publishes, Resumes
  <2>5. SoundSoFar'
    <3>1. SUFFICES ASSUME ~excused'
                   PROVE  /\ job'.sane /\ Part'.len \in 0 .. Size /\ job'.end \in {None, Size}
                          /\ job'.restarted \/ job'.retried => Part'.sound
      BY <2>2 DEF SoundSoFar
    <3>2. /\ answer.status = "partial" => job.resume > 0 /\ job.resume < Size
          /\ PlanEnd(answer) \in {None, Size}
      BY <1>1, <3>1, SaneAnswer
    <3>3. job'.restarted \/ job'.retried => job.resume = 0
      BY <1>1, <2>2, <3>1 DEF DownloadInv, SoundSoFar
    <3>4. CASE answer.status = "partial"
      <4>1. Part'.len = job.resume
        BY <1>3, <2>3, <3>4
      <4>2. job.resume \in 1 .. Size - 1
        BY <3>2, <3>4, Types DEF JobState
      <4>3. QED
        BY <1>1, <2>2, <3>1, <3>2, <3>3, <4>1, <4>2, Types
    <3>5. CASE answer.status # "partial"
      BY <1>1, <2>2, <2>3, <3>1, <3>2, <3>5, Types
    <3>6. QED
      BY <3>4, <3>5
  <2>6. QED
    BY <1>1, <2>2, <2>3, <2>4, <2>5, SameItemKeeps DEF Downloading, Fetching
<1>4. QED
  BY <1>2, <1>3 DEF Respond

LEMMA ReceiveChunkKeeps ==
  ASSUME DownloadInv, UNCHANGED starts, NEW sound \in BOOLEAN, ReceiveChunk(sound)
  PROVE  DownloadInv'
<1>1. /\ job.pc \in Downloading /\ job.pc = "body"
      /\ UNCHANGED <<faults, excused>>
      /\ job.left # 0 /\ (job.sane => sound /\ Part.len < Size)
      /\ Part \in Content
      /\ MaxBytes \in {Size, Limit}
  BY CurrentItem DEF ReceiveChunk, Downloading, Fetching, MaxBytes
<1>2. CASE Part.len = MaxBytes /\ disk' = Removed /\ job' = Failed
  <2>1. excused = TRUE
    BY <1>1, <1>2, Types DEF DownloadInv, DownloadTypeOK, SoundSoFar
  <2>2. QED
    BY <1>1, <1>2, <2>1, NoFault, RemovedKeeps, FailedKeeps
<1>3. CASE /\ Part.len < MaxBytes
           /\ disk' = SetPart([len |-> Part.len + 1,
                               sound |-> Part.sound /\ sound /\ Part.len < Size])
           /\ job' = [job EXCEPT !.left = IF @ = None THEN None ELSE @ - 1]
  <2>1. /\ job' \in JobState
        /\ UNCHANGED <<job.pc, job.stage, job.backend, job.custom, job.todo, job.restarted,
                       job.retried, job.end, job.sane>>
    <3>1. job \in JobState /\ (IF job.left = None THEN None ELSE job.left - 1) \in None .. Limit
      BY <1>1, Types DEF JobState
    <3>2. QED
      BY <1>3, <3>1 DEF JobState
  <2>2. [len |-> Part.len + 1, sound |-> Part.sound /\ sound /\ Part.len < Size] \in Content
    BY <1>1, <1>3, Types DEF Content, Absent
  <2>3. /\ disk' \in [part : Files, final : Files] /\ disk'.final = disk.final
        /\ Part' = [len |-> Part.len + 1, sound |-> Part.sound /\ sound /\ Part.len < Size]
    BY <1>1, <1>3, <2>1, <2>2, PartIsSet
  <2>4. Publishes' /\ Resumes'
    BY <1>1, <2>1 DEF Publishes, Resumes
  <2>5. SoundSoFar'
    <3>1. SUFFICES ASSUME ~excused
                   PROVE  /\ job.sane /\ Part'.len \in 0 .. Size /\ job.end \in {None, Size}
                          /\ job.restarted \/ job.retried => Part'.sound
      BY <1>1, <2>1 DEF SoundSoFar
    <3>2. /\ job.sane /\ Part.len \in 0 .. Size /\ job.end \in {None, Size}
          /\ job.restarted \/ job.retried => Part.sound
      BY <1>1, <3>1 DEF DownloadInv, SoundSoFar
    <3>3. Part'.len \in 0 .. Size
      BY <1>1, <2>3, <3>2, Types
    <3>4. Part.sound => Part'.sound
      BY <1>1, <2>3, <3>2
    <3>5. QED
      BY <3>2, <3>3, <3>4
  <2>6. QED
    BY <1>1, <2>1, <2>3, <2>4, <2>5, NoFault, SameItemKeeps
<1>4. QED
  BY <1>2, <1>3 DEF ReceiveChunk

LEMMA BodyFailsKeeps ==
  ASSUME DownloadInv, UNCHANGED starts, BodyFails
  PROVE  DownloadInv'
<1>1. excused = TRUE
  BY DEF BodyFails, DownloadInv, DownloadTypeOK, SoundSoFar
<1>2. QED
  BY <1>1, Types, NoFault, FailedKeeps DEF BodyFails, Downloading, Fetching

LEMMA BodyEndsKeeps ==
  ASSUME DownloadInv, UNCHANGED starts, BodyEnds
  PROVE  DownloadInv'
<1>1. /\ job.pc \in Downloading /\ job.pc = "body"
      /\ UNCHANGED <<faults, excused>>
      /\ job.sane => Part.len = Size
      /\ Part \in Content
  BY CurrentItem DEF BodyEnds, Downloading, Fetching
<1>2. CASE /\ job.end \notin {None, Part.len} \/ ~Accepts(Part.len)
           /\ disk' = Removed /\ job' = Failed
  <2>1. Accepts(Size)
    BY Types DEF Accepts
  <2>2. excused = TRUE
    BY <1>1, <1>2, <2>1 DEF DownloadInv, DownloadTypeOK, SoundSoFar
  <2>3. QED
    BY <1>1, <1>2, <2>2, NoFault, RemovedKeeps, FailedKeeps
<1>3. CASE job' = [job EXCEPT !.pc = "verify"] /\ UNCHANGED disk
  <2>1. /\ job' \in JobState /\ job'.pc = "verify"
        /\ UNCHANGED <<job.stage, job.backend, job.custom, job.todo, job.restarted, job.retried>>
    BY <1>3, Types DEF JobState, Working
  <2>2. Part' = Part
    BY <1>3, <2>1, PartIsKept
  <2>3. Publishes' /\ Resumes'
    BY <2>1 DEF Publishes, Resumes
  <2>4. SoundSoFar'
    <3>1. SUFFICES ASSUME ~excused, job.restarted \/ job.retried
                   PROVE  Verifies(Part)
      BY <1>1, <2>1, <2>2 DEF SoundSoFar, Verifies
    <3>2. Part.sound = TRUE /\ Part.len = Size
      BY <1>1, <3>1 DEF DownloadInv, SoundSoFar, Content, Absent
    <3>3. QED
      BY <1>1, <3>2 DEF Verifies, Pinned, Content, Absent
  <2>5. QED
    BY <1>1, <1>3, <2>1, <2>3, <2>4, Types, NoFault, SameItemKeeps DEF Downloading, Fetching
<1>4. QED
  BY <1>2, <1>3 DEF BodyEnds

LEMMA VerifyKeeps ==
  ASSUME DownloadInv, UNCHANGED starts, NEW kind \in {Package, Asset}, NEW whole,
         whole = (IF kind = Asset THEN "finalize" ELSE "extract"),
         NEW retried \in BOOLEAN, Verify(kind, whole, retried)
  PROVE  DownloadInv'
<1>1. /\ job.pc \in Downloading /\ job.pc = "verify" /\ Current \in kind
      /\ UNCHANGED <<faults, excused>>
  BY DEF Verify, Downloading, Fetching
<1>2. CASE Verifies(Part) /\ job' = [job EXCEPT !.pc = whole] /\ UNCHANGED disk
  <2>1. /\ whole \in {"finalize", "extract"} /\ (whole = "finalize" => Current \in Asset)
        /\ whole = "extract" => Current \in Package
    BY <1>1
  <2>2. /\ job' \in JobState /\ job'.pc = whole
        /\ UNCHANGED <<job.stage, job.backend, job.custom, job.todo, job.restarted, job.retried>>
    BY <1>2, <2>1, Types DEF JobState, Working
  <2>3. Part' = Part /\ Current' = Current
    BY <1>2, <2>2, PartIsKept
  <2>4. Publishes' /\ Resumes' /\ SoundSoFar'
    BY <1>2, <2>1, <2>2, <2>3 DEF Publishes, Resumes, SoundSoFar, Verifies
  <2>5. QED
    BY <1>1, <1>2, <2>1, <2>2, <2>4, Types, NoFault, SameItemKeeps DEF Downloading, Fetching
<1>3. CASE ~Verifies(Part) /\ job.restarted /\ disk' = Removed /\ job' = Failed
  <2>1. excused = TRUE
    BY <1>1, <1>3 DEF DownloadInv, DownloadTypeOK, SoundSoFar
  <2>2. QED
    BY <1>1, <1>3, <2>1, NoFault, RemovedKeeps, FailedKeeps
<1>4. CASE /\ disk' = Removed
           /\ job' = [job EXCEPT !.pc = "prepare", !.restarted = TRUE, !.retried = retried]
  <2>1. /\ job' \in JobState /\ job'.pc = "prepare"
        /\ UNCHANGED <<job.stage, job.backend, job.custom, job.todo>>
    <3>1. job \in JobState
      BY Types
    <3>2. QED
      BY <1>4, <3>1 DEF JobState, Working
  <2>2. Part' = Absent /\ disk' \in [part : Files, final : Files] /\ disk'.final = disk.final
    BY <1>1, <1>4, <2>1, PartIsSet, Contents DEF Removed
  <2>3. Publishes' /\ Resumes' /\ SoundSoFar'
    BY <2>1, <2>2 DEF Publishes, Resumes, SoundSoFar
  <2>4. QED
    BY <1>1, <2>1, <2>2, <2>3, NoFault, SameItemKeeps DEF Downloading, Fetching
<1>5. QED
  BY <1>2, <1>3, <1>4 DEF Verify

\* A final file is written, and perhaps its archive or download removed.
LEMMA FinalIsSet ==
  ASSUME DownloadInv, job.pc \in Downloading, NEW file \in Content, NEW rest \in {Part, Absent},
         disk' = [disk EXCEPT !.final[Current] = file, !.part[Current] = rest]
  PROVE  /\ disk' \in [part : Files, final : Files]
         /\ \A i \in Item \ {Current} : disk'.final[i] = disk.final[i]
         /\ disk'.final[Current] = file
<1>1. disk \in [part : Files, final : Files] /\ Current \in Item /\ rest \in Content
  BY Types, CurrentItem, Contents
<1>2. disk' = [disk EXCEPT !.final = [disk.final EXCEPT ![Current] = file],
                           !.part = [disk.part EXCEPT ![Current] = rest]]
  BY <1>1
<1>3. /\ [disk.final EXCEPT ![Current] = file] \in Files
      /\ [disk.part EXCEPT ![Current] = rest] \in Files
  BY <1>1 DEF Files
<1>4. QED
  BY <1>1, <1>2, <1>3 DEF Files

LEMMA FinalizeAssetKeeps ==
  ASSUME DownloadInv, UNCHANGED starts, FinalizeAsset
  PROVE  DownloadInv'
<1>1. /\ job.pc \in Downloading
      /\ job' = Advanced
      /\ UNCHANGED <<faults, excused>>
      /\ disk' = [disk EXCEPT !.final[Current] = Part, !.part[Current] = Absent]
      /\ Verifies(Part)
  BY DEF FinalizeAsset, DownloadInv, Publishes, Downloading, Fetching
<1>2. /\ disk' \in [part : Files, final : Files]
      /\ \A i \in Item \ {Current} : disk'.final[i] = disk.final[i]
      /\ disk'.final[Current] = Part
  BY <1>1, CurrentItem, FinalIsSet
<1>3. QED
  BY <1>1, <1>2, AdvancedKeeps

LEMMA BeginExtractionKeeps ==
  ASSUME DownloadInv, UNCHANGED starts, BeginExtraction
  PROVE  DownloadInv'
<1>1. /\ job.pc \in Downloading /\ Current \in Package
      /\ job' = [job EXCEPT !.pc = "extracting"]
      /\ UNCHANGED <<faults, excused>>
  BY DEF BeginExtraction, DownloadInv, Publishes, Downloading, Fetching
<1>2. /\ job' \in JobState /\ job'.pc = "extracting"
      /\ UNCHANGED <<job.stage, job.backend, job.custom, job.todo>>
  BY <1>1, Types DEF JobState, Working
<1>3. /\ disk' \in [part : Files, final : Files]
      /\ \A i \in Item \ {Current} : disk'.final[i] = disk.final[i]
  <2>1. disk \in [part : Files, final : Files] /\ Current \in Item
    BY <1>1, Types, CurrentItem
  <2>2. disk' = [disk EXCEPT !.final = [disk.final EXCEPT ![Current] = Torn]]
    BY <2>1 DEF BeginExtraction
  <2>3. [disk.final EXCEPT ![Current] = Torn] \in Files
    BY <2>1, Contents DEF Files
  <2>4. QED
    BY <2>1, <2>2, <2>3 DEF Files
<1>4. Current' = Current
  BY <1>2 DEF Current
<1>5. Publishes' /\ Resumes' /\ SoundSoFar'
  BY <1>1, <1>2, <1>4 DEF Publishes, Resumes, SoundSoFar
<1>6. QED
  BY <1>1, <1>2, <1>3, <1>5, NoFault, SameItemKeeps DEF Downloading, Fetching

LEMMA EndExtractionKeeps ==
  ASSUME DownloadInv, UNCHANGED starts, EndExtraction
  PROVE  DownloadInv'
<1>1. job.pc \in Downloading
  BY DEF EndExtraction, Downloading, Fetching
<1>2. CASE /\ disk' = [disk EXCEPT !.final[Current] = Pinned, !.part[Current] = Absent]
           /\ job' = [job EXCEPT !.pc = "item"]
           /\ UNCHANGED <<faults, excused>>
  <2>1. /\ disk' \in [part : Files, final : Files]
        /\ \A i \in Item \ {Current} : disk'.final[i] = disk.final[i]
    BY <1>1, <1>2, Contents, FinalIsSet
  <2>2. /\ job' \in JobState /\ job'.pc = "item"
        /\ UNCHANGED <<job.stage, job.backend, job.custom, job.todo>>
    BY <1>2, Types DEF JobState, Working
  <2>3. Publishes' /\ Resumes' /\ SoundSoFar'
    BY <2>2 DEF Publishes, Resumes, SoundSoFar
  <2>4. QED
    BY <1>1, <1>2, <2>1, <2>2, <2>3, NoFault, SameItemKeeps DEF Downloading
<1>3. CASE disk' \in {Removed, disk} /\ job' = Failed /\ Behaves(FALSE)
  <2>1. disk' \in [part : Files, final : Files] /\ disk'.final = disk.final
    BY <1>1, <1>3, Types, RemovedKeeps
  <2>2. faults' \in 0 .. MaxFaults /\ excused' = TRUE
    BY <1>3, FaultsCounted
  <2>3. QED
    BY <1>1, <1>3, <2>1, <2>2, FailedKeeps
<1>4. QED
  BY <1>2, <1>3 DEF EndExtraction

\* No preparation runs: nothing depends on what is on disk.
LEMMA AtRestKeeps ==
  ASSUME DownloadInv, job' \in JobState, job'.pc \notin Working,
         job'.pc = "failed" => excused',
         disk' \in [part : Files, final : Files],
         starts' \in 0 .. MaxStarts, faults' \in 0 .. MaxFaults, excused' \in BOOLEAN
  PROVE  DownloadInv'
<1>1. DownloadTypeOK'
  BY DEF DownloadTypeOK, JobState, Files
<1>2. TodoIsLeft' /\ Publishes' /\ StagesDone' /\ Resumes'
  BY DEF TodoIsLeft, Publishes, StagesDone, Resumes, Downloading, Fetching, Working
<1>3. SoundSoFar'
  BY DEF SoundSoFar, Working
<1>4. QED
  BY <1>1, <1>2, <1>3 DEF DownloadInv

LEMMA InitializeRuntimeKeeps ==
  ASSUME DownloadInv, UNCHANGED starts, InitializeRuntime
  PROVE  DownloadInv'
<1>1. /\ job.pc = "initialize" /\ job \in JobState
      /\ UNCHANGED disk /\ disk \in [part : Files, final : Files]
      /\ starts' \in 0 .. MaxStarts
      /\ \A i \in Item : OnDisk(i)' = OnDisk(i)
  BY Types DEF InitializeRuntime, OnDisk, DownloadInv, DownloadTypeOK
<1>2. CASE /\ job.stage = "fallback" /\ job' = [job EXCEPT !.pc = "load"]
           /\ UNCHANGED <<faults, excused>>
  <2>1. /\ job' \in JobState /\ job'.pc = "load"
        /\ UNCHANGED <<job.stage, job.backend, job.custom>>
    BY <1>1, <1>2 DEF JobState, Working
  <2>2. DownloadTypeOK'
    BY <1>1, <1>2, <2>1, NoFault DEF DownloadTypeOK, JobState, Files
  <2>3. StagesDone'
    BY <1>1, <1>2, <2>1
       DEF DownloadInv, StagesDone, PackagesOnDisk, Working, Item, Package, Asset, OnDisk
  <2>4. TodoIsLeft' /\ Publishes' /\ Resumes' /\ SoundSoFar'
    BY <2>1 DEF TodoIsLeft, Publishes, Resumes, SoundSoFar, Downloading, Fetching
  <2>5. QED
    BY <2>2, <2>3, <2>4 DEF DownloadInv
<1>3. CASE /\ job' = [job EXCEPT !.pc = "item", !.stage = "assets", !.todo = Assets(job.backend)]
           /\ UNCHANGED <<faults, excused>>
  <2>1. /\ Assets(job.backend) = <<Model(job.backend), "tokenizer">>
        /\ Assets(job.backend) \in Seq(Item)
    <3>1. Model(job.backend) \in Item /\ "tokenizer" \in Item
      BY DEF Model, Item, Asset
    <3>2. Assets(job.backend) = <<Model(job.backend), "tokenizer">>
      BY DEF Assets, Model
    <3>3. QED
      BY <3>1, <3>2
  <2>2. PICK t \in Seq(Item) : /\ t = <<Model(job.backend), "tokenizer">>
                               /\ job' = [job EXCEPT !.pc = "item", !.stage = "assets", !.todo = t]
    BY <1>3, <2>1
  <2>3. job' \in JobState
    BY <1>1, <2>2 DEF JobState, Working
  <2>4. /\ job'.pc = "item" /\ job'.stage = "assets" /\ job'.todo = t
        /\ UNCHANGED <<job.backend, job.custom>>
    BY <1>1, <2>2 DEF JobState
  <2>5. DownloadTypeOK'
    BY <1>1, <1>3, <2>3, NoFault DEF DownloadTypeOK, JobState, Files
  <2>6. TodoIsLeft'
    BY <2>2, <2>4 DEF TodoIsLeft, Model
  <2>7. StagesDone'
    BY <1>1, <2>4 DEF DownloadInv, StagesDone, PackagesOnDisk, Working, Item, Package, OnDisk
  <2>8. Publishes' /\ Resumes' /\ SoundSoFar'
    BY <2>4 DEF Publishes, Resumes, SoundSoFar
  <2>9. QED
    BY <2>5, <2>6, <2>7, <2>8 DEF DownloadInv
<1>4. CASE job' = [job EXCEPT !.pc = "failed"] /\ Behaves(FALSE)
  <2>1. faults' \in 0 .. MaxFaults /\ excused' = TRUE
    BY <1>4, FaultsCounted
  <2>2. job' \in JobState /\ job'.pc = "failed"
    BY <1>1, <1>4 DEF JobState
  <2>3. QED
    BY <1>1, <2>1, <2>2, AtRestKeeps DEF Working
<1>5. QED
  BY <1>2, <1>3, <1>4 DEF InitializeRuntime

LEMMA LoadModelKeeps ==
  ASSUME DownloadInv, UNCHANGED starts, LoadModel
  PROVE  DownloadInv'
<1>1. job' \in JobState /\ job'.pc = "ready"
  BY Types DEF LoadModel, JobState
<1>2. QED
  BY <1>1, Types, NoFault, AtRestKeeps DEF LoadModel, Working, DownloadInv, DownloadTypeOK

LEMMA LoadFailsKeeps ==
  ASSUME DownloadInv, UNCHANGED starts, LoadFails
  PROVE  DownloadInv'
<1>1. /\ job.pc = "load" /\ job \in JobState
      /\ UNCHANGED disk /\ disk \in [part : Files, final : Files]
      /\ starts' \in 0 .. MaxStarts /\ faults' \in 0 .. MaxFaults /\ excused' = TRUE
      /\ \A i \in Item : OnDisk(i)' = OnDisk(i)
  BY Types, FaultsCounted DEF LoadFails, OnDisk, DownloadInv, DownloadTypeOK
<1>2. CASE job.backend = "gpu" /\ job' = FallBack
  <2>1. /\ Packages("cpu") = <<"onnxruntime">>
        /\ Packages("cpu") \in Seq(Item)
        /\ <<>> \in Seq(Backend)
    BY PackageList, EmptySeq DEF Packages, Backend
  <2>2. PICK t \in Seq(Item), none \in Seq(Backend) :
           /\ t = <<"onnxruntime">>
           /\ job' = [job EXCEPT !.pc = IF job.custom THEN "initialize" ELSE "item",
                                 !.stage = "fallback", !.backend = "cpu", !.others = none,
                                 !.todo = t]
    BY <1>2, <2>1 DEF FallBack
  <2>3. job' \in JobState
    BY <1>1, <2>2 DEF JobState, Working, Backend
  <2>4. /\ job'.pc = (IF job.custom THEN "initialize" ELSE "item")
        /\ job'.stage = "fallback" /\ job'.backend = "cpu" /\ job'.todo = t
        /\ job'.custom = job.custom
    BY <1>1, <2>2 DEF JobState
  <2>5. DownloadTypeOK'
    BY <1>1, <2>3 DEF DownloadTypeOK, JobState, Files
  <2>6. OnDisk("gpu_model") /\ OnDisk("tokenizer")
    BY <1>1, <1>2 DEF DownloadInv, StagesDone, Model, Working
  <2>7. StagesDone'
    BY <1>1, <2>4, <2>6 DEF StagesDone, Working, Item, Asset
  <2>8. TodoIsLeft'
    BY <2>2, <2>4 DEF TodoIsLeft, Downloading, Fetching
  <2>9. Publishes' /\ Resumes' /\ SoundSoFar'
    BY <1>1, <2>4 DEF Publishes, Resumes, SoundSoFar
  <2>10. QED
    BY <2>5, <2>7, <2>8, <2>9 DEF DownloadInv
<1>3. CASE job' = [job EXCEPT !.pc = "failed"]
  <2>1. job' \in JobState /\ job'.pc = "failed"
    BY <1>1, <1>3 DEF JobState
  <2>2. QED
    BY <1>1, <2>1, AtRestKeeps DEF Working
<1>4. QED
  BY <1>2, <1>3 DEF LoadFails

-----------------------------------------------------------------------------
(* The environment.                                                        *)

LEMMA IdleIsJob == DownloadInv => Idle \in JobState
<1>1. <<>> \in Seq(Backend) /\ <<>> \in Seq(Item)
  BY EmptySeq
<1>2. QED
  BY <1>1, Types DEF Idle, JobState, Enabled, Backend

LEMMA BeginCounts ==
  ASSUME DownloadInv, Begin
  PROVE  /\ starts' \in 0 .. MaxStarts /\ faults' \in 0 .. MaxFaults
         /\ UNCHANGED disk /\ disk \in [part : Files, final : Files]
         /\ job.pc \notin Working
  BY Types, MaxStartsAssumption DEF Begin, DownloadInv, DownloadTypeOK

LEMMA StartKeeps ==
  ASSUME DownloadInv, NEW preference \in Enabled, Start(preference)
  PROVE  DownloadInv'
<1>1. Candidates(preference) \in Seq(Backend) /\ Candidates(preference) # <<>>
  <2>1. "cpu" \in Backend /\ "gpu" \in Backend /\ <<>> \in Seq(Backend)
    BY EmptySeq DEF Backend
  <2>2. /\ <<"cpu">> \in Seq(Backend)
        /\ <<"gpu">> \in Seq(Backend)
        /\ <<"gpu", "cpu">> \in Seq(Backend)
    BY <2>1
  <2>3. QED
    BY <2>1, <2>2 DEF Candidates, Enabled, Start
<1>2. PICK b \in Backend, o \in Seq(Backend), t \in Seq(Item) :
         /\ t = Packages(b)
         /\ job' = [Idle EXCEPT !.pc = "item", !.preference = preference, !.backend = b,
                                !.others = o, !.todo = t]
  <2>1. Head(Candidates(preference)) \in Backend /\ Tail(Candidates(preference)) \in Seq(Backend)
    BY <1>1, HeadTailProperties
  <2>2. QED
    BY <2>1, PackageList DEF Start
<1>3. job' \in JobState
  BY <1>2, IdleIsJob DEF JobState, Working
<1>4. /\ job'.pc = "item" /\ job'.backend = b /\ job'.todo = t
      /\ job'.stage = "runtime" /\ ~job'.custom
  BY <1>2 DEF Idle
<1>5. excused' = FALSE /\ Begin
  BY DEF Start
<1>6. QED
  BY <1>2, <1>3, <1>4, <1>5, BeginCounts, CandidateKeeps

LEMMA StartCustomKeeps ==
  ASSUME DownloadInv, NEW preference \in Enabled, NEW directml \in BOOLEAN,
         StartCustom(preference, directml)
  PROVE  DownloadInv'
<1>1. /\ starts' \in 0 .. MaxStarts /\ faults' \in 0 .. MaxFaults
      /\ UNCHANGED disk /\ disk \in [part : Files, final : Files]
      /\ excused' = ~CustomSupported(preference, directml)
  BY BeginCounts DEF StartCustom
<1>2. PICK b \in Backend :
         job' = [Idle EXCEPT !.preference = preference, !.custom = TRUE,
                             !.pc = IF CustomSupported(preference, directml) THEN "initialize"
                                    ELSE "failed",
                             !.backend = b]
  BY DEF StartCustom, CustomBackend, Backend
<1>3. job' \in JobState
  BY <1>2, IdleIsJob DEF JobState, Working
<1>4. /\ job'.pc = (IF CustomSupported(preference, directml) THEN "initialize" ELSE "failed")
      /\ job'.stage = "runtime" /\ job'.custom
      /\ ~job'.restarted /\ ~job'.retried
  BY <1>2 DEF Idle
<1>5. excused' \in BOOLEAN
  BY <1>1
<1>6. CASE job'.pc = "failed"
  BY <1>1, <1>3, <1>4, <1>5, <1>6, AtRestKeeps DEF Working
<1>7. CASE job'.pc = "initialize"
  <2>1. DownloadTypeOK'
    BY <1>1, <1>3, <1>5 DEF DownloadTypeOK, JobState, Files
  <2>2. TodoIsLeft' /\ Publishes' /\ StagesDone' /\ Resumes' /\ SoundSoFar'
    BY <1>4, <1>7 DEF TodoIsLeft, Publishes, StagesDone, Resumes, SoundSoFar, Downloading, Fetching
  <2>3. QED
    BY <2>1, <2>2 DEF DownloadInv
<1>8. QED
  BY <1>4, <1>6, <1>7

LEMMA DieKeeps ==
  ASSUME DownloadInv, Die
  PROVE  DownloadInv'
<1>1. job' \in JobState /\ job'.pc = "idle"
  BY IdleIsJob DEF Die, Idle
<1>2. QED
  BY <1>1, Types, AtRestKeeps DEF Die, Working, DownloadInv, DownloadTypeOK

LEMMA DamageKeeps ==
  ASSUME DownloadInv, NEW i \in Item, NEW file \in Replaced, Damage(i, file)
  PROVE  DownloadInv'
<1>1. /\ faults' \in 0 .. MaxFaults
      /\ starts' \in 0 .. MaxStarts /\ excused' \in BOOLEAN
      /\ job' \in JobState /\ job'.pc \notin Working
  BY Types, MaxFaultsAssumption DEF Damage, DownloadInv, DownloadTypeOK
<1>2. job'.pc = "failed" => excused'
  BY DEF Damage, DownloadInv, SoundSoFar, DownloadTypeOK
<1>3. file \in Content
  <2>1. Size \in 0 .. Limit /\ Limit \in 0 .. Limit
    BY Types
  <2>2. [len : {Size, Limit}, sound : {FALSE}] \subseteq [len : 0 .. Limit, sound : BOOLEAN]
    BY <2>1
  <2>3. QED
    BY <2>2 DEF Replaced, Content
<1>4. disk' \in [part : Files, final : Files]
  <2>1. disk \in [part : Files, final : Files]
    BY Types
  <2>2. /\ [disk.part EXCEPT ![i] = file] \in Files
        /\ [disk.final EXCEPT ![i] = file] \in Files
    BY <1>3, <2>1 DEF Files
  <2>3. CASE disk' = [disk EXCEPT !.part[i] = file]
    BY <2>1, <2>2, <2>3
  <2>4. CASE disk' = [disk EXCEPT !.final[i] = file]
    BY <2>1, <2>2, <2>4
  <2>5. QED
    BY <2>3, <2>4 DEF Damage
<1>5. QED
  BY <1>1, <1>2, <1>4, AtRestKeeps

LEMMA JobStepKeeps ==
  ASSUME DownloadInv, JobStep
  PROVE  DownloadInv'
<1>1. UNCHANGED starts
  BY DEF JobStep
<1>2. CASE KeepItem \/ FetchPackage \/ FetchAsset \/ PrepareArchive \/ PrepareAsset \/ RequestFails
  BY <1>1, <1>2, KeepItemKeeps, FetchKeeps, PrepareArchiveKeeps, PrepareAssetKeeps,
     RequestFailsKeeps
<1>3. CASE ArchiveRangeRejected \/ AssetRangeRejected
  <2>1. Package # Asset
    BY DEF Package, Asset
  <2>2. QED
    BY <1>1, <1>3, <2>1, RangeRejectedKeeps DEF ArchiveRangeRejected, AssetRangeRejected
<1>4. CASE \E answer \in Full \union Partial, sane \in BOOLEAN : Respond(answer, sane)
  BY <1>1, <1>4, RespondKeeps
<1>5. CASE \E sound \in BOOLEAN : ReceiveChunk(sound)
  BY <1>1, <1>5, ReceiveChunkKeeps
<1>6. CASE BodyFails \/ BodyEnds
  BY <1>1, <1>6, BodyFailsKeeps, BodyEndsKeeps
<1>7. CASE VerifyArchive \/ VerifyAsset
  <2>1. Package # Asset /\ job.retried \in BOOLEAN
    BY Types DEF Package, Asset, JobState
  <2>2. QED
    BY <1>1, <1>7, <2>1, VerifyKeeps DEF VerifyArchive, VerifyAsset
<1>8. CASE FinalizeAsset \/ BeginExtraction \/ EndExtraction
  BY <1>1, <1>8, FinalizeAssetKeeps, BeginExtractionKeeps, EndExtractionKeeps
<1>9. CASE InitializeRuntime \/ LoadModel \/ LoadFails
  BY <1>1, <1>9, InitializeRuntimeKeeps, LoadModelKeeps, LoadFailsKeeps
<1>10. QED
  BY <1>2, <1>3, <1>4, <1>5, <1>6, <1>7, <1>8, <1>9 DEF JobStep

LEMMA InitHolds == Init => DownloadInv
<1>1. SUFFICES ASSUME Init
               PROVE  DownloadInv
  OBVIOUS
<1>2. Size \in Nat \ {0} /\ Limit \in Nat /\ Absent \in Content /\ Idle \in JobState
  <2>1. <<>> \in Seq(Backend) /\ <<>> \in Seq(Item)
    BY EmptySeq
  <2>2. QED
    BY <2>1, SizeAssumption, LimitAssumption
       DEF Idle, JobState, Enabled, Backend, Absent, Content, None
<1>3. job.pc = "idle"
  BY <1>1 DEF Init, Idle
<1>4. DownloadTypeOK
  <2>1. [i \in Item |-> Absent] \in [Item -> Content]
    BY <1>2
  <2>2. disk \in [part : [Item -> Content], final : [Item -> Content]]
    BY <1>1, <2>1 DEF Init
  <2>3. starts = 0 /\ faults = 0 /\ excused \in BOOLEAN
    BY <1>1 DEF Init
  <2>4. job \in JobState
    BY <1>1, <1>2 DEF Init
  <2>5. QED
    BY <2>2, <2>3, <2>4, MaxStartsAssumption, MaxFaultsAssumption DEF DownloadTypeOK, JobState
<1>5. TodoIsLeft /\ Publishes /\ StagesDone /\ Resumes /\ SoundSoFar
  BY <1>3 DEF TodoIsLeft, Publishes, StagesDone, Resumes, SoundSoFar, Downloading, Fetching, Working
<1>6. QED
  BY <1>4, <1>5 DEF DownloadInv

LEMMA NextKeeps == DownloadInv /\ [Next]_vars => DownloadInv'
<1>1. SUFFICES ASSUME DownloadInv, [Next]_vars
               PROVE  DownloadInv'
  OBVIOUS
<1>2. CASE \E preference \in Enabled : Start(preference)
  BY <1>1, <1>2, StartKeeps
<1>3. CASE \E preference \in Enabled, directml \in BOOLEAN : StartCustom(preference, directml)
  BY <1>1, <1>3, StartCustomKeeps
<1>4. CASE JobStep
  BY <1>1, <1>4, JobStepKeeps
<1>5. CASE Die
  BY <1>1, <1>5, DieKeeps
<1>6. CASE \E i \in Item, file \in Replaced : Damage(i, file)
  BY <1>1, <1>6, DamageKeeps
<1>7. CASE UNCHANGED vars
  BY <1>1, <1>7
     DEF vars, DownloadInv, DownloadTypeOK, TodoIsLeft, Publishes, StagesDone, Resumes, SoundSoFar,
         OnDisk, PackagesOnDisk, Part, Current
<1>8. QED
  BY <1>1, <1>2, <1>3, <1>4, <1>5, <1>6, <1>7 DEF Next

-----------------------------------------------------------------------------
(* The theorems.                                                           *)

\* Every state of every preparation, whatever the server and the disk did.
THEOREM DownloadInvariance == Spec => []DownloadInv
  BY InitHolds, NextKeeps, PTL DEF Spec

\* The files, the job and the counters have their types: no body is longer
\* than the limit of its file, and a request resumes inside it.
THEOREM DownloadTypeCorrect == Spec => []DownloadTypeOK
<1>1. DownloadInv => DownloadTypeOK
  BY DEF DownloadInv
<1>2. QED
  BY <1>1, DownloadInvariance, PTL

\* When prepare_semantic_runtime opens the model, everything it opens is what
\* the release pins: only what verifies is published, and what the stages
\* before left on disk nobody touches while the job runs.
THEOREM OnlyPinnedFilesLoad == Spec => []LoadedFilesVerify
<1>1. DownloadInv => LoadedFilesVerify
  <2>1. SUFFICES ASSUME DownloadInv, job.pc = "load"
                 PROVE  LoadedFilesVerify
    BY DEF LoadedFilesVerify
  <2>2. /\ job.custom \/ PackagesOnDisk
        /\ OnDisk("tokenizer")
        /\ \/ job.stage = "assets" /\ OnDisk(Model(job.backend))
           \/ job.stage = "fallback" /\ OnDisk("gpu_model")
    BY <2>1 DEF DownloadInv, StagesDone, Working
  <2>3. job.backend \in {"cpu", "gpu"}
    BY <2>1, Types DEF JobState, Backend
  <2>4. OnDisk("gpu_model") \/ (job.backend = "cpu" /\ job.stage = "assets" /\ OnDisk("cpu_model"))
    BY <2>2, <2>3 DEF Model
  <2>5. PackagesOnDisk => \A i \in 1 .. Len(Packages(job.backend)) :
                             OnDisk(Packages(job.backend)[i])
    BY <2>3 DEF PackagesOnDisk, Packages
  <2>6. QED
    BY <2>2, <2>4, <2>5 DEF LoadedFilesVerify, OnDisk
<1>2. QED
  BY <1>1, DownloadInvariance, PTL

\* download_asset, download_http and download_archive_entry recover from any
\* partial, stale or oversized file: a preparation without a fault of its own
\* does not fail.
THEOREM SoundPreparationsSucceed == Spec => []SoundPreparationSucceeds
<1>1. DownloadInv => SoundPreparationSucceeds
  BY DEF DownloadInv, SoundSoFar, SoundPreparationSucceeds
<1>2. QED
  BY <1>1, DownloadInvariance, PTL

-----------------------------------------------------------------------------
(* The preparation and what it promises to the coordinator.                *)

PhaseOfJob == IF job.pc \in Working THEN "working" ELSE job.pc
PreparationStep ==
    \/ Preparation!StartPreparation
    \/ Preparation!EndPreparation
    \/ Preparation!KillPreparation

LEMMA JobStepImplements ==
  ASSUME DownloadInv, JobStep
  PROVE  [Preparation!EndPreparation]_PhaseOfJob
<1>1. job.pc \in Working
  BY DEF JobStep, KeepItem, FetchPackage, FetchAsset, PrepareArchive, PrepareAsset, RequestFails,
         ArchiveRangeRejected, AssetRangeRejected, RangeRejected, Respond, ReceiveChunk, BodyFails,
         BodyEnds, VerifyArchive, VerifyAsset, Verify, FinalizeAsset, BeginExtraction,
         EndExtraction, InitializeRuntime, LoadModel, LoadFails, Working
<1>2. job' \in JobState
  BY JobStepKeeps DEF DownloadInv, DownloadTypeOK, JobState
<1>3. job'.pc # "idle"
  <2>1. job \in JobState
    BY Types
  <2>2. /\ Advanced.pc # "idle" /\ Failed.pc # "idle" /\ Fetched.pc # "idle" /\ FallBack.pc # "idle"
        /\ \A n \in 0 .. Limit : RequestFrom(n).pc # "idle"
    BY <2>1 DEF Advanced, Failed, Fetched, FallBack, RequestFrom, JobState
  <2>3. CASE KeepItem \/ FetchPackage \/ FetchAsset \/ RequestFails \/ FinalizeAsset
    BY <2>2, <2>3 DEF KeepItem, FetchPackage, FetchAsset, RequestFails, FinalizeAsset
  <2>4. CASE PrepareArchive \/ PrepareAsset
    BY <2>1, <2>4 DEF PrepareArchive, PrepareAsset, RequestFrom, JobState
  <2>5. CASE ArchiveRangeRejected \/ AssetRangeRejected \/ VerifyArchive \/ VerifyAsset
    BY <2>1, <2>2, <2>5
       DEF ArchiveRangeRejected, AssetRangeRejected, RangeRejected, VerifyArchive, VerifyAsset,
           Verify, JobState
  <2>6. CASE \E answer \in Full \union Partial, sane \in BOOLEAN : Respond(answer, sane)
    BY <2>1, <2>2, <2>6 DEF Respond, JobState
  <2>7. CASE \E sound \in BOOLEAN : ReceiveChunk(sound)
    BY <1>1, <2>1, <2>2, <2>7 DEF ReceiveChunk, JobState, Working
  <2>8. CASE BodyFails \/ BodyEnds \/ BeginExtraction \/ EndExtraction
    BY <2>1, <2>2, <2>8 DEF BodyFails, BodyEnds, BeginExtraction, EndExtraction, JobState
  <2>9. CASE InitializeRuntime \/ LoadModel \/ LoadFails
    BY <2>1, <2>2, <2>9 DEF InitializeRuntime, LoadModel, LoadFails, JobState
  <2>10. QED
    BY <2>3, <2>4, <2>5, <2>6, <2>7, <2>8, <2>9 DEF JobStep
<1>4. QED
  BY <1>1, <1>2, <1>3 DEF Preparation!EndPreparation, PhaseOfJob, JobState

LEMMA EnvironmentImplements ==
  ASSUME DownloadInv,
         \/ \E preference \in Enabled :
               Start(preference) \/ \E directml \in BOOLEAN : StartCustom(preference, directml)
         \/ Die
         \/ \E i \in Item, file \in Replaced : Damage(i, file)
  PROVE  [Preparation!StartPreparation \/ Preparation!KillPreparation]_PhaseOfJob
<1>1. job.pc \notin Working => job.pc # "working"
  BY Types DEF JobState
<1>2. CASE \E preference \in Enabled : Start(preference)
  <2>1. job.pc \notin Working /\ job'.pc = "item"
    BY <1>2 DEF Start, Begin, Idle
  <2>2. QED
    BY <1>1, <2>1 DEF Preparation!StartPreparation, PhaseOfJob, Working
<1>3. CASE \E preference \in Enabled, directml \in BOOLEAN : StartCustom(preference, directml)
  <2>1. job.pc \notin Working /\ job'.pc \in {"initialize", "failed"}
    BY <1>3 DEF StartCustom, Begin, Idle
  <2>2. QED
    BY <1>1, <2>1 DEF Preparation!StartPreparation, PhaseOfJob, Working
<1>4. CASE Die
  BY <1>4 DEF Die, Idle, Preparation!KillPreparation, PhaseOfJob, Working
<1>5. CASE \E i \in Item, file \in Replaced : Damage(i, file)
  BY <1>5 DEF Damage, PhaseOfJob
<1>6. QED
  BY <1>2, <1>3, <1>4, <1>5

\* The safety half of ImplementsPreparation: to the coordinator, whatever the
\* download does is a preparation that starts, ends ready or failed and is
\* never interrupted by anything but the end of the process.  That it ends
\* under fairness stays with the run of the refinement.
THEOREM DownloadRefinesPreparation ==
  Spec => Preparation!PreparationInit /\ [][PreparationStep]_PhaseOfJob
<1>1. Init => Preparation!PreparationInit
  BY DEF Init, Idle, Working, Preparation!PreparationInit
<1>2. DownloadInv /\ [Next]_vars => [PreparationStep]_PhaseOfJob
  <2>1. CASE UNCHANGED vars
    BY <2>1 DEF vars, PhaseOfJob
  <2>2. QED
    BY <2>1, JobStepImplements, EnvironmentImplements DEF Next, PreparationStep
<1>3. QED
  BY <1>1, <1>2, DownloadInvariance, PTL DEF Spec
=============================================================================
