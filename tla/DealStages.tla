----------------------------- MODULE DealStages -----------------------------
(***************************************************************************)
(* The equivalence of pipelines and stages (DealPipelineMapping and        *)
(* DealStageMapping): seed and requests (ManageDealMappings), and how the  *)
(* preprocess of a deal resolves them, the pipeline twice.                 *)
(***************************************************************************)
EXTENDS Integers, FiniteSets, TLC

CONSTANTS Pipelines, Stages,
          PipelineOf,           \* PipelineOf[s]: the pipeline of a stage in HubSpot
          PipelineKeys, StageKeys,
          Configured,           \* the stage updateDealStage may name
          MaxStageEdits, MaxStageRuns

NoOrderKey == "none"

VARIABLES pipelines,    \* pipelines[p]: the SAP key of a row, NoOrderKey when it has none
          stages,       \* stages[s]
          named,        \* the keys the record in SAP names
          required,     \* updateDealStage.isRequired
          dealStage,    \* what HubSpot's deal got: pipeline and stage
          resolving,      \* the preprocess of the record
          stageEdits, stageRuns

stageVars == <<pipelines, stages, named, required, dealStage, resolving, stageEdits, stageRuns>>

NotResolving == [pc |-> "idle", pipeline |-> NoOrderKey, second |-> NoOrderKey, stage |-> NoOrderKey,
            moved |-> FALSE]
Nowhere == [pipeline |-> NoOrderKey, stage |-> NoOrderKey]

StageInit ==
    /\ pipelines = <<>> /\ stages = <<>>
    /\ named \in [pipeline : PipelineKeys \union {NoOrderKey}, stage : StageKeys \union {NoOrderKey}]
    /\ required \in BOOLEAN
    /\ dealStage = Nowhere /\ resolving = NotResolving
    /\ stageEdits = 0 /\ stageRuns = 0

StageEdit == stageEdits < MaxStageEdits /\ stageEdits' = stageEdits + 1
Requested == UNCHANGED <<named, required, dealStage, stageRuns>>
MappingsKept == UNCHANGED <<pipelines, stages, stageEdits>>

-----------------------------------------------------------------------------
(* The rows. *)

RunMoved == resolving' = [resolving EXCEPT !.moved = (resolving.pc # "idle")]

\* The seed inserts the pipelines first, and the stages when all were read.
SeedPipelines ==
    /\ pipelines' = pipelines @@ [p \in Pipelines |-> NoOrderKey]
    /\ Requested /\ UNCHANGED <<stages, resolving, stageEdits>>

SeedStages ==
    /\ Pipelines \subseteq DOMAIN pipelines
    /\ stages' = stages @@ [s \in Stages |-> NoOrderKey]
    /\ Requested /\ UNCHANGED <<pipelines, resolving, stageEdits>>

\* Mutant: the unique index of the key is not there.
AnyKey(k) == TRUE

FreeKey(k) == k = NoOrderKey \/ \A p \in DOMAIN pipelines : pipelines[p] # k

\* patchPipeline, createPipeline: the key of a pipeline.
PatchPipeline ==
    /\ StageEdit
    /\ \E p \in Pipelines, k \in PipelineKeys \union {NoOrderKey} :
          FreeKey(k) /\ pipelines' = (p :> k) @@ pipelines
    /\ RunMoved /\ Requested /\ UNCHANGED stages

DeletePipeline ==
    /\ StageEdit
    /\ \E p \in DOMAIN pipelines : pipelines' = [q \in DOMAIN pipelines \ {p} |-> pipelines[q]]
    /\ RunMoved /\ Requested /\ UNCHANGED stages

\* upsertPipeline moves the row of a key to another pipeline, or creates one; a pipeline that
\* has a row already is a conflict.
UpsertPipeline ==
    /\ StageEdit
    /\ \E p \in Pipelines \ DOMAIN pipelines, k \in PipelineKeys :
          pipelines' = (p :> k) @@ [q \in {q \in DOMAIN pipelines : pipelines[q] # k} |-> pipelines[q]]
    /\ RunMoved /\ Requested /\ UNCHANGED stages

PatchStage ==
    /\ StageEdit
    /\ \E s \in Stages, k \in StageKeys \union {NoOrderKey} :
          /\ k = NoOrderKey \/ \A t \in DOMAIN stages : PipelineOf[t] = PipelineOf[s] => stages[t] # k
          /\ stages' = (s :> k) @@ stages
    /\ RunMoved /\ Requested /\ UNCHANGED pipelines

\* upsertStage: the same, within the pipeline of the stage.
UpsertStage ==
    /\ StageEdit
    /\ \E s \in Stages \ DOMAIN stages, k \in StageKeys :
          LET before == {t \in DOMAIN stages : PipelineOf[t] = PipelineOf[s] /\ stages[t] = k}
          IN stages' = (s :> k) @@ [t \in DOMAIN stages \ before |-> stages[t]]
    /\ RunMoved /\ Requested /\ UNCHANGED pipelines

DeleteStage ==
    /\ StageEdit
    /\ \E s \in DOMAIN stages : stages' = [t \in DOMAIN stages \ {s} |-> stages[t]]
    /\ RunMoved /\ Requested /\ UNCHANGED pipelines

-----------------------------------------------------------------------------
(* preprocess of a deal. *)

\* A deal without a pipeline keeps its own: the configured stage, or the one SAP names.
StartDeal ==
    /\ resolving.pc = "idle" /\ stageRuns < MaxStageRuns /\ stageRuns' = stageRuns + 1
    /\ resolving' = IF named.pipeline # NoOrderKey THEN [NotResolving EXCEPT !.pc = "pipeline"]
                  ELSE [NotResolving EXCEPT !.pc = "write",
                                       !.stage = IF required THEN Configured ELSE NoOrderKey]
    /\ MappingsKept /\ UNCHANGED <<named, required, dealStage>>

Named(k) == {p \in DOMAIN pipelines : pipelines[p] = k}

OwnerRunFails == resolving' = [resolving EXCEPT !.pc = "failed"]

ResolvePipeline(field, next) ==
    /\ resolving.pc = field
    /\ \/ Named(named.pipeline) = {} /\ OwnerRunFails
       \/ \E p \in Named(named.pipeline) : resolving' = [resolving EXCEPT ![field] = p, !.pc = next]
    /\ MappingsKept /\ Requested

FirstPipeline == ResolvePipeline("pipeline", "second")
SecondPipeline == ResolvePipeline("second", "stage")

\* Mutant: a stage of whichever pipeline.
NamedAnywhere(k, pipeline) == {s \in DOMAIN stages : stages[s] = k}

\* Mutant: the first stage of the pipeline, whatever its key.
FirstStages(k, pipeline) == {s \in DOMAIN stages : PipelineOf[s] = pipeline}

\* null matches the rows that have no key yet.
NamedStages(k, pipeline) == {s \in DOMAIN stages : stages[s] = k /\ PipelineOf[s] = pipeline}

ResolveStage ==
    /\ resolving.pc = "stage"
    /\ LET found == NamedStages(named.stage, resolving.second)
       IN \/ found = {} /\ OwnerRunFails
          \/ \E s \in found : resolving' = [resolving EXCEPT !.pc = "write", !.stage = s]
    /\ MappingsKept /\ Requested

WriteDealStage ==
    /\ resolving.pc = "write"
    /\ dealStage' = [pipeline |-> IF resolving.pipeline = NoOrderKey THEN dealStage.pipeline ELSE resolving.pipeline,
                     stage |-> IF resolving.stage = NoOrderKey THEN dealStage.stage ELSE resolving.stage]
    /\ resolving' = NotResolving
    /\ MappingsKept /\ UNCHANGED <<named, required, stageRuns>>

GiveUpDeal == resolving.pc = "failed" /\ resolving' = NotResolving /\ MappingsKept /\ Requested

StageNext ==
    \/ SeedPipelines \/ SeedStages \/ PatchPipeline \/ DeletePipeline \/ UpsertPipeline
    \/ PatchStage \/ UpsertStage \/ DeleteStage
    \/ StartDeal \/ FirstPipeline \/ SecondPipeline \/ ResolveStage \/ WriteDealStage \/ GiveUpDeal

-----------------------------------------------------------------------------
(* Properties. *)

\* A deal that names a pipeline gets a stage of that pipeline, unless a row was moved while it
\* was resolved: the pipeline is read once for the deal and once more for the stage
\* (deal.handler preprocess; dealMappingResolver.resolveStage).
StageIsOfPipeline ==
    (resolving.pc = "write" /\ resolving.pipeline # NoOrderKey /\ ~resolving.moved) =>
        PipelineOf[resolving.stage] = resolving.pipeline

\* Two pipelines of one key, or two stages of one key in a pipeline, are never there together,
\* whatever is seeded, patched and moved: a deal of SAP has one place to go.
OnePlacePerKey ==
    /\ \A p, q \in DOMAIN pipelines : p # q => (pipelines[p] # pipelines[q] \/ pipelines[p] = NoOrderKey)
    /\ \A s, t \in DOMAIN stages : (s # t /\ PipelineOf[s] = PipelineOf[t]) =>
          (stages[s] # stages[t] \/ stages[s] = NoOrderKey)

\* A deal goes where its keys say, or nowhere: what is written bears the keys that SAP gives,
\* unless a row was changed meanwhile (a stage without a key is a row without one).
StageBearsItsKeys ==
    (resolving.pc = "write" /\ resolving.pipeline # NoOrderKey /\ ~resolving.moved) =>
        pipelines[resolving.pipeline] = named.pipeline /\ stages[resolving.stage] = named.stage

=============================================================================
