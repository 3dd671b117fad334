--------------------------- MODULE LayerExecution ----------------------------
(***************************************************************************)
(* CSKCacheReuseExecutor at one worker: one plan after the other is        *)
(* executed by one of three methods in one of two orders, over a layer     *)
(* stream that copies pinned layers to staging buffers on a CUDA stream of *)
(* its own and, unless the cache is installed directly, an auxiliary model *)
(* that is a Python generator driven layer by layer.                       *)
(*                                                                         *)
(* pc is the call the executor makes next; every call may raise, and what  *)
(* its callers do then is Raise, Abort and CloseModel.  Tensors are        *)
(* abstracted to what was done to them.                                    *)
(***************************************************************************)
EXTENDS Integers

CONSTANTS
  Layers,         \* expected_layers
  CheckLayers,    \* the deviation_check_layer values of plans
  MaxExecutions   \* bound: plans executed

ASSUME ExecutionAssumption ==
  /\ Layers \in Nat \ {0}
  /\ CheckLayers \subseteq Nat
  /\ MaxExecutions \in Nat

VARIABLES
  order,       \* CSKCacheReuseExecutor._execution_order
  pc,          \* the next call
  plan,        \* method and check layer of the plan in execution
  layer,       \* the layer being computed; -1 before the first
  stream,      \* the _LMCacheCSKLayerStream
  staging,     \* content of the staging buffer of each layer
  paged,       \* content of each layer's reused range in the paged KV cache
  calibrated,  \* the layers whose calibration range was committed
  model,       \* the generator of the auxiliary model
  blending,    \* _CSKCalibrationBlender._plan is set
  ticket,      \* the ticket at this rank: is it active, its layer progress
  result,      \* how the execution ends: returned or raised
  reported,    \* the request's blocks were reported as failed loads
  executions   \* plans begun

streamVars == <<stream, staging>>
cacheVars == <<paged, calibrated>>
modelVars == <<model, blending>>
endVars == <<result, reported>>
executionVars ==
  <<order, pc, plan, layer, streamVars, cacheVars, modelVars, ticket, endVars, executions>>

LayerIds == 0 .. Layers - 1
Methods == {"direct", "ratio_prefix", "deviation_topk"}
Plan == [method : Methods, check : CheckLayers]

\* "abort" and "close" are what the handlers do, "end" is what the connector does.
Calls == {"open", "model", "submit", "wait", "compute", "loaded", "calibrate",
          "correct", "commit", "corrected", "drain", "finish"}
Steps == Calls \cup {"idle", "abort", "close", "end"}

Stream ==
  [open : BOOLEAN, submitted : 0 .. Layers, waited : 0 .. Layers,
   pending : BOOLEAN, finished : BOOLEAN]

\* A layer is copied as it was stored ("offline"), then corrected once.
Contents == {"empty", "copying", "offline", "corrected", "overcorrected", "garbage"}

Results == {"none", "running", "succeeded", "failed"}

\* A generator: made, suspended at a yield, or over.
Models == {"none", "made", "suspended", "over"}

Closed == [open |-> FALSE, submitted |-> 0, waited |-> 0, pending |-> FALSE, finished |-> FALSE]
Opened == [Closed EXCEPT !.open = TRUE]

Ticket == [active : BOOLEAN, loaded : -1 .. Layers - 1, corrected : -1 .. Layers - 1]
Activated == [active |-> TRUE, loaded |-> -1, corrected |-> -1]

ExecutionInit ==
  /\ order \in {"h2d_first", "compute_first"}
  /\ pc = "idle"
  /\ plan \in [method : {"direct"}, check : CheckLayers]
  /\ layer = -1
  /\ stream = Closed
  /\ staging = [l \in LayerIds |-> "empty"]
  /\ paged = [l \in LayerIds |-> "empty"]
  /\ calibrated = {}
  /\ model = "none"
  /\ blending = FALSE
  /\ ticket = Activated
  /\ result = "none"
  /\ reported = FALSE
  /\ executions = 0

UsesModel == plan.method # "direct"
\* (variant) one layer too few
LastEarly(l) == l >= Layers - 2

Last(l) == l = Layers - 1

\* Both orders submit the next layer before or after the computation of this
\* one; the direct method knows only the second.
Ahead == order = "h2d_first" /\ UsesModel

Goto(step) == pc' = step

------------------------------------------------------------------------------
(* The copies                                                              *)

\* The CUDA stream completes a copy whenever it likes.
Lands(l) ==
  /\ staging[l] = "copying"
  /\ staging' = [staging EXCEPT ![l] = "offline"]
  /\ UNCHANGED <<order, pc, plan, layer, stream, cacheVars, modelVars, ticket, endVars, executions>>

\* A tensor that is written or read while its copy is under way is undefined.
Staged(content, l) == IF staging[l] = "copying" THEN "garbage" ELSE content

------------------------------------------------------------------------------
(* execute                                                                 *)

Begin(p) ==
  /\ pc = "idle"
  /\ executions < MaxExecutions
  /\ Goto("open")
  /\ plan' = p
  /\ layer' = -1
  /\ stream' = Closed
  /\ staging' = [l \in LayerIds |-> "empty"]
  /\ paged' = [l \in LayerIds |-> "empty"]
  /\ calibrated' = {}
  /\ model' = "none"
  /\ ticket' = Activated
  /\ result' = "running"
  /\ reported' = FALSE
  /\ executions' = executions + 1
  /\ UNCHANGED <<order, blending>>

\* open_layer_stream; a check layer outside the model is found out only now.
Open ==
  /\ pc = "open"
  /\ ticket.active
  /\ stream' = Opened
  /\ IF plan.method = "deviation_topk" /\ plan.check >= Layers
     THEN Goto("abort") /\ result' = "failed"
     ELSE Goto(IF UsesModel THEN "model" ELSE "submit") /\ UNCHANGED result
  /\ UNCHANGED <<order, plan, layer, staging, cacheVars, modelVars, ticket, reported, executions>>

\* open_calibration_model, open_deviation_topk_model: begin, then the generator.
OpenModel ==
  /\ pc = "model"
  /\ ~blending
  /\ blending' = TRUE
  /\ model' = "made"
  /\ Goto("submit")
  /\ UNCHANGED <<order, plan, layer, streamVars, cacheVars, ticket, endVars, executions>>

CanSubmit(l) == l < Layers /\ stream.submitted = l /\ ~stream.pending /\ ~stream.finished

\* The buffers of the first layer were taken when the stream was opened.
Submit ==
  LET next == layer + 1 IN
  /\ pc = "submit"
  /\ CanSubmit(next)
  /\ next = 0 \/ ticket.active
  /\ stream' = [stream EXCEPT !.submitted = next + 1, !.pending = TRUE]
  /\ staging' = [staging EXCEPT ![next] = "copying"]
  /\ Goto(IF Ahead /\ layer >= 0 THEN "compute" ELSE "wait")
  /\ UNCHANGED <<order, plan, layer, cacheVars, modelVars, ticket, endVars, executions>>

\* (variant) takes the next layer without waiting for its copy
WaitNot ==
  LET next == layer + 1 IN
  /\ pc = "wait"
  /\ stream' = [stream EXCEPT !.waited = next + 1, !.pending = FALSE]
  /\ layer' = next
  /\ Goto(IF Ahead /\ ~Last(next) THEN "submit"
          ELSE IF UsesModel THEN "compute" ELSE "loaded")
  /\ UNCHANGED <<order, plan, staging, cacheVars, modelVars, ticket, endVars, executions>>

\* wait_layer blocks until the copy has landed; the layer is the current one then.
Wait ==
  LET next == layer + 1 IN
  /\ pc = "wait"
  /\ stream.pending /\ stream.waited = next
  /\ staging[next] # "copying"
  /\ stream' = [stream EXCEPT !.waited = next + 1, !.pending = FALSE]
  /\ layer' = next
  /\ Goto(IF Ahead /\ ~Last(next) THEN "submit"
          ELSE IF UsesModel THEN "compute" ELSE "loaded")
  /\ UNCHANGED <<order, plan, staging, cacheVars, modelVars, ticket, endVars, executions>>

(***************************************************************************)
(* next(model): the generator runs to its next yield.  The deviation model *)
(* writes its tokens into the staged layer itself (process_qkv).           *)
(***************************************************************************)
Compute ==
  /\ pc = "compute"
  /\ model' = "suspended"
  /\ staging' =
       IF plan.method = "deviation_topk"
       THEN [staging EXCEPT ![layer] = Staged("corrected", layer)] ELSE staging
  /\ Goto("loaded")
  /\ UNCHANGED <<order, plan, layer, stream, cacheVars, blending, ticket, endVars, executions>>

MarkLoaded ==
  /\ pc = "loaded"
  /\ ticket.active
  /\ ticket' = [ticket EXCEPT !.loaded = layer]
  /\ Goto(IF plan.method = "ratio_prefix" THEN "calibrate" ELSE "commit")
  /\ UNCHANGED <<order, plan, layer, streamVars, cacheVars, modelVars, endVars, executions>>

CommitCalibration ==
  /\ pc = "calibrate"
  /\ calibrated' = calibrated \cup {layer}
  /\ Goto("correct")
  /\ UNCHANGED <<order, plan, layer, streamVars, paged, modelVars, ticket, endVars, executions>>

Correct ==
  /\ pc = "correct"
  /\ staging' = [staging EXCEPT ![layer] =
       Staged(IF staging[layer] = "offline" THEN "corrected" ELSE "overcorrected", layer)]
  /\ Goto("commit")
  /\ UNCHANGED <<order, plan, layer, stream, cacheVars, modelVars, ticket, endVars, executions>>

\* (variant) commits the layer that was staged last
CommitStaged ==
  /\ pc = "commit"
  /\ paged' = [paged EXCEPT ![layer] = Staged(staging[stream.submitted - 1], stream.submitted - 1)]
  /\ Goto("corrected")
  /\ UNCHANGED <<order, plan, layer, streamVars, calibrated, modelVars, ticket, endVars, executions>>

CommitLayer ==
  /\ pc = "commit"
  /\ layer < stream.waited
  /\ paged' = [paged EXCEPT ![layer] = Staged(staging[layer], layer)]
  /\ Goto("corrected")
  /\ UNCHANGED <<order, plan, layer, streamVars, calibrated, modelVars, ticket, endVars, executions>>

MarkCorrected ==
  /\ pc = "corrected"
  /\ ticket.active
  /\ ticket' = [ticket EXCEPT !.corrected = layer]
  /\ Goto(IF ~Last(layer) THEN (IF Ahead THEN "wait" ELSE "submit")
          ELSE IF UsesModel THEN "drain" ELSE "finish")
  /\ UNCHANGED <<order, plan, layer, streamVars, cacheVars, modelVars, endVars, executions>>

\* next(model) once more: the generator ends, and its finally clause runs.
Drain ==
  /\ pc = "drain"
  /\ model' = "over"
  /\ blending' = FALSE
  /\ Goto("finish")
  /\ UNCHANGED <<order, plan, layer, streamVars, cacheVars, ticket, endVars, executions>>

CanFinish ==
  /\ ~stream.finished
  /\ ~stream.pending
  /\ stream.submitted = Layers
  /\ stream.waited = Layers

Finish ==
  /\ pc = "finish"
  /\ CanFinish
  /\ stream' = [stream EXCEPT !.finished = TRUE]
  /\ result' = "succeeded"
  /\ Goto(IF UsesModel THEN "close" ELSE "end")
  /\ UNCHANGED <<order, plan, layer, staging, cacheVars, modelVars, ticket, reported, executions>>

------------------------------------------------------------------------------
(* Exceptions                                                              *)

(***************************************************************************)
(* A call raises.  Opening the stream, and opening the calibration model,  *)
(* happen outside of the try statement that aborts the stream.             *)
(***************************************************************************)
AfterRaise ==
  IF pc = "open" \/ (pc = "model" /\ plan.method = "ratio_prefix") THEN "end" ELSE "abort"

\* What a model that could not be opened leaves behind: begin was refused, or
\* building failed after it; only the deviation model is finished then.
ModelFails ==
  /\ pc = "model"
  /\ UNCHANGED model
  /\ \/ UNCHANGED blending
     \/ ~blending /\ blending' = (plan.method = "ratio_prefix")

\* A generator that raises is over: its finally clause has run.
ComputeFails ==
  /\ pc \in {"compute", "drain"}
  /\ model' = "over"
  /\ blending' = FALSE

\* A submit that raises may have enqueued its copy.
SubmitFails ==
  /\ pc = "submit"
  /\ \/ UNCHANGED staging
     \/ CanSubmit(layer + 1) /\ staging' = [staging EXCEPT ![layer + 1] = "copying"]

\* A commit that raises may have written a part of the layer.
CommitFails ==
  /\ pc = "commit"
  /\ paged' \in {paged, [paged EXCEPT ![layer] = "garbage"]}

Raise ==
  /\ pc \in Calls
  /\ Goto(AfterRaise)
  /\ result' = "failed"
  /\ ModelFails \/ ComputeFails \/ (pc \notin {"model", "compute", "drain"} /\ UNCHANGED modelVars)
  /\ SubmitFails \/ (pc # "submit" /\ UNCHANGED staging)
  /\ CommitFails \/ (pc # "commit" /\ UNCHANGED paged)
  /\ UNCHANGED <<order, plan, layer, stream, calibrated, ticket, reported, executions>>

\* (variant) does not wait for the copy that is under way
AbortWithoutSync ==
  /\ pc = "abort"
  /\ stream' = [stream EXCEPT !.finished = TRUE]
  /\ Goto(IF model = "none" THEN "end" ELSE "close")
  /\ UNCHANGED <<order, plan, layer, staging, cacheVars, modelVars, ticket, endVars, executions>>

\* torch.cuda.synchronize, then the copy session is closed.
Abort ==
  /\ pc = "abort"
  /\ \A l \in LayerIds : staging[l] # "copying"
  /\ stream' = [stream EXCEPT !.finished = TRUE]
  /\ Goto(IF model = "none" THEN "end" ELSE "close")
  /\ UNCHANGED <<order, plan, layer, staging, cacheVars, modelVars, ticket, endVars, executions>>

(***************************************************************************)
(* model.close(): raises GeneratorExit at the yield, so the finally clause *)
(* calls finish.  A generator that was never started has no yield to raise *)
(* it at: its finally clause does not run.                                 *)
(***************************************************************************)
CloseModel ==
  /\ pc = "close"
  /\ blending' = (blending /\ model = "made")
  /\ model' = "over"
  /\ Goto("end")
  /\ UNCHANGED <<order, plan, layer, streamVars, cacheVars, ticket, endVars, executions>>

\* (variant) the connector reports the blocks only when the ticket is live
EndLive ==
  /\ pc = "end"
  /\ Goto("idle")
  /\ reported' = (result = "failed" /\ ticket.active)
  /\ ticket' = [ticket EXCEPT !.active = FALSE]
  /\ UNCHANGED <<order, plan, layer, streamVars, cacheVars, modelVars, result, executions>>

\* The connector releases the ticket, or, when the executor or what follows it
\* raised, synchronizes, reports the blocks as invalid and cancels the ticket.
End ==
  /\ pc = "end"
  /\ Goto("idle")
  /\ reported' \in {TRUE, result = "failed"}
  /\ ticket' = [ticket EXCEPT !.active = FALSE]
  /\ UNCHANGED <<order, plan, layer, streamVars, cacheVars, modelVars, result, executions>>

\* A deadline, or a cancel of the frontend.
TicketEnds ==
  /\ pc # "idle"
  /\ ticket.active
  /\ ticket' = [ticket EXCEPT !.active = FALSE]
  /\ UNCHANGED <<order, pc, plan, layer, streamVars, cacheVars, modelVars, endVars, executions>>

ExecutorStep ==
  \/ Open \/ OpenModel \/ Submit \/ Wait \/ Compute \/ MarkLoaded
  \/ CommitCalibration \/ Correct \/ CommitLayer \/ MarkCorrected
  \/ Drain \/ Finish \/ Raise \/ Abort \/ CloseModel \/ End

ExecutionNext ==
  \/ \E p \in Plan : Begin(p)
  \/ ExecutorStep
  \/ \E l \in LayerIds : Lands(l)
  \/ TicketEnds

ExecutionSpec == ExecutionInit /\ [][ExecutionNext]_executionVars

------------------------------------------------------------------------------
(* Properties                                                              *)

ExecutionTypeOK ==
  /\ order \in {"h2d_first", "compute_first"}
  /\ pc \in Steps
  /\ plan \in Plan
  /\ layer \in -1 .. Layers - 1
  /\ stream \in Stream
  /\ staging \in [LayerIds -> Contents]
  /\ paged \in [LayerIds -> Contents]
  /\ calibrated \subseteq LayerIds
  /\ model \in Models
  /\ blending \in BOOLEAN
  /\ ticket \in Ticket
  /\ result \in Results
  /\ reported \in BOOLEAN
  /\ executions \in Nat

\* What a method leaves in the paged cache for a layer it is done with.
Right == IF plan.method = "direct" THEN "offline" ELSE "corrected"
Installed ==
  {l \in LayerIds : paged[l] = Right /\ (plan.method = "ratio_prefix" => l \in calibrated)}

(* The orders keep the stream's protocol: no call of the executor is one    *)
(* that the stream refuses, so an execution fails only for a reason of its  *)
(* own (worker.py submit_layer, wait_layer, commit_layer, finish).          *)
ProtocolKept ==
  /\ pc = "submit" => CanSubmit(layer + 1)
  /\ pc = "wait" => stream.pending /\ ~stream.finished /\ stream.waited = layer + 1
  /\ pc = "commit" => layer \in 0 .. stream.waited - 1
  /\ pc = "finish" => CanFinish

(* A layer the ticket records as corrected is in the paged cache, corrected *)
(* exactly once from its own complete copy, with its calibration range      *)
(* (executor.py _compute_correct_install_layer).                            *)
MarkedIsInstalled == 0 .. ticket.corrected \subseteq Installed

(* After an execution either every layer of the range is in the paged cache *)
(* or the request's blocks were reported: no half installed range is used   *)
(* (connector.py _execute_csk_requests).                                    *)
CompleteOrReported ==
  pc = "idle" /\ executions > 0 => reported \/ Installed = LayerIds

(* Nothing is copied when the executor has returned or raised: the caller   *)
(* may invalidate the slots and release the host buffers (worker.py abort). *)
DrainedBeforeEnd ==
  pc \in {"close", "end", "idle"} => \A l \in LayerIds : staging[l] # "copying"

(* worker.py begin: "a CSK calibration model is already active" is true     *)
(* when it is raised: a blender that has a plan has a model that is open.   *)
ActiveModelIsOpen == blending => model \in {"made", "suspended"}

(* The execution installs the layers in order and succeeds with all of them *)
(* (LayerInstall).                                                          *)
Outcome == IF result = "none" THEN "idle" ELSE result
Install == INSTANCE LayerInstall WITH outcome <- Outcome, installed <- Installed
ImplementsInstall == Install!InstallSpec
==============================================================================
