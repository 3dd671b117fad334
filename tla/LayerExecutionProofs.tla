------------------------- MODULE LayerExecutionProofs --------------------------
(***************************************************************************)
(* Proofs about LayerExecution for every number of layers, check layers    *)
(* and executions.  The invariant says, for each call the executor makes   *)
(* next, how far the stream, the staging buffer of the current layer, the  *)
(* ticket and the paged cache have got.                                    *)
(***************************************************************************)
EXTENDS LayerExecution, TLAPS

\* The calls made for the current layer, once its copy was waited for.
LayerCalls == {"compute", "loaded", "calibrate", "correct", "commit", "corrected"}

\* The next layer is being copied while this one is worked on.
Overlapped == Ahead /\ ~Last(layer)

StreamFollows ==
  /\ pc \in {"open", "model"} => layer = -1 /\ ticket.corrected = -1
  /\ pc = "model" => stream = Opened
  /\ pc = "submit" => /\ layer + 1 < Layers
                      /\ stream.submitted = layer + 1
                      /\ stream.waited = layer + 1
                      /\ ~stream.pending /\ ~stream.finished
  /\ pc = "wait" => /\ layer + 1 < Layers
                    /\ stream.submitted = layer + 2
                    /\ stream.waited = layer + 1
                    /\ stream.pending /\ ~stream.finished
  /\ pc \in LayerCalls => /\ layer >= 0
                          /\ stream.submitted = IF Overlapped THEN layer + 2 ELSE layer + 1
                          /\ stream.waited = layer + 1
                          /\ (stream.pending <=> Overlapped)
                          /\ ~stream.finished
  /\ pc \in {"drain", "finish"} => CanFinish

\* Only the layer submitted last may still be copied.
CopiesFollow ==
  /\ pc \in {"open", "model"} => \A l \in LayerIds : staging[l] = "empty"
  /\ pc \in Calls \ {"open", "model"} =>
       \A l \in LayerIds : staging[l] = "copying" => stream.pending /\ l = stream.submitted - 1
  /\ pc \in {"close", "end", "idle"} => \A l \in LayerIds : staging[l] # "copying"

\* What was done to the layer at hand.
StageFollows ==
  /\ pc = "submit" /\ Ahead /\ layer >= 0 => staging[layer] = "offline"
  /\ pc = "wait" => staging[layer + 1] \in {"copying", "offline"}
  /\ pc \in LayerCalls /\ Overlapped => staging[layer + 1] \in {"copying", "offline"}
  /\ pc = "compute" => UsesModel /\ staging[layer] = "offline"
  /\ pc = "loaded" =>
       staging[layer] = IF plan.method = "deviation_topk" THEN "corrected" ELSE "offline"
  /\ pc \in {"calibrate", "correct"} =>
       plan.method = "ratio_prefix" /\ staging[layer] = "offline"
  /\ pc = "commit" => staging[layer] = Right
  /\ pc \in {"correct", "commit", "corrected"} /\ plan.method = "ratio_prefix" =>
       layer \in calibrated
  /\ pc = "corrected" => paged[layer] = Right

TicketFollows ==
  /\ pc = "submit" => ticket.corrected = IF Ahead /\ layer >= 0 THEN layer - 1 ELSE layer
  /\ pc = "wait" => ticket.corrected = layer
  /\ pc \in LayerCalls => ticket.corrected = layer - 1
  /\ pc \in {"drain", "finish"} => ticket.corrected = Layers - 1

\* Nothing is in the paged cache beyond what the ticket says, and the layer at hand.
CacheFollows ==
  pc \in Calls =>
    \A l \in LayerIds :
      paged[l] = "empty" \/ l <= ticket.corrected \/ (pc = "corrected" /\ l = layer)

ResultFollows ==
  /\ pc \in Calls => result = "running"
  /\ pc = "abort" => result = "failed"
  /\ pc \in {"close", "end"} => result \in {"succeeded", "failed"}
  /\ pc = "idle" => result # "running"
  /\ pc = "idle" /\ executions > 0 => result \in {"succeeded", "failed"}
  /\ pc = "idle" /\ executions > 0 => reported \/ result = "succeeded"
  /\ result = "succeeded" => Installed = LayerIds

ExecutionInv ==
  /\ ExecutionTypeOK
  /\ StreamFollows
  /\ CopiesFollow
  /\ StageFollows
  /\ TicketFollows
  /\ CacheFollows
  /\ MarkedIsInstalled
  /\ ResultFollows


------------------------------------------------------------------------------
\* A stream the executor just opened, or one that is closed, is a stream.
LEMMA OpenedStream == Closed \in Stream /\ Opened \in Stream
<1>1. Closed \in Stream
  BY ExecutionAssumption DEF Closed, Stream
<1>2. Opened \in Stream
  BY <1>1 DEF Opened, Stream
<1>3. QED  BY <1>1, <1>2

\* submit and wait keep the counters of the stream within the number of layers.
LEMMA StreamRecords ==
  ASSUME NEW s \in Stream, NEW n \in 0 .. Layers
  PROVE  /\ [s EXCEPT !.waited = n, !.pending = FALSE] \in Stream
         /\ [s EXCEPT !.submitted = n, !.pending = TRUE] \in Stream
  BY DEF Stream

\* The executor starts idle, with no stream, an empty cache and no layer marked.
LEMMA InitInv == ExecutionInit => ExecutionInv
<1> SUFFICES ASSUME ExecutionInit PROVE ExecutionInv
  OBVIOUS
<1>1. ExecutionTypeOK
  <2>1. pc \in Steps /\ plan \in Plan /\ model \in Models /\ result \in Results
    BY DEF ExecutionInit, Steps, Plan, Methods, Models, Results
  <2>2. layer \in -1 .. Layers - 1 /\ executions \in Nat
    BY ExecutionAssumption DEF ExecutionInit
  <2>3. staging \in [LayerIds -> Contents] /\ paged \in [LayerIds -> Contents]
    BY DEF ExecutionInit, Contents
  <2>4. ticket \in Ticket
    BY ExecutionAssumption DEF ExecutionInit, Ticket, Activated
  <2>5. stream \in Stream /\ calibrated \subseteq LayerIds
    BY OpenedStream DEF ExecutionInit
  <2>6. blending \in BOOLEAN /\ reported \in BOOLEAN /\ order \in {"h2d_first", "compute_first"}
    BY DEF ExecutionInit
  <2>7. QED  BY <2>1, <2>2, <2>3, <2>4, <2>5, <2>6 DEF ExecutionTypeOK
<1>2. StreamFollows /\ CopiesFollow /\ StageFollows /\ TicketFollows /\ CacheFollows
  BY DEF ExecutionInit, StreamFollows, CopiesFollow, StageFollows, TicketFollows, CacheFollows,
      LayerCalls, Calls
<1>3. MarkedIsInstalled /\ ResultFollows
  BY DEF ExecutionInit, MarkedIsInstalled, ResultFollows, Activated, Calls
<1>4. QED  BY <1>1, <1>2, <1>3 DEF ExecutionInv

------------------------------------------------------------------------------
\* One lemma per call: each has one step per part of the invariant.

\* A prefill starts from an empty stream and cache and a freshly activated ticket.
LEMMA BeginInv ==
  ASSUME ExecutionInv, NEW p \in Plan, Begin(p)
  PROVE  ExecutionInv'
<1> USE ExecutionAssumption DEF Begin, Goto, streamVars, cacheVars, modelVars, endVars
<1>0. /\ ExecutionTypeOK /\ StreamFollows /\ CopiesFollow /\ StageFollows
      /\ TicketFollows /\ CacheFollows /\ MarkedIsInstalled /\ ResultFollows
  BY DEF ExecutionInv
<1>1. ExecutionTypeOK'
  <2>1. (order \in {"h2d_first", "compute_first"} /\ pc \in Steps)'
    BY <1>0
    DEF ExecutionTypeOK, StreamFollows, LayerCalls, LayerIds, Methods, Steps, Calls, Models,
        Results
  <2>2. /\ (plan \in Plan)'
        /\ (layer \in -1 .. Layers - 1)'
    BY <1>0 DEF StreamFollows
  <2>3. /\ (stream \in Stream)'
        /\ (ticket \in Ticket)'
    BY <1>0 DEF StreamFollows, Stream, Contents, Ticket, Closed, Opened, Activated
  <2>4. /\ (staging \in [LayerIds -> Contents])'
        /\ (paged \in [LayerIds -> Contents])'
    BY <1>0 DEF StreamFollows, Stream, Contents, Ticket
  <2>5. (calibrated \subseteq LayerIds /\ model \in Models /\ blending \in BOOLEAN)'
    BY <1>0 DEF ExecutionTypeOK, StreamFollows, Methods, Steps, Models, Results
  <2>6. (result \in Results /\ reported \in BOOLEAN /\ executions \in Nat)'
    <3>1. (reported \in BOOLEAN)'
      OBVIOUS
    <3>2. (result \in Results)' /\ (executions \in Nat)'
      BY <1>0 DEF ExecutionTypeOK, Results
    <3>3. QED  BY <3>1, <3>2
  <2>7. QED  BY <2>1, <2>2, <2>3, <2>4, <2>5, <2>6 DEF ExecutionTypeOK
<1>2. StreamFollows'
  BY <1>0
  DEF StreamFollows, ExecutionTypeOK, LayerIds, Calls, LayerCalls, Closed, Opened, Activated
<1>3. CopiesFollow'
  BY <1>0 DEF CopiesFollow, StreamFollows, ExecutionTypeOK
<1>4. StageFollows'
  BY <1>0
  DEF StageFollows, CopiesFollow, StreamFollows, ExecutionTypeOK, LayerIds, Calls,
      LayerCalls
<1>5. TicketFollows'
  BY <1>0 DEF TicketFollows, StreamFollows, ExecutionTypeOK, LayerIds, Calls, LayerCalls
<1>6. CacheFollows'
  BY <1>0 DEF CacheFollows, TicketFollows, StreamFollows, ExecutionTypeOK
<1>7. MarkedIsInstalled'
  BY <1>0
  DEF MarkedIsInstalled, TicketFollows, StreamFollows, CacheFollows, ExecutionTypeOK, Closed,
      Opened, Activated
<1>8. ResultFollows'
  BY <1>0
  DEF ResultFollows, TicketFollows, StreamFollows, CacheFollows, MarkedIsInstalled,
      ExecutionTypeOK
<1>9. QED  BY <1>1, <1>2, <1>3, <1>4, <1>5, <1>6, <1>7, <1>8 DEF ExecutionInv

\* wait ends the only outstanding copy: its layer becomes the layer at hand.
LEMMA WaitInv ==
  ASSUME ExecutionInv, Wait
  PROVE  ExecutionInv'
<1> USE ExecutionAssumption DEF Wait, Goto, streamVars, cacheVars, modelVars, endVars
<1>0. /\ ExecutionTypeOK /\ StreamFollows /\ CopiesFollow /\ StageFollows
      /\ TicketFollows /\ CacheFollows /\ MarkedIsInstalled /\ ResultFollows
  BY DEF ExecutionInv
<1>1. ExecutionTypeOK'
  <2>1. (order \in {"h2d_first", "compute_first"} /\ pc \in Steps)'
    BY <1>0
    DEF ExecutionTypeOK, StreamFollows, LayerCalls, LayerIds, Methods, Steps, Calls, Models,
        Results
  <2>2. /\ (plan \in Plan)'
        /\ (layer \in -1 .. Layers - 1)'
        /\ (staging \in [LayerIds -> Contents])'
        /\ (paged \in [LayerIds -> Contents])'
        /\ (calibrated \subseteq LayerIds /\ model \in Models /\ blending \in BOOLEAN)'
        /\ (ticket \in Ticket)'
        /\ (result \in Results /\ reported \in BOOLEAN /\ executions \in Nat)'
    BY <1>0 DEF ExecutionTypeOK, StreamFollows
  <2>3. (stream \in Stream)'
    <3>1. layer + 1 + 1 \in 0 .. Layers
      BY <1>0 DEF ExecutionTypeOK, StreamFollows
    <3>2. stream \in Stream
      BY <1>0 DEF ExecutionTypeOK
    <3>3. [stream EXCEPT !.waited = layer + 1 + 1, !.pending = FALSE] \in Stream
      BY <3>1, <3>2, StreamRecords
    <3>4. stream' = [stream EXCEPT !.waited = layer + 1 + 1, !.pending = FALSE]
      OBVIOUS
    <3>5. QED  BY <3>3, <3>4, Zenon
  <2>4. QED  BY <2>1, <2>2, <2>3 DEF ExecutionTypeOK
<1>2. StreamFollows'
  <2>1. /\ stream'.submitted = layer + 2 /\ stream'.waited = layer + 2
        /\ ~stream'.pending /\ ~stream'.finished
    BY <1>0 DEF ExecutionTypeOK, StreamFollows
  <2>2. layer \in -1 .. Layers - 1 /\ layer + 1 < Layers
    BY <1>0 DEF ExecutionTypeOK, StreamFollows
  <2>3. CASE Ahead /\ ~Last(layer')
    BY <1>0, <2>1, <2>2, <2>3
    DEF StreamFollows, ExecutionTypeOK, LayerIds, Plan, Calls, LayerCalls, Overlapped, Ahead,
        Last, UsesModel
  <2>4. CASE UsesModel /\ ~(Ahead /\ ~Last(layer'))
    BY <1>0, <2>1, <2>2, <2>4
    DEF StreamFollows, ExecutionTypeOK, Plan, Overlapped, Ahead, Last, UsesModel
  <2>5. CASE ~UsesModel
    BY <1>0, <2>1, <2>2, <2>5
    DEF StreamFollows, ExecutionTypeOK, Plan, Overlapped, Ahead, Last, UsesModel
  <2>6. QED  BY <2>3, <2>4, <2>5
<1>3. CopiesFollow'
  BY <1>0 DEF CopiesFollow, StreamFollows, ExecutionTypeOK, LayerIds, Calls, LayerCalls
<1>4. StageFollows'
  BY <1>0
  DEF StageFollows, CopiesFollow, StreamFollows, ExecutionTypeOK, LayerIds, Plan, Calls,
      LayerCalls, Overlapped, Ahead, Last, UsesModel
<1>5. TicketFollows'
  BY <1>0
  DEF TicketFollows, StreamFollows, ExecutionTypeOK, Plan, Overlapped, Ahead, Last,
      UsesModel
<1>6. CacheFollows'
  BY <1>0
  DEF CacheFollows, TicketFollows, StreamFollows, ExecutionTypeOK, LayerIds, Calls,
      LayerCalls
<1>7. MarkedIsInstalled'
  BY <1>0
  DEF MarkedIsInstalled, TicketFollows, StreamFollows, CacheFollows, ExecutionTypeOK, Right,
      Installed
<1>8. ResultFollows'
  BY <1>0
  DEF ResultFollows, TicketFollows, StreamFollows, CacheFollows, MarkedIsInstalled,
      ExecutionTypeOK, LayerIds, Calls, LayerCalls
<1>9. QED  BY <1>1, <1>2, <1>3, <1>4, <1>5, <1>6, <1>7, <1>8 DEF ExecutionInv

\* Opening the stream submits nothing yet.
LEMMA OpenInv ==
  ASSUME ExecutionInv, Open
  PROVE  ExecutionInv'
<1> USE ExecutionAssumption DEF Open, Goto, streamVars, cacheVars, modelVars, endVars
<1>0. /\ ExecutionTypeOK /\ StreamFollows /\ CopiesFollow /\ StageFollows
      /\ TicketFollows /\ CacheFollows /\ MarkedIsInstalled /\ ResultFollows
  BY DEF ExecutionInv
<1>1. ExecutionTypeOK'
  <2>1. (order \in {"h2d_first", "compute_first"} /\ pc \in Steps)'
    BY <1>0
    DEF ExecutionTypeOK, StreamFollows, LayerCalls, LayerIds, Methods, Steps, Calls, Models,
        Results
  <2>2. /\ (plan \in Plan)'
        /\ (staging \in [LayerIds -> Contents])'
        /\ (paged \in [LayerIds -> Contents])'
        /\ (calibrated \subseteq LayerIds /\ model \in Models /\ blending \in BOOLEAN)'
        /\ (ticket \in Ticket)'
    BY <1>0 DEF ExecutionTypeOK, StreamFollows
  <2>3. (layer \in -1 .. Layers - 1)'
    BY <1>0 DEF StreamFollows
  <2>4. (stream \in Stream)'
    <3>1. stream' = Opened
      OBVIOUS
    <3>2. Opened \in Stream
      BY OpenedStream
    <3>3. QED  BY <3>1, <3>2, Zenon
  <2>5. (result \in Results /\ reported \in BOOLEAN /\ executions \in Nat)'
    BY <1>0 DEF ExecutionTypeOK, StreamFollows, Methods, Steps, Models, Results
  <2>6. QED  BY <2>1, <2>2, <2>3, <2>4, <2>5 DEF ExecutionTypeOK
<1>2. StreamFollows'
  BY <1>0
  DEF StreamFollows, ExecutionTypeOK, LayerIds, Calls, LayerCalls, Closed, Opened, Activated
<1>3. CopiesFollow'
  BY <1>0 DEF CopiesFollow, StreamFollows, ExecutionTypeOK
<1>4. StageFollows'
  BY <1>0
  DEF StageFollows, CopiesFollow, StreamFollows, ExecutionTypeOK, LayerIds, Calls,
      LayerCalls
<1>5. TicketFollows'
  BY <1>0 DEF TicketFollows, StreamFollows, ExecutionTypeOK, LayerIds, Calls, LayerCalls
<1>6. CacheFollows'
  BY <1>0
  DEF CacheFollows, TicketFollows, StreamFollows, ExecutionTypeOK, LayerIds, Calls,
      LayerCalls
<1>7. MarkedIsInstalled'
  BY <1>0 DEF MarkedIsInstalled, TicketFollows, StreamFollows, CacheFollows, ExecutionTypeOK
<1>8. ResultFollows'
  BY <1>0
  DEF ResultFollows, TicketFollows, StreamFollows, CacheFollows, MarkedIsInstalled,
      ExecutionTypeOK, LayerIds, Calls, LayerCalls
<1>9. QED  BY <1>1, <1>2, <1>3, <1>4, <1>5, <1>6, <1>7, <1>8 DEF ExecutionInv

\* Opening the calibration model touches neither the stream nor the cache.
LEMMA OpenModelInv ==
  ASSUME ExecutionInv, OpenModel
  PROVE  ExecutionInv'
<1> USE ExecutionAssumption DEF OpenModel, Goto, streamVars, cacheVars, modelVars, endVars
<1>0. /\ ExecutionTypeOK /\ StreamFollows /\ CopiesFollow /\ StageFollows
      /\ TicketFollows /\ CacheFollows /\ MarkedIsInstalled /\ ResultFollows
  BY DEF ExecutionInv
<1>1. ExecutionTypeOK'
  <2>1. (order \in {"h2d_first", "compute_first"} /\ pc \in Steps)'
    BY <1>0
    DEF ExecutionTypeOK, StreamFollows, LayerCalls, LayerIds, Methods, Steps, Calls, Models,
        Results
  <2>2. /\ (plan \in Plan)'
        /\ (stream \in Stream)'
        /\ (staging \in [LayerIds -> Contents])'
        /\ (paged \in [LayerIds -> Contents])'
        /\ (ticket \in Ticket)'
        /\ (result \in Results /\ reported \in BOOLEAN /\ executions \in Nat)'
    BY <1>0 DEF ExecutionTypeOK, StreamFollows
  <2>3. (layer \in -1 .. Layers - 1)'
    BY <1>0 DEF StreamFollows
  <2>4. (calibrated \subseteq LayerIds /\ model \in Models /\ blending \in BOOLEAN)'
    BY <1>0 DEF ExecutionTypeOK, StreamFollows, Methods, Steps, Models, Results
  <2>5. QED  BY <2>1, <2>2, <2>3, <2>4 DEF ExecutionTypeOK
<1>2. StreamFollows'
  BY <1>0
  DEF StreamFollows, ExecutionTypeOK, LayerIds, Calls, LayerCalls, Closed, Opened, Activated
<1>3. CopiesFollow'
  BY <1>0 DEF CopiesFollow, StreamFollows, ExecutionTypeOK
<1>4. StageFollows'
  BY <1>0
  DEF StageFollows, CopiesFollow, StreamFollows, ExecutionTypeOK, LayerIds, Calls,
      LayerCalls
<1>5. TicketFollows'
  BY <1>0 DEF TicketFollows, StreamFollows, ExecutionTypeOK, LayerIds, Calls, LayerCalls
<1>6. CacheFollows'
  BY <1>0
  DEF CacheFollows, TicketFollows, StreamFollows, ExecutionTypeOK, LayerIds, Calls,
      LayerCalls
<1>7. MarkedIsInstalled'
  BY <1>0 DEF MarkedIsInstalled, TicketFollows, StreamFollows, CacheFollows, ExecutionTypeOK
<1>8. ResultFollows'
  BY <1>0
  DEF ResultFollows, TicketFollows, StreamFollows, CacheFollows, MarkedIsInstalled,
      ExecutionTypeOK, LayerIds, Calls, LayerCalls
<1>9. QED  BY <1>1, <1>2, <1>3, <1>4, <1>5, <1>6, <1>7, <1>8 DEF ExecutionInv

\* submit starts the copy of the next layer: in the overlapped order, while one is at hand.
LEMMA SubmitInv ==
  ASSUME ExecutionInv, Submit
  PROVE  ExecutionInv'
<1> USE ExecutionAssumption
    DEF Submit, CanSubmit, Goto, streamVars, cacheVars, modelVars, endVars
<1>0. /\ ExecutionTypeOK /\ StreamFollows /\ CopiesFollow /\ StageFollows
      /\ TicketFollows /\ CacheFollows /\ MarkedIsInstalled /\ ResultFollows
  BY DEF ExecutionInv
<1>1. ExecutionTypeOK'
  <2>1. (order \in {"h2d_first", "compute_first"} /\ pc \in Steps)'
    BY <1>0
    DEF ExecutionTypeOK, StreamFollows, LayerCalls, LayerIds, Methods, Steps, Calls, Models,
        Results
  <2>2. /\ (plan \in Plan)'
        /\ (layer \in -1 .. Layers - 1)'
        /\ (paged \in [LayerIds -> Contents])'
        /\ (calibrated \subseteq LayerIds /\ model \in Models /\ blending \in BOOLEAN)'
        /\ (ticket \in Ticket)'
        /\ (result \in Results /\ reported \in BOOLEAN /\ executions \in Nat)'
    BY <1>0 DEF ExecutionTypeOK, StreamFollows
  <2>3. (stream \in Stream)'
    <3>1. layer + 1 + 1 \in 0 .. Layers
      BY <1>0 DEF ExecutionTypeOK, StreamFollows
    <3>2. stream \in Stream
      BY <1>0 DEF ExecutionTypeOK
    <3>3. [stream EXCEPT !.submitted = layer + 1 + 1, !.pending = TRUE] \in Stream
      BY <3>1, <3>2, StreamRecords
    <3>4. stream' = [stream EXCEPT !.submitted = layer + 1 + 1, !.pending = TRUE]
      OBVIOUS
    <3>5. QED  BY <3>3, <3>4, Zenon
  <2>4. (staging \in [LayerIds -> Contents])'
    BY <1>0 DEF ExecutionTypeOK, StreamFollows, Stream, Contents, Ticket
  <2>5. QED  BY <2>1, <2>2, <2>3, <2>4 DEF ExecutionTypeOK
<1>2. StreamFollows'
  <2>1. /\ stream'.submitted = layer + 2 /\ stream'.waited = layer + 1
        /\ stream'.pending /\ ~stream'.finished
    BY <1>0 DEF ExecutionTypeOK, StreamFollows
  <2>2. layer \in -1 .. Layers - 1 /\ layer + 1 < Layers
    BY <1>0 DEF ExecutionTypeOK, StreamFollows
  <2>3. CASE Ahead /\ layer >= 0
    BY <1>0, <2>1, <2>2, <2>3
    DEF StreamFollows, ExecutionTypeOK, Plan, Overlapped, Ahead, Last, UsesModel
  <2>4. CASE ~(Ahead /\ layer >= 0)
    BY <1>0, <2>1, <2>2, <2>4
    DEF StreamFollows, ExecutionTypeOK, LayerIds, Calls, LayerCalls
  <2>5. QED  BY <2>3, <2>4
<1>3. CopiesFollow'
  BY <1>0 DEF CopiesFollow, StreamFollows, ExecutionTypeOK, LayerIds, Calls, LayerCalls
<1>4. StageFollows'
  BY <1>0
  DEF StageFollows, CopiesFollow, StreamFollows, ExecutionTypeOK, LayerIds, Plan, Calls,
      LayerCalls, Overlapped, Ahead, Last, UsesModel
<1>5. TicketFollows'
  BY <1>0 DEF TicketFollows, StreamFollows, ExecutionTypeOK, LayerIds, Calls, LayerCalls
<1>6. CacheFollows'
  BY <1>0
  DEF CacheFollows, TicketFollows, StreamFollows, ExecutionTypeOK, LayerIds, Calls,
      LayerCalls
<1>7. MarkedIsInstalled'
  BY <1>0
  DEF MarkedIsInstalled, TicketFollows, StreamFollows, CacheFollows, ExecutionTypeOK, Right,
      Installed
<1>8. ResultFollows'
  BY <1>0
  DEF ResultFollows, TicketFollows, StreamFollows, CacheFollows, MarkedIsInstalled,
      ExecutionTypeOK, LayerIds, Calls, LayerCalls
<1>9. QED  BY <1>1, <1>2, <1>3, <1>4, <1>5, <1>6, <1>7, <1>8 DEF ExecutionInv

\* The model computes the layer at hand, whose copy was waited for.
LEMMA ComputeInv ==
  ASSUME ExecutionInv, Compute
  PROVE  ExecutionInv'
<1> USE ExecutionAssumption DEF Compute, Goto, streamVars, cacheVars, modelVars, endVars
<1>0. /\ ExecutionTypeOK /\ StreamFollows /\ CopiesFollow /\ StageFollows
      /\ TicketFollows /\ CacheFollows /\ MarkedIsInstalled /\ ResultFollows
  BY DEF ExecutionInv
<1>1. ExecutionTypeOK'
  BY <1>0
  DEF ExecutionTypeOK, StreamFollows, LayerCalls, LayerIds, Methods, Steps, Calls, Stream,
      Contents, Models, Ticket, Results, CanFinish, Staged
<1>2. StreamFollows'
  BY <1>0
  DEF StreamFollows, ExecutionTypeOK, LayerIds, Plan, Calls, LayerCalls, Overlapped, Ahead,
      Last, UsesModel
<1>3. CopiesFollow'
  BY <1>0
  DEF CopiesFollow, StreamFollows, ExecutionTypeOK, LayerIds, Calls, LayerCalls, CanFinish,
      Staged
<1>4. StageFollows'
  BY <1>0
  DEF StageFollows, CopiesFollow, StreamFollows, ExecutionTypeOK, LayerIds, Plan, Calls,
      LayerCalls, Overlapped, Ahead, Last, UsesModel, CanFinish, Staged
<1>5. TicketFollows'
  BY <1>0 DEF TicketFollows, StreamFollows, ExecutionTypeOK, LayerIds, Calls, LayerCalls
<1>6. CacheFollows'
  BY <1>0
  DEF CacheFollows, TicketFollows, StreamFollows, ExecutionTypeOK, LayerIds, Calls,
      LayerCalls
<1>7. MarkedIsInstalled'
  BY <1>0
  DEF MarkedIsInstalled, TicketFollows, StreamFollows, CacheFollows, ExecutionTypeOK, Right,
      Installed
<1>8. ResultFollows'
  BY <1>0
  DEF ResultFollows, TicketFollows, StreamFollows, CacheFollows, MarkedIsInstalled,
      ExecutionTypeOK, LayerIds, Calls, LayerCalls
<1>9. QED  BY <1>1, <1>2, <1>3, <1>4, <1>5, <1>6, <1>7, <1>8 DEF ExecutionInv

\* Marking a layer loaded follows its copy and, for a deviation plan, its correction.
LEMMA MarkLoadedInv ==
  ASSUME ExecutionInv, MarkLoaded
  PROVE  ExecutionInv'
<1> USE ExecutionAssumption DEF MarkLoaded, Goto, streamVars, cacheVars, modelVars, endVars
<1>0. /\ ExecutionTypeOK /\ StreamFollows /\ CopiesFollow /\ StageFollows
      /\ TicketFollows /\ CacheFollows /\ MarkedIsInstalled /\ ResultFollows
  BY DEF ExecutionInv
<1>1. ExecutionTypeOK'
  BY <1>0
  DEF ExecutionTypeOK, StreamFollows, LayerCalls, LayerIds, Methods, Steps, Calls, Stream,
      Contents, Models, Ticket, Results
<1>2. StreamFollows'
  BY <1>0
  DEF StreamFollows, ExecutionTypeOK, LayerIds, Plan, Calls, LayerCalls, Overlapped, Ahead,
      Last, UsesModel
<1>3. CopiesFollow'
  BY <1>0 DEF CopiesFollow, StreamFollows, ExecutionTypeOK, LayerIds, Calls, LayerCalls
<1>4. StageFollows'
  BY <1>0
  DEF StageFollows, CopiesFollow, StreamFollows, ExecutionTypeOK, LayerIds, Plan, Methods,
      Steps, Calls, Models, Results, LayerCalls, Overlapped, Ahead, Last, UsesModel, Right,
      Installed
<1>5. TicketFollows'
  BY <1>0 DEF TicketFollows, StreamFollows, ExecutionTypeOK, LayerIds, Calls, LayerCalls
<1>6. CacheFollows'
  BY <1>0
  DEF CacheFollows, TicketFollows, StreamFollows, ExecutionTypeOK, LayerIds, Calls,
      LayerCalls
<1>7. MarkedIsInstalled'
  BY <1>0
  DEF MarkedIsInstalled, TicketFollows, StreamFollows, CacheFollows, ExecutionTypeOK, Right,
      Installed
<1>8. ResultFollows'
  BY <1>0
  DEF ResultFollows, TicketFollows, StreamFollows, CacheFollows, MarkedIsInstalled,
      ExecutionTypeOK, LayerIds, Calls, LayerCalls
<1>9. QED  BY <1>1, <1>2, <1>3, <1>4, <1>5, <1>6, <1>7, <1>8 DEF ExecutionInv

\* The calibration of a layer is committed before the layer itself.
LEMMA CalibrateInv ==
  ASSUME ExecutionInv, CommitCalibration
  PROVE  ExecutionInv'
<1> USE ExecutionAssumption
    DEF CommitCalibration, Goto, streamVars, cacheVars, modelVars, endVars
<1>0. /\ ExecutionTypeOK /\ StreamFollows /\ CopiesFollow /\ StageFollows
      /\ TicketFollows /\ CacheFollows /\ MarkedIsInstalled /\ ResultFollows
  BY DEF ExecutionInv
<1>1. ExecutionTypeOK'
  BY <1>0
  DEF ExecutionTypeOK, StreamFollows, LayerCalls, LayerIds, Methods, Steps, Calls, Models,
      Results
<1>2. StreamFollows'
  BY <1>0
  DEF StreamFollows, ExecutionTypeOK, LayerIds, Plan, Calls, LayerCalls, Overlapped, Ahead,
      Last, UsesModel
<1>3. CopiesFollow'
  BY <1>0 DEF CopiesFollow, StreamFollows, ExecutionTypeOK, LayerIds, Calls, LayerCalls
<1>4. StageFollows'
  BY <1>0
  DEF StageFollows, CopiesFollow, StreamFollows, ExecutionTypeOK, LayerIds, Plan, Calls,
      LayerCalls, Overlapped, Ahead, Last, UsesModel
<1>5. TicketFollows'
  BY <1>0 DEF TicketFollows, StreamFollows, ExecutionTypeOK, LayerIds, Calls, LayerCalls
<1>6. CacheFollows'
  BY <1>0
  DEF CacheFollows, TicketFollows, StreamFollows, ExecutionTypeOK, LayerIds, Calls,
      LayerCalls
<1>7. MarkedIsInstalled'
  BY <1>0
  DEF MarkedIsInstalled, TicketFollows, StreamFollows, CacheFollows, ExecutionTypeOK, Right,
      Installed
<1>8. ResultFollows'
  BY <1>0
  DEF ResultFollows, TicketFollows, StreamFollows, CacheFollows, MarkedIsInstalled,
      ExecutionTypeOK, LayerIds, Calls, LayerCalls
<1>9. QED  BY <1>1, <1>2, <1>3, <1>4, <1>5, <1>6, <1>7, <1>8 DEF ExecutionInv

\* A ratio plan corrects the staged layer after its calibration.
LEMMA CorrectInv ==
  ASSUME ExecutionInv, Correct
  PROVE  ExecutionInv'
<1> USE ExecutionAssumption DEF Correct, Goto, streamVars, cacheVars, modelVars, endVars
<1>0. /\ ExecutionTypeOK /\ StreamFollows /\ CopiesFollow /\ StageFollows
      /\ TicketFollows /\ CacheFollows /\ MarkedIsInstalled /\ ResultFollows
  BY DEF ExecutionInv
<1>1. ExecutionTypeOK'
  BY <1>0
  DEF ExecutionTypeOK, StreamFollows, LayerCalls, LayerIds, Methods, Steps, Calls, Stream,
      Contents, Models, Ticket, Results, CanFinish, Staged
<1>2. StreamFollows'
  BY <1>0
  DEF StreamFollows, ExecutionTypeOK, LayerIds, Plan, Calls, LayerCalls, Overlapped, Ahead,
      Last, UsesModel
<1>3. CopiesFollow'
  BY <1>0
  DEF CopiesFollow, StreamFollows, ExecutionTypeOK, LayerIds, Calls, LayerCalls, CanFinish,
      Staged
<1>4. StageFollows'
  BY <1>0
  DEF StageFollows, CopiesFollow, StreamFollows, ExecutionTypeOK, LayerIds, Plan, Calls,
      LayerCalls, Overlapped, Ahead, Last, UsesModel, CanFinish, Right, Installed, Staged
<1>5. TicketFollows'
  BY <1>0 DEF TicketFollows, StreamFollows, ExecutionTypeOK, LayerIds, Calls, LayerCalls
<1>6. CacheFollows'
  BY <1>0
  DEF CacheFollows, TicketFollows, StreamFollows, ExecutionTypeOK, LayerIds, Calls,
      LayerCalls
<1>7. MarkedIsInstalled'
  BY <1>0
  DEF MarkedIsInstalled, TicketFollows, StreamFollows, CacheFollows, ExecutionTypeOK, Right,
      Installed
<1>8. ResultFollows'
  BY <1>0
  DEF ResultFollows, TicketFollows, StreamFollows, CacheFollows, MarkedIsInstalled,
      ExecutionTypeOK, LayerIds, Calls, LayerCalls
<1>9. QED  BY <1>1, <1>2, <1>3, <1>4, <1>5, <1>6, <1>7, <1>8 DEF ExecutionInv

\* Committing a layer makes the paged cache right for it.
LEMMA CommitInv ==
  ASSUME ExecutionInv, CommitLayer
  PROVE  ExecutionInv'
<1> USE ExecutionAssumption DEF CommitLayer, Goto, streamVars, cacheVars, modelVars, endVars
<1>0. /\ ExecutionTypeOK /\ StreamFollows /\ CopiesFollow /\ StageFollows
      /\ TicketFollows /\ CacheFollows /\ MarkedIsInstalled /\ ResultFollows
  BY DEF ExecutionInv
<1>1. ExecutionTypeOK'
  BY <1>0
  DEF ExecutionTypeOK, StreamFollows, LayerCalls, LayerIds, Methods, Steps, Calls, Stream,
      Contents, Models, Ticket, Results, CanFinish, Staged
<1>2. StreamFollows'
  BY <1>0
  DEF StreamFollows, ExecutionTypeOK, LayerIds, Plan, Calls, LayerCalls, Overlapped, Ahead,
      Last, UsesModel
<1>3. CopiesFollow'
  BY <1>0 DEF CopiesFollow, StreamFollows, ExecutionTypeOK, LayerIds, Calls, LayerCalls
<1>4. StageFollows'
  BY <1>0
  DEF StageFollows, CopiesFollow, StreamFollows, ExecutionTypeOK, LayerIds, Plan, Calls,
      LayerCalls, Overlapped, Ahead, Last, UsesModel, CanFinish, Right, Installed, Staged
<1>5. TicketFollows'
  BY <1>0 DEF TicketFollows, StreamFollows, ExecutionTypeOK, LayerIds, Calls, LayerCalls
<1>6. CacheFollows'
  BY <1>0
  DEF CacheFollows, TicketFollows, StreamFollows, ExecutionTypeOK, LayerIds, Calls,
      LayerCalls
<1>7. MarkedIsInstalled'
  BY <1>0
  DEF MarkedIsInstalled, TicketFollows, StreamFollows, CacheFollows, ExecutionTypeOK,
      LayerIds, Calls, LayerCalls, Right, Installed
<1>8. ResultFollows'
  BY <1>0
  DEF ResultFollows, TicketFollows, StreamFollows, CacheFollows, MarkedIsInstalled,
      ExecutionTypeOK, LayerIds, Calls, LayerCalls
<1>9. QED  BY <1>1, <1>2, <1>3, <1>4, <1>5, <1>6, <1>7, <1>8 DEF ExecutionInv

\* The ticket counts a layer as corrected only after its commit.
LEMMA MarkCorrectedInv ==
  ASSUME ExecutionInv, MarkCorrected
  PROVE  ExecutionInv'
<1> USE ExecutionAssumption
    DEF MarkCorrected, Goto, streamVars, cacheVars, modelVars, endVars
<1>0. /\ ExecutionTypeOK /\ StreamFollows /\ CopiesFollow /\ StageFollows
      /\ TicketFollows /\ CacheFollows /\ MarkedIsInstalled /\ ResultFollows
  BY DEF ExecutionInv
<1>1. ExecutionTypeOK'
  BY <1>0
  DEF ExecutionTypeOK, StreamFollows, LayerCalls, LayerIds, Methods, Steps, Calls, Stream,
      Contents, Models, Ticket, Results
<1>2. StreamFollows'
  <2>1. layer \in 0 .. Layers - 1 /\ ticket'.corrected = layer
    BY <1>0 DEF ExecutionTypeOK, StreamFollows, LayerCalls
  <2>2. CASE Last(layer)
    BY <1>0, <2>1, <2>2
    DEF StreamFollows, ExecutionTypeOK, LayerIds, Plan, Calls, LayerCalls, Overlapped, Ahead,
        Last, UsesModel, CanFinish, Staged
  <2>3. CASE ~Last(layer) /\ Ahead
    <3>1. pc' = "wait" /\ layer' = layer /\ stream' = stream
      BY <2>3
    <3>2. layer + 1 < Layers
      BY <2>1, <2>3 DEF Last
    <3>3. /\ stream.submitted = layer + 2 /\ stream.waited = layer + 1
          /\ stream.pending /\ ~stream.finished
      BY <1>0, <2>3 DEF StreamFollows, LayerCalls, Overlapped
    <3>4. QED  BY <3>1, <3>2, <3>3 DEF StreamFollows, LayerCalls
  <2>4. CASE ~Last(layer) /\ ~Ahead
    BY <1>0, <2>1, <2>4
    DEF StreamFollows, ExecutionTypeOK, LayerIds, Plan, Calls, LayerCalls, Overlapped, Ahead,
        Last, UsesModel
  <2>5. QED  BY <2>2, <2>3, <2>4
<1>3. CopiesFollow'
  BY <1>0 DEF CopiesFollow, StreamFollows, ExecutionTypeOK, LayerIds, Calls, LayerCalls
<1>4. StageFollows'
  <2>1. layer \in 0 .. Layers - 1
    BY <1>0 DEF ExecutionTypeOK, StreamFollows, LayerCalls
  <2>2. CASE Last(layer)
    BY <1>0, <2>1, <2>2
    DEF StageFollows, CopiesFollow, StreamFollows, ExecutionTypeOK, LayerIds, Calls,
        LayerCalls
  <2>3. CASE ~Last(layer) /\ Ahead
    BY <1>0, <2>1, <2>3
    DEF StageFollows, CopiesFollow, StreamFollows, ExecutionTypeOK, LayerIds, Plan, Calls,
        LayerCalls, Overlapped, Ahead, Last, UsesModel
  <2>4. CASE ~Last(layer) /\ ~Ahead
    BY <1>0, <2>1, <2>4
    DEF StageFollows, CopiesFollow, StreamFollows, ExecutionTypeOK, Plan, Overlapped, Ahead,
        Last, UsesModel
  <2>5. QED  BY <2>2, <2>3, <2>4
<1>5. TicketFollows'
  BY <1>0
  DEF TicketFollows, StreamFollows, ExecutionTypeOK, LayerIds, Plan, Calls, LayerCalls,
      Overlapped, Ahead, Last, UsesModel
<1>6. CacheFollows'
  BY <1>0
  DEF CacheFollows, TicketFollows, StreamFollows, ExecutionTypeOK, LayerIds, Calls,
      LayerCalls
<1>7. MarkedIsInstalled'
  BY <1>0
  DEF MarkedIsInstalled, TicketFollows, StageFollows, StreamFollows, CacheFollows,
      ExecutionTypeOK, LayerIds, Calls, LayerCalls, Right, Installed
<1>8. ResultFollows'
  BY <1>0
  DEF ResultFollows, TicketFollows, StreamFollows, CacheFollows, MarkedIsInstalled,
      ExecutionTypeOK, LayerIds, Calls, LayerCalls
<1>9. QED  BY <1>1, <1>2, <1>3, <1>4, <1>5, <1>6, <1>7, <1>8 DEF ExecutionInv

\* The generator is run to its end after the last layer, no copy outstanding.
LEMMA DrainInv ==
  ASSUME ExecutionInv, Drain
  PROVE  ExecutionInv'
<1> USE ExecutionAssumption DEF Drain, Goto, streamVars, cacheVars, modelVars, endVars
<1>0. /\ ExecutionTypeOK /\ StreamFollows /\ CopiesFollow /\ StageFollows
      /\ TicketFollows /\ CacheFollows /\ MarkedIsInstalled /\ ResultFollows
  BY DEF ExecutionInv
<1>1. ExecutionTypeOK'
  BY <1>0
  DEF ExecutionTypeOK, StreamFollows, LayerCalls, LayerIds, Methods, Steps, Calls, Models,
      Results
<1>2. StreamFollows'
  BY <1>0 DEF StreamFollows, ExecutionTypeOK, LayerIds, Calls, LayerCalls, CanFinish, Staged
<1>3. CopiesFollow'
  BY <1>0 DEF CopiesFollow, StreamFollows, ExecutionTypeOK, LayerIds, Calls, LayerCalls
<1>4. StageFollows'
  BY <1>0
  DEF StageFollows, CopiesFollow, StreamFollows, ExecutionTypeOK, LayerIds, Calls,
      LayerCalls
<1>5. TicketFollows'
  BY <1>0 DEF TicketFollows, StreamFollows, ExecutionTypeOK, LayerIds, Calls, LayerCalls
<1>6. CacheFollows'
  BY <1>0
  DEF CacheFollows, TicketFollows, StreamFollows, ExecutionTypeOK, LayerIds, Calls,
      LayerCalls
<1>7. MarkedIsInstalled'
  BY <1>0
  DEF MarkedIsInstalled, TicketFollows, StreamFollows, CacheFollows, ExecutionTypeOK, Right,
      Installed
<1>8. ResultFollows'
  BY <1>0
  DEF ResultFollows, TicketFollows, StreamFollows, CacheFollows, MarkedIsInstalled,
      ExecutionTypeOK, LayerIds, Calls, LayerCalls
<1>9. QED  BY <1>1, <1>2, <1>3, <1>4, <1>5, <1>6, <1>7, <1>8 DEF ExecutionInv

\* A stream finishes with every layer in the cache: the execution succeeded.
LEMMA FinishInv ==
  ASSUME ExecutionInv, Finish
  PROVE  ExecutionInv'
<1> USE ExecutionAssumption
    DEF Finish, CanFinish, Goto, streamVars, cacheVars, modelVars, endVars
<1>0. /\ ExecutionTypeOK /\ StreamFollows /\ CopiesFollow /\ StageFollows
      /\ TicketFollows /\ CacheFollows /\ MarkedIsInstalled /\ ResultFollows
  BY DEF ExecutionInv
<1>1. ExecutionTypeOK'
  BY <1>0
  DEF ExecutionTypeOK, StreamFollows, Methods, Steps, Stream, Contents, Models, Ticket,
      Results
<1>2. StreamFollows'
  BY <1>0 DEF StreamFollows, ExecutionTypeOK, LayerIds, Calls, LayerCalls
<1>3. CopiesFollow'
  BY <1>0 DEF CopiesFollow, StreamFollows, ExecutionTypeOK, LayerIds, Calls, LayerCalls
<1>4. StageFollows'
  BY <1>0
  DEF StageFollows, CopiesFollow, StreamFollows, ExecutionTypeOK, LayerIds, Calls,
      LayerCalls
<1>5. TicketFollows'
  BY <1>0 DEF TicketFollows, StreamFollows, ExecutionTypeOK, LayerIds, Calls, LayerCalls
<1>6. CacheFollows'
  BY <1>0
  DEF CacheFollows, TicketFollows, StreamFollows, ExecutionTypeOK, LayerIds, Calls,
      LayerCalls
<1>7. MarkedIsInstalled'
  BY <1>0
  DEF MarkedIsInstalled, TicketFollows, StreamFollows, CacheFollows, ExecutionTypeOK, Right,
      Installed
<1>8. ResultFollows'
  BY <1>0
  DEF ResultFollows, TicketFollows, StreamFollows, CacheFollows, MarkedIsInstalled,
      ExecutionTypeOK, LayerIds, Calls, LayerCalls, Right, Installed
<1>9. QED  BY <1>1, <1>2, <1>3, <1>4, <1>5, <1>6, <1>7, <1>8 DEF ExecutionInv

\* Any call may raise: the execution is failed and what it left is not counted.
LEMMA RaiseInv ==
  ASSUME ExecutionInv, Raise
  PROVE  ExecutionInv'
<1> USE ExecutionAssumption
    DEF Raise, AfterRaise, ModelFails, ComputeFails, SubmitFails, CommitFails, CanSubmit, Goto,
    streamVars, cacheVars, modelVars, endVars
<1>0. /\ ExecutionTypeOK /\ StreamFollows /\ CopiesFollow /\ StageFollows
      /\ TicketFollows /\ CacheFollows /\ MarkedIsInstalled /\ ResultFollows
  BY DEF ExecutionInv
<1>1. ExecutionTypeOK'
  <2>1. (order \in {"h2d_first", "compute_first"} /\ pc \in Steps)'
    BY <1>0 DEF ExecutionTypeOK, StreamFollows, Methods, Steps, Models, Results
  <2>2. /\ (plan \in Plan)'
        /\ (layer \in -1 .. Layers - 1)'
        /\ (stream \in Stream)'
        /\ (ticket \in Ticket)'
    BY <1>0 DEF ExecutionTypeOK, StreamFollows
  <2>3. /\ (staging \in [LayerIds -> Contents])'
        /\ (paged \in [LayerIds -> Contents])'
    BY <1>0 DEF ExecutionTypeOK, StreamFollows, Stream, Contents, Ticket
  <2>4. (calibrated \subseteq LayerIds /\ model \in Models /\ blending \in BOOLEAN)'
    BY <1>0 DEF ExecutionTypeOK, StreamFollows, Methods, Steps, Models, Results
  <2>5. (result \in Results /\ reported \in BOOLEAN /\ executions \in Nat)'
    BY <1>0 DEF ExecutionTypeOK, StreamFollows, Methods, Steps, Models, Results
  <2>6. QED  BY <2>1, <2>2, <2>3, <2>4, <2>5 DEF ExecutionTypeOK
<1>2. StreamFollows'
  BY <1>0 DEF StreamFollows, ExecutionTypeOK, LayerIds, Calls, LayerCalls
<1>3. CopiesFollow'
  BY <1>0 DEF CopiesFollow, StreamFollows, ExecutionTypeOK, LayerIds, Calls, LayerCalls
<1>4. StageFollows'
  BY <1>0
  DEF StageFollows, CopiesFollow, StreamFollows, ExecutionTypeOK, LayerIds, Calls,
      LayerCalls
<1>5. TicketFollows'
  BY <1>0 DEF TicketFollows, StreamFollows, ExecutionTypeOK, LayerIds, Calls, LayerCalls
<1>6. CacheFollows'
  BY <1>0
  DEF CacheFollows, TicketFollows, StreamFollows, ExecutionTypeOK, LayerIds, Calls,
      LayerCalls
<1>7. MarkedIsInstalled'
  BY <1>0
  DEF MarkedIsInstalled, TicketFollows, StreamFollows, CacheFollows, ExecutionTypeOK,
      LayerIds, Calls, LayerCalls, Right, Installed
<1>8. ResultFollows'
  BY <1>0
  DEF ResultFollows, TicketFollows, StreamFollows, CacheFollows, MarkedIsInstalled,
      ExecutionTypeOK, LayerIds, Calls, LayerCalls
<1>9. QED  BY <1>1, <1>2, <1>3, <1>4, <1>5, <1>6, <1>7, <1>8 DEF ExecutionInv

\* abort ends every copy, at whichever layer the stream was.
LEMMA AbortInv ==
  ASSUME ExecutionInv, Abort
  PROVE  ExecutionInv'
<1> USE ExecutionAssumption DEF Abort, Goto, streamVars, cacheVars, modelVars, endVars
<1>0. /\ ExecutionTypeOK /\ StreamFollows /\ CopiesFollow /\ StageFollows
      /\ TicketFollows /\ CacheFollows /\ MarkedIsInstalled /\ ResultFollows
  BY DEF ExecutionInv
<1>1. ExecutionTypeOK'
  BY <1>0
  DEF ExecutionTypeOK, StreamFollows, Methods, Steps, Stream, Contents, Models, Ticket,
      Results
<1>2. StreamFollows'
  BY <1>0 DEF StreamFollows, ExecutionTypeOK, LayerIds, Calls, LayerCalls
<1>3. CopiesFollow'
  BY <1>0 DEF CopiesFollow, StreamFollows, ExecutionTypeOK
<1>4. StageFollows'
  BY <1>0
  DEF StageFollows, CopiesFollow, StreamFollows, ExecutionTypeOK, LayerIds, Calls,
      LayerCalls
<1>5. TicketFollows'
  BY <1>0 DEF TicketFollows, StreamFollows, ExecutionTypeOK, LayerIds, Calls, LayerCalls
<1>6. CacheFollows'
  BY <1>0
  DEF CacheFollows, TicketFollows, StreamFollows, ExecutionTypeOK, LayerIds, Calls,
      LayerCalls
<1>7. MarkedIsInstalled'
  BY <1>0
  DEF MarkedIsInstalled, TicketFollows, StreamFollows, CacheFollows, ExecutionTypeOK, Right,
      Installed
<1>8. ResultFollows'
  BY <1>0
  DEF ResultFollows, TicketFollows, StreamFollows, CacheFollows, MarkedIsInstalled,
      ExecutionTypeOK, LayerIds, Calls, LayerCalls
<1>9. QED  BY <1>1, <1>2, <1>3, <1>4, <1>5, <1>6, <1>7, <1>8 DEF ExecutionInv

\* Closing the model comes after the stream was finished or aborted.
LEMMA CloseInv ==
  ASSUME ExecutionInv, CloseModel
  PROVE  ExecutionInv'
<1> USE ExecutionAssumption DEF CloseModel, Goto, streamVars, cacheVars, modelVars, endVars
<1>0. /\ ExecutionTypeOK /\ StreamFollows /\ CopiesFollow /\ StageFollows
      /\ TicketFollows /\ CacheFollows /\ MarkedIsInstalled /\ ResultFollows
  BY DEF ExecutionInv
<1>1. ExecutionTypeOK'
  BY <1>0 DEF ExecutionTypeOK, StreamFollows, Methods, Steps, Models, Results
<1>2. StreamFollows'
  BY <1>0 DEF StreamFollows, ExecutionTypeOK, LayerIds, Calls, LayerCalls
<1>3. CopiesFollow'
  BY <1>0 DEF CopiesFollow, StreamFollows, ExecutionTypeOK
<1>4. StageFollows'
  BY <1>0
  DEF StageFollows, CopiesFollow, StreamFollows, ExecutionTypeOK, LayerIds, Calls,
      LayerCalls
<1>5. TicketFollows'
  BY <1>0 DEF TicketFollows, StreamFollows, ExecutionTypeOK, LayerIds, Calls, LayerCalls
<1>6. CacheFollows'
  BY <1>0
  DEF CacheFollows, TicketFollows, StreamFollows, ExecutionTypeOK, LayerIds, Calls,
      LayerCalls
<1>7. MarkedIsInstalled'
  BY <1>0
  DEF MarkedIsInstalled, TicketFollows, StreamFollows, CacheFollows, ExecutionTypeOK, Right,
      Installed
<1>8. ResultFollows'
  BY <1>0
  DEF ResultFollows, TicketFollows, StreamFollows, CacheFollows, MarkedIsInstalled,
      ExecutionTypeOK, LayerIds, Calls, LayerCalls, Right, Installed
<1>9. QED  BY <1>1, <1>2, <1>3, <1>4, <1>5, <1>6, <1>7, <1>8 DEF ExecutionInv

\* The end of the execution reports a failure on the ticket.
LEMMA EndInv ==
  ASSUME ExecutionInv, End
  PROVE  ExecutionInv'
<1> USE ExecutionAssumption DEF End, Goto, streamVars, cacheVars, modelVars, endVars
<1>0. /\ ExecutionTypeOK /\ StreamFollows /\ CopiesFollow /\ StageFollows
      /\ TicketFollows /\ CacheFollows /\ MarkedIsInstalled /\ ResultFollows
  BY DEF ExecutionInv
<1>1. ExecutionTypeOK'
  <2>1. (order \in {"h2d_first", "compute_first"} /\ pc \in Steps)'
    BY <1>0 DEF ExecutionTypeOK, StreamFollows, Methods, Steps, Models, Results
  <2>2. /\ (plan \in Plan)'
        /\ (layer \in -1 .. Layers - 1)'
        /\ (stream \in Stream)'
        /\ (staging \in [LayerIds -> Contents])'
        /\ (paged \in [LayerIds -> Contents])'
        /\ (calibrated \subseteq LayerIds /\ model \in Models /\ blending \in BOOLEAN)'
        /\ (result \in Results /\ reported \in BOOLEAN /\ executions \in Nat)'
    BY <1>0 DEF ExecutionTypeOK, StreamFollows
  <2>3. (ticket \in Ticket)'
    BY <1>0 DEF ExecutionTypeOK, StreamFollows, Stream, Contents, Ticket
  <2>4. QED  BY <2>1, <2>2, <2>3 DEF ExecutionTypeOK
<1>2. StreamFollows'
  BY <1>0 DEF StreamFollows, ExecutionTypeOK, LayerIds, Calls, LayerCalls
<1>3. CopiesFollow'
  BY <1>0 DEF CopiesFollow, StreamFollows, ExecutionTypeOK
<1>4. StageFollows'
  BY <1>0
  DEF StageFollows, CopiesFollow, StreamFollows, ExecutionTypeOK, LayerIds, Calls,
      LayerCalls
<1>5. TicketFollows'
  BY <1>0 DEF TicketFollows, StreamFollows, ExecutionTypeOK, LayerIds, Calls, LayerCalls
<1>6. CacheFollows'
  BY <1>0
  DEF CacheFollows, TicketFollows, StreamFollows, ExecutionTypeOK, LayerIds, Calls,
      LayerCalls
<1>7. MarkedIsInstalled'
  BY <1>0
  DEF MarkedIsInstalled, TicketFollows, StreamFollows, CacheFollows, ExecutionTypeOK, Right,
      Installed
<1>8. ResultFollows'
  BY <1>0
  DEF ResultFollows, TicketFollows, StreamFollows, CacheFollows, MarkedIsInstalled,
      ExecutionTypeOK, LayerIds, Calls, LayerCalls, Right, Installed
<1>9. QED  BY <1>1, <1>2, <1>3, <1>4, <1>5, <1>6, <1>7, <1>8 DEF ExecutionInv

\* The ticket ending under the executor takes no layer back.
LEMMA TicketEndsInv ==
  ASSUME ExecutionInv, TicketEnds
  PROVE  ExecutionInv'
<1> USE ExecutionAssumption DEF TicketEnds, streamVars, cacheVars, modelVars, endVars
<1>0. /\ ExecutionTypeOK /\ StreamFollows /\ CopiesFollow /\ StageFollows
      /\ TicketFollows /\ CacheFollows /\ MarkedIsInstalled /\ ResultFollows
  BY DEF ExecutionInv
<1>1. ExecutionTypeOK'
  <2>1. /\ (order \in {"h2d_first", "compute_first"} /\ pc \in Steps)'
        /\ (plan \in Plan)'
        /\ (layer \in -1 .. Layers - 1)'
        /\ (stream \in Stream)'
        /\ (staging \in [LayerIds -> Contents])'
        /\ (paged \in [LayerIds -> Contents])'
        /\ (calibrated \subseteq LayerIds /\ model \in Models /\ blending \in BOOLEAN)'
        /\ (result \in Results /\ reported \in BOOLEAN /\ executions \in Nat)'
    BY <1>0 DEF ExecutionTypeOK, StreamFollows
  <2>2. (ticket \in Ticket)'
    BY <1>0 DEF ExecutionTypeOK, StreamFollows, Stream, Contents, Ticket
  <2>3. QED  BY <2>1, <2>2 DEF ExecutionTypeOK
<1>2. StreamFollows'
  BY <1>0
  DEF StreamFollows, ExecutionTypeOK, Plan, Overlapped, Ahead, Last, UsesModel, CanFinish,
      Staged
<1>3. CopiesFollow'
  BY <1>0 DEF CopiesFollow, StreamFollows, ExecutionTypeOK
<1>4. StageFollows'
  BY <1>0
  DEF StageFollows, CopiesFollow, StreamFollows, ExecutionTypeOK, Plan, Overlapped, Ahead,
      Last, UsesModel, Right, Installed
<1>5. TicketFollows'
  BY <1>0
  DEF TicketFollows, StreamFollows, ExecutionTypeOK, Plan, Overlapped, Ahead, Last,
      UsesModel
<1>6. CacheFollows'
  BY <1>0 DEF CacheFollows, TicketFollows, StreamFollows, ExecutionTypeOK
<1>7. MarkedIsInstalled'
  BY <1>0
  DEF MarkedIsInstalled, TicketFollows, StreamFollows, CacheFollows, ExecutionTypeOK, Right,
      Installed
<1>8. ResultFollows'
  BY <1>0
  DEF ResultFollows, TicketFollows, StreamFollows, CacheFollows, MarkedIsInstalled,
      ExecutionTypeOK, Right, Installed
<1>9. QED  BY <1>1, <1>2, <1>3, <1>4, <1>5, <1>6, <1>7, <1>8 DEF ExecutionInv

\* A copy lands in the staging buffer of the one layer still being copied.
LEMMA LandsInv ==
  ASSUME ExecutionInv, NEW k \in LayerIds, Lands(k)
  PROVE  ExecutionInv'
<1> USE ExecutionAssumption DEF Lands, streamVars, cacheVars, modelVars, endVars
<1>0. /\ ExecutionTypeOK /\ StreamFollows /\ CopiesFollow /\ StageFollows
      /\ TicketFollows /\ CacheFollows /\ MarkedIsInstalled /\ ResultFollows
  BY DEF ExecutionInv
<1>1. ExecutionTypeOK'
  BY <1>0 DEF ExecutionTypeOK, StreamFollows, Stream, Contents, Ticket
<1>2. StreamFollows'
  BY <1>0
  DEF StreamFollows, ExecutionTypeOK, Plan, Overlapped, Ahead, Last, UsesModel, CanFinish,
      Staged
<1>3. CopiesFollow'
  BY <1>0 DEF CopiesFollow, StreamFollows, ExecutionTypeOK
<1>4. StageFollows'
  BY <1>0
  DEF StageFollows, CopiesFollow, StreamFollows, ExecutionTypeOK, Plan, Overlapped, Ahead,
      Last, UsesModel, Right, Installed
<1>5. TicketFollows'
  BY <1>0
  DEF TicketFollows, StreamFollows, ExecutionTypeOK, Plan, Overlapped, Ahead, Last,
      UsesModel
<1>6. CacheFollows'
  BY <1>0 DEF CacheFollows, TicketFollows, StreamFollows, ExecutionTypeOK
<1>7. MarkedIsInstalled'
  BY <1>0
  DEF MarkedIsInstalled, TicketFollows, StreamFollows, CacheFollows, ExecutionTypeOK, Right,
      Installed
<1>8. ResultFollows'
  BY <1>0
  DEF ResultFollows, TicketFollows, StreamFollows, CacheFollows, MarkedIsInstalled,
      ExecutionTypeOK, Right, Installed
<1>9. QED  BY <1>1, <1>2, <1>3, <1>4, <1>5, <1>6, <1>7, <1>8 DEF ExecutionInv

\* A stuttering step changes none of it.
LEMMA StutterInv ==
  ASSUME ExecutionInv, UNCHANGED executionVars
  PROVE  ExecutionInv'
<1> USE ExecutionAssumption DEF executionVars, streamVars, cacheVars, modelVars, endVars
<1>0. /\ ExecutionTypeOK /\ StreamFollows /\ CopiesFollow /\ StageFollows
      /\ TicketFollows /\ CacheFollows /\ MarkedIsInstalled /\ ResultFollows
  BY DEF ExecutionInv
<1>1. ExecutionTypeOK'
  BY <1>0 DEF ExecutionTypeOK, StreamFollows
<1>2. StreamFollows'
  BY <1>0
  DEF StreamFollows, ExecutionTypeOK, Plan, Overlapped, Ahead, Last, UsesModel, CanFinish,
      Staged
<1>3. CopiesFollow'
  BY <1>0 DEF CopiesFollow, StreamFollows, ExecutionTypeOK
<1>4. StageFollows'
  BY <1>0
  DEF StageFollows, CopiesFollow, StreamFollows, ExecutionTypeOK, Plan, Overlapped, Ahead,
      Last, UsesModel, Right, Installed
<1>5. TicketFollows'
  BY <1>0
  DEF TicketFollows, StreamFollows, ExecutionTypeOK, Plan, Overlapped, Ahead, Last,
      UsesModel
<1>6. CacheFollows'
  BY <1>0 DEF CacheFollows, TicketFollows, StreamFollows, ExecutionTypeOK
<1>7. MarkedIsInstalled'
  BY <1>0
  DEF MarkedIsInstalled, TicketFollows, StreamFollows, CacheFollows, ExecutionTypeOK, Right,
      Installed
<1>8. ResultFollows'
  BY <1>0
  DEF ResultFollows, TicketFollows, StreamFollows, CacheFollows, MarkedIsInstalled,
      ExecutionTypeOK, Right, Installed
<1>9. QED  BY <1>1, <1>2, <1>3, <1>4, <1>5, <1>6, <1>7, <1>8 DEF ExecutionInv

\* The invariant is inductive.
LEMMA StepInv == ExecutionInv /\ [ExecutionNext]_executionVars => ExecutionInv'
<1> SUFFICES ASSUME ExecutionInv, [ExecutionNext]_executionVars
             PROVE  ExecutionInv'
  OBVIOUS
<1>1. CASE \E p \in Plan : Begin(p)
  BY <1>1, BeginInv
<1>2. CASE ExecutorStep
  BY <1>2, OpenInv, OpenModelInv, SubmitInv, WaitInv, ComputeInv, MarkLoadedInv,
     CalibrateInv,
     CorrectInv, CommitInv, MarkCorrectedInv, DrainInv, FinishInv, RaiseInv, AbortInv, CloseInv,
     EndInv
  DEF ExecutorStep
<1>3. CASE \E k \in LayerIds : Lands(k)
  BY <1>3, LandsInv
<1>4. CASE TicketEnds
  BY <1>4, TicketEndsInv
<1>5. CASE UNCHANGED executionVars
  BY <1>5, StutterInv
<1>6. QED  BY <1>1, <1>2, <1>3, <1>4, <1>5 DEF ExecutionNext

------------------------------------------------------------------------------
\* Whatever call fails and whenever a copy lands or the ticket ends, the stream,
\* the staging buffers, the ticket and the paged cache are as far as the call the
\* executor makes next requires.
THEOREM ExecutionInvariant == ExecutionSpec => []ExecutionInv
<1>1. QED  BY InitInv, StepInv, PTL DEF ExecutionSpec

\* The state of the executor, the stream and the ticket is well formed.
THEOREM ExecutionTyped == ExecutionSpec => []ExecutionTypeOK
<1>1. ExecutionInv => ExecutionTypeOK
  BY DEF ExecutionInv
<1>2. QED  BY <1>1, ExecutionInvariant, PTL

\* The executor calls submit, wait, drain and finish of the worker's stream only
\* in the states the worker accepts: its checks of the order never raise.
THEOREM ProtocolHolds == ExecutionSpec => []ProtocolKept
<1>1. ExecutionInv => ProtocolKept
  BY DEF ExecutionInv, ProtocolKept, CanSubmit, StreamFollows, LayerCalls, ExecutionTypeOK
<1>2. QED  BY <1>1, ExecutionInvariant, PTL

\* Every layer the ticket counts as corrected is in the paged cache, as its method
\* leaves it (and its calibration range too, where the method calibrates),
\* so the notification of layer l never runs ahead of the commit of layer l.
THEOREM MarkedLayersInstalled == ExecutionSpec => []MarkedIsInstalled
<1>1. ExecutionInv => MarkedIsInstalled
  BY DEF ExecutionInv
<1>2. QED  BY <1>1, ExecutionInvariant, PTL

\* An execution that ends with a layer missing from the cache or left unfinished is
\* reported as failed: vLLM never uses a prefix of layers as if it were all of them.
THEOREM NoHalfInstalledUse == ExecutionSpec => []CompleteOrReported
<1>1. ExecutionInv => CompleteOrReported
  BY DEF ExecutionInv, CompleteOrReported, ResultFollows
<1>2. QED  BY <1>1, ExecutionInvariant, PTL

\* When the execution is over no copy still writes to a staging buffer, whichever
\* call raised, so the staging buffers may be reused.
THEOREM NothingCopiedAtEnd == ExecutionSpec => []DrainedBeforeEnd
<1>1. ExecutionInv => DrainedBeforeEnd
  BY DEF ExecutionInv, DrainedBeforeEnd, CopiesFollow
<1>2. QED  BY <1>1, ExecutionInvariant, PTL

------------------------------------------------------------------------------
\* The refinement: LayerInstall installs layers in order and all or nothing.
LEMMA InstallStarts == ExecutionInit => Install!InstallInit
  BY DEF ExecutionInit, Install!InstallInit, Outcome, Installed, Right

\* A new prefill finds no installation running, and starts one from nothing.
LEMMA BeginInstalls ==
  ASSUME ExecutionInv, NEW p \in Plan, Begin(p)
  PROVE  Install!Begin
<1>1. Outcome \in {"idle", "succeeded", "failed"}
  BY DEF ExecutionInv, ResultFollows, ExecutionTypeOK, Begin, Outcome, Results
<1>2. Outcome' = "running"
  BY DEF Begin, Outcome
<1>3. Installed' = {}
  BY DEF Begin, Installed, Right
<1>4. QED  BY <1>1, <1>2, <1>3 DEF Install!Begin

\* The commit of the layer at hand installs the next layer in order.
LEMMA CommitInstalls ==
  ASSUME ExecutionInv, CommitLayer
  PROVE  Install!Install
<1>1. layer \in LayerIds /\ ticket.corrected = layer - 1 /\ result = "running" /\ layer \in Int
  BY DEF ExecutionInv, ExecutionTypeOK, StreamFollows, TicketFollows, ResultFollows,
      CommitLayer, LayerCalls, Calls, LayerIds
<1>2. Installed = 0 .. layer - 1
  <2>1. 0 .. layer - 1 \subseteq Installed
    BY <1>1 DEF ExecutionInv, MarkedIsInstalled
  <2>2. \A l \in Installed : l \in 0 .. layer - 1
    BY <1>1, ExecutionAssumption
    DEF ExecutionInv, CacheFollows, CommitLayer, Calls, Installed, Right, LayerIds
  <2>3. QED  BY <2>1, <2>2
<1>3. paged' = [paged EXCEPT ![layer] = Right]
  BY DEF CommitLayer, Staged, Right, ExecutionInv, StageFollows
<1>4. Installed' = 0 .. layer
  <2>1. \A l \in LayerIds : l \in Installed' <=> l \in Installed \/ l = layer
    BY <1>1, <1>3, ExecutionAssumption
    DEF ExecutionInv, ExecutionTypeOK, StageFollows, CommitLayer, Installed, Right
  <2>2. Installed' \subseteq LayerIds
    BY DEF Installed
  <2>3. 0 .. layer \subseteq LayerIds /\ layer \in 0 .. layer
    BY <1>1, ExecutionAssumption DEF LayerIds
  <2>4. \A l \in 0 .. layer : l \in 0 .. layer - 1 \/ l = layer
    BY <1>1
  <2>5. \A l \in 0 .. layer - 1 : l \in 0 .. layer
    BY <1>1
  <2>6. QED  BY <1>2, <2>1, <2>2, <2>3, <2>4, <2>5
<1>5. Outcome = "running" /\ Outcome' = Outcome
  BY <1>1 DEF Outcome, CommitLayer, endVars
<1>6. QED  BY <1>1, <1>2, <1>4, <1>5 DEF Install!Install, LayerIds

\* finish is reached only when no layer is missing.
LEMMA FinishSucceeds ==
  ASSUME ExecutionInv, Finish
  PROVE  Install!Succeed
<1>1. Outcome = "running" /\ Outcome' = "succeeded"
  BY DEF ExecutionInv, ResultFollows, Finish, Calls, Outcome
<1>2. Installed = LayerIds
  BY ExecutionAssumption
  DEF ExecutionInv, MarkedIsInstalled, TicketFollows, Finish, Installed, LayerIds
<1>3. Installed' = Installed
  BY DEF Finish, Installed, Right, cacheVars
<1>4. QED  BY <1>1, <1>2, <1>3 DEF Install!Succeed, LayerIds

\* A call that raises fails the installation and installs no layer.
LEMMA RaiseFails ==
  ASSUME ExecutionInv, Raise
  PROVE  Install!Fail
<1>1. Outcome = "running" /\ Outcome' = "failed"
  BY DEF ExecutionInv, ResultFollows, Raise, Outcome
<1>2. Installed' = Installed
  <2>1. CASE paged' = paged
    BY <2>1 DEF Raise, Installed, Right
  <2>2. CASE pc = "commit" /\ paged' = [paged EXCEPT ![layer] = "garbage"]
    <3>1. layer \in LayerIds /\ paged[layer] = "empty"
      BY <2>2, ExecutionAssumption
      DEF ExecutionInv, ExecutionTypeOK, StreamFollows, TicketFollows, CacheFollows,
          LayerCalls, Calls, LayerIds
    <3>2. \A l \in LayerIds : paged'[l] = paged[l] \/ (l = layer /\ paged'[l] = "garbage")
      BY <2>2, <3>1 DEF ExecutionInv, ExecutionTypeOK
    <3>3. QED  BY <3>1, <3>2 DEF Raise, Installed, Right
  <2>3. QED  BY <2>1, <2>2 DEF Raise, CommitFails
<1>3. QED  BY <1>1, <1>2 DEF Install!Fail

\* Opening the stream may find the ticket ended, which fails the installation.
LEMMA OpenInstalls ==
  ASSUME ExecutionInv, Open
  PROVE  Install!Fail \/ UNCHANGED Install!installVars
<1>1. Outcome = "running" /\ Outcome' \in {"running", "failed"}
  BY DEF ExecutionInv, ResultFollows, Open, Calls, Outcome
<1>2. Installed' = Installed
  BY DEF Open, Installed, Right, cacheVars
<1>3. QED  BY <1>1, <1>2 DEF Install!Fail, Install!installVars

\* A layer's calibration is committed before the layer: it is not installed yet.
LEMMA CalibrationInstallsNothing ==
  ASSUME ExecutionInv, CommitCalibration
  PROVE  UNCHANGED Install!installVars
<1>1. layer \in LayerIds /\ paged[layer] = "empty"
  BY ExecutionAssumption
  DEF ExecutionInv, ExecutionTypeOK, StreamFollows, TicketFollows, CacheFollows, LayerCalls,
      Calls, LayerIds, CommitCalibration
<1>2. Installed' = Installed
  BY <1>1 DEF CommitCalibration, Installed, Right
<1>3. Outcome' = Outcome
  BY DEF CommitCalibration, Outcome, endVars
<1>4. QED  BY <1>2, <1>3 DEF Install!installVars

\* The calls that change neither the cache nor the result are stutters.
LEMMA OthersInstallNothing ==
  ASSUME UNCHANGED <<plan, paged, calibrated, result>>
  PROVE  UNCHANGED Install!installVars
  BY DEF Install!installVars, Outcome, Installed, Right

\* Every step of the executor is a step of LayerInstall or a stutter.
LEMMA InstallSteps ==
  ExecutionInv /\ [ExecutionNext]_executionVars => [Install!InstallNext]_Install!installVars
<1> SUFFICES ASSUME ExecutionInv, [ExecutionNext]_executionVars
             PROVE  [Install!InstallNext]_Install!installVars
  OBVIOUS
<1> USE DEF Install!InstallNext
<1>1. CASE \E p \in Plan : Begin(p)
  BY <1>1, BeginInstalls
<1>2. CASE CommitLayer \/ Finish \/ Raise
  BY <1>2, CommitInstalls, FinishSucceeds, RaiseFails
<1>3. CASE Open \/ CommitCalibration
  BY <1>3, OpenInstalls, CalibrationInstallsNothing
<1>4. CASE \/ OpenModel \/ Submit \/ Wait \/ Compute \/ MarkLoaded \/ Correct
           \/ MarkCorrected \/ Drain \/ Abort \/ CloseModel \/ End \/ TicketEnds
  <2>1. UNCHANGED <<plan, paged, calibrated, result>>
    BY <1>4
    DEF OpenModel, Submit, Wait, Compute, MarkLoaded, Correct, MarkCorrected, Drain, Abort,
        CloseModel, End, TicketEnds, cacheVars, endVars
  <2>2. QED  BY <2>1, OthersInstallNothing
<1>5. CASE \E k \in LayerIds : Lands(k)
  <2>1. UNCHANGED <<plan, paged, calibrated, result>>
    BY <1>5 DEF Lands, cacheVars, endVars
  <2>2. QED  BY <2>1, OthersInstallNothing
<1>6. CASE UNCHANGED executionVars
  <2>1. UNCHANGED <<plan, paged, calibrated, result>>
    BY <1>6 DEF executionVars, cacheVars, endVars
  <2>2. QED  BY <2>1, OthersInstallNothing
<1>7. QED  BY <1>1, <1>2, <1>3, <1>4, <1>5, <1>6 DEF ExecutionNext, ExecutorStep

\* The executor implements LayerInstall: through overlapped copies, corrections
\* and failures, layers appear in the cache in order and success means all of them.
THEOREM ExecutionInstalls == ExecutionSpec => ImplementsInstall
<1>1. QED
  BY InstallStarts, InstallSteps, ExecutionInvariant, PTL
  DEF ExecutionSpec, ImplementsInstall, Install!InstallSpec
==============================================================================
