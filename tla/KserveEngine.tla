----------------------------- MODULE KserveEngine -----------------------------
(***************************************************************************)
(* KserveEngine (app/src/KserveEngine.cpp) between the pipeline that calls *)
(* it and a server that may reload its model, become unready, refuse or be *)
(* out of reach at any time.  The calls are those of setupTask and, for    *)
(* every frame, of inferFrame (get_infer_results, then lastRawOutputs).    *)
(* What the engine throws ends the run.                                    *)
(***************************************************************************)
EXTENDS TensorBytes

CONSTANTS
  Models,       \* what a server may advertise: sequences of input specs
  InputSizes,   \* values of --input_sizes: one sequence for each input
  Successors(_), \* the models a server may replace a model by
  Payloads(_),  \* what a model's caller may hand over: sequences of byte counts
  Responses(_), \* what a model's server may answer: sequences of outputs
  MaxRequests,  \* bound: calls of get_infer_results
  MaxReloads    \* bound: reloads of the served model

\* An int64_t for each extent, a width, and bytes in a std::vector.
ASSUME KserveEngineAssumption ==
  /\ Models \subseteq Seq([shape : Seq(Int), width : Nat])
  /\ InputSizes \subseteq Seq(Seq(Int))
  /\ \A m \in Models :
       /\ Successors(m) \subseteq Models
       /\ Payloads(m) \subseteq Seq(ByteCount)
       /\ Responses(m) \subseteq Seq([shape : Seq(Int), width : Nat, bytes : ByteCount])
  /\ MaxRequests \in Nat /\ MaxReloads \in Nat

VARIABLES
  serving,    \* the server's model: its version and input specs
  ready,      \* the server's modelReady
  pc,         \* the next step of the call in progress
  then,       \* where ensureMetadata returns to
  sizes,      \* input_sizes_
  loaded,     \* metadata_loaded_
  raw,        \* raw_metadata_, cached_metadata_ being made of it
  seen,       \* history: versions of the metadata handed to the pipeline
  payload,    \* the tensors of the current request
  request,    \* history: the number of the current request
  wire,       \* what was sent for it
  answer,     \* results: the response to it
  last,       \* last_raw_outputs_
  delivered   \* the typed tensors returned for it

serverVars == <<serving, ready>>
vars == <<serverVars, pc, then, sizes, loaded, raw, seen, payload, request,
          wire, answer, last, delivered>>

NoMetadata == [version |-> 0, inputs |-> <<>>]

NoAnswer == [request |-> 0, outputs |-> <<>>]

PC == {"setup", "platform", "probe", "fetch", "idle", "build", "infer", "decode",
       "return", "failed"}

\* Types: payload, answer and last are of the model whose metadata is cached.
TypeOK ==
  /\ serving \in [version : 1 .. MaxReloads + 1, inputs : Models]
  /\ ready \in BOOLEAN
  /\ pc \in PC
  /\ then \in {"platform", "build", "none"}
  /\ sizes \in InputSizes
  /\ loaded \in BOOLEAN
  /\ raw = NoMetadata \/ raw \in [version : 1 .. MaxReloads + 1, inputs : Models]
  /\ seen \subseteq 1 .. MaxReloads + 1
  /\ payload \in Payloads(raw.inputs) \cup {<<>>}
  /\ request \in 0 .. MaxRequests
  /\ answer = NoAnswer
       \/ answer \in [request : 1 .. MaxRequests, outputs : Responses(raw.inputs)]
  /\ last = NoAnswer
       \/ last \in [request : 1 .. MaxRequests, outputs : Responses(raw.inputs)]

Init ==
  /\ serving \in [version : {1}, inputs : Models]
  /\ ready \in BOOLEAN
  /\ pc = "setup"
  /\ then = "none"
  /\ sizes \in InputSizes
  /\ loaded = FALSE
  /\ raw = NoMetadata
  /\ seen = {}
  /\ payload = <<>>
  /\ request = 0
  /\ wire = <<>>
  /\ answer = NoAnswer
  /\ last = NoAnswer
  /\ delivered = <<>>

-----------------------------------------------------------------------------
Step(from, to) == pc = from /\ pc' = to

\* The server loads another version, of any model, or stops being ready.
Reload ==
  /\ pc # "failed"
  /\ serving.version <= MaxReloads
  /\ serving' \in [version : {serving.version + 1}, inputs : Successors(serving.inputs)]
  /\ ready' \in BOOLEAN
  /\ UNCHANGED <<pc, then, sizes, loaded, raw, seen, payload, request, wire,
                 answer, last, delivered>>

requestVars == <<payload, request, wire, answer, last, delivered>>

(***************************************************************************)
(* ensureMetadata: a probe and a fetch, once.                              *)
(***************************************************************************)
\* Mutant: the metadata is fetched by every call.
HasMetadata_Never == FALSE

HasMetadata == loaded

EnsureMetadata(from, to) ==
  IF HasMetadata THEN Step(from, to) /\ UNCHANGED then
                 ELSE Step(from, "probe") /\ then' = to

ProbeReady ==
  /\ \/ ready /\ Step("probe", "fetch")
     \/ Step("probe", "failed")
  /\ UNCHANGED <<serverVars, then, sizes, loaded, raw, seen, requestVars>>

FetchMetadata ==
  /\ \/ /\ Step("fetch", then)
        /\ raw' = serving
        /\ loaded' = TRUE
     \/ Step("fetch", "failed") /\ UNCHANGED <<raw, loaded>>
  /\ UNCHANGED <<serverVars, then, sizes, seen, requestVars>>

(***************************************************************************)
(* setupTask: get_inference_metadata, then servingPlatform and rawMetadata *)
(* of what that has fetched.                                               *)
(***************************************************************************)
GetInferenceMetadata ==
  /\ EnsureMetadata("setup", "platform")
  /\ UNCHANGED <<serverVars, sizes, loaded, raw, seen, requestVars>>

ServingPlatform ==
  /\ Step("platform", "idle")
  /\ seen' = seen \cup {raw.version}
  /\ UNCHANGED <<serverVars, then, sizes, loaded, raw, requestVars>>

(***************************************************************************)
(* get_infer_results.                                                      *)
(***************************************************************************)
GetInferResults ==
  /\ EnsureMetadata("idle", "build")
  /\ request < MaxRequests
  /\ request' = request + 1
  /\ payload' \in Payloads(raw.inputs)
  /\ UNCHANGED <<serverVars, sizes, loaded, raw, seen, wire, answer, last, delivered>>

\* An input's spec with --input_sizes applied.
Sized(i) ==
  [raw.inputs[i] EXCEPT
     !.shape = IF i <= Len(sizes) THEN applyInputSizes(@, sizes[i]) ELSE @]

\* The shape that goes on the wire with an input.
WireShape(i) == concreteInputShape(Sized(i), payload[i])

Fits(i) ==
  /\ validateInputBytes(Sized(i), payload[i])
  /\ DynamicAxes(WireShape(i)) = {}

CountMatches == Len(payload) = Len(raw.inputs)

BuildRequest ==
  /\ IF CountMatches /\ \A i \in DOMAIN payload : Fits(i)
     THEN /\ Step("build", "infer")
          /\ wire' = [i \in DOMAIN payload |-> WireShape(i)]
     ELSE Step("build", "failed") /\ UNCHANGED wire
  /\ seen' = seen \cup {raw.version}
  /\ UNCHANGED <<serverVars, then, sizes, loaded, raw, payload, request, answer,
                 last, delivered>>

\* client_->infer: an answer, or a refusal, a timeout or a lost connection.
Infer ==
  /\ \/ /\ Step("infer", "decode")
        /\ answer' \in [request : {request}, outputs : Responses(raw.inputs)]
     \/ Step("infer", "failed") /\ UNCHANGED answer
  /\ UNCHANGED <<serverVars, then, sizes, loaded, raw, seen, payload, request,
                 wire, last, delivered>>

\* bytesToElements has no conversion for tags without a width.
Decodes(output) ==
  validateOutputBytes(output) /\ output.width > 0 /\ output.bytes % output.width = 0

Kept == answer

DecodeOutputs ==
  /\ IF \A i \in DOMAIN answer.outputs : Decodes(answer.outputs[i])
     THEN /\ Step("decode", "return")
          /\ delivered' = [i \in DOMAIN answer.outputs |->
                             [shape    |-> answer.outputs[i].shape,
                              elements |-> answer.outputs[i].bytes
                                             \div answer.outputs[i].width]]
          /\ last' = Kept
     ELSE Step("decode", "failed") /\ UNCHANGED <<delivered, last>>
  /\ UNCHANGED <<serverVars, then, sizes, loaded, raw, seen, payload, request,
                 wire, answer>>

\* inferFrame has used the tensors, or decoded lastRawOutputs.
Return ==
  /\ Step("return", "idle")
  /\ UNCHANGED <<serverVars, then, sizes, loaded, raw, seen, requestVars>>

\* The run failed, or makes no more requests.
Ended ==
  /\ pc = "failed" \/ (pc = "idle" /\ request = MaxRequests)
  /\ UNCHANGED vars

Next ==
  \/ Reload \/ ProbeReady \/ FetchMetadata \/ GetInferenceMetadata
  \/ ServingPlatform \/ GetInferResults \/ BuildRequest \/ Infer
  \/ DecodeOutputs \/ Return \/ Ended

Spec == Init /\ [][Next]_vars

-----------------------------------------------------------------------------
(***************************************************************************)
(* Properties.                                                             *)
(***************************************************************************)
\* What is on the wire has a concrete shape that agrees with the advertised
\* one and takes exactly the bytes sent along, in unbounded arithmetic, for
\* every datatype with a width.
\* (validateInputBytes, concreteInputShape and the loop over dimensions.)
SentBytesFitTheirShape ==
  pc = "infer" =>
    \A i \in DOMAIN wire :
      /\ DynamicAxes(wire[i]) = {}
      /\ Sized(i).width > 0 => wire[i] \in Readings(Sized(i), payload[i])

\* A request whose bytes fit the advertised shapes is not refused: only a
\* wrong number of inputs, an input without bytes, bytes that no extents
\* account for, and dynamic axes that the bytes cannot settle are.
\* (The refusals of validateInputBytes and get_infer_results.)
RefusalIsJustified ==
  pc = "build" /\ Len(payload) = Len(raw.inputs) =>
    \A i \in DOMAIN payload :
      ~Fits(i) =>
        LET axes == Cardinality(DynamicAxes(Sized(i).shape))
        IN  IF Sized(i).width = 0 THEN axes > 0
            ELSE payload[i] = 0 \/ axes > 1 \/ Readings(Sized(i), payload[i]) = {}

\* A tensor that is returned has an element for every index of its shape, in
\* unbounded arithmetic: postprocessing indexes it by that shape.
\* (validateOutputBytes and bytesToElements.)
DeliveredFillTheirShape ==
  pc = "return" =>
    \A i \in DOMAIN delivered :
      /\ DynamicAxes(delivered[i].shape) = {}
      /\ delivered[i].elements = Elements(delivered[i].shape)

\* Metadata, platform and every request of a run come from one version of the
\* model, whatever the server has loaded since.
\* (metadata_loaded_ in ensureMetadata.)
OneSnapshot == \A v, w \in seen : v = w

\* The envelope inferFrame decodes is the answer to the request it has just
\* made.
\* (last_raw_outputs_ in get_infer_results; inferFrame.)
EnvelopeIsTheAnswer == pc = "return" => last.request = request
=============================================================================
