----------------------------- MODULE MCKserveEngine -----------------------------
(***************************************************************************)
(* KserveEngine with four-bit words, so that extents of eight overflow.    *)
(* Models of every shape are asked with every payload and answer plainly;  *)
(* two models of a server that reloads answer anything.                    *)
(***************************************************************************)
EXTENDS KserveEngine

Shapes(extents, rank) == UNION {[1 .. n -> extents] : n \in 0 .. rank}

Specs == [shape : Shapes({-1, 0, 2, 3, 8}, 3), width : 0 .. 2]

\* One input of any kind, or two of which the second is dynamic.
RequestModels ==
  {<<spec>> : spec \in Specs}
    \cup {<<[shape |-> <<2>>, width |-> w], [shape |-> <<-1, 2>>, width |-> 1]>> :
            w \in 1 .. 2}

RequestSizes == {<<>>, << <<2>> >>, << <<-1, 3>> >>, << <<0>>, <<1, 1>> >>}

RequestPayloads ==
  {<<>>} \cup {<<n>> : n \in ByteCount} \cup {<<m, n>> : m, n \in {2, 4}}

OneResponse == {<<[shape |-> <<1>>, width |-> 1, bytes |-> 1]>>}

\* Two models that take different payloads.
ServedModels ==
  {<<[shape |-> <<1, -1>>, width |-> 1]>>, <<[shape |-> <<1, 2>>, width |-> 2]>>}

ServedPayloads == {<<2>>, <<4>>}

Outputs == [shape : Shapes({-1, 0, 2, 4, 8}, 2), width : 0 .. 2, bytes : ByteCount]

ManyResponses ==
  {<<output>> : output \in Outputs}
    \cup {<<[shape |-> <<2>>, width |-> 1, bytes |-> 2],
            [shape |-> <<2>>, width |-> 2, bytes |-> n]>> : n \in {2, 4}}

AllModels == RequestModels \cup ServedModels

SuccessorsOf(inputs) == IF inputs \in ServedModels THEN ServedModels ELSE {}

PayloadsOf(inputs) == IF inputs \in ServedModels THEN ServedPayloads ELSE RequestPayloads

ResponsesOf(inputs) == IF inputs \in ServedModels THEN ManyResponses ELSE OneResponse
=============================================================================
