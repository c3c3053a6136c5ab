------------------------------ MODULE TensorBytes ------------------------------
(***************************************************************************)
(* How KserveEngine relates the bytes of a tensor to its shape             *)
(* (app/src/KserveEngine.cpp): which request payloads fit the shape the    *)
(* server advertised, which concrete shape goes on the wire, and which     *)
(* response payloads fill the shape they come with.                        *)
(*                                                                         *)
(* A shape is a sequence of extents, negative where dynamic; width is the  *)
(* bytes of an element, 0 for a datatype without a fixed one.  size_t has  *)
(* a bit more than the positive values of int64_t; std::vector holds no    *)
(* more bytes than the latter counts.                                      *)
(***************************************************************************)
EXTENDS Integers, SequencesExt

CONSTANT MaxExtent  \* the largest int64_t

ASSUME TensorBytesAssumption == MaxExtent \in Nat \ {0}

\* The largest size_t.
MaxWord == 2 * MaxExtent + 1

ByteCount == 0 .. MaxExtent

Overflow == -1

\* One step of a running product that must not exceed limit; dynamic extents
\* are passed over.
Times(product, extent, limit) ==
  IF product = Overflow \/ (extent > 0 /\ product > limit \div extent)
  THEN Overflow
  ELSE IF extent < 0 THEN product ELSE product * extent

FixedProduct(start, shape, limit) ==
  LET product[k \in 0 .. Len(shape)] ==
        IF k = 0 THEN start ELSE Times(product[k - 1], shape[k], limit)
  IN  product[Len(shape)]

DynamicAxes(shape) == {i \in DOMAIN shape : shape[i] < 0}

\* Mutant: dynamic extents count for one.
validateInputBytes_Static(spec, bytes) ==
  spec.width = 0 \/ bytes = FixedProduct(spec.width, spec.shape, MaxWord)

\* Whole elements of the shape, any number of them along dynamic axes.
validateInputBytes(spec, bytes) ==
  LET fixed == FixedProduct(spec.width, spec.shape, MaxWord)
  IN  \/ spec.width = 0
      \/ /\ fixed # Overflow
         /\ IF DynamicAxes(spec.shape) = {} THEN bytes = fixed
            ELSE fixed = 0 \/ bytes % fixed = 0

\* Mutant: the extent is taken in bytes.
concreteInputShape_Bytes(spec, bytes) ==
  LET fixed == FixedProduct(1, spec.shape, MaxExtent)
      axes  == DynamicAxes(spec.shape)
  IN  IF spec.width = 0 \/ Cardinality(axes) # 1 \/ fixed <= 0 THEN spec.shape
      ELSE [i \in DOMAIN spec.shape |->
              IF i \in axes THEN bytes \div fixed ELSE spec.shape[i]]

\* A single dynamic axis follows from the bytes; any other stays as it is.
concreteInputShape(spec, bytes) ==
  LET fixed == FixedProduct(1, spec.shape, MaxExtent)
      axes  == DynamicAxes(spec.shape)
  IN  IF spec.width = 0 \/ Cardinality(axes) # 1 \/ fixed <= 0 THEN spec.shape
      ELSE [i \in DOMAIN spec.shape |->
              IF i \in axes THEN (bytes \div spec.width) \div fixed
                            ELSE spec.shape[i]]

\* --input_sizes fills trailing dynamic extents.
applyInputSizes(shape, sizes) ==
  LET offset == Len(shape) - Len(sizes)
  IN  IF offset < 0 THEN shape
      ELSE [i \in DOMAIN shape |->
              IF i > offset /\ shape[i] < 0 THEN sizes[i - offset] ELSE shape[i]]

\* Mutant: the product of the extents wraps around.
validateOutputBytes_Wraps(output) ==
  /\ DynamicAxes(output.shape) = {}
  /\ output.bytes =
       (FoldLeft(LAMBDA p, n : p * n, output.width, output.shape)) % (MaxWord + 1)

\* A response fills its shape exactly.
validateOutputBytes(output) ==
  LET elements == FixedProduct(1, output.shape, MaxWord)
  IN  \/ output.width = 0
      \/ /\ DynamicAxes(output.shape) = {}
         /\ elements # Overflow
         /\ elements <= MaxWord \div output.width
         /\ output.bytes = elements * output.width

-----------------------------------------------------------------------------
(***************************************************************************)
(* The reference: shapes and elements without words.                       *)
(***************************************************************************)
Elements(shape) ==
  LET product[k \in 0 .. Len(shape)] == IF k = 0 THEN 1 ELSE product[k - 1] * shape[k]
  IN  product[Len(shape)]

\* A shape with its dynamic extents replaced.
Filled(shape, extents) ==
  [i \in DOMAIN shape |-> IF i \in DOMAIN extents THEN extents[i] ELSE shape[i]]

\* The concrete shapes that agree with spec and take exactly these bytes.
Readings(spec, bytes) ==
  {shape \in {Filled(spec.shape, extents) :
                extents \in [DynamicAxes(spec.shape) -> 0 .. MaxExtent]} :
     Elements(shape) * spec.width = bytes}
=============================================================================
