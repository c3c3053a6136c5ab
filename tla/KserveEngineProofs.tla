--------------------------- MODULE KserveEngineProofs ---------------------------
(***************************************************************************)
(* What KserveEngine promises whatever the server does between two calls,  *)
(* for all models, payloads, responses, and any number of requests and     *)
(* reloads; and, at the end, what the operators they share make of the     *)
(* pictures of ModelInput, for all models, --input_sizes and extents a     *)
(* task may pick.                                                          *)
(***************************************************************************)
EXTENDS KserveEngine, ModelInput, FiniteSetTheorems, SequenceTheorems, WellFoundedInduction, TLAPS

\* The metadata handed out so far is the metadata on record, and nothing was
\* handed out before it was fetched; the answer in hand is to the request in
\* hand.
EngineInv ==
  /\ seen \subseteq {raw.version}
  /\ loaded \/ seen = {}
  /\ pc \in {"probe", "fetch"} => ~loaded
  /\ pc \in {"platform", "idle", "build", "infer", "decode", "return"} => loaded
  /\ pc = "decode" => answer.request = request
  /\ pc = "return" => last.request = request

\* then is where a first call goes once there is metadata.
ThenInv == pc \in {"probe", "fetch"} => then \in {"platform", "build"}

LEMMA EngineStart == Init => EngineInv /\ ThenInv
  BY DEF Init, EngineInv, ThenInv

LEMMA EngineStep == EngineInv /\ ThenInv /\ [Next]_vars => EngineInv' /\ ThenInv'
<1> SUFFICES ASSUME EngineInv, ThenInv, [Next]_vars
             PROVE  EngineInv' /\ ThenInv'
  OBVIOUS
<1> USE DEF EngineInv, ThenInv, Step
<1>1. CASE Reload
  BY <1>1 DEF Reload
<1>2. CASE ProbeReady
  BY <1>2 DEF ProbeReady, requestVars, serverVars
<1>3. CASE FetchMetadata
  BY <1>3 DEF FetchMetadata, requestVars, serverVars
<1>4. CASE GetInferenceMetadata
  BY <1>4 DEF GetInferenceMetadata, EnsureMetadata, HasMetadata, requestVars, serverVars
<1>5. CASE ServingPlatform
  BY <1>5 DEF ServingPlatform, requestVars, serverVars
<1>6. CASE GetInferResults
  BY <1>6 DEF GetInferResults, EnsureMetadata, HasMetadata, serverVars
<1>7. CASE BuildRequest
  BY <1>7 DEF BuildRequest, serverVars
<1>8. CASE Infer
  BY <1>8 DEF Infer, serverVars
<1>9. CASE DecodeOutputs
  BY <1>9 DEF DecodeOutputs, Kept, serverVars
<1>10. CASE Return
  BY <1>10 DEF Return, requestVars, serverVars
<1>11. CASE UNCHANGED vars
  BY <1>11 DEF vars, serverVars
<1>12. CASE Ended
  BY <1>11, <1>12 DEF Ended
<1> QED
  BY <1>1, <1>2, <1>3, <1>4, <1>5, <1>6, <1>7, <1>8, <1>9, <1>10, <1>11, <1>12
     DEF Next

\* The engine's invariant: metadata, platform and requests agree on a version,
\* and what is kept for the envelope belongs to the call that returns.
\* (ensureMetadata; last_raw_outputs_ in get_infer_results.)
THEOREM EngineCorrect == Spec => [](EngineInv /\ ThenInv)
  BY EngineStart, EngineStep, PTL DEF Spec

\* However often and whenever the server reloads, one run works from the
\* metadata of one version. (metadata_loaded_ in ensureMetadata.)
THEOREM SnapshotIsKept == Spec => []OneSnapshot
<1>1. EngineInv /\ ThenInv => OneSnapshot
  BY DEF EngineInv, OneSnapshot
<1> QED
  BY <1>1, EngineCorrect, PTL

\* The raw outputs that inferFrame decodes are never those of an earlier
\* request. (last_raw_outputs_ in get_infer_results.)
THEOREM EnvelopeIsFresh == Spec => []EnvelopeIsTheAnswer
<1>1. EngineInv /\ ThenInv => EnvelopeIsTheAnswer
  BY DEF EngineInv, EnvelopeIsTheAnswer
<1> QED
  BY <1>1, EngineCorrect, PTL

-----------------------------------------------------------------------------
\* Before there is metadata, which setupTask has fetched, there is no request,
\* and nothing is kept of one; a request that is under way has a number.
Requested ==
  /\ pc \in {"probe", "fetch"} => then = "platform"
  /\ loaded => raw \in [version : 1 .. MaxReloads + 1, inputs : Models]
  /\ ~loaded => /\ raw = NoMetadata /\ request = 0 /\ payload = <<>>
                /\ answer = NoAnswer /\ last = NoAnswer
  /\ pc \in {"build", "infer", "decode", "return"} => request \in 1 .. MaxRequests
  /\ pc \in {"decode", "return"} =>
       answer \in [request : 1 .. MaxRequests, outputs : Responses(raw.inputs)]

TypeInv == EngineInv /\ ThenInv /\ TypeOK /\ Requested

LEMMA TypeStart == Init => TypeInv
<1> SUFFICES ASSUME Init PROVE TypeInv
  OBVIOUS
<1>1. 1 \in 1 .. MaxReloads + 1 /\ 0 \in 0 .. MaxRequests
  BY KserveEngineAssumption
<1>2. serving \in [version : 1 .. MaxReloads + 1, inputs : Models]
  BY <1>1 DEF Init
<1> QED
  BY <1>1, <1>2, EngineStart DEF Init, TypeInv, TypeOK, Requested, PC

LEMMA TypeStep == TypeInv /\ [Next]_vars => TypeInv'
<1> SUFFICES ASSUME TypeInv, [Next]_vars
             PROVE  TypeOK' /\ Requested'
  BY EngineStep DEF TypeInv
<1> USE DEF TypeInv, TypeOK, Requested, Step, PC
<1>1. CASE Reload
  <2>1. serving.version + 1 \in 1 .. MaxReloads + 1
    BY <1>1, KserveEngineAssumption DEF Reload
  <2>2. Successors(serving.inputs) \subseteq Models
    BY KserveEngineAssumption
  <2>3. serving' \in [version : 1 .. MaxReloads + 1, inputs : Models]
    BY <1>1, <2>1, <2>2 DEF Reload
  <2> QED
    BY <1>1, <2>3 DEF Reload
<1>2. CASE ProbeReady
  BY <1>2 DEF ProbeReady, requestVars, serverVars
<1>3. CASE FetchMetadata
  <2>1. ~loaded /\ pc = "fetch" /\ then = "platform"
    BY <1>3 DEF FetchMetadata, EngineInv
  <2>2. request = 0 /\ payload = <<>> /\ answer = NoAnswer /\ last = NoAnswer
    BY <2>1
  <2>3. CASE pc' = "platform"
    BY <1>3, <2>1, <2>2, <2>3 DEF FetchMetadata, requestVars, serverVars
  <2>4. CASE pc' = "failed"
    <3>1. UNCHANGED <<raw, loaded>> \/ (raw' = serving /\ loaded' = TRUE)
      BY <1>3 DEF FetchMetadata
    <3> QED
      BY <1>3, <2>1, <2>2, <2>4, <3>1 DEF FetchMetadata, requestVars, serverVars
  <2> QED
    BY <1>3, <2>1, <2>3, <2>4 DEF FetchMetadata
<1>4. CASE GetInferenceMetadata
  BY <1>4 DEF GetInferenceMetadata, EnsureMetadata, HasMetadata, requestVars, serverVars
<1>5. CASE ServingPlatform
  <2>1. raw \in [version : 1 .. MaxReloads + 1, inputs : Models]
    BY <1>5, KserveEngineAssumption DEF ServingPlatform, EngineInv
  <2> QED
    BY <1>5, <2>1 DEF ServingPlatform, requestVars, serverVars, EngineInv
<1>6. CASE GetInferResults
  BY <1>6, KserveEngineAssumption
     DEF GetInferResults, EnsureMetadata, HasMetadata, serverVars, EngineInv
<1>7. CASE BuildRequest
  BY <1>7 DEF BuildRequest, serverVars, EngineInv
<1>8. CASE Infer
  BY <1>8 DEF Infer, serverVars, EngineInv
<1>9. CASE DecodeOutputs
  BY <1>9 DEF DecodeOutputs, Kept, serverVars, EngineInv
<1>10. CASE Return
  BY <1>10 DEF Return, requestVars, serverVars
<1>11. CASE UNCHANGED vars
  BY <1>11 DEF vars, serverVars
<1>12. CASE Ended
  BY <1>11, <1>12 DEF Ended
<1> QED
  BY <1>1, <1>2, <1>3, <1>4, <1>5, <1>6, <1>7, <1>8, <1>9, <1>10, <1>11, <1>12
     DEF Next

\* The types of the engine's state, for all models: what is kept of a request
\* is of the model whose metadata is cached. (The fields of KserveEngine.)
THEOREM TypeCorrect == Spec => []TypeOK
<1>1. TypeInv => TypeOK
  BY DEF TypeInv
<1> QED
  BY <1>1, TypeStart, TypeStep, PTL DEF Spec

-----------------------------------------------------------------------------
(***************************************************************************)
(* Bytes and shapes.  A running product is a recursive function over the   *)
(* prefixes of a shape; what holds of it is proved by induction on the     *)
(* prefixes, the set of prefixes it holds of being all of Nat.             *)
(***************************************************************************)
\* Induction on the natural numbers, in terms of sets.
LEMMA SetInduction ==
  ASSUME NEW S, 0 \in S, \A n \in Nat : n \in S => n + 1 \in S
  PROVE  Nat \subseteq S
<1> DEFINE T == Nat \ S
           R == OpToRel(<, Nat)
<1>1. SUFFICES ASSUME T # {} PROVE FALSE
  OBVIOUS
<1>2. IsWellFoundedOn(R, Nat)
  BY NatLessThanWellFounded
<1>3. PICK x \in T : \A y \in T : ~ (<<y, x>> \in R)
  <2> HIDE DEF R
  <2>1. T \subseteq Nat
    OBVIOUS
  <2> HIDE DEF T
  <2> QED
    BY WFMin, <1>1, <1>2, <2>1
<1>4. x \in Nat /\ x # 0 /\ x \notin S
  OBVIOUS
<1>5. x - 1 \in Nat /\ x - 1 < x
  BY <1>4
<1>6. <<x - 1, x>> \in R
  BY <1>4, <1>5 DEF OpToRel
<1>7. x - 1 \in S
  BY <1>3, <1>5, <1>6
<1> QED
  BY <1>4, <1>5, <1>7

\* The running products of FixedProduct, and of Elements, up to the n-th extent.
\* (The loops over spec.shape in validateInputBytes and validateOutputBytes.)
IsFixed(p, n, start, shape, limit) ==
  p = [k \in 0 .. n |-> IF k = 0 THEN start ELSE Times(p[k - 1], shape[k], limit)]

IsElements(p, n, shape) ==
  p = [k \in 0 .. n |-> IF k = 0 THEN 1 ELSE p[k - 1] * shape[k]]

\* The recursive definition of FixedProduct has a solution for every shape, and
\* the product is its last value. (fixed_bytes, fixed and element_count.)
LEMMA FixedProductDef ==
  ASSUME NEW shape \in Seq(Int), NEW start, NEW limit
  PROVE  \E p : /\ IsFixed(p, Len(shape), start, shape, limit)
                /\ FixedProduct(start, shape, limit) = p[Len(shape)]
<1> DEFINE S == {n \in Nat : \E p : IsFixed(p, n, start, shape, limit)}
<1>1. 0 \in S
  <2>1. IsFixed([k \in 0 .. 0 |-> start], 0, start, shape, limit)
    BY DEF IsFixed
  <2> QED
    BY <2>1
<1>2. ASSUME NEW n \in Nat, n \in S PROVE n + 1 \in S
  <2>1. PICK p : IsFixed(p, n, start, shape, limit)
    BY <1>2
  <2> DEFINE q == [k \in 0 .. n + 1 |->
                     IF k = n + 1 THEN Times(p[n], shape[n + 1], limit) ELSE p[k]]
  <2>2. \A k \in 0 .. n : q[k] = p[k]
    OBVIOUS
  <2>3. \A k \in 0 .. n + 1 :
          q[k] = IF k = 0 THEN start ELSE Times(q[k - 1], shape[k], limit)
    <3> TAKE k \in 0 .. n + 1
    <3>1. CASE k = n + 1
      BY <3>1, <2>2
    <3>2. CASE k = 0
      BY <3>2, <2>1 DEF IsFixed
    <3>3. CASE k \in 1 .. n
      <4>1. k - 1 \in 0 .. n /\ k \in 0 .. n /\ k # 0
        BY <3>3
      <4>2. p[k] = Times(p[k - 1], shape[k], limit)
        BY <4>1, <2>1 DEF IsFixed
      <4> QED
        BY <4>1, <4>2, <2>2
    <3> QED
      BY <3>1, <3>2, <3>3
  <2>4. q = [k \in 0 .. n + 1 |-> q[k]]
    OBVIOUS
  <2>5. IsFixed(q, n + 1, start, shape, limit)
    <3> HIDE DEF q
    <3> QED
      BY <2>3, <2>4 DEF IsFixed
  <2> QED
    BY <2>5
<1>3. Len(shape) \in S
  <2> HIDE DEF S
  <2> QED
    BY <1>1, <1>2, SetInduction
<1> QED
  BY <1>3 DEF FixedProduct, IsFixed

\* The same of Elements, the reference for the number of elements of a shape.
LEMMA ElementsDef ==
  ASSUME NEW shape \in Seq(Int)
  PROVE  \E p : IsElements(p, Len(shape), shape) /\ Elements(shape) = p[Len(shape)]
<1> DEFINE S == {n \in Nat : \E p : IsElements(p, n, shape)}
<1>1. 0 \in S
  <2>1. IsElements([k \in 0 .. 0 |-> 1], 0, shape)
    BY DEF IsElements
  <2> QED
    BY <2>1
<1>2. ASSUME NEW n \in Nat, n \in S PROVE n + 1 \in S
  <2>1. PICK p : IsElements(p, n, shape)
    BY <1>2
  <2> DEFINE q == [k \in 0 .. n + 1 |->
                     IF k = n + 1 THEN p[n] * shape[n + 1] ELSE p[k]]
  <2>2. \A k \in 0 .. n : q[k] = p[k]
    OBVIOUS
  <2>3. \A k \in 0 .. n + 1 : q[k] = IF k = 0 THEN 1 ELSE q[k - 1] * shape[k]
    <3> TAKE k \in 0 .. n + 1
    <3>1. CASE k = n + 1
      BY <3>1, <2>2
    <3>2. CASE k = 0
      BY <3>2, <2>1 DEF IsElements
    <3>3. CASE k \in 1 .. n
      <4>1. k - 1 \in 0 .. n /\ k \in 0 .. n /\ k # 0
        BY <3>3
      <4>2. p[k] = p[k - 1] * shape[k]
        BY <4>1, <2>1 DEF IsElements
      <4> QED
        BY <4>1, <4>2, <2>2
    <3> QED
      BY <3>1, <3>2, <3>3
  <2>4. q = [k \in 0 .. n + 1 |-> q[k]]
    OBVIOUS
  <2>5. IsElements(q, n + 1, shape)
    <3> HIDE DEF q
    <3> QED
      BY <2>3, <2>4 DEF IsElements
  <2> QED
    BY <2>5
<1>3. Len(shape) \in S
  <2> HIDE DEF S
  <2> QED
    BY <1>1, <1>2, SetInduction
<1> QED
  BY <1>3 DEF Elements, IsElements

\* Arithmetic that the bytes of a tensor need: no positive extent makes a
\* product smaller.
LEMMA ProductGrows == ASSUME NEW a \in Nat, NEW b \in Nat \ {0} PROVE a <= a * b
  OBVIOUS

\* The overflow test of the code, a > l / b, is that of a * b > l: nothing is
\* lost by the integer division. (fixed_bytes > max / extent.)
LEMMA QuotientBound ==
  ASSUME NEW a \in Nat, NEW b \in Nat \ {0}, NEW l \in Nat
  PROVE  a <= l \div b <=> a * b <= l
<1>1. l \div b \in Nat /\ b * (l \div b) <= l /\ l < b * (l \div b) + b
  OBVIOUS
<1>2. ASSUME a <= l \div b PROVE a * b <= l
  <2>1. a * b <= (l \div b) * b
    BY <1>1, <1>2
  <2> QED
    BY <1>1, <2>1
<1>3. ASSUME a * b <= l, ~ a <= l \div b PROVE FALSE
  <2>1. a >= (l \div b) + 1
    BY <1>1, <1>3
  <2>2. a * b >= ((l \div b) + 1) * b
    BY <1>1, <2>1
  <2> QED
    BY <1>1, <1>3, <2>2
<1> QED
  BY <1>1, <1>2, <1>3

\* A whole number of elements is recovered exactly. (byte_count / width.)
LEMMA ExactQuotient ==
  ASSUME NEW q \in Nat, NEW b \in Nat \ {0}
  PROVE  (q * b) \div b = q /\ (q * b) % b = 0
<1> DEFINE d == (q * b) \div b
           r == (q * b) % b
<1>1. q * b \in Nat
  OBVIOUS
<1>2. d \in Int /\ r \in 0 .. b - 1 /\ q * b = b * d + r
  BY <1>1
<1>3. (q - d) * b = r
  BY <1>2
<1> HIDE DEF d, r
<1>4. ~ q - d >= 1
  <2> SUFFICES ASSUME q - d >= 1 PROVE FALSE
    OBVIOUS
  <2>1. (q - d) * b >= b
    BY <1>2
  <2> QED
    BY <2>1, <1>2, <1>3
<1>5. ~ q - d <= -1
  <2> SUFFICES ASSUME q - d <= -1 PROVE FALSE
    OBVIOUS
  <2>1. (q - d) * b <= -b
    BY <1>2
  <2> QED
    BY <2>1, <1>2, <1>3
<1>6. d = q
  BY <1>2, <1>4, <1>5
<1>7. r = 0
  BY <1>2, <1>3, <1>6
<1> QED
  BY <1>6, <1>7 DEF d, r

\* A byte count without remainder is a whole number of elements.
\* (byte_count % fixed_bytes == 0.)
LEMMA WholeQuotient ==
  ASSUME NEW a \in Nat, NEW b \in Nat \ {0}, a % b = 0
  PROVE  \E q \in Nat : a = q * b
<1>1. a \div b \in Nat /\ b * (a \div b) <= a /\ a < b * (a \div b) + b
  OBVIOUS
<1>2. a % b = a - b * (a \div b)
  OBVIOUS
<1>3. a = (a \div b) * b
  BY <1>1, <1>2
<1> QED
  BY <1>1, <1>3

\* A shape whose dynamic extents count for one, as the loops pass over them.
Ones(shape) == [i \in DOMAIN shape |-> IF shape[i] < 0 THEN 1 ELSE shape[i]]

\* Such a shape has extents of no dynamic axis. (The dim < 0 of the loops.)
LEMMA OnesType ==
  ASSUME NEW shape \in Seq(Int)
  PROVE  Ones(shape) \in Seq(Nat) /\ Ones(shape) \in Seq(Int) /\ Len(Ones(shape)) = Len(shape)
  BY DEF Ones

\* Every running product of extents is a natural number.
LEMMA ElementsNat ==
  ASSUME NEW shape \in Seq(Nat), NEW p, IsElements(p, Len(shape), shape)
  PROVE  \A n \in 0 .. Len(shape) : p[n] \in Nat
<1> DEFINE S == {n \in Nat : n <= Len(shape) => p[n] \in Nat}
<1>1. 0 \in S
  BY DEF IsElements
<1>2. ASSUME NEW n \in Nat, n \in S PROVE n + 1 \in S
  <2> SUFFICES ASSUME n + 1 <= Len(shape) PROVE p[n + 1] \in Nat
    OBVIOUS
  <2>1. p[n + 1] = p[n] * shape[n + 1] /\ shape[n + 1] \in Nat
    BY DEF IsElements
  <2>2. p[n] \in Nat
    BY <1>2
  <2> QED
    BY <2>1, <2>2
<1>3. Nat \subseteq S
  <2> HIDE DEF S
  <2> QED
    BY <1>1, <1>2, SetInduction
<1> QED
  BY <1>3

\* And so is the number of elements.
LEMMA ElementsOfOnes ==
  ASSUME NEW shape \in Seq(Int)
  PROVE  Elements(Ones(shape)) \in Nat
<1> DEFINE ones == Ones(shape)
<1>1. ones \in Seq(Nat) /\ ones \in Seq(Int) /\ Len(ones) \in 0 .. Len(ones)
  BY OnesType
<1> HIDE DEF ones
<1>2. PICK e : IsElements(e, Len(ones), ones) /\ Elements(ones) = e[Len(ones)]
  BY <1>1, ElementsDef
<1>3. Elements(ones) \in Nat
  BY <1>1, <1>2, ElementsNat
<1> QED
  BY <1>3 DEF ones

\* A product that did not overflow is exact, in unbounded arithmetic.
\* (The guarded multiplication of validateInputBytes, concreteInputShape and
\* validateOutputBytes.)
LEMMA FixedIsExact ==
  ASSUME NEW shape \in Seq(Int), NEW start \in Nat, NEW limit \in Nat
  PROVE  \/ FixedProduct(start, shape, limit) = Overflow
         \/ FixedProduct(start, shape, limit) = start * Elements(Ones(shape))
<1>1. PICK p : /\ IsFixed(p, Len(shape), start, shape, limit)
               /\ FixedProduct(start, shape, limit) = p[Len(shape)]
  BY FixedProductDef
<1>2. Ones(shape) \in Seq(Nat) /\ Ones(shape) \in Seq(Int) /\ Len(Ones(shape)) = Len(shape)
  BY OnesType
<1>3. PICK e : IsElements(e, Len(shape), Ones(shape)) /\ Elements(Ones(shape)) = e[Len(shape)]
  BY <1>2, ElementsDef
<1>4. \A n \in 0 .. Len(shape) : e[n] \in Nat
  BY <1>2, <1>3, ElementsNat
<1> DEFINE S == {n \in Nat : n <= Len(shape) => p[n] = Overflow \/ p[n] = start * e[n]}
<1>5. 0 \in S
  BY <1>1, <1>3 DEF IsFixed, IsElements
<1>6. ASSUME NEW n \in Nat, n \in S PROVE n + 1 \in S
  <2> SUFFICES ASSUME n + 1 <= Len(shape)
               PROVE  p[n + 1] = Overflow \/ p[n + 1] = start * e[n + 1]
    OBVIOUS
  <2>1. p[n + 1] = Times(p[n], shape[n + 1], limit)
    BY <1>1 DEF IsFixed
  <2>2. e[n + 1] = e[n] * Ones(shape)[n + 1]
    BY <1>3 DEF IsElements
  <2>3. e[n] \in Nat /\ shape[n + 1] \in Int
    BY <1>4
  <2>4. CASE p[n] = Overflow
    BY <2>1, <2>4 DEF Times
  <2>5. CASE p[n] = start * e[n] /\ shape[n + 1] < 0
    <3>1. Ones(shape)[n + 1] = 1
      BY <2>5 DEF Ones
    <3>2. e[n + 1] = e[n]
      BY <3>1, <2>2, <2>3
    <3> QED
      BY <2>1, <2>5, <3>2 DEF Times
  <2>6. CASE p[n] = start * e[n] /\ shape[n + 1] >= 0
    <3>1. Ones(shape)[n + 1] = shape[n + 1]
      BY <2>3, <2>6 DEF Ones
    <3>2. p[n + 1] = Overflow \/ p[n + 1] = p[n] * shape[n + 1]
      BY <2>1, <2>3, <2>6 DEF Times
    <3>3. (start * e[n]) * shape[n + 1] = start * (e[n] * shape[n + 1])
      BY <2>3
    <3> QED
      BY <2>2, <2>6, <3>1, <3>2, <3>3
  <2>7. p[n] = Overflow \/ p[n] = start * e[n]
    BY <1>6
  <2> QED
    BY <2>3, <2>4, <2>5, <2>6, <2>7
<1>7. Nat \subseteq S
  <2> HIDE DEF S
  <2> QED
    BY <1>5, <1>6, SetInduction
<1>8. p[Len(shape)] = Overflow \/ p[Len(shape)] = start * e[Len(shape)]
  BY <1>7
<1> QED
  BY <1>1, <1>3, <1>8

\* If the product of all extents is positive, no running product exceeds it.
LEMMA ElementsPositive ==
  ASSUME NEW shape \in Seq(Nat), NEW p, IsElements(p, Len(shape), shape),
         p[Len(shape)] > 0
  PROVE  \A n \in 0 .. Len(shape) : p[n] > 0 /\ p[n] <= p[Len(shape)]
<1>1. \A n \in 0 .. Len(shape) : p[n] \in Nat
  BY ElementsNat
<1>2. ASSUME NEW k \in 1 .. Len(shape), p[k] > 0
      PROVE  p[k - 1] > 0 /\ p[k - 1] <= p[k]
  <2>1. k - 1 \in 0 .. Len(shape) /\ k \in 0 .. Len(shape) /\ k # 0
    OBVIOUS
  <2>6. p[k] = p[k - 1] * shape[k]
    BY <2>1 DEF IsElements
  <2>7. shape[k] \in Nat
    OBVIOUS
  <2>2. p[k] = p[k - 1] * shape[k] /\ shape[k] \in Nat
    BY <2>6, <2>7
  <2>3. p[k - 1] \in Nat
    BY <1>1, <2>1
  <2>4. p[k - 1] # 0 /\ shape[k] # 0
    BY <1>2, <2>2, <2>3
  <2>5. p[k - 1] <= p[k - 1] * shape[k]
    BY <2>2, <2>3, <2>4, ProductGrows
  <2> QED
    BY <2>2, <2>3, <2>4, <2>5
<1> DEFINE L == Len(shape)
           S == {n \in Nat : n <= L => p[L - n] > 0 /\ p[L - n] <= p[L]}
<1>3. L \in Nat /\ L \in 0 .. L
  OBVIOUS
<1>4. 0 \in S
  BY <1>1, <1>3
<1>5. ASSUME NEW n \in Nat, n \in S PROVE n + 1 \in S
  <2> SUFFICES ASSUME n + 1 <= L PROVE p[L - (n + 1)] > 0 /\ p[L - (n + 1)] <= p[L]
    OBVIOUS
  <2>1. p[L - n] > 0 /\ p[L - n] <= p[L]
    BY <1>5
  <2>2. L - n \in 1 .. L /\ L - (n + 1) = (L - n) - 1 /\ L - n \in 0 .. L /\ (L - n) - 1 \in 0 .. L
    BY <1>3
  <2> HIDE DEF S
  <2>3. p[(L - n) - 1] > 0 /\ p[(L - n) - 1] <= p[L - n]
    BY <1>2, <2>1, <2>2
  <2>4. p[L - n] \in Nat /\ p[L] \in Nat /\ p[(L - n) - 1] \in Nat
    BY <1>1, <1>3, <2>2
  <2> QED
    BY <2>1, <2>2, <2>3, <2>4
<1>6. Nat \subseteq S
  <2> HIDE DEF S
  <2> QED
    BY <1>4, <1>5, SetInduction
<1>7. ASSUME NEW n \in 0 .. L PROVE p[n] > 0 /\ p[n] <= p[L]
  <2>1. L - n \in Nat /\ L - (L - n) = n /\ L - n <= L
    BY <1>3
  <2>2. L - n \in S
    BY <1>6, <2>1
  <2> QED
    BY <2>1, <2>2
<1> QED
  BY <1>7

\* A shape without dynamic axes is left as it is.
LEMMA OnesOfConcrete ==
  ASSUME NEW shape \in Seq(Int), DynamicAxes(shape) = {}
  PROVE  Ones(shape) = shape
<1>1. \A i \in DOMAIN shape : shape[i] \in Int /\ ~ shape[i] < 0
  BY DEF DynamicAxes
<1>2. shape = [i \in DOMAIN shape |-> shape[i]]
  OBVIOUS
<1> QED
  BY <1>1, <1>2 DEF Ones

\* full is shape with the extent q at the axis a.
FilledAt(full, shape, a, q) ==
  /\ full \in Seq(Int) /\ Len(full) = Len(shape)
  /\ \A i \in 1 .. Len(shape) : full[i] = IF i = a THEN q ELSE shape[i]

\* Filling the one dynamic axis multiplies the elements of the rest by its
\* extent. (shape[dynamic_index] = elements / fixed.)
LEMMA OneAxisElements ==
  ASSUME NEW shape \in Seq(Int), NEW a, DynamicAxes(shape) = {a}, NEW q \in Nat,
         NEW full, FilledAt(full, shape, a, q)
  PROVE  Elements(full) = q * Elements(Ones(shape))
<1>0. /\ full \in Seq(Int) /\ Len(full) = Len(shape)
      /\ \A i \in 1 .. Len(shape) : full[i] = IF i = a THEN q ELSE shape[i]
  BY DEF FilledAt
<1>1. Ones(shape) \in Seq(Nat) /\ Ones(shape) \in Seq(Int) /\ Len(Ones(shape)) = Len(shape)
  BY OnesType
<1>2. PICK e : IsElements(e, Len(shape), Ones(shape)) /\ Elements(Ones(shape)) = e[Len(shape)]
  BY <1>1, ElementsDef
<1>3. PICK f : IsElements(f, Len(shape), full) /\ Elements(full) = f[Len(shape)]
  BY <1>0, ElementsDef
<1>4. \A n \in 0 .. Len(shape) : e[n] \in Nat
  BY <1>1, <1>2, ElementsNat
<1>5. a \in 1 .. Len(shape) /\ shape[a] < 0
  BY DEF DynamicAxes
<1>6. \A i \in 1 .. Len(shape) :
        Ones(shape)[i] \in Nat /\ (Ones(shape)[i] = IF i = a THEN 1 ELSE full[i])
  <2> TAKE i \in 1 .. Len(shape)
  <2>1. i = a <=> shape[i] < 0
    BY DEF DynamicAxes
  <2>2. shape[i] \in Int
    OBVIOUS
  <2> QED
    BY <1>0, <2>1, <2>2 DEF Ones
<1> DEFINE S == {n \in Nat : n <= Len(shape) => f[n] = IF n < a THEN e[n] ELSE q * e[n]}
<1>7. 0 \in S
  BY <1>2, <1>3, <1>5 DEF IsElements
<1>8. ASSUME NEW n \in Nat, n \in S PROVE n + 1 \in S
  <2> SUFFICES ASSUME n + 1 <= Len(shape)
               PROVE  f[n + 1] = IF n + 1 < a THEN e[n + 1] ELSE q * e[n + 1]
    OBVIOUS
  <2>1. f[n + 1] = f[n] * full[n + 1]
    BY <1>3 DEF IsElements
  <2>2. e[n + 1] = e[n] * Ones(shape)[n + 1]
    BY <1>2 DEF IsElements
  <2>3. e[n] \in Nat /\ n + 1 \in 1 .. Len(shape)
    BY <1>4
  <2>4. Ones(shape)[n + 1] \in Nat
    BY <1>6, <2>3
  <2>5. f[n] = IF n < a THEN e[n] ELSE q * e[n]
    BY <1>8
  <2> HIDE DEF S
  <2>6. CASE n + 1 < a
    BY <1>5, <1>6, <2>1, <2>2, <2>3, <2>5, <2>6
  <2>7. CASE n + 1 = a
    <3>1. f[n + 1] = e[n] * q /\ e[n + 1] = e[n]
      BY <1>0, <1>5, <1>6, <2>1, <2>2, <2>3, <2>5, <2>7
    <3> QED
      BY <2>3, <2>7, <3>1
  <2>8. CASE n + 1 > a
    <3>1. f[n + 1] = (q * e[n]) * Ones(shape)[n + 1]
      BY <1>5, <1>6, <2>1, <2>3, <2>5, <2>8
    <3>2. (q * e[n]) * Ones(shape)[n + 1] = q * (e[n] * Ones(shape)[n + 1])
      BY <2>3, <2>4
    <3> QED
      BY <1>5, <2>2, <2>8, <3>1, <3>2
  <2> QED
    BY <1>5, <2>6, <2>7, <2>8
<1>9. Nat \subseteq S
  <2> HIDE DEF S
  <2> QED
    BY <1>7, <1>8, SetInduction
<1>10. f[Len(shape)] = q * e[Len(shape)]
  BY <1>5, <1>9
<1> QED
  BY <1>2, <1>3, <1>10

\* The same for the shape that concreteInputShape builds.
LEMMA FilledElements ==
  ASSUME NEW shape \in Seq(Int), NEW a, DynamicAxes(shape) = {a}, NEW q \in Nat
  PROVE  Elements([i \in DOMAIN shape |-> IF i = a THEN q ELSE shape[i]])
           = q * Elements(Ones(shape))
<1> DEFINE full == [i \in DOMAIN shape |-> IF i = a THEN q ELSE shape[i]]
<1>1. FilledAt(full, shape, a, q)
  BY DEF FilledAt
<1> HIDE DEF full
<1>2. Elements(full) = q * Elements(Ones(shape))
  BY <1>1, OneAxisElements
<1> QED
  BY <1>2 DEF full

\* A product that fits the limit is computed: the guard refuses no shape whose
\* bytes can be counted. (fixed_bytes > max / extent.)
LEMMA NoOverflow ==
  ASSUME NEW shape \in Seq(Int), NEW start \in Nat \ {0}, NEW limit \in Nat,
         Elements(Ones(shape)) > 0, start * Elements(Ones(shape)) <= limit
  PROVE  FixedProduct(start, shape, limit) = start * Elements(Ones(shape))
<1>1. PICK p : /\ IsFixed(p, Len(shape), start, shape, limit)
               /\ FixedProduct(start, shape, limit) = p[Len(shape)]
  BY FixedProductDef
<1>2. Ones(shape) \in Seq(Nat) /\ Ones(shape) \in Seq(Int) /\ Len(Ones(shape)) = Len(shape)
  BY OnesType
<1>3. PICK e : IsElements(e, Len(shape), Ones(shape)) /\ Elements(Ones(shape)) = e[Len(shape)]
  BY <1>2, ElementsDef
<1>4. \A n \in 0 .. Len(shape) : e[n] \in Nat /\ e[n] > 0 /\ e[n] <= e[Len(shape)]
  BY <1>2, <1>3, ElementsNat, ElementsPositive
<1>5. \A n \in 0 .. Len(shape) : start * e[n] \in Nat /\ start * e[n] <= limit
  <2> TAKE n \in 0 .. Len(shape)
  <2>1. e[n] \in Nat /\ e[Len(shape)] \in Nat /\ e[n] <= e[Len(shape)]
    BY <1>4
  <2>2. start * e[n] <= start * e[Len(shape)] /\ start * e[n] \in Nat /\ start * e[Len(shape)] \in Nat
    BY <2>1
  <2> QED
    BY <1>3, <2>2
<1> DEFINE S == {n \in Nat : n <= Len(shape) => p[n] = start * e[n]}
<1>6. 0 \in S
  BY <1>1, <1>3 DEF IsFixed, IsElements
<1>7. ASSUME NEW n \in Nat, n \in S PROVE n + 1 \in S
  <2> SUFFICES ASSUME n + 1 <= Len(shape) PROVE p[n + 1] = start * e[n + 1]
    OBVIOUS
  <2>1. p[n + 1] = Times(p[n], shape[n + 1], limit)
    BY <1>1 DEF IsFixed
  <2>2. e[n + 1] = e[n] * Ones(shape)[n + 1]
    BY <1>3 DEF IsElements
  <2>3. e[n] \in Nat /\ shape[n + 1] \in Int /\ n + 1 \in 1 .. Len(shape)
    BY <1>4
  <2>4. p[n] = start * e[n] /\ p[n] \in Nat
    BY <1>5, <1>7
  <2>5. start * e[n + 1] \in Nat /\ start * e[n + 1] <= limit
    BY <1>5
  <2> HIDE DEF S
  <2>6. CASE shape[n + 1] < 0
    <3>1. Ones(shape)[n + 1] = 1
      BY <2>3, <2>6 DEF Ones
    <3>2. e[n + 1] = e[n]
      BY <3>1, <2>2, <2>3
    <3> QED
      BY <2>1, <2>3, <2>4, <2>6, <3>2 DEF Times, Overflow
  <2>7. CASE shape[n + 1] >= 0
    <3> DEFINE x == shape[n + 1]
    <3>1. Ones(shape)[n + 1] = x
      BY <2>3, <2>7 DEF Ones
    <3>2. (start * e[n]) * x = start * (e[n] * x)
      BY <2>3
    <3>3. p[n] * x = start * e[n + 1]
      BY <2>2, <2>4, <3>1, <3>2
    <3>6. x \in Nat
      BY <2>3, <2>7
    <3>7. ASSUME x > 0 PROVE p[n] <= limit \div x
      <4> HIDE DEF x
      <4>1. x \in Nat \ {0}
        BY <3>6, <3>7
      <4>2. p[n] * x <= limit
        BY <2>5, <3>3
      <4> QED
        BY <2>4, <4>1, <4>2, QuotientBound
    <3>4. x \in Nat /\ (x > 0 => p[n] <= limit \div x)
      BY <3>6, <3>7
    <3>5. ~ (x > 0 /\ p[n] > limit \div x)
      BY <2>4, <3>4
    <3> QED
      BY <2>1, <2>4, <2>7, <3>3, <3>4, <3>5 DEF Times, Overflow
  <2> QED
    BY <2>3, <2>6, <2>7
<1>8. Nat \subseteq S
  <2> HIDE DEF S
  <2> QED
    BY <1>6, <1>7, SetInduction
<1>9. p[Len(shape)] = start * e[Len(shape)]
  BY <1>8
<1> QED
  BY <1>1, <1>3, <1>9

\* Dynamic axes can be counted. (dynamic_axes in concreteInputShape.)
LEMMA AxesFinite ==
  ASSUME NEW shape \in Seq(Int)
  PROVE  /\ IsFiniteSet(DynamicAxes(shape)) /\ Cardinality(DynamicAxes(shape)) \in Nat
         /\ Cardinality(DynamicAxes(shape)) = 0 <=> DynamicAxes(shape) = {}
<1>1. DynamicAxes(shape) \subseteq 1 .. Len(shape) /\ Len(shape) \in Nat
  BY DEF DynamicAxes
<1>2. IsFiniteSet(1 .. Len(shape))
  BY <1>1, FS_Interval
<1>3. IsFiniteSet(DynamicAxes(shape))
  BY <1>1, <1>2, FS_Subset
<1> QED
  BY <1>3, FS_CardinalityType, FS_EmptySet

\* A count of one dynamic axis picks it. (dynamic_index.)
LEMMA AxisPicked ==
  ASSUME NEW shape \in Seq(Int), Cardinality(DynamicAxes(shape)) = 1
  PROVE  \E a : DynamicAxes(shape) = {a}
  BY AxesFinite, FS_Singleton

\* kserve::TensorSpec, with the width of its datatype.
TensorSpec == [shape : Seq(Int), width : Nat]

\* A concrete wire shape of a request that passed the byte check agrees with
\* the advertised one and holds exactly the bytes.
\* (validateInputBytes, then concreteInputShape.)
LEMMA WireFitsPayload ==
  ASSUME NEW spec \in TensorSpec, NEW bytes \in ByteCount, spec.width > 0,
         validateInputBytes(spec, bytes),
         DynamicAxes(concreteInputShape(spec, bytes)) = {}
  PROVE  concreteInputShape(spec, bytes) \in Readings(spec, bytes)
<1> DEFINE shape == spec.shape
           w     == spec.width
           sent  == concreteInputShape(spec, bytes)
           ones  == Elements(Ones(shape))
<1>1. shape \in Seq(Int) /\ w \in Nat \ {0} /\ bytes \in Nat /\ bytes <= MaxExtent /\ MaxExtent \in Nat
  BY TensorBytesAssumption DEF TensorSpec, ByteCount
<1>2. MaxWord \in Nat
  BY <1>1 DEF MaxWord
<1>3. ones \in Nat
  BY <1>1, ElementsOfOnes
<1>4. FixedProduct(w, shape, MaxWord) = w * ones /\ w * ones \in Nat
  <2>1. FixedProduct(w, shape, MaxWord) # Overflow
    BY <1>1 DEF validateInputBytes
  <2> HIDE DEF ones
  <2>2. w * ones \in Nat
    BY <1>1, <1>3
  <2> QED
    BY <1>1, <1>2, <2>1, <2>2, FixedIsExact DEF ones
<1>5. CASE DynamicAxes(shape) = {}
  <2>1. sent = shape
    BY <1>1, <1>5, AxesFinite DEF concreteInputShape
  <2>2. Filled(shape, [i \in {} |-> 0]) = shape
    BY <1>1 DEF Filled
  <2>3. [i \in {} |-> 0] \in [DynamicAxes(shape) -> 0 .. MaxExtent]
    BY <1>5
  <2>4. bytes = w * ones
    BY <1>1, <1>4, <1>5 DEF validateInputBytes
  <2>5. Elements(shape) = ones
    BY <1>1, <1>5, OnesOfConcrete
  <2>6. Elements(shape) * w = bytes
    <3> HIDE DEF ones, shape, w
    <3> QED
      BY <1>1, <1>3, <2>4, <2>5
  <2>7. shape \in {Filled(shape, x) : x \in [DynamicAxes(shape) -> 0 .. MaxExtent]}
    BY <2>2, <2>3
  <2> HIDE DEF sent
  <2>8. shape \in Readings(spec, bytes)
    BY <2>6, <2>7, Zenon DEF Readings
  <2> QED
    BY <2>1, <2>8 DEF sent
<1>6. CASE DynamicAxes(shape) # {}
  <2> DEFINE fixed == FixedProduct(1, shape, MaxExtent)
             q     == (bytes \div w) \div fixed
  <2>1. sent # shape
    BY <1>6
  <2>2. Cardinality(DynamicAxes(shape)) = 1 /\ ~ fixed <= 0
    BY <2>1 DEF concreteInputShape
  <2>3. PICK a : DynamicAxes(shape) = {a}
    BY <1>1, <2>2, AxisPicked
  <2>4. sent = [i \in DOMAIN shape |-> IF i \in {a} THEN q ELSE shape[i]]
    BY <1>1, <2>2, <2>3 DEF concreteInputShape
  <2>5. fixed = ones
    <3>1. fixed = Overflow \/ fixed = 1 * ones
      <4> HIDE DEF shape
      <4> QED
        BY <1>1, FixedIsExact
    <3> HIDE DEF fixed, ones
    <3> QED
      BY <1>3, <2>2, <3>1 DEF Overflow
  <2>6. ones \in Nat \ {0}
    <3> HIDE DEF fixed, ones
    <3> QED
      BY <1>3, <2>2, <2>5
  <2>7. bytes % (w * ones) = 0
    <3>1. FixedProduct(w, shape, MaxWord) = 0 \/ bytes % FixedProduct(w, shape, MaxWord) = 0
      BY <1>1, <1>6 DEF validateInputBytes
    <3> HIDE DEF ones
    <3>2. w * ones # 0
      BY <1>1, <2>6
    <3> QED
      BY <1>4, <3>1, <3>2
  <2> HIDE DEF ones, sent, w, fixed
  <2>8. PICK k \in Nat : bytes = k * (w * ones)
    <3>1. w * ones \in Nat \ {0}
      BY <1>1, <2>6
    <3> QED
      BY <1>1, <2>7, <3>1, WholeQuotient
  <2>9. q = k
    <3>1. k * (w * ones) = (k * ones) * w /\ k * ones \in Nat
      BY <1>1, <2>6
    <3>2. bytes \div w = k * ones
      BY <1>1, <2>8, <3>1, ExactQuotient
    <3>3. (k * ones) \div ones = k
      BY <2>6, ExactQuotient
    <3> QED
      BY <2>5, <3>2, <3>3
  <2>10. k \in 0 .. MaxExtent
    <3>1. w * ones \in Nat \ {0}
      BY <1>1, <2>6
    <3>2. k <= k * (w * ones)
      BY <3>1, ProductGrows
    <3> QED
      BY <1>1, <2>8, <3>2
  <2> HIDE DEF q, shape
  <2>11. sent = [i \in DOMAIN shape |-> IF i = a THEN k ELSE shape[i]]
    BY <2>4, <2>9
  <2>13. Elements(sent) = k * ones
    BY <1>1, <2>3, <2>11, FilledElements DEF ones
  <2>14. Elements(sent) * w = bytes
    <3>1. (k * ones) * w = k * (w * ones)
      BY <1>1, <2>6
    <3> QED
      BY <2>8, <2>13, <3>1
  <2>15. sent = Filled(shape, [i \in {a} |-> k])
    BY <2>4, <2>9 DEF Filled
  <2>16. [i \in {a} |-> k] \in [DynamicAxes(shape) -> 0 .. MaxExtent]
    BY <2>3, <2>10
  <2>17. sent \in Readings(spec, bytes)
    BY <2>14, <2>15, <2>16 DEF Readings, shape, w
  <2> QED
    BY <2>17 DEF sent
<1> QED
  BY <1>5, <1>6

\* Bytes that some concrete shape accounts for pass the byte check, and leave
\* no dynamic axis behind. (validateInputBytes, then concreteInputShape.)
LEMMA ReadingIsAccepted ==
  ASSUME NEW spec \in TensorSpec, NEW bytes \in ByteCount, spec.width > 0, bytes > 0,
         ~ Cardinality(DynamicAxes(spec.shape)) > 1, Readings(spec, bytes) # {}
  PROVE  /\ validateInputBytes(spec, bytes)
         /\ DynamicAxes(concreteInputShape(spec, bytes)) = {}
<1> DEFINE shape == spec.shape
           w     == spec.width
           ones  == Elements(Ones(shape))
<1>1. shape \in Seq(Int) /\ w \in Nat \ {0} /\ bytes \in Nat \ {0} /\ bytes <= MaxExtent /\ MaxExtent \in Nat
  BY TensorBytesAssumption DEF TensorSpec, ByteCount
<1>2. MaxWord \in Nat /\ MaxExtent <= MaxWord
  BY <1>1 DEF MaxWord
<1>3. ones \in Nat
  BY <1>1, ElementsOfOnes
<1>4. PICK x \in [DynamicAxes(shape) -> 0 .. MaxExtent] :
        Elements(Filled(shape, x)) * w = bytes
  BY DEF Readings
<1>5. ASSUME NEW k \in Nat, bytes = k * (w * ones)
      PROVE  /\ ones > 0 /\ k > 0
             /\ FixedProduct(w, shape, MaxWord) = w * ones
             /\ FixedProduct(1, shape, MaxExtent) = ones
             /\ w * ones \in Nat \ {0}
  <2> HIDE DEF shape, w
  <2>1. ones > 0 /\ k > 0 /\ w * ones \in Nat \ {0} /\ 1 * ones = ones
    <3> HIDE DEF ones
    <3>1. w * ones \in Nat
      BY <1>1, <1>3
    <3>2. k # 0
      BY <1>1, <1>5, <3>1
    <3>3. w * ones # 0
      BY <1>1, <1>5
    <3>4. ones # 0
      BY <1>1, <3>3
    <3> QED
      BY <1>3, <3>1, <3>2, <3>3, <3>4
  <2>2. w * ones <= bytes /\ ones <= w * ones
    <3> HIDE DEF ones
    <3>1. w * ones <= (w * ones) * k
      BY <2>1, ProductGrows
    <3>2. (w * ones) * k = k * (w * ones)
      BY <2>1
    <3>3. ones <= ones * w /\ ones * w = w * ones
      BY <1>1, <1>3, ProductGrows
    <3> QED
      BY <1>5, <3>1, <3>2, <3>3
  <2>3. w * ones <= MaxWord /\ 1 * ones <= MaxExtent
    <3> DEFINE b == w * ones
    <3>1. b \in Nat /\ b <= bytes /\ ones <= b /\ 1 * ones = ones
      BY <2>1, <2>2
    <3> HIDE DEF ones, b
    <3>2. b <= MaxWord /\ ones <= MaxExtent
      BY <1>1, <1>2, <1>3, <3>1
    <3> QED
      BY <3>1, <3>2 DEF b
  <2>4. FixedProduct(w, shape, MaxWord) = w * ones
    BY <1>1, <1>2, <2>1, <2>3, NoOverflow
  <2>5. FixedProduct(1, shape, MaxExtent) = 1 * ones
    BY <1>1, <2>1, <2>3, NoOverflow
  <2> HIDE DEF ones
  <2> QED
    BY <2>1, <2>4, <2>5
<1>6. CASE DynamicAxes(shape) = {}
  <2>1. Filled(shape, x) = shape
    BY <1>1, <1>6 DEF Filled
  <2>2. Elements(shape) = ones
    BY <1>1, <1>6, OnesOfConcrete
  <2>3. bytes = w * ones /\ bytes = 1 * (w * ones)
    <3> HIDE DEF ones, shape, w
    <3> QED
      BY <1>1, <1>3, <1>4, <2>1, <2>2
  <2>4. validateInputBytes(spec, bytes)
    <3>1. FixedProduct(w, shape, MaxWord) = w * ones /\ w * ones \in Nat
      BY <1>5, <2>3
    <3> HIDE DEF ones
    <3>2. FixedProduct(w, shape, MaxWord) # Overflow /\ bytes = FixedProduct(w, shape, MaxWord)
      BY <2>3, <3>1 DEF Overflow
    <3> QED
      BY <1>6, <3>2 DEF validateInputBytes
  <2>5. concreteInputShape(spec, bytes) = shape
    BY <1>1, <1>6, AxesFinite DEF concreteInputShape
  <2> QED
    BY <1>6, <2>4, <2>5
<1>7. CASE DynamicAxes(shape) # {}
  <2>1. Cardinality(DynamicAxes(shape)) = 1
    BY <1>1, <1>7, AxesFinite
  <2>2. PICK a : DynamicAxes(shape) = {a}
    BY <1>1, <2>1, AxisPicked
  <2> DEFINE k == x[a]
             full == Filled(shape, x)
  <2>3. k \in Nat
    BY <1>1, <2>2
  <2>4. full = [i \in DOMAIN shape |-> IF i = a THEN k ELSE shape[i]]
    BY <2>2 DEF Filled
  <2> HIDE DEF full, k
  <2>5. Elements(full) = k * ones
    BY <1>1, <2>2, <2>3, <2>4, FilledElements
  <2>6. bytes = k * (w * ones)
    <3>1. (k * ones) * w = k * (w * ones)
      <4> HIDE DEF ones, w
      <4> QED
        BY <1>1, <1>3, <2>3
    <3>2. Elements(full) * w = bytes
      BY <1>4 DEF full
    <3> QED
      BY <2>5, <3>1, <3>2
  <2>7. /\ ones > 0 /\ k > 0
        /\ FixedProduct(w, shape, MaxWord) = w * ones
        /\ FixedProduct(1, shape, MaxExtent) = ones
        /\ w * ones \in Nat \ {0}
    BY <1>5, <2>3, <2>6
  <2>8. validateInputBytes(spec, bytes)
    <3> HIDE DEF ones
    <3>1. FixedProduct(w, shape, MaxWord) # Overflow
      BY <2>7 DEF Overflow
    <3>2. bytes % (w * ones) = 0
      BY <2>3, <2>6, <2>7, ExactQuotient
    <3>3. bytes % FixedProduct(w, shape, MaxWord) = 0
      BY <2>7, <3>2
    <3> QED
      BY <1>7, <3>1, <3>3 DEF validateInputBytes
  <2>9. DynamicAxes(concreteInputShape(spec, bytes)) = {}
    <3> DEFINE sent == concreteInputShape(spec, bytes)
               q    == (bytes \div w) \div ones
    <3>1. ~ FixedProduct(1, shape, MaxExtent) <= 0
      <4> HIDE DEF ones, shape, w
      <4> QED
        BY <1>3, <2>7
    <3>2. sent = [i \in DOMAIN shape |-> IF i \in {a} THEN q ELSE shape[i]]
      BY <1>1, <2>1, <2>2, <2>7, <3>1 DEF concreteInputShape
    <3>3. q >= 0 /\ q \in Int
      <4> HIDE DEF ones, shape, w
      <4>1. bytes \div w \in Nat
        BY <1>1
      <4> QED
        BY <1>3, <2>7, <4>1
    <3>4. ASSUME NEW i \in DOMAIN shape PROVE ~ sent[i] < 0
      <4>1. i = a <=> shape[i] < 0
        BY <2>2 DEF DynamicAxes
      <4> HIDE DEF q, sent
      <4> QED
        BY <3>2, <3>3, <4>1
    <3>5. DOMAIN sent = DOMAIN shape
      BY <3>2
    <3> HIDE DEF sent
    <3>6. DynamicAxes(sent) = {}
      BY <3>4, <3>5 DEF DynamicAxes
    <3> QED
      BY <3>6 DEF sent
  <2> QED
    BY <2>8, <2>9
<1> QED
  BY <1>6, <1>7



\* A response that is decoded has an element for every index of its shape.
\* (validateOutputBytes, then bytesToElements.)
LEMMA ResponseFillsShape ==
  ASSUME NEW output \in [shape : Seq(Int), width : Nat, bytes : ByteCount], Decodes(output)
  PROVE  /\ DynamicAxes(output.shape) = {}
         /\ output.bytes \div output.width = Elements(output.shape)
<1> DEFINE shape == output.shape
           w     == output.width
<1>1. shape \in Seq(Int) /\ w \in Nat \ {0} /\ MaxWord \in Nat
  BY TensorBytesAssumption DEF Decodes, MaxWord
<1>2. /\ DynamicAxes(shape) = {}
      /\ FixedProduct(1, shape, MaxWord) # Overflow
      /\ output.bytes = FixedProduct(1, shape, MaxWord) * w
  BY <1>1 DEF Decodes, validateOutputBytes
<1>3. FixedProduct(1, shape, MaxWord) = 1 * Elements(shape)
  BY <1>1, <1>2, FixedIsExact, OnesOfConcrete
<1>4. Elements(shape) \in Nat
  BY <1>1, <1>2, OnesOfConcrete, ElementsOfOnes
<1> HIDE DEF shape, w
<1>5. output.bytes = Elements(shape) * w
  BY <1>1, <1>2, <1>3, <1>4
<1>6. (Elements(shape) * w) \div w = Elements(shape)
  BY <1>1, <1>4, ExactQuotient
<1> QED
  BY <1>2, <1>5, <1>6 DEF shape, w

\* --input_sizes turns an advertised spec into another spec. (applyInputSizes.)
LEMMA SizedType ==
  ASSUME TypeInv, loaded, NEW i \in DOMAIN raw.inputs
  PROVE  Sized(i) \in TensorSpec /\ Sized(i).width = raw.inputs[i].width
<1>1. raw.inputs \in Seq(TensorSpec) /\ sizes \in Seq(Seq(Int))
  BY KserveEngineAssumption DEF TypeInv, Requested, TypeOK, TensorSpec
<1>2. raw.inputs[i] \in TensorSpec
  BY <1>1
<1>3. ASSUME i <= Len(sizes)
      PROVE  applyInputSizes(raw.inputs[i].shape, sizes[i]) \in Seq(Int)
  <2> DEFINE shape == raw.inputs[i].shape
             given == sizes[i]
  <2>1. shape \in Seq(Int) /\ given \in Seq(Int)
    BY <1>1, <1>2, <1>3 DEF TensorSpec
  <2> HIDE DEF shape, given
  <2>2. ASSUME ~ Len(shape) - Len(given) < 0, NEW k \in 1 .. Len(shape), k > Len(shape) - Len(given)
        PROVE  given[k - (Len(shape) - Len(given))] \in Int
    <3>1. k - (Len(shape) - Len(given)) \in 1 .. Len(given)
      BY <2>1, <2>2
    <3> QED
      BY <2>1, <3>1
  <2>3. applyInputSizes(shape, given) \in Seq(Int)
    <3> DEFINE offset == Len(shape) - Len(given)
               f == [k \in 1 .. Len(shape) |->
                       IF k > offset /\ shape[k] < 0 THEN given[k - offset] ELSE shape[k]]
    <3>1. CASE offset < 0
      BY <2>1, <3>1 DEF applyInputSizes
    <3>2. CASE ~ offset < 0
      <4>1. \A k \in 1 .. Len(shape) : f[k] \in Int
        BY <2>1, <2>2, <3>2
      <4>2. f \in Seq(Int)
        <5> HIDE DEF f
        <5>1. f = [k \in 1 .. Len(shape) |-> f[k]]
          BY DEF f
        <5>2. f \in [1 .. Len(shape) -> Int] /\ Len(shape) \in Nat
          BY <2>1, <4>1, <5>1
        <5> QED
          BY <5>2
      <4>3. applyInputSizes(shape, given) = f
        BY <2>1, <3>2 DEF applyInputSizes
      <4> QED
        BY <4>2, <4>3
    <3> QED
      BY <3>1, <3>2
  <2> QED
    BY <2>3 DEF shape, given
<1> QED
  BY <1>1, <1>2, <1>3 DEF Sized, TensorSpec

-----------------------------------------------------------------------------
\* What is on the wire passed the checks, and what is returned was decoded.
ByteInv ==
  /\ pc = "infer" =>
       /\ \A i \in DOMAIN payload : Fits(i)
       /\ wire = [i \in DOMAIN payload |-> WireShape(i)]
       /\ Len(payload) = Len(raw.inputs)
  /\ pc = "return" =>
       /\ \A i \in DOMAIN answer.outputs : Decodes(answer.outputs[i])
       /\ delivered = [i \in DOMAIN answer.outputs |->
                         [shape    |-> answer.outputs[i].shape,
                          elements |-> answer.outputs[i].bytes
                                         \div answer.outputs[i].width]]

\* Nothing is on the wire, or returned, at the start.
LEMMA ByteStart == Init => ByteInv
  BY DEF Init, ByteInv

\* Neither metadata nor sizes change between the check of a request and its
\* dispatch, nor the answer between its check and the return.
\* (get_infer_results.)
LEMMA ByteStep == ByteInv /\ ThenInv /\ [Next]_vars => ByteInv'
<1> SUFFICES ASSUME ByteInv, ThenInv, [Next]_vars PROVE ByteInv'
  OBVIOUS
<1> USE DEF Step
<1>1. CASE BuildRequest
  <2>1. UNCHANGED <<sizes, raw, payload>>
    BY <1>1 DEF BuildRequest
  <2>2. pc' # "return"
    BY <1>1 DEF BuildRequest
  <2>3. ASSUME pc' = "infer"
        PROVE  /\ CountMatches /\ \A i \in DOMAIN payload : Fits(i)
               /\ wire' = [i \in DOMAIN payload |-> WireShape(i)]
    BY <1>1, <2>3 DEF BuildRequest
  <2> QED
    BY <2>1, <2>2, <2>3 DEF ByteInv, Fits, WireShape, Sized, CountMatches
<1>2. CASE DecodeOutputs
  BY <1>2 DEF DecodeOutputs, ByteInv
<1>3. CASE UNCHANGED <<pc, payload, wire, raw, sizes, answer, delivered>>
  BY <1>3 DEF ByteInv, Fits, WireShape, Sized
<1>4. CASE pc' \notin {"infer", "return"}
  BY <1>4 DEF ByteInv
<1>5. CASE Reload
  BY <1>3, <1>5 DEF Reload
<1>6. CASE ProbeReady
  BY <1>4, <1>6 DEF ProbeReady
<1>7. CASE FetchMetadata
  BY <1>4, <1>7 DEF FetchMetadata, ThenInv
<1>8. CASE GetInferenceMetadata
  BY <1>4, <1>8 DEF GetInferenceMetadata, EnsureMetadata
<1>9. CASE ServingPlatform
  BY <1>4, <1>9 DEF ServingPlatform
<1>10. CASE GetInferResults
  BY <1>4, <1>10 DEF GetInferResults, EnsureMetadata
<1>11. CASE Infer
  BY <1>4, <1>11 DEF Infer
<1>12. CASE Return
  BY <1>4, <1>12 DEF Return
<1>13. CASE UNCHANGED vars
  BY <1>3, <1>13 DEF vars
<1>14. CASE Ended
  BY <1>13, <1>14 DEF Ended
<1> QED
  BY <1>1, <1>2, <1>5, <1>6, <1>7, <1>8, <1>9, <1>10, <1>11, <1>12, <1>13, <1>14
     DEF Next
\* The engine always works on specs and payloads it has checked.
LEMMA ByteCorrect == Spec => [](TypeInv /\ ByteInv)
<1>1. TypeInv => ThenInv
  BY DEF TypeInv
<1> QED
  BY <1>1, ByteStart, ByteStep, TypeStart, TypeStep, PTL DEF Spec

\* A request under way has a spec and a byte count for each of its inputs.
LEMMA PayloadType ==
  ASSUME TypeInv, pc \in {"build", "infer"}, NEW i \in DOMAIN payload,
         Len(payload) = Len(raw.inputs)
  PROVE  /\ payload[i] \in ByteCount
         /\ Sized(i) \in TensorSpec
<1>1. loaded
  BY DEF TypeInv, EngineInv
<1>2. raw.inputs \in Models
  BY <1>1 DEF TypeInv, Requested
<1>3. payload \in Seq(ByteCount)
  BY <1>2, KserveEngineAssumption DEF TypeInv, TypeOK
<1>4. raw.inputs \in Seq([shape : Seq(Int), width : Nat])
  BY <1>2, KserveEngineAssumption
<1>5. i \in DOMAIN raw.inputs
  BY <1>3, <1>4
<1> QED
  BY <1>1, <1>3, <1>5, SizedType

\* For all models, --input_sizes and payloads: the shapes on the wire are
\* concrete readings of the advertised ones that hold exactly the bytes sent,
\* in unbounded arithmetic. (validateInputBytes, concreteInputShape and the loop
\* over dimensions in get_infer_results.)
THEOREM SentFits == Spec => []SentBytesFitTheirShape
<1>1. TypeInv /\ ByteInv => SentBytesFitTheirShape
  <2> SUFFICES ASSUME TypeInv, ByteInv, pc = "infer", NEW i \in DOMAIN wire
               PROVE  /\ DynamicAxes(wire[i]) = {}
                      /\ Sized(i).width > 0 => wire[i] \in Readings(Sized(i), payload[i])
    BY DEF SentBytesFitTheirShape
  <2>1. i \in DOMAIN payload /\ wire[i] = WireShape(i) /\ Fits(i)
    BY DEF ByteInv
  <2>2. payload[i] \in ByteCount /\ Sized(i) \in TensorSpec
    BY <2>1, PayloadType DEF ByteInv
  <2> QED
    BY <2>1, <2>2, WireFitsPayload DEF Fits, WireShape
<1> QED
  BY <1>1, ByteCorrect, PTL

\* For all models, --input_sizes and payloads: no request is refused whose
\* bytes are accounted for by one reading of the advertised shape, however
\* large its extents: the overflow guards refuse nothing that fits.
\* (The refusals of validateInputBytes and get_infer_results.)
THEOREM RefusalJustified == Spec => []RefusalIsJustified
<1>1. TypeInv => RefusalIsJustified
  <2> SUFFICES ASSUME TypeInv, pc = "build", Len(payload) = Len(raw.inputs),
                      NEW i \in DOMAIN payload, ~ Fits(i)
               PROVE  /\ Sized(i).width = 0 => Cardinality(DynamicAxes(Sized(i).shape)) > 0
                      /\ Sized(i).width # 0 =>
                           \/ payload[i] = 0
                           \/ Cardinality(DynamicAxes(Sized(i).shape)) > 1
                           \/ Readings(Sized(i), payload[i]) = {}
    BY DEF RefusalIsJustified
  <2> DEFINE spec == Sized(i)
  <2>1. payload[i] \in ByteCount /\ spec \in TensorSpec
    BY PayloadType
  <2>2. spec.shape \in Seq(Int) /\ spec.width \in Nat /\ payload[i] \in Nat
    BY <2>1, TensorBytesAssumption DEF TensorSpec, ByteCount
  <2> HIDE DEF spec
  <2>3. CASE spec.width = 0
    <3>1. WireShape(i) = spec.shape
      BY <2>3 DEF WireShape, concreteInputShape, spec
    <3>2. DynamicAxes(spec.shape) # {}
      BY <2>3, <3>1 DEF Fits, validateInputBytes, spec
    <3>3. Cardinality(DynamicAxes(spec.shape)) > 0
      BY <2>2, <3>2, AxesFinite
    <3> QED
      BY <2>3, <3>3 DEF spec
  <2>4. CASE spec.width # 0
    <3>1. ASSUME payload[i] # 0, ~ Cardinality(DynamicAxes(spec.shape)) > 1,
                 Readings(spec, payload[i]) # {}
          PROVE  FALSE
      <4>1. spec.width > 0 /\ payload[i] > 0
        BY <2>2, <2>4, <3>1
      <4>2. /\ validateInputBytes(spec, payload[i])
            /\ DynamicAxes(concreteInputShape(spec, payload[i])) = {}
        BY <2>1, <3>1, <4>1, ReadingIsAccepted
      <4> QED
        BY <4>2 DEF Fits, WireShape, spec
    <3> QED
      BY <2>4, <3>1 DEF spec
  <2> QED
    BY <2>3, <2>4
<1> QED
  BY <1>1, ByteCorrect, PTL

\* For all responses: a tensor that is returned has an element for every index
\* of its shape, in unbounded arithmetic. (validateOutputBytes and
\* bytesToElements.)
THEOREM DeliveredFills == Spec => []DeliveredFillTheirShape
<1>1. TypeInv /\ ByteInv => DeliveredFillTheirShape
  <2> SUFFICES ASSUME TypeInv, ByteInv, pc = "return", NEW i \in DOMAIN delivered
               PROVE  /\ DynamicAxes(delivered[i].shape) = {}
                      /\ delivered[i].elements = Elements(delivered[i].shape)
    BY DEF DeliveredFillTheirShape
  <2>1. loaded
    BY DEF TypeInv, EngineInv
  <2>2. answer \in [request : 1 .. MaxRequests, outputs : Responses(raw.inputs)]
        /\ raw.inputs \in Models
    BY <2>1 DEF TypeInv, Requested
  <2>3. answer.outputs \in Seq([shape : Seq(Int), width : Nat, bytes : ByteCount])
    BY <2>2, KserveEngineAssumption
  <2>4. /\ i \in DOMAIN answer.outputs /\ Decodes(answer.outputs[i])
        /\ delivered[i] = [shape |-> answer.outputs[i].shape,
                           elements |-> answer.outputs[i].bytes \div answer.outputs[i].width]
    BY DEF ByteInv
  <2>5. answer.outputs[i] \in [shape : Seq(Int), width : Nat, bytes : ByteCount]
    <3> DEFINE TypedTensor == [shape : Seq(Int), width : Nat, bytes : ByteCount]
               outputs == answer.outputs
    <3>1. outputs \in Seq(TypedTensor) /\ i \in DOMAIN outputs
      BY <2>3, <2>4
    <3> HIDE DEF TypedTensor, outputs
    <3>2. outputs[i] \in TypedTensor
      BY <3>1
    <3> QED
      BY <3>2 DEF TypedTensor, outputs
  <2>6. /\ DynamicAxes(answer.outputs[i].shape) = {}
        /\ answer.outputs[i].bytes \div answer.outputs[i].width
             = Elements(answer.outputs[i].shape)
    BY <2>4, <2>5, ResponseFillsShape
  <2> QED
    BY <2>4, <2>6
<1> QED
  BY <1>1, ByteCorrect, PTL

-----------------------------------------------------------------------------
(***************************************************************************)
(* A picture's way to the request.                                         *)
(***************************************************************************)
\* full is shape with its dynamic extents replaced by positive ones.
Completes(full, shape) ==
  /\ full \in Seq(Nat \ {0}) /\ Len(full) = Len(shape)
  /\ \A a \in 1 .. Len(shape) : shape[a] < 0 \/ shape[a] = full[a]

\* A tensor whose extents are positive has elements. (A picture.)
LEMMA PositiveElements ==
  ASSUME NEW shape \in Seq(Nat \ {0})
  PROVE  Elements(shape) \in Nat \ {0}
<1>1. shape \in Seq(Int)
  OBVIOUS
<1>2. PICK p : IsElements(p, Len(shape), shape) /\ Elements(shape) = p[Len(shape)]
  BY <1>1, ElementsDef
<1> DEFINE S == {n \in Nat : n <= Len(shape) => p[n] \in Nat \ {0}}
<1>3. 0 \in S
  BY <1>2 DEF IsElements
<1>4. ASSUME NEW n \in Nat, n \in S PROVE n + 1 \in S
  <2> SUFFICES ASSUME n + 1 <= Len(shape) PROVE p[n + 1] \in Nat \ {0}
    OBVIOUS
  <2>1. p[n + 1] = p[n] * shape[n + 1] /\ shape[n + 1] \in Nat \ {0}
    BY <1>2 DEF IsElements
  <2>2. p[n] \in Nat \ {0}
    BY <1>4
  <2> QED
    BY <2>1, <2>2
<1>5. Nat \subseteq S
  <2> HIDE DEF S
  <2> QED
    BY <1>3, <1>4, SetInduction
<1> QED
  BY <1>2, <1>5

\* A batch of one has the elements of what is in it. (The batch axis.)
LEMMA BatchOfOne ==
  ASSUME NEW shape \in Seq(Nat \ {0})
  PROVE  Elements(<<1>> \o shape) = Elements(shape)
<1> DEFINE full == <<1>> \o shape
           L == Len(shape)
<1>1. shape \in Seq(Int) /\ full \in Seq(Int) /\ Len(full) = L + 1 /\ L \in Nat
  OBVIOUS
<1>2. \A k \in 1 .. L : full[k + 1] = shape[k]
  OBVIOUS
<1>3. full[1] = 1
  OBVIOUS
<1> HIDE DEF full, L
<1>4. PICK p : IsElements(p, L, shape) /\ Elements(shape) = p[L]
  BY <1>1, ElementsDef DEF L
<1>5. PICK q : IsElements(q, L + 1, full) /\ Elements(full) = q[L + 1]
  BY <1>1, ElementsDef
<1> DEFINE S == {n \in Nat : n <= L => p[n] \in Int /\ q[n + 1] = p[n]}
<1>6. 0 \in S
  <2>1. q[0] = 1 /\ q[1] = q[0] * full[1] /\ p[0] = 1
    BY <1>1, <1>4, <1>5 DEF IsElements
  <2> QED
    BY <2>1, <1>3
<1>7. ASSUME NEW n \in Nat, n \in S PROVE n + 1 \in S
  <2> SUFFICES ASSUME n + 1 <= L PROVE p[n + 1] \in Int /\ q[n + 2] = p[n + 1]
    OBVIOUS
  <2>1. p[n + 1] = p[n] * shape[n + 1]
    <3>1. n + 1 \in 0 .. L /\ n + 1 # 0 /\ (n + 1) - 1 = n
      BY <1>1
    <3> QED
      BY <1>4, <3>1 DEF IsElements
  <2>2. q[n + 2] = q[n + 1] * full[n + 2]
    <3>1. n + 2 \in 0 .. L + 1 /\ n + 2 # 0 /\ (n + 2) - 1 = n + 1
      BY <1>1
    <3> QED
      BY <1>5, <3>1 DEF IsElements
  <2>3. full[n + 2] = shape[n + 1]
    <3>1. n + 1 \in 1 .. L /\ (n + 1) + 1 = n + 2
      BY <1>1
    <3> QED
      BY <1>2, <3>1
  <2>4. p[n] \in Int /\ q[n + 1] = p[n] /\ shape[n + 1] \in Int
    BY <1>1, <1>7 DEF L
  <2>5. p[n] * shape[n + 1] \in Int
    BY <2>4
  <2> QED
    BY <2>1, <2>2, <2>3, <2>4, <2>5
<1>8. Nat \subseteq S
  <2> HIDE DEF S
  <2> QED
    BY <1>6, <1>7, SetInduction
<1> QED
  BY <1>1, <1>4, <1>5, <1>8 DEF full

\* A whole shape is a concrete one with its dynamic axis, if any, filled.
LEMMA CompletedAt ==
  ASSUME NEW shape \in Seq(Int), NEW full, Completes(full, shape),
         NEW a, DynamicAxes(shape) = {a}
  PROVE  FilledAt(full, shape, a, full[a]) /\ full[a] \in Nat \ {0}
<1>1. a \in 1 .. Len(shape)
  <2>1. a \in DynamicAxes(shape)
    OBVIOUS
  <2> QED
    BY <2>1 DEF DynamicAxes
<1>2. \A i \in 1 .. Len(shape) : i # a => full[i] = shape[i]
  BY DEF DynamicAxes, Completes
<1> QED
  BY <1>1, <1>2 DEF Completes, FilledAt

\* The bytes of a whole shape are those of one reading of it only, so that the
\* shape is found from them. (concreteInputShape.)
LEMMA CompletionIsFound ==
  ASSUME NEW spec \in TensorSpec, NEW bytes \in ByteCount, spec.width > 0,
         NEW full, Completes(full, spec.shape), Elements(full) * spec.width = bytes,
         validateInputBytes(spec, bytes),
         DynamicAxes(concreteInputShape(spec, bytes)) = {}
  PROVE  concreteInputShape(spec, bytes) = full
<1> DEFINE shape == spec.shape
           w     == spec.width
           found == concreteInputShape(spec, bytes)
           ones  == Elements(Ones(shape))
<1>1. shape \in Seq(Int) /\ w \in Nat \ {0}
  BY DEF TensorSpec
<1>2. found \in Readings(spec, bytes)
  BY WireFitsPayload
<1>3. PICK x \in [DynamicAxes(shape) -> 0 .. MaxExtent] :
        found = Filled(shape, x) /\ Elements(found) * w = bytes
  BY <1>2 DEF Readings
<1>4. Completes(full, shape)
  OBVIOUS
<1>5. Elements(full) \in Nat \ {0} /\ Elements(full) * w = bytes
  BY PositiveElements DEF Completes
<1>6. ones \in Nat
  BY <1>1, ElementsOfOnes
<1>7. Cardinality(DynamicAxes(shape)) # 1 => found = shape
  BY DEF concreteInputShape
<1>8. DynamicAxes(found) = {}
  OBVIOUS
<1> HIDE DEF shape, w, found, ones
<1>9. CASE DynamicAxes(shape) = {}
  <2>1. \A i \in 1 .. Len(shape) : found[i] = shape[i] /\ full[i] = shape[i]
    <3> SUFFICES ASSUME NEW i \in 1 .. Len(shape)
                 PROVE  found[i] = shape[i] /\ full[i] = shape[i]
      OBVIOUS
    <3>1. i \in DOMAIN shape /\ i \notin DOMAIN x
      BY <1>1, <1>9
    <3>2. found[i] = shape[i]
      BY <1>3, <3>1 DEF Filled
    <3>3. ~ (shape[i] < 0)
      BY <1>9, <3>1 DEF DynamicAxes
    <3> QED
      BY <1>4, <3>2, <3>3 DEF Completes
  <2>2. found = [i \in DOMAIN shape |-> found[i]]
    BY <1>3 DEF Filled
  <2>3. full = [i \in 1 .. Len(shape) |-> full[i]] /\ DOMAIN shape = 1 .. Len(shape)
    BY <1>1, <1>4 DEF Completes
  <2>4. found = full
    BY <2>1, <2>2, <2>3
  <2> QED
    BY <2>4 DEF found
<1>10. CASE DynamicAxes(shape) # {}
  <2>1. Cardinality(DynamicAxes(shape)) = 1
    BY <1>7, <1>8, <1>10
  <2>2. PICK a : DynamicAxes(shape) = {a}
    BY <1>1, <2>1, AxisPicked
  <2>3. FilledAt(full, shape, a, full[a]) /\ full[a] \in Nat \ {0}
    BY <1>1, <1>4, <2>2, CompletedAt
  <2>4. x[a] \in Nat
    BY <2>2, TensorBytesAssumption
  <2>5. FilledAt(found, shape, a, x[a])
    <3>1. found = [i \in 1 .. Len(shape) |-> IF i = a THEN x[a] ELSE shape[i]]
      BY <1>1, <1>3, <2>2 DEF Filled
    <3>2. a \in 1 .. Len(shape)
      <4>1. a \in DynamicAxes(shape)
        BY <2>2
      <4> QED
        BY <4>1 DEF DynamicAxes
    <3> QED
      BY <1>1, <2>4, <3>1, <3>2 DEF FilledAt
  <2>6. Elements(full) = full[a] * ones /\ Elements(found) = x[a] * ones
    BY <1>1, <2>2, <2>3, <2>4, <2>5, OneAxisElements DEF ones
  <2>7. full[a] = x[a]
    <3> DEFINE f == full[a]  y == x[a]
    <3>1. f \in Nat \ {0} /\ y \in Nat /\ ones \in Nat /\ w \in Nat \ {0}
      BY <1>1, <1>6, <2>3, <2>4
    <3>2. f * ones \in Nat \ {0} /\ (f * ones) * w = (y * ones) * w
      BY <1>3, <1>5, <2>6
    <3> HIDE DEF f, y
    <3>3. f * ones \in Int /\ y * ones \in Int
      BY <3>1
    <3>4. f * ones = y * ones
      <4> DEFINE u == f * ones  v == y * ones
      <4>1. u \in Int /\ v \in Int /\ u * w = v * w
        BY <3>2, <3>3
      <4> HIDE DEF u, v
      <4>2. u = v
        BY <3>1, <4>1
      <4> QED
        BY <4>2 DEF u, v
    <3>5. ones # 0
      BY <3>1, <3>2
    <3>6. f = y
      BY <3>1, <3>4, <3>5
    <3> QED
      BY <3>6 DEF f, y
  <2>8. \A i \in 1 .. Len(shape) : found[i] = full[i]
    BY <2>3, <2>5, <2>7 DEF FilledAt
  <2>9. found = full
    <3>1. found = [i \in 1 .. Len(shape) |-> found[i]]
      BY <1>1, <1>3 DEF Filled
    <3>2. full = [i \in 1 .. Len(shape) |-> full[i]]
      BY <1>1, <1>4 DEF Completes
    <3> QED
      BY <2>8, <3>1, <3>2
  <2> QED
    BY <2>9 DEF found
<1> QED
  BY <1>9, <1>10

\* The bytes of a whole shape are accepted unless two axes are dynamic.
\* (validateInputBytes, and what concreteInputShape leaves.)
LEMMA CompletionIsAccepted ==
  ASSUME NEW spec \in TensorSpec, NEW bytes \in ByteCount, spec.width > 0,
         NEW full, Completes(full, spec.shape), Elements(full) * spec.width = bytes,
         ~ Cardinality(DynamicAxes(spec.shape)) > 1
  PROVE  /\ validateInputBytes(spec, bytes)
         /\ DynamicAxes(concreteInputShape(spec, bytes)) = {}
<1> DEFINE shape == spec.shape
           w     == spec.width
           ones  == Elements(Ones(shape))
<1>1. shape \in Seq(Int) /\ w \in Nat \ {0}
  BY DEF TensorSpec
<1>2. Elements(full) \in Nat \ {0} /\ Elements(full) * w = bytes
  BY PositiveElements DEF Completes
<1>3. bytes \in Nat \ {0} /\ Elements(full) <= bytes /\ bytes <= MaxExtent /\ MaxExtent \in Nat
  BY <1>1, <1>2, TensorBytesAssumption DEF ByteCount
<1>4. Completes(full, shape)
  OBVIOUS
<1>5. ~ Cardinality(DynamicAxes(shape)) > 1
  OBVIOUS
<1> HIDE DEF shape, w, ones
<1>6. PICK x : x \in [DynamicAxes(shape) -> 0 .. MaxExtent] /\ full = Filled(shape, x)
  <2> DEFINE x == [a \in DynamicAxes(shape) |-> full[a]]
  <2>1. \A a \in DynamicAxes(shape) : full[a] \in 0 .. MaxExtent
    <3> SUFFICES ASSUME NEW a \in DynamicAxes(shape) PROVE full[a] \in 0 .. MaxExtent
      OBVIOUS
    <3>1. Cardinality(DynamicAxes(shape)) = 1
      BY <1>1, <1>5, AxesFinite
    <3>2. DynamicAxes(shape) = {a}
      BY <1>1, <3>1, AxisPicked
    <3>3. FilledAt(full, shape, a, full[a]) /\ full[a] \in Nat \ {0}
      BY <1>1, <1>4, <3>2, CompletedAt
    <3>4. Elements(full) = full[a] * ones /\ ones \in Nat
      BY <1>1, <3>2, <3>3, OneAxisElements, ElementsOfOnes DEF ones
    <3>5. full[a] <= Elements(full)
      <4> DEFINE f == full[a]
      <4>1. f \in Nat \ {0} /\ ones \in Nat /\ f * ones # 0
        BY <1>2, <3>3, <3>4
      <4> HIDE DEF f
      <4>2. ones \in Nat \ {0}
        BY <4>1
      <4>3. f <= f * ones
        BY <4>1, <4>2, ProductGrows
      <4> QED
        BY <3>4, <4>3 DEF f
    <3> QED
      BY <1>2, <1>3, <3>3, <3>5
  <2>2. \A i \in DOMAIN shape : full[i] = IF i \in DOMAIN x THEN x[i] ELSE shape[i]
    BY <1>1, <1>4 DEF Completes, DynamicAxes
  <2>3. DOMAIN full = DOMAIN shape /\ full = [i \in DOMAIN full |-> full[i]]
    BY <1>1, <1>4 DEF Completes
  <2>4. x \in [DynamicAxes(shape) -> 0 .. MaxExtent]
    BY <2>1
  <2> HIDE DEF x
  <2>5. full = Filled(shape, x)
    BY <2>2, <2>3 DEF Filled
  <2> QED
    BY <2>4, <2>5
<1>7. full \in Readings(spec, bytes)
  BY <1>2, <1>6 DEF Readings, shape, w
<1> QED
  BY <1>3, <1>7, ReadingIsAccepted

\* The rank of one picture, or clip, alone.
RankOf(layout) == IF layout = "NTCHW" THEN 4 ELSE 3

\* shape alone is inner.
Alone(inner, shape, layout) ==
  /\ inner \in Seq(Int) /\ Len(inner) = RankOf(layout)
  /\ \A a \in 1 .. RankOf(layout) : inner[a] = shape[a + Len(shape) - RankOf(layout)]

\* built is shape, with a batch before it when shape has none.
Framed(built, shape, layout) ==
  \E b \in Int : built = IF Len(shape) = RankOf(layout) THEN <<b>> \o shape ELSE shape

\* taskInputShape puts a batch before a picture that comes alone; the rest is
\* the picture.
LEMMA TailIsAlone ==
  ASSUME NEW shape \in Seq(Int), NEW layout, ForOnePicture(shape, layout),
         NEW built, Framed(built, shape, layout)
  PROVE  /\ Alone(Tail(built), shape, layout)
         /\ built \in Seq(Int) /\ Len(built) = RankOf(layout) + 1
         /\ \A a \in 1 .. RankOf(layout) : Tail(built)[a] = built[a + 1]
<1> DEFINE r == RankOf(layout)
<1>1. PICK b \in Int : built = IF Len(shape) = r THEN <<b>> \o shape ELSE shape
  BY DEF Framed
<1>2. r \in {3, 4}
  BY DEF RankOf
<1>3. Len(shape) = r \/ Len(shape) = r + 1
  BY DEF ForOnePicture, RankOf
<1> HIDE DEF r
<1>4. built \in Seq(Int) /\ Len(built) = r + 1
  BY <1>1, <1>2, <1>3
<1>5. built # <<>>
  BY <1>2, <1>4
<1>6. Tail(built) \in Seq(Int) /\ Len(Tail(built)) = r
  BY <1>2, <1>4, <1>5, HeadTailProperties
<1>7. \A a \in 1 .. r : Tail(built)[a] = built[a + 1]
  BY <1>2, <1>4, <1>5, <1>6, HeadTailProperties
<1>8. \A a \in 1 .. r : built[a + 1] = shape[a + Len(shape) - r]
  <2> TAKE a \in 1 .. r
  <2>1. CASE Len(shape) = r
    <3>1. built = <<b>> \o shape /\ a + Len(shape) - r = a /\ a \in 1 .. Len(shape)
      BY <1>1, <1>2, <2>1
    <3>2. (<<b>> \o shape)[a + 1] = shape[a]
      BY <1>2, <2>1, <3>1
    <3> QED
      BY <3>1, <3>2
  <2>2. CASE Len(shape) = r + 1
    <3>1. built = shape /\ a + Len(shape) - r = a + 1
      BY <1>1, <1>2, <2>2
    <3> QED
      BY <3>1
  <2> QED
    BY <1>3, <2>1, <2>2
<1> QED
  BY <1>4, <1>6, <1>7, <1>8 DEF Alone, r

\* Sizes that agree are what applyInputSizes and buildModelInfo make of a shape
\* alike, but for the batch.
Agreeing(shape, given, layout) ==
  /\ shape \in Seq(Int) /\ given \in Seq(Int)
  /\ ForOnePicture(shape, layout)
  /\ Len(shape) - Len(given) >= 0
  /\ \A a \in DOMAIN given : shape[Len(shape) - Len(given) + a] \in {-1, given[a]}
  /\ given = <<>> \/ (ForOnePicture(given, layout) /\ DynamicAxes(given) = {})

Replaced(shape, given) == IF given # <<>> THEN given ELSE shape

LEMMA SizedAlike ==
  ASSUME NEW shape, NEW given, NEW layout, Agreeing(shape, given, layout),
         NEW sized, sized = applyInputSizes(shape, given)
  PROVE  /\ sized \in Seq(Int) /\ Len(sized) = Len(shape)
         /\ \A a \in 1 .. RankOf(layout) :
              sized[a + Len(shape) - RankOf(layout)] =
                Replaced(shape, given)[a + Len(Replaced(shape, given)) - RankOf(layout)]
         /\ Len(shape) = RankOf(layout) + 1 => sized[1] \in {-1, 1}
         /\ Len(shape) \in {RankOf(layout), RankOf(layout) + 1}
<1> DEFINE r == RankOf(layout)
           n == Len(shape)
           m == Len(given)
           offset == n - m
<1>1. r \in {3, 4} /\ (n = r \/ (n = r + 1 /\ shape[1] \in {-1, 1}))
  BY DEF RankOf, Agreeing, ForOnePicture
<1>2. shape \in Seq(Int) /\ given \in Seq(Int) /\ n \in Nat /\ m \in Nat /\ offset >= 0
      /\ DOMAIN given = 1 .. m /\ DOMAIN shape = 1 .. n
  BY DEF Agreeing
<1>3. sized = [i \in 1 .. n |-> IF i > offset /\ shape[i] < 0 THEN given[i - offset] ELSE shape[i]]
  BY <1>2 DEF applyInputSizes
<1>4. \A a \in 1 .. m : shape[offset + a] \in {-1, given[a]} /\ given[a] \in Int
  <2>1. \A a \in 1 .. m : given[a] \in Int
    BY <1>2
  <2>2. \A a \in DOMAIN given : shape[offset + a] \in {-1, given[a]}
    BY DEF Agreeing
  <2> QED
    BY <1>2, <2>1, <2>2
<1>5. m = 0 \/ m = r \/ (m = r + 1 /\ given[1] \in {-1, 1})
  <2>1. given = <<>> => m = 0
    OBVIOUS
  <2> QED
    BY <2>1 DEF RankOf, Agreeing, ForOnePicture
<1>6. \A a \in 1 .. m : given[a] >= 0
  <2>1. CASE given = <<>>
    BY <2>1
  <2>2. CASE given # <<>>
    <3>1. DynamicAxes(given) = {}
      BY <2>2 DEF Agreeing
    <3>2. \A a \in DOMAIN given : ~ given[a] < 0
      BY <3>1 DEF DynamicAxes
    <3>3. \A a \in 1 .. m : ~ given[a] < 0 /\ given[a] \in Int
      BY <1>2, <1>4, <3>2
    <3> HIDE DEF m
    <3> QED
      BY <3>3
  <2> QED
    BY <2>1, <2>2
<1>7. m = 0 <=> given = <<>>
  BY <1>2
<1>8. \A i \in 1 .. n : shape[i] \in Int
  BY <1>2
<1> HIDE DEF r, n, m, offset
<1>9. offset = n - m
  BY DEF offset
<1>10. \A i \in 1 .. n : sized[i] = IF i > offset THEN given[i - offset] ELSE shape[i]
  <2> TAKE i \in 1 .. n
  <2>1. CASE i > offset
    <3>1. i - offset \in 1 .. m /\ offset + (i - offset) = i
      BY <1>2, <1>9, <2>1
    <3>2. shape[i] \in {-1, given[i - offset]} /\ given[i - offset] \in Int
      BY <1>4, <3>1
    <3> QED
      BY <1>3, <2>1, <3>1, <3>2
  <2>2. CASE ~ i > offset
    BY <1>3, <2>2
  <2> QED
    BY <2>1, <2>2
<1>11. \A i \in 1 .. n : sized[i] \in Int
  <2> TAKE i \in 1 .. n
  <2>1. CASE i > offset
    BY <1>2, <1>4, <1>9, <1>10, <2>1
  <2>2. CASE ~ i > offset
    BY <1>8, <1>10, <2>2
  <2> QED
    BY <2>1, <2>2
<1>12. sized \in Seq(Int) /\ Len(sized) = n
  <2>1. sized \in [1 .. n -> Int]
    BY <1>3, <1>11
  <2> QED
    BY <1>2, <2>1
<1>13. ASSUME NEW a \in 1 .. r
       PROVE  sized[a + n - r] = Replaced(shape, given)[a + Len(Replaced(shape, given)) - r]
  <2>1. a + n - r \in 1 .. n
    BY <1>1, <1>2
  <2>2. CASE given = <<>>
    <3>1. Replaced(shape, given) = shape /\ Len(shape) = n /\ offset = n
      BY <1>2, <1>7, <1>9, <2>2 DEF Replaced, n
    <3> QED
      BY <1>2, <1>10, <2>1, <3>1
  <2>3. CASE given # <<>>
    <3>1. Replaced(shape, given) = given /\ Len(given) = m
      BY <2>3 DEF Replaced, m
    <3>2. m >= r /\ a + n - r > offset /\ (a + n - r) - offset = a + m - r
      BY <1>1, <1>2, <1>5, <1>7, <1>9, <2>3
    <3> QED
      BY <1>10, <2>1, <3>1, <3>2
  <2> QED
    BY <2>2, <2>3
<1>14. ASSUME n = r + 1 PROVE sized[1] \in {-1, 1}
  <2>1. 1 \in 1 .. n
    BY <1>1, <1>14
  <2>2. CASE offset >= 1
    BY <1>1, <1>2, <1>9, <1>10, <1>14, <2>1, <2>2
  <2>3. CASE offset = 0
    <3>1. m = r + 1 /\ given[1] \in {-1, 1} /\ sized[1] = given[1]
      BY <1>1, <1>2, <1>5, <1>9, <1>10, <1>14, <2>1, <2>3
    <3> QED
      BY <3>1
  <2> QED
    BY <1>2, <1>9, <2>2, <2>3
<1> QED
  BY <1>1, <1>12, <1>13, <1>14 DEF r, n

\* A picture that keeps what the shape fixed completes the shape, alone or in a
\* batch of one. (What is prepared for the built shape, against what the engine
\* makes of the served one.)
LEMMA PictureCompletes ==
  ASSUME NEW shape, NEW given, NEW layout, Agreeing(shape, given, layout),
         NEW sized, sized = applyInputSizes(shape, given),
         NEW inner, Alone(inner, Replaced(shape, given), layout),
         NEW extents \in Seq(Nat \ {0}), Len(extents) = RankOf(layout),
         \A a \in 1 .. RankOf(layout) : inner[a] < 0 \/ extents[a] = inner[a]
  PROVE  \E full \in {extents, <<1>> \o extents} :
           Completes(full, sized) /\ Elements(full) = Elements(extents)
<1> DEFINE r == RankOf(layout)
           n == Len(shape)
           from == Replaced(shape, given)
<1>1. /\ sized \in Seq(Int) /\ Len(sized) = n
      /\ \A a \in 1 .. r : sized[a + n - r] = from[a + Len(from) - r]
      /\ n = r + 1 => sized[1] \in {-1, 1}
      /\ n \in {r, r + 1}
  BY SizedAlike
<1>2. r \in {3, 4}
  BY DEF RankOf
<1>3. \A a \in 1 .. r : inner[a] = from[a + Len(from) - r] /\ inner[a] \in Int
  BY DEF Alone
<1>4. extents \in Seq(Nat \ {0}) /\ Len(extents) = r
      /\ \A a \in 1 .. r : inner[a] < 0 \/ extents[a] = inner[a]
  OBVIOUS
<1> HIDE DEF r, n, from
<1>5. \A a \in 1 .. r : sized[a + n - r] < 0 \/ sized[a + n - r] = extents[a]
  BY <1>1, <1>3, <1>4
<1>6. CASE n = r
  <2>1. \A a \in 1 .. r : a + n - r = a
    BY <1>2, <1>6
  <2>2. Completes(extents, sized)
    BY <1>1, <1>4, <1>5, <1>6, <2>1 DEF Completes
  <2> QED
    BY <2>2
<1>7. CASE n = r + 1
  <2> DEFINE full == <<1>> \o extents
  <2>1. full \in Seq(Nat \ {0}) /\ Len(full) = n /\ full[1] = 1
    BY <1>2, <1>4, <1>7
  <2>2. \A a \in 1 .. r : full[a + 1] = extents[a]
    BY <1>2, <1>4
  <2>3. Elements(full) = Elements(extents)
    BY BatchOfOne
  <2>4. full \in {extents, <<1>> \o extents}
    OBVIOUS
  <2> HIDE DEF full
  <2>5. \A a \in 1 .. n : sized[a] < 0 \/ sized[a] = full[a]
    <3> TAKE a \in 1 .. n
    <3>1. CASE a = 1
      BY <1>1, <1>7, <2>1, <3>1
    <3>2. CASE a # 1
      <4>1. a - 1 \in 1 .. r /\ (a - 1) + n - r = a /\ (a - 1) + 1 = a
        BY <1>2, <1>7, <3>2
      <4> QED
        BY <1>5, <2>2, <4>1
    <3> QED
      BY <3>1, <3>2
  <2>6. Completes(full, sized)
    BY <1>1, <2>1, <2>5 DEF Completes
  <2> QED
    BY <2>3, <2>4, <2>6
<1> QED
  BY <1>1, <1>6, <1>7

\* built ends in inner, which leaves one axis open at most.
EndsIn(built, inner) ==
  /\ built \in Seq(Int) /\ Len(built) = 4
  /\ \A a \in 1 .. 3 : inner[a] = built[a + 1]
  /\ \A a, b \in 1 .. 3 : inner[a] < 0 /\ inner[b] < 0 => a = b

\* With one dynamic axis at most, which extent counts channels shows the
\* layout. (setInputFormat.)
LEMMA FormatIsTheLayout ==
  ASSUME NEW shape \in Seq(Int), NEW layout \in {"NCHW", "NHWC"},
         ForOnePicture(shape, layout),
         NEW inner, Alone(inner, shape, layout),
         NEW built, EndsIn(built, inner)
  PROVE  setInputFormat(built) = layout
<1> DEFINE n == Len(shape)
           c == IF layout = "NHWC" THEN 3 ELSE 1
<1>1. RankOf(layout) = 3 /\ n \in {3, 4}
  BY DEF RankOf, ForOnePicture
<1>2. \A a \in 1 .. 3 : inner[a] = shape[a + n - 3] /\ inner[a] \in Int
  <2>1. inner \in Seq(Int) /\ Len(inner) = 3
    BY <1>1 DEF Alone
  <2>2. \A a \in 1 .. 3 : inner[a] = shape[a + Len(shape) - 3]
    BY <1>1 DEF Alone
  <2>3. \A a \in 1 .. 3 : inner[a] \in Int
    <3> HIDE DEF n, c
    <3> TAKE a \in 1 .. 3
    <3>1. a \in 1 .. Len(inner)
      BY <2>1
    <3> QED
      BY <2>1, <3>1, ElementOfSeq
  <2> QED
    BY <2>2, <2>3
<1>3. \A a \in 1 .. 3 : inner[a] # -1 => IF a = c THEN inner[a] \in {1, 3} ELSE inner[a] > 3
  <2> TAKE a \in 1 .. 3
  <2>1. a + n - 3 \in n - 2 .. n
    BY <1>1
  <2>2. a = c <=> a + n - 3 = n - (IF layout = "NHWC" THEN 0 ELSE 2)
    BY <1>1
  <2>3. shape[a + n - 3] # -1 =>
          IF a + n - 3 = n - (IF layout = "NHWC" THEN 0 ELSE 2)
          THEN shape[a + n - 3] \in {1, 3} ELSE shape[a + n - 3] > 3
    BY <2>1 DEF ForOnePicture, Channels
  <2> HIDE DEF n, c
  <2> QED
    BY <1>2, <2>2, <2>3
<1> DEFINE x == built[2]  y == built[3]  z == built[4]
<1>5. inner[1] = x /\ inner[2] = y /\ inner[3] = z /\ x \in Int /\ y \in Int /\ z \in Int
  <2>1. inner[1] = built[1 + 1] /\ inner[2] = built[2 + 1] /\ inner[3] = built[3 + 1]
    BY DEF EndsIn
  <2>2. 1 + 1 = 2 /\ 2 + 1 = 3 /\ 3 + 1 = 4
    OBVIOUS
  <2>3. inner[1] \in Int /\ inner[2] \in Int /\ inner[3] \in Int
    BY <1>2
  <2> QED
    BY <2>1, <2>2, <2>3
<1>6. /\ x # -1 => IF c = 1 THEN x \in {1, 3} ELSE x > 3
      /\ y # -1 => y > 3
      /\ z # -1 => IF c = 3 THEN z \in {1, 3} ELSE z > 3
      /\ ~ (x = -1 /\ y = -1) /\ ~ (x = -1 /\ z = -1) /\ ~ (y = -1 /\ z = -1)
  <2>1. c # 2
    OBVIOUS
  <2>2. inner[1] # -1 => IF c = 1 THEN inner[1] \in {1, 3} ELSE inner[1] > 3
    BY <1>3
  <2>3. inner[2] # -1 => inner[2] > 3
    BY <1>3, <2>1
  <2>4. inner[3] # -1 => IF c = 3 THEN inner[3] \in {1, 3} ELSE inner[3] > 3
    BY <1>3
  <2>5. /\ ~ (inner[1] = -1 /\ inner[2] = -1) /\ ~ (inner[1] = -1 /\ inner[3] = -1)
        /\ ~ (inner[2] = -1 /\ inner[3] = -1)
    BY DEF EndsIn
  <2> HIDE DEF x, y, z, c
  <2> QED
    BY <1>5, <2>2, <2>3, <2>4, <2>5
<1>7. setInputFormat(built) =
        IF \/ z \in {1, 3} /\ ~ (x \in {1, 3})
           \/ /\ (x \in {1, 3}) <=> (z \in {1, 3})
              /\ ~ (y > 3 /\ z > 3)
              /\ x > 3 /\ y > 3
        THEN "NHWC" ELSE "NCHW"
  BY DEF EndsIn, setInputFormat, Channels
<1>8. c = IF layout = "NHWC" THEN 3 ELSE 1
  OBVIOUS
<1> HIDE DEF x, y, z, c
<1>9. CASE layout = "NHWC"
  BY <1>5, <1>6, <1>7, <1>8, <1>9
<1>10. CASE layout = "NCHW"
  BY <1>5, <1>6, <1>7, <1>8, <1>10
<1> QED
  BY <1>9, <1>10

\* What setup has read of the model, and what it refuses.
Introduced ==
  /\ served \in PictureModels /\ givenSizes \in PictureSizes
  /\ phase # "setup" =>
       /\ DOMAIN metadata = DOMAIN served.inputs
       /\ \A i \in DOMAIN metadata : /\ metadata[i].shape = served.inputs[i].shape
                                     /\ metadata[i].batch \in Int
  /\ phase = "refused" =>
       \E i \in DOMAIN served.inputs :
         /\ isImageInputShape(builtShape(i))
         /\ served.inputs[i].datatype \notin {"FP32", "UINT8"}

\* What the task has been built with.
Built ==
  phase \in {"preprocess", "infer", "sent", "rejected"} =>
    /\ info.shapes = [i \in DOMAIN served.inputs |-> builtShape(i)]
    /\ info.format = setInputFormat(info.shapes[1])
    /\ \A i \in DOMAIN served.inputs :
         /\ info.datatypes[i] = served.inputs[i].datatype
         /\ isImageInputShape(info.shapes[i]) =>
              info.types[i] = served.inputs[i].datatype

\* What the task has prepared.
Prepared ==
  phase \in {"infer", "sent", "rejected"} =>
    /\ DOMAIN tensors = DOMAIN served.inputs
    /\ \A i \in DOMAIN served.inputs : /\ tensors[i] \in Tensor(i)
                                       /\ Bytes(tensors[i]) \in ByteCount

\* What the engine has made of it.
WireLabelled ==
  /\ phase = "sent" => /\ \A i \in DOMAIN tensors : Sendable(i)
                       /\ sentInputs = [i \in DOMAIN tensors |-> Labelled(i)]
  /\ phase = "rejected" => \E i \in DOMAIN tensors : ~ Sendable(i)

PathInv == Introduced /\ Built /\ Prepared /\ WireLabelled

\* Nothing has been read or built before setup.
LEMMA PathStart == PathInit => PathInv
  BY DEF PathInit, PathInv, Introduced, Built, Prepared, WireLabelled

\* Inputs are numbered from one.
LEMMA InputsNumbered ==
  ASSUME Introduced
  PROVE  /\ served.inputs \in Seq([shape : Seq(Int), datatype : DOMAIN Width])
         /\ DOMAIN served.inputs = 1 .. Len(served.inputs)
         /\ Len(served.inputs) \in {1, 2}
<1>1. PictureModel(served)
  BY ModelInputAssumption DEF Introduced
<1>2. served.inputs \in Seq([shape : Seq(Int), datatype : DOMAIN Width])
  BY <1>1 DEF PictureModel
<1>3. Len(served.inputs) \in {1, 2}
  BY <1>1 DEF PictureModel
<1> QED
  BY <1>2, <1>3

\* An input has a shape.
LEMMA InputShape ==
  ASSUME Introduced, NEW i \in DOMAIN served.inputs
  PROVE  /\ served.inputs[i].shape \in Seq(Int)
         /\ served.inputs[i].datatype \in DOMAIN Width
<1> DEFINE inputs == served.inputs
           Spec1 == [shape : Seq(Int), datatype : DOMAIN Width]
<1>1. inputs \in Seq(Spec1) /\ i \in 1 .. Len(inputs)
  BY InputsNumbered
<1> HIDE DEF inputs, Spec1
<1>2. inputs[i] \in Spec1
  BY <1>1, ElementOfSeq
<1> QED
  BY <1>2 DEF inputs, Spec1

\* What depends on the state does not change while the state does not.
LEMMA PathSteady ==
  ASSUME UNCHANGED <<served, givenSizes, metadata>>
  PROVE  /\ \A i : builtShape(i)' = builtShape(i)
         /\ UNCHANGED <<info, tensors>> =>
              /\ \A i : Tensor(i)' = Tensor(i)
              /\ \A i : Sendable(i)' = Sendable(i)
              /\ \A i : Labelled(i)' = Labelled(i)
<1>1. \A i : builtShape(i)' = builtShape(i)
  BY DEF builtShape, SizesOf, taskInputShape, VideoClassification
<1>2. ASSUME UNCHANGED <<info, tensors>>
      PROVE  /\ \A i : Tensor(i)' = Tensor(i)
             /\ \A i : Sendable(i)' = Sendable(i)
             /\ \A i : Labelled(i)' = Labelled(i)
  <2>1. \A i : Tensor(i)' = Tensor(i)
    BY <1>2 DEF Tensor
  <2>2. \A i : Advertised(i)' = Advertised(i)
    BY DEF Advertised, SizesOf
  <2>3. \A i : Labelled(i)' = Labelled(i)
    BY <1>2, <2>2 DEF Labelled
  <2>4. \A i : Sendable(i)' = Sendable(i)
    BY <1>2, <2>2, <2>3 DEF Sendable
  <2> QED
    BY <2>1, <2>3, <2>4
<1> QED
  BY <1>1, <1>2

\* Each of the four steps adds its part and keeps the earlier ones.
LEMMA PathKept ==
  ASSUME PathInv, [PathNext]_pathVars
  PROVE  PathInv'
<1> USE DEF PathInv, PhaseStep
<1>0. /\ DOMAIN served.inputs = 1 .. Len(served.inputs)
      /\ Len(served.inputs) \in {1, 2}
  BY InputsNumbered
<1>1. CASE SetupTask
  <2>1. /\ phase = "setup" /\ phase' = "build"
        /\ UNCHANGED <<served, givenSizes, encoded, info, tensors, sentInputs>>
    BY <1>1 DEF SetupTask
  <2>2. metadata' = [i \in DOMAIN served.inputs |->
          [shape |-> served.inputs[i].shape,
           batch |-> IF encoded THEN 1 ELSE batchSize(served.inputs[i].shape),
           datatype |-> IF encoded THEN "FP32"
                        ELSE toTensorDataType(served.inputs[i].datatype)]]
    BY <1>1 DEF SetupTask
  <2>3. \A i \in DOMAIN served.inputs : batchSize(served.inputs[i].shape) \in Int
    <3> TAKE i \in DOMAIN served.inputs
    <3>1. served.inputs[i].shape \in Seq(Int)
      BY InputShape
    <3> DEFINE shape == served.inputs[i].shape
    <3>2. shape # <<>> => shape[1] \in Int
      BY <3>1
    <3> HIDE DEF shape
    <3>3. batchSize(shape) \in Int
      BY <3>2 DEF batchSize
    <3> QED
      BY <3>3 DEF shape
  <2>4. Introduced'
    BY <2>1, <2>2, <2>3 DEF Introduced
  <2> QED
    BY <2>1, <2>4 DEF Built, Prepared, WireLabelled
<1>2. CASE BuildModelInfo
  <2> DEFINE shapes == [i \in DOMAIN metadata |-> builtShape(i)]
             tags == inputDatatypes
  <2>1. /\ phase = "build" /\ phase' \in {"encoded", "preprocess", "refused"}
        /\ UNCHANGED <<served, givenSizes, encoded, metadata, tensors, sentInputs>>
    BY <1>2 DEF BuildModelInfo
  <2>2. DOMAIN metadata = DOMAIN served.inputs
    BY <2>1 DEF Introduced
  <2>3. \A i : builtShape(i)' = builtShape(i)
    BY <2>1, PathSteady
  <2>4. ~ encoded => \A i \in DOMAIN metadata : tags[i] = served.inputs[i].datatype
    BY <2>2 DEF inputDatatypes
  <2>5. CASE phase' = "encoded"
    BY <2>1, <2>5 DEF Introduced, Built, Prepared, WireLabelled
  <2>6. CASE phase' = "refused"
    <3>1. ~ encoded /\ Unpreparable(shapes, tags) # {}
      BY <1>2, <2>6 DEF BuildModelInfo
    <3>2. PICK i \in DOMAIN shapes : /\ isImageInputShape(shapes[i])
                                     /\ tags[i] \notin {"FP32", "UINT8"}
      BY <3>1 DEF Unpreparable
    <3>3. /\ i \in DOMAIN served.inputs /\ shapes[i] = builtShape(i)
          /\ tags[i] = served.inputs[i].datatype
      BY <2>2, <2>4, <3>1, <3>2
    <3> HIDE DEF shapes, tags
    <3>4. \E j \in DOMAIN served'.inputs :
            /\ isImageInputShape(builtShape(j)')
            /\ served'.inputs[j].datatype \notin {"FP32", "UINT8"}
      BY <2>1, <2>3, <3>2, <3>3
    <3>5. Introduced'
      BY <2>1, <3>4 DEF Introduced
    <3>6. Prepared' /\ WireLabelled'
      BY <2>6 DEF Prepared, WireLabelled
    <3>7. Built'
      BY <2>1, <2>6, <3>5 DEF Built
    <3> QED
      BY <3>5, <3>6, <3>7
  <2>7. CASE phase' = "preprocess"
    <3>1. /\ ~ encoded
          /\ info'.shapes = shapes /\ info'.format = setInputFormat(shapes[1])
          /\ info'.datatypes = tags
          /\ \A i \in DOMAIN shapes :
               isImageInputShape(shapes[i]) => info'.types[i] = tags[i]
      <4> DEFINE built == [shapes |-> shapes, format |-> setInputFormat(shapes[1]),
                           types |-> [i \in DOMAIN shapes |-> "FP32"], datatypes |-> <<>>]
      <4>1. ~ encoded
        BY <1>2, <2>7 DEF BuildModelInfo
      <4>2. info' = [built EXCEPT
                       !.datatypes = tags,
                       !.types = [i \in DOMAIN shapes |->
                         IF isImageInputShape(shapes[i]) THEN tags[i] ELSE built.types[i]]]
        BY <1>2, <2>7 DEF BuildModelInfo
      <4> HIDE DEF shapes, tags
      <4> QED
        BY <4>1, <4>2
    <3>2. shapes = [i \in DOMAIN served'.inputs |-> builtShape(i)']
      <4>1. DOMAIN served'.inputs = DOMAIN metadata
        <5>1. served' = served
          BY <2>1
        <5> QED
          BY <2>2, <5>1
      <4> QED
        BY <2>3, <4>1, Zenon
    <3>3. DOMAIN shapes = DOMAIN served.inputs
      BY <2>2
    <3> HIDE DEF shapes, tags
    <3>4. Built'
      BY <2>1, <2>2, <2>4, <3>1, <3>2, <3>3 DEF Built
    <3>5. Introduced'
      BY <2>1, <2>7 DEF Introduced
    <3> QED
      BY <2>1, <2>7, <3>4, <3>5 DEF Prepared, WireLabelled
  <2> QED
    BY <2>1, <2>5, <2>6, <2>7
<1>3. CASE Preprocess
  <2>1. /\ phase = "preprocess" /\ phase' = "infer"
        /\ UNCHANGED <<served, givenSizes, encoded, metadata, info, sentInputs>>
        /\ \A i \in DOMAIN tensors' : Bytes(tensors'[i]) \in ByteCount
    BY <1>3 DEF Preprocess, ByteCount, ByteCount
  <2>2. info.shapes = [i \in DOMAIN served.inputs |-> builtShape(i)]
    BY <2>1 DEF Built
  <2>3. Len(info.shapes) = Len(served.inputs)
    BY <1>0, <2>2
  <2>4. /\ DOMAIN tensors' = DOMAIN served.inputs
        /\ \A i \in DOMAIN served.inputs : tensors'[i] \in Tensor(i)
    <3>1. CASE Len(info.shapes) = 1 /\ tensors' \in {<<t>> : t \in Tensor(1)}
      <4>1. PICK t \in Tensor(1) : tensors' = <<t>>
        BY <3>1
      <4>2. DOMAIN tensors' = 1 .. 1 /\ tensors'[1] = t /\ DOMAIN served.inputs = 1 .. 1
        BY <1>0, <2>3, <3>1, <4>1
      <4> QED
        BY <4>1, <4>2
    <3>2. CASE /\ Len(info.shapes) = 2
               /\ tensors' \in {<<t, u>> : t \in Tensor(1), u \in Tensor(2)}
      <4>1. PICK t \in Tensor(1), u \in Tensor(2) : tensors' = <<t, u>>
        BY <3>2
      <4>2. DOMAIN tensors' = 1 .. 2 /\ tensors'[1] = t /\ tensors'[2] = u
            /\ DOMAIN served.inputs = 1 .. 2
        BY <1>0, <2>3, <3>2, <4>1
      <4> QED
        BY <4>1, <4>2
    <3> QED
      BY <1>3, <3>1, <3>2 DEF Preprocess
  <2>5. \A i : Tensor(i)' = Tensor(i)
    BY <2>1 DEF Tensor
  <2>6. Prepared'
    BY <2>1, <2>4, <2>5 DEF Prepared
  <2>7. \A i : builtShape(i)' = builtShape(i)
    BY <2>1, PathSteady
  <2>8. Introduced' /\ Built'
    BY <2>1, <2>7 DEF Introduced, Built
  <2> QED
    BY <2>1, <2>6, <2>8 DEF WireLabelled
<1>4. CASE SendPictures
  <2>1. /\ phase = "infer" /\ phase' \in {"sent", "rejected"}
        /\ UNCHANGED <<served, givenSizes, encoded, metadata, info, tensors>>
    BY <1>4 DEF SendPictures
  <2>2. /\ \A i : builtShape(i)' = builtShape(i)
        /\ \A i : Tensor(i)' = Tensor(i)
        /\ \A i : Sendable(i)' = Sendable(i)
        /\ \A i : Labelled(i)' = Labelled(i)
    BY <2>1, PathSteady
  <2>3. Introduced' /\ Built'
    BY <2>1, <2>2 DEF Introduced, Built
  <2>4. Prepared'
    BY <2>1, <2>2 DEF Prepared
  <2>5. WireLabelled'
    BY <1>4, <2>1, <2>2 DEF SendPictures, WireLabelled
  <2> QED
    BY <2>3, <2>4, <2>5
<1>5. CASE UNCHANGED pathVars
  <2>1. UNCHANGED <<served, givenSizes, encoded, phase, metadata, info, tensors, sentInputs>>
    BY <1>5 DEF pathVars
  <2>2. /\ \A i : builtShape(i)' = builtShape(i)
        /\ \A i : Tensor(i)' = Tensor(i)
        /\ \A i : Sendable(i)' = Sendable(i)
        /\ \A i : Labelled(i)' = Labelled(i)
    BY <2>1, PathSteady
  <2> QED
    BY <2>1, <2>2 DEF Introduced, Built, Prepared, WireLabelled
<1> QED
  BY <1>1, <1>2, <1>3, <1>4, <1>5 DEF PathNext

\* What the sizes agree with, one input at a time: for a picture, that what is
\* built is it with an axis for the batch; without one, that what is built is no
\* picture either and the sizes leave the shape alone. (buildModelInfo.)
LEMMA BuiltAlike ==
  ASSUME Introduced, phase # "setup", SizesAgree,
         NEW i \in DOMAIN served.inputs
  PROVE  LET shape == served.inputs[i].shape
             given == SizesOf(i)
             built == builtShape(i)
         IN  IF Len(shape) >= 3
             THEN /\ Agreeing(shape, given, served.layout)
                  /\ Len(built) >= 3
                  /\ ForOnePicture(Replaced(shape, given), served.layout)
                  /\ Replaced(shape, given) \in Seq(Int)
                  /\ metadata[i].batch \in Int
                  /\ built = IF Len(Replaced(shape, given)) = RankOf(served.layout)
                             THEN <<metadata[i].batch>> \o Replaced(shape, given)
                             ELSE Replaced(shape, given)
             ELSE /\ ~ Len(built) >= 3
                  /\ applyInputSizes(shape, given) = shape
                  /\ \A a \in DOMAIN shape : shape[a] > 0 \/ shape[a] = -1
<1> DEFINE shape == served.inputs[i].shape
           given == SizesOf(i)
           built == builtShape(i)
           from  == Replaced(shape, given)
           b     == metadata[i].batch
<1>1. shape \in Seq(Int)
  BY InputShape
<1>2. given \in Seq(Int)
  <2>1. givenSizes \in Seq(Seq(Int))
    BY ModelInputAssumption DEF Introduced
  <2>2. i \in DOMAIN givenSizes => givenSizes[i] \in Seq(Int)
    BY <2>1
  <2> QED
    BY <2>2 DEF SizesOf
<1>3. from \in Seq(Int) /\ (from = shape \/ from = given)
  BY <1>1, <1>2 DEF Replaced
<1>4. metadata[i].shape = shape /\ b \in Int
  BY DEF Introduced
<1>5. built = IF Len(from) = 3 \/ (served.layout = "NTCHW" /\ Len(from) = 4)
              THEN <<b>> \o from ELSE from
  BY <1>4 DEF builtShape, taskInputShape, VideoClassification, Replaced
<1>6. PictureModel(served)
  BY ModelInputAssumption DEF Introduced
<1>7. IF Len(shape) >= 3 THEN ForOnePicture(shape, served.layout)
      ELSE \A a \in DOMAIN shape : shape[a] > 0 \/ (a = 1 /\ shape[a] = -1)
  BY <1>6 DEF PictureModel, isImageInputShape
<1>8. /\ Len(shape) - Len(given) >= 0
      /\ \A a \in DOMAIN given : shape[Len(shape) - Len(given) + a] \in {-1, given[a]}
      /\ given = <<>> \/ IF Len(shape) >= 3
                         THEN /\ ForOnePicture(given, served.layout)
                              /\ DynamicAxes(given) = {}
                         ELSE Len(shape) - Len(given) > 0
  BY DEF SizesAgree, isImageInputShape
<1> HIDE DEF shape, given, built, from, b
<1>9. CASE Len(shape) >= 3
  <2>1. Agreeing(shape, given, served.layout)
    BY <1>1, <1>2, <1>7, <1>8, <1>9 DEF Agreeing
  <2>2. ForOnePicture(from, served.layout)
    BY <1>7, <1>8, <1>9 DEF from, Replaced
  <2>3. Len(from) = RankOf(served.layout) \/ Len(from) = RankOf(served.layout) + 1
    BY <2>2 DEF ForOnePicture, RankOf
  <2>4. built = IF Len(from) = RankOf(served.layout) THEN <<b>> \o from ELSE from
    <3>1. CASE served.layout = "NTCHW"
      <4>1. RankOf(served.layout) = 4
        BY <3>1 DEF RankOf
      <4>2. Len(from) = 4 \/ Len(from) = 5
        BY <2>3, <4>1
      <4>3. CASE Len(from) = 4
        BY <1>5, <3>1, <4>1, <4>3
      <4>4. CASE Len(from) = 5
        <5>1. Len(from) # 3 /\ Len(from) # 4
          BY <4>4
        <5> QED
          BY <1>5, <4>1, <5>1
      <4> QED
        BY <4>2, <4>3, <4>4
    <3>2. CASE served.layout # "NTCHW"
      <4>1. RankOf(served.layout) = 3
        BY <3>2 DEF RankOf
      <4> QED
        BY <1>5, <3>2, <4>1
    <3> QED
      BY <3>1, <3>2
  <2>5. Len(built) >= 3
    <3>1. Len(<<b>> \o from) = 1 + Len(from) /\ Len(from) \in Nat
      BY <1>3, <1>4
    <3>2. RankOf(served.layout) \in {3, 4}
      BY DEF RankOf
    <3>3. Len(from) >= 3
      BY <2>3, <3>2
    <3>4. Len(<<b>> \o from) >= 3
      BY <3>1, <3>3
    <3> QED
      BY <2>4, <3>3, <3>4
  <2> QED
    BY <1>3, <1>4, <1>9, <2>1, <2>2, <2>4, <2>5 DEF shape, given, built, from, b
<1>10. CASE ~ Len(shape) >= 3
  <2>1. Len(shape) \in Nat /\ Len(given) \in Nat
    BY <1>1, <1>2
  <2>2. Len(from) \in Nat /\ ~ Len(from) >= 3
    BY <1>3, <1>8, <1>10, <2>1
  <2>3. ~ Len(built) >= 3
    <3>1. Len(from) # 3 /\ Len(from) # 4
      <4>1. \A n \in Nat : ~ n >= 3 => n # 3 /\ n # 4
        OBVIOUS
      <4> QED
        BY <2>2, <4>1
    <3>2. built = from
      BY <1>5, <3>1
    <3> QED
      BY <2>2, <3>2
  <2>4. \A a \in DOMAIN shape : shape[a] > 0 \/ (a = 1 /\ shape[a] = -1)
    BY <1>7, <1>10
  <2>5. applyInputSizes(shape, given)
          = [a \in DOMAIN shape |->
               IF a > Len(shape) - Len(given) /\ shape[a] < 0
               THEN given[a - (Len(shape) - Len(given))] ELSE shape[a]]
    BY <1>8, <2>1 DEF applyInputSizes
  <2>6. \A a \in DOMAIN shape : ~ (a > Len(shape) - Len(given) /\ shape[a] < 0)
    <3> SUFFICES ASSUME NEW a \in DOMAIN shape, a > Len(shape) - Len(given), shape[a] < 0
                 PROVE  FALSE
      OBVIOUS
    <3>1. a \in 1 .. Len(shape) /\ shape[a] \in Int
      BY <1>1
    <3>2. a = 1
      BY <2>4, <3>1
    <3>3. Len(given) = 0 \/ Len(shape) - Len(given) > 0
      BY <1>8, <1>10
    <3> QED
      BY <2>1, <3>1, <3>2, <3>3
  <2>7. shape = [a \in DOMAIN shape |-> shape[a]]
    BY <1>1
  <2>8. applyInputSizes(shape, given) = shape
    BY <2>5, <2>6, <2>7
  <2> QED
    BY <1>10, <2>1, <2>3, <2>4, <2>8 DEF shape, given, built
<1> QED
  BY <1>9, <1>10

\* Every tensor completes the shape it is sent for, and its bytes are counted in
\* the type of that input. (What is prepared, against what is advertised.)
LEMMA TensorCompletes ==
  ASSUME PathInv, phase \in {"infer", "sent", "rejected"},
         SizesAgree, NEW i \in DOMAIN served.inputs
  PROVE  /\ Advertised(i) \in TensorSpec /\ Advertised(i).width > 0
         /\ Bytes(tensors[i]) \in ByteCount
         /\ \E full \in {tensors[i].extents, <<1>> \o tensors[i].extents} :
              /\ Completes(full, Advertised(i).shape)
              /\ Elements(full) * Advertised(i).width = Bytes(tensors[i])
<1> DEFINE shape   == served.inputs[i].shape
           given   == SizesOf(i)
           layout  == served.layout
           sized   == applyInputSizes(shape, given)
           built   == builtShape(i)
           extents == tensors[i].extents
           w       == Width[served.inputs[i].datatype]
<1>1. Introduced /\ Built /\ Prepared
  BY DEF PathInv
<1>2. shape \in Seq(Int) /\ w \in Nat \ {0}
  BY <1>1, InputShape DEF Width
<1>3. Advertised(i) = [shape |-> sized, width |-> w]
  BY DEF Advertised
<1>4. tensors[i] \in Tensor(i) /\ Bytes(tensors[i]) \in ByteCount
  BY <1>1 DEF Prepared
<1>5. info.shapes[i] = built
  BY <1>1 DEF Built
<1>6. tensors[i].datatype = served.inputs[i].datatype
  BY <1>1, <1>4 DEF Built, Tensor
<1>7. Bytes(tensors[i]) = Elements(extents) * w
  BY <1>6 DEF Bytes
<1>8. /\ sized \in Seq(Int)
      /\ \E full \in {extents, <<1>> \o extents} :
           Completes(full, sized) /\ Elements(full) = Elements(extents)
  <2>1. CASE Len(shape) >= 3
    <3> DEFINE from == Replaced(shape, given)
               inner == Tail(built)
    <3>1. /\ Agreeing(shape, given, layout) /\ Len(built) >= 3
          /\ ForOnePicture(from, layout) /\ from \in Seq(Int)
          /\ metadata[i].batch \in Int
          /\ built = IF Len(from) = RankOf(layout) THEN <<metadata[i].batch>> \o from ELSE from
      BY <1>1, <2>1, BuiltAlike
    <3>2. extents \in Chosen(inner)
      BY <1>4, <1>5, <3>1 DEF Tensor, isImageInputShape
    <3> HIDE DEF shape, given, layout, sized, built, extents, w, from
    <3>3. Alone(inner, from, layout)
      <4>1. Framed(built, from, layout)
        BY <3>1 DEF Framed
      <4> QED
        BY <3>1, <4>1, TailIsAlone
    <3> HIDE DEF inner
    <3>4. inner \in Seq(Int) /\ Len(inner) = RankOf(layout) /\ RankOf(layout) \in Nat
      BY <3>3 DEF Alone, RankOf
    <3>5. PICK e \in [DynamicAxes(inner) -> TaskExtents] : extents = Filled(inner, e)
      BY <3>2 DEF Chosen
    <3>6. \A a \in 1 .. RankOf(layout) : inner[a] = -1 \/ inner[a] > 0
      <4> TAKE a \in 1 .. RankOf(layout)
      <4>1. inner[a] = from[a + Len(from) - RankOf(layout)]
        BY <3>3 DEF Alone
      <4>2. Len(from) \in {RankOf(layout), RankOf(layout) + 1}
        BY <3>1 DEF ForOnePicture, RankOf
      <4>3. a + Len(from) - RankOf(layout) \in DOMAIN from
        BY <3>1, <3>4, <4>2
      <4> QED
        BY <3>1, <4>1, <4>3 DEF ForOnePicture
    <3>7. \A a \in 1 .. RankOf(layout) :
            IF inner[a] < 0 THEN extents[a] \in Nat \ {0}
            ELSE extents[a] = inner[a] /\ inner[a] \in Nat \ {0}
      <4>1. TaskExtents \subseteq Nat \ {0}
        BY ModelInputAssumption
      <4>2. \A a \in 1 .. RankOf(layout) :
              a \in DynamicAxes(inner) <=> inner[a] < 0
        BY <3>4 DEF DynamicAxes
      <4>3. DOMAIN inner = 1 .. RankOf(layout) /\ DOMAIN e = DynamicAxes(inner)
        BY <3>4, <3>5
      <4>4. \A a \in 1 .. RankOf(layout) :
              extents[a] = IF inner[a] < 0 THEN e[a] ELSE inner[a]
        BY <3>5, <4>2, <4>3 DEF Filled
      <4>5. \A a \in DynamicAxes(inner) : e[a] \in Nat \ {0}
        BY <3>5, <4>1
      <4>6. \A a \in 1 .. RankOf(layout) : inner[a] \in Int
        BY <3>4
      <4> QED
        BY <3>6, <4>2, <4>4, <4>5, <4>6
    <3>8. extents \in Seq(Nat \ {0}) /\ Len(extents) = RankOf(layout)
      <4>1. extents \in [1 .. RankOf(layout) -> Nat \ {0}]
        BY <3>4, <3>5, <3>7 DEF Filled
      <4> QED
        BY <3>4, <4>1
    <3>9. \A a \in 1 .. RankOf(layout) : inner[a] < 0 \/ extents[a] = inner[a]
      BY <3>7
    <3>10. sized = applyInputSizes(shape, given)
      BY DEF sized
    <3>11. Alone(inner, Replaced(shape, given), layout)
      BY <3>3 DEF from
    <3>12. sized \in Seq(Int)
      BY <3>1, <3>10, SizedAlike
    <3>13. \E full \in {extents, <<1>> \o extents} :
             Completes(full, sized) /\ Elements(full) = Elements(extents)
      <4>1. Agreeing(shape, given, layout)
        BY <3>1
      <4> QED
        BY <3>8, <3>9, <3>10, <3>11, <4>1, PictureCompletes
    <3> QED
      BY <3>12, <3>13
  <2>2. CASE ~ Len(shape) >= 3
    <3>1. /\ ~ Len(built) >= 3 /\ sized = shape
          /\ \A a \in DOMAIN shape : shape[a] > 0 \/ shape[a] = -1
      BY <1>1, <2>2, BuiltAlike
    <3>3. extents = [a \in DOMAIN shape |-> IF shape[a] < 0 THEN 1 ELSE shape[a]]
      BY <1>4, <1>5, <3>1 DEF Tensor, isImageInputShape
    <3> HIDE DEF shape, given, layout, sized, built, extents, w
    <3>4. DOMAIN shape = 1 .. Len(shape) /\ Len(shape) \in Nat
      BY <1>2
    <3>5. extents \in [1 .. Len(shape) -> Nat \ {0}]
      BY <1>2, <3>1, <3>3, <3>4
    <3>6. extents \in Seq(Nat \ {0}) /\ Len(extents) = Len(shape)
      BY <3>4, <3>5
    <3>7. \A a \in 1 .. Len(shape) : shape[a] < 0 \/ shape[a] = extents[a]
      BY <3>3, <3>4
    <3>8. Completes(extents, sized)
      BY <3>1, <3>6, <3>7 DEF Completes
    <3> QED
      BY <1>2, <3>1, <3>8
  <2> QED
    BY <2>1, <2>2
<1> HIDE DEF shape, given, layout, sized, built, extents, w
<1>9. Advertised(i) \in TensorSpec
  BY <1>2, <1>3, <1>8 DEF TensorSpec
<1>10. PICK full \in {extents, <<1>> \o extents} :
         Completes(full, sized) /\ Elements(full) = Elements(extents)
  BY <1>8
<1>11. Elements(full) * Advertised(i).width = Bytes(tensors[i])
  BY <1>3, <1>7, <1>10
<1>12. Completes(full, Advertised(i).shape)
  BY <1>3, <1>10
<1>13. Advertised(i).width > 0
  BY <1>2, <1>3
<1> USE DEF extents
<1> QED
  BY <1>4, <1>9, <1>10, <1>11, <1>12, <1>13

\* What is sent for an input is the shape of its tensor, alone in a batch or not.
\* (concreteInputShape.)
LEMMA TensorArrives ==
  ASSUME PathInv, phase = "sent", SizesAgree,
         NEW i \in DOMAIN served.inputs
  PROVE  ArrivesAs(sentInputs[i].shape, tensors[i])
<1> DEFINE spec  == Advertised(i)
           bytes == Bytes(tensors[i])
           sent  == Labelled(i).shape
<1>1. /\ DOMAIN tensors = DOMAIN served.inputs
      /\ Sendable(i) /\ sentInputs[i] = Labelled(i)
  BY DEF PathInv, Prepared, WireLabelled
<1>2. sent = concreteInputShape(spec, bytes)
  BY DEF Labelled
<1>3. validateInputBytes(spec, bytes) /\ DynamicAxes(sent) = {}
  BY <1>1 DEF Sendable
<1>4. spec \in TensorSpec /\ spec.width > 0 /\ bytes \in ByteCount
  BY TensorCompletes
<1>5. PICK full \in {tensors[i].extents, <<1>> \o tensors[i].extents} :
        Completes(full, spec.shape) /\ Elements(full) * spec.width = bytes
  BY TensorCompletes
<1> HIDE DEF spec, bytes, sent
<1>6. concreteInputShape(spec, bytes) = full
  BY <1>2, <1>3, <1>4, <1>5, CompletionIsFound
<1>7. sentInputs[i].shape = full
  BY <1>1, <1>2, <1>6 DEF sent
<1> QED
  BY <1>5, <1>7 DEF ArrivesAs

\* What is sent had one dynamic axis at most. (The count in concreteInputShape.)
LEMMA OneAxisIsOpen ==
  ASSUME PathInv, phase = "sent", SizesAgree,
         NEW i \in DOMAIN served.inputs
  PROVE  \A a, b \in DynamicAxes(Advertised(i).shape) : a = b
<1> DEFINE spec  == Advertised(i)
           bytes == Bytes(tensors[i])
<1>1. DynamicAxes(concreteInputShape(spec, bytes)) = {}
  <2>1. Sendable(i)
    BY DEF PathInv, Prepared, WireLabelled
  <2> QED
    BY <2>1 DEF Sendable, Labelled
<1>2. spec.shape \in Seq(Int)
  BY TensorCompletes DEF TensorSpec
<1> HIDE DEF spec, bytes
<1>3. CASE Cardinality(DynamicAxes(spec.shape)) = 1
  <2>1. PICK c : DynamicAxes(spec.shape) = {c}
    BY <1>2, <1>3, AxisPicked
  <2> QED
    BY <2>1 DEF spec
<1>4. CASE Cardinality(DynamicAxes(spec.shape)) # 1
  <2>1. concreteInputShape(spec, bytes) = spec.shape
    BY <1>4 DEF concreteInputShape
  <2> QED
    BY <1>1, <2>1 DEF spec
<1> QED
  BY <1>3, <1>4

\* One of the last three axes of a shape of three or four.
LEMMA LastThree ==
  ASSUME NEW s \in Seq(Int), NEW n \in {3, 4}, Len(s) = n, NEW a \in 1 .. 3
  PROVE  a + n - 3 \in DOMAIN s
OBVIOUS

OneAxisOpen(shape) == \A a, b \in DynamicAxes(shape) : a = b

\* The layout is found in the tail of the built shape, since the server left one
\* axis open at most. (setInputFormat.)
LEMMA LayoutFound ==
  ASSUME NEW shape, NEW given, NEW layout \in {"NCHW", "NHWC"},
         Agreeing(shape, given, layout),
         OneAxisOpen(applyInputSizes(shape, given)),
         Replaced(shape, given) \in Seq(Int),
         ForOnePicture(Replaced(shape, given), layout),
         NEW built, Framed(built, Replaced(shape, given), layout)
  PROVE  Len(built) = 4 /\ setInputFormat(built) = layout
<1> DEFINE sized == applyInputSizes(shape, given)
           from  == Replaced(shape, given)
           inner == Tail(built)
<1>1. RankOf(layout) = 3
  BY DEF RankOf
<1>2. /\ sized \in Seq(Int) /\ Len(sized) = Len(shape) /\ Len(shape) \in {3, 4}
      /\ \A a \in 1 .. 3 : sized[a + Len(shape) - 3] = from[a + Len(from) - 3]
  <2>1. /\ sized \in Seq(Int) /\ Len(sized) = Len(shape)
        /\ \A a \in 1 .. RankOf(layout) :
             sized[a + Len(shape) - RankOf(layout)] = from[a + Len(from) - RankOf(layout)]
        /\ Len(shape) \in {RankOf(layout), RankOf(layout) + 1}
    BY SizedAlike
  <2> HIDE DEF sized, from
  <2>2. ASSUME NEW a \in 1 .. 3
        PROVE  sized[a + Len(shape) - 3] = from[a + Len(from) - 3]
    <3>1. a \in 1 .. RankOf(layout)
      BY <1>1
    <3>2. sized[a + Len(shape) - RankOf(layout)] = from[a + Len(from) - RankOf(layout)]
      BY <2>1, <3>1
    <3> QED
      BY <1>1, <3>2
  <2>3. Len(shape) = RankOf(layout) \/ Len(shape) = RankOf(layout) + 1
    BY SizedAlike
  <2>4. Len(shape) \in {3, 4}
    BY <1>1, <2>3
  <2> QED
    BY <2>1, <2>2, <2>4
<1>3. /\ from \in Seq(Int) /\ ForOnePicture(from, layout) /\ OneAxisOpen(sized)
      /\ Framed(built, from, layout)
  OBVIOUS
<1> HIDE DEF sized, from
<1>4. /\ Alone(inner, from, layout)
      /\ built \in Seq(Int) /\ Len(built) = RankOf(layout) + 1
      /\ \A a \in 1 .. RankOf(layout) : inner[a] = built[a + 1]
  <2>1. Alone(inner, from, layout)
    BY <1>3, TailIsAlone
  <2>2. built \in Seq(Int) /\ Len(built) = RankOf(layout) + 1
    BY <1>3, TailIsAlone
  <2>3. \A a \in 1 .. RankOf(layout) : inner[a] = built[a + 1]
    <3>1. built # <<>> /\ RankOf(layout) = Len(built) - 1
      <4>1. Len(built) = 4
        BY <1>1, <2>2
      <4>2. built # <<>>
        <5>1. Len(built) # Len(<<>>)
          BY <4>1
        <5> QED
          BY <5>1, Zenon
      <4>3. RankOf(layout) = Len(built) - 1
        BY <1>1, <4>1
      <4> QED
        BY <4>2, <4>3
    <3>2. Len(Tail(built)) = Len(built) - 1
      BY <2>2, <3>1, HeadTailProperties
    <3>3. \A a \in 1 .. Len(Tail(built)) : Tail(built)[a] = built[a + 1]
      BY <2>2, <3>1, HeadTailProperties
    <3> HIDE DEF inner
    <3>4. inner = Tail(built)
      BY DEF inner
    <3> QED
      BY <3>1, <3>2, <3>3, <3>4, Zenon
  <2> QED
    BY <2>1, <2>2, <2>3
<1> HIDE DEF inner
<1>5. /\ built \in Seq(Int) /\ Len(built) = 4
      /\ \A a \in 1 .. 3 : inner[a] = built[a + 1]
  BY <1>1, <1>4
<1>6. \A a \in 1 .. 3 : inner[a] = from[a + Len(from) - 3]
  BY <1>1, <1>4 DEF Alone
<1>7. \A a \in 1 .. 3 : inner[a] = sized[a + Len(shape) - 3]
  BY <1>2, <1>6
<1>8. \A a \in 1 .. 3 : inner[a] < 0 => a + Len(shape) - 3 \in DynamicAxes(sized)
  <2> TAKE a \in 1 .. 3
  <2> HAVE inner[a] < 0
  <2>1. a + Len(shape) - 3 \in DOMAIN sized
    BY <1>2, LastThree, Zenon
  <2>2. sized[a + Len(shape) - 3] < 0
    BY <1>7
  <2> QED
    BY <2>1, <2>2 DEF DynamicAxes
<1>9. \A a, b \in 1 .. 3 : inner[a] < 0 /\ inner[b] < 0 => a = b
  <2> TAKE a, c \in 1 .. 3
  <2> HAVE inner[a] < 0 /\ inner[c] < 0
  <2>1. a + Len(shape) - 3 = c + Len(shape) - 3
    BY <1>3, <1>8 DEF OneAxisOpen
  <2> QED
    BY <1>2, <2>1
<1>10. EndsIn(built, inner)
  BY <1>5, <1>9 DEF EndsIn
<1> QED
  BY <1>3, <1>4, <1>5, <1>10, FormatIsTheLayout

\* A model of videos is built with five axes. (taskInputShape.)
LEMMA VideoBuilt ==
  ASSUME NEW from \in Seq(Int), ForOnePicture(from, "NTCHW"),
         NEW built, Framed(built, from, "NTCHW")
  PROVE  Len(built) = 5
<1>1. Len(built) = RankOf("NTCHW") + 1
  BY TailIsAlone
<1> QED
  BY <1>1 DEF RankOf

\* A picture that is sent is laid out as the model reads it. (setInputFormat,
\* OpenCVImagePreprocessor.)
LEMMA LayoutArrives ==
  ASSUME PathInv, phase = "sent", SizesAgree
  PROVE  tensors[1].layout = served.layout
<1> DEFINE shape  == served.inputs[1].shape
           given  == SizesOf(1)
           layout == served.layout
           built  == builtShape(1)
           from   == Replaced(shape, given)
<1>1. Introduced /\ Built /\ Prepared
  BY DEF PathInv
<1>2. PictureModel(served)
  BY <1>1, ModelInputAssumption DEF Introduced
<1>3. 1 \in DOMAIN served.inputs
  BY <1>1, InputsNumbered
<1>4. Len(shape) >= 3 /\ layout \in {"NCHW", "NHWC", "NTCHW"}
  BY <1>2 DEF PictureModel, isImageInputShape
<1>5. /\ Agreeing(shape, given, layout)
      /\ Len(built) >= 3
      /\ ForOnePicture(from, layout) /\ from \in Seq(Int)
      /\ metadata[1].batch \in Int
      /\ built = IF Len(from) = RankOf(layout) THEN <<metadata[1].batch>> \o from ELSE from
  BY <1>1, <1>3, <1>4, BuiltAlike
<1>6. tensors[1].layout = IF Len(built) = 5 THEN "NTCHW" ELSE setInputFormat(built)
  <2>1. tensors[1] \in Tensor(1)
    BY <1>1, <1>3 DEF Prepared
  <2>2. info.shapes[1] = built /\ info.format = setInputFormat(info.shapes[1])
    BY <1>1, <1>3 DEF Built
  <2> HIDE DEF built
  <2> QED
    BY <1>5, <2>1, <2>2 DEF Tensor, isImageInputShape
<1>7. OneAxisOpen(applyInputSizes(shape, given))
  BY <1>3, OneAxisIsOpen DEF Advertised, OneAxisOpen
<1>8. Framed(built, Replaced(shape, given), layout)
  BY <1>5 DEF Framed
<1> HIDE DEF shape, given, layout, built
<1>9. CASE layout = "NTCHW"
  <2>1. Len(built) = 5
    BY <1>5, <1>8, <1>9, VideoBuilt
  <2> QED
    BY <1>6, <1>9, <2>1 DEF layout
<1>10. CASE layout \in {"NCHW", "NHWC"}
  <2>1. Len(built) = 4 /\ setInputFormat(built) = layout
    BY <1>5, <1>7, <1>8, <1>10, LayoutFound
  <2> QED
    BY <1>6, <2>1 DEF layout
<1> QED
  BY <1>4, <1>9, <1>10 DEF layout

\* For every model that takes pictures, every --input_sizes and whatever a task
\* makes of a dynamic axis: a picture is sent in the datatype it was prepared in
\* and, when the sizes agree with the server, in its shape and in the layout the
\* model reads. (buildModelInfo, get_infer_results.)
THEOREM PicturesArrive == PathSpec => []PicturesArriveAsPrepared
<1>1. PathInv /\ [PathNext]_pathVars => PathInv'
  BY PathKept
<1>2. PathInv => PicturesArriveAsPrepared
  <2> SUFFICES ASSUME PathInv, phase = "sent" PROVE PicturesArriveAsPrepared
    BY DEF PicturesArriveAsPrepared
  <2>1. DOMAIN tensors = DOMAIN served.inputs /\ ImageInputs \subseteq DOMAIN tensors
    BY DEF PathInv, Prepared, ImageInputs
  <2>2. ASSUME NEW i \in ImageInputs
        PROVE  sentInputs[i].datatype = tensors[i].datatype
    <3>1. i \in DOMAIN tensors /\ i \in DOMAIN served.inputs
      BY <2>1, <2>2
    <3>2. sentInputs[i].datatype = served.inputs[i].datatype
      BY <3>1 DEF PathInv, WireLabelled, Labelled
    <3>3. tensors[i] \in Tensor(i)
      BY <3>1 DEF PathInv, Prepared
    <3>4. tensors[i].datatype = served.inputs[i].datatype
      BY <3>1, <3>3 DEF PathInv, Built, Tensor
    <3> QED
      BY <3>2, <3>4
  <2>3. ASSUME SizesAgree
        PROVE  /\ tensors[1].layout = served.layout
               /\ \A i \in ImageInputs : ArrivesAs(sentInputs[i].shape, tensors[i])
    BY <2>1, <2>3, LayoutArrives, TensorArrives
  <2> QED
    BY <2>2, <2>3 DEF PicturesArriveAsPrepared
<1> QED
  BY <1>1, <1>2, PathStart, PTL DEF PathSpec

\* And it is refused only for a type no preprocessing produces, or for a second
\* dynamic axis. (applyInputDatatypes; validateInputBytes, concreteInputShape.)
THEOREM RefusalHasCause == PathSpec => []RefusalHasItsCause
<1>1. PathInv /\ [PathNext]_pathVars => PathInv'
  BY PathKept
<1>2. PathInv => RefusalHasItsCause
  <2> SUFFICES ASSUME PathInv, SizesAgree PROVE RefusalHasItsCause
    BY DEF RefusalHasItsCause
  <2>1. ASSUME phase = "refused"
        PROVE  \E i \in DOMAIN served.inputs :
                 /\ Len(served.inputs[i].shape) >= 3
                 /\ served.inputs[i].datatype \notin {"FP32", "UINT8"}
    <3>1. PICK i \in DOMAIN served.inputs :
            /\ Len(builtShape(i)) >= 3
            /\ served.inputs[i].datatype \notin {"FP32", "UINT8"}
      BY <2>1 DEF PathInv, Introduced, isImageInputShape
    <3>2. Introduced /\ phase # "setup"
      BY <2>1 DEF PathInv
    <3>3. Len(served.inputs[i].shape) >= 3
      BY <3>1, <3>2, BuiltAlike
    <3> QED
      BY <3>1, <3>3
  <2>2. ASSUME phase = "rejected"
        PROVE  \E i \in DOMAIN served.inputs :
                 Cardinality(DynamicAxes(Advertised(i).shape)) >= 2
    <3>1. PICK i \in DOMAIN served.inputs : ~ Sendable(i)
      BY <2>2 DEF PathInv, Prepared, WireLabelled
    <3> DEFINE spec  == Advertised(i)
               bytes == Bytes(tensors[i])
    <3>2. spec \in TensorSpec /\ spec.width > 0 /\ bytes \in ByteCount
      BY <2>2, TensorCompletes
    <3>3. PICK full : Completes(full, spec.shape) /\ Elements(full) * spec.width = bytes
      BY <2>2, TensorCompletes
    <3>4. ~ (validateInputBytes(spec, bytes) /\ DynamicAxes(concreteInputShape(spec, bytes)) = {})
      BY <3>1 DEF Sendable, Labelled
    <3> HIDE DEF spec, bytes
    <3>5. Cardinality(DynamicAxes(spec.shape)) > 1
      BY <3>2, <3>3, <3>4, CompletionIsAccepted
    <3>6. Cardinality(DynamicAxes(spec.shape)) \in Nat
      BY <3>2, AxesFinite DEF TensorSpec
    <3>7. Cardinality(DynamicAxes(spec.shape)) >= 2
      BY <3>5, <3>6
    <3> QED
      BY <3>7 DEF spec
  <2> QED
    BY <2>1, <2>2 DEF RefusalHasItsCause
<1> QED
  BY <1>1, <1>2, PathStart, PTL DEF PathSpec
=============================================================================
