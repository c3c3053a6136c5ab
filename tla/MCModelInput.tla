----------------------------- MODULE MCModelInput -----------------------------
(***************************************************************************)
(* ModelInput over models that take one picture (or a clip of four) of     *)
(* three channels or one, four by six or six by four, served with or       *)
(* without a batch axis, channels first or last, and with any axes         *)
(* dynamic.                                                                *)
(***************************************************************************)
EXTENDS ModelInput

Sides == {<<4, 6>>, <<6, 4>>}

Pictures(layout) ==
  CASE layout = "NCHW"  -> {<<c>> \o s : c \in {1, 3}, s \in Sides}
    [] layout = "NHWC"  -> {s \o <<c>> : c \in {1, 3}, s \in Sides}
    [] layout = "NTCHW" -> {<<4, 3>> \o s : s \in Sides}

Layouts == {"NCHW", "NHWC", "NTCHW"}

\* The shape with the axes of a set dynamic.
Opened(shape) ==
  {[a \in DOMAIN shape |-> IF a \in axes THEN -1 ELSE shape[a]] : axes \in SUBSET DOMAIN shape}

Shapes(layout) ==
  UNION {Opened(p) \cup Opened(<<1>> \o p) : p \in Pictures(layout)}

\* The side input of detectors that are told the picture's size.
Side == [shape : {<<1, 2>>, <<-1, 2>>}, datatype : {"INT64"}]

Image(layout) == [shape : Shapes(layout), datatype : {"FP32", "UINT8", "FP16", "INT32"}]

Flow == [shape : {<<1, 3, 4, 6>>, <<1, 3, -1, -1>>}, datatype : {"FP32", "FP16"}]

AllModels ==
  UNION {[inputs : {<<i>> : i \in Image(layout)}, layout : {layout}] : layout \in Layouts}
    \cup [inputs : {<<i, s>> : i \in Image("NCHW"), s \in Side}, layout : {"NCHW"}]
    \cup [inputs : {<<i, j>> : i, j \in Flow}, layout : {"NCHW"}]

\* CHW, HWC and TCHW sizes, with the batch or without, and with sizes for a
\* side input or for a second picture.
Sized ==
  UNION {Pictures(layout) \cup {<<1>> \o p : p \in Pictures(layout)} : layout \in Layouts}

AllSizes ==
  {<<>>} \cup {<<s>> : s \in Sized} \cup {<<s, <<2>> >> : s \in Pictures("NCHW")}
    \cup {<<s, s>> : s \in Pictures("NCHW")}

\* What a task may make of a dynamic axis.
OwnExtents == {3, 4}
=============================================================================
