----------------------------- MODULE SparseBuffer -----------------------------
(***************************************************************************)
(* VPUIP::SparseBufferType, src/src/vpux_compiler/src/dialect/VPUIP/IR/    *)
(* types/sparse_buffer.cpp.  The type is an immutable value; a compiler    *)
(* pass asks it for a transform and gets back a new value or an abort      *)
(* (VPUX_THROW).  The state of this module is the one composite value a    *)
(* pipeline of such requests threads through, and the status of the        *)
(* compilation: each action is one NDTypeInterface / DistributedType-      *)
(* Interface method of the type, applied to the current value.             *)
(*                                                                         *)
(* Sub-buffers are abstracted to the fields the algebra keeps consistent:  *)
(* kind (memref or distributed buffer), shape, dims order, memory space,   *)
(* element type, whether the strides are compact, and the composite-level *)
(* distribution the buffer's DistributionInfoAttr was derived from.        *)
(***************************************************************************)
EXTENDS SparseBufferType, Integers, Sequences, FiniteSets

CONSTANTS
  Shapes,        \* 4D shapes <<N, C, H, W>> a pass may request
  Offsets,       \* tile offsets a pass may request
  Orders,        \* DimsOrder values
  MemSpaces,     \* memory spaces (IndexedSymbolAttr)
  ElemTypes,     \* element types
  Distributions, \* composite-level explicit DistributionInfoAttr values
  ElemStrides,   \* element strides of a view tile
  PadAmounts,    \* padBefore / padAfter vectors
  SETChannels,   \* channel extents of a storage element table
  SEFactors,     \* SEAttr upsampling factors
  CompressionCounts, \* per-output-channel element counts
  SMRowLength    \* length of a weights sparsity-map row (spec 3, inv. 3)

VARIABLES
  buf,    \* the current SparseBufferType value
  status  \* "ok", or the VPUX_THROW / verifier error that aborted

vars == <<buf, status>>

(* Dims4D::Act::{N, C, H, W}; Dims4D::Filter::OC is the first dimension.  *)
N == 1
C == 2
H == 3
W == 4
OC == 1
Dims == 1 .. 4

(***************************************************************************)
(* Collaborators that are not under src/ (spec 4.1, 4.3, 6): the           *)
(* NDTypeInterface of a single memref / distributed buffer, the SEAttr     *)
(* shape mapping, the weights sparsity-map shape and the compression       *)
(* tiler.  An SEAttr is abstracted to its upsampling factor.               *)
(***************************************************************************)
NdChangeShapeElemType(b, s, e) == [b EXCEPT !.shape = s, !.elem = e, !.compact = TRUE]
NdChangeShape(b, s) == NdChangeShapeElemType(b, s, b.elem)
NdChangeElemType(b, e) == [b EXCEPT !.elem = e]
NdChangeDimsOrder(b, o) == [b EXCEPT !.order = o, !.compact = TRUE]
NdChangeMemSpace(b, m) == [b EXCEPT !.mem = m]
NdChangeStrides(b, compact) == [b EXCEPT !.compact = compact]
NdExtractDenseTile(b, ts) == [b EXCEPT !.shape = ts, !.compact = TRUE]
UnitStrides(es) == \A d \in Dims : es[d] = 1
NdExtractViewTile(b, ts, es) == [b EXCEPT !.shape = ts, !.compact = @ /\ UnitStrides(es)]
NdPad(b, pb, pa) ==
  [b EXCEPT !.shape = [d \in Dims |-> b.shape[d] + pb[d] + pa[d]], !.compact = TRUE]
NdEraseTiledInfo(b) == b

(* TypeComponents: optional shape, dimsOrder, memSpace and elemType.       *)
Pick(opt, cur) == IF opt = None THEN cur ELSE opt
NdChangeTypeComponents(b, tc) ==
  [b EXCEPT !.shape = Pick(tc.shape, @), !.order = Pick(tc.dimsOrder, @),
            !.mem = Pick(tc.memSpace, @), !.elem = Pick(tc.elemType, @),
            !.compact = (Pick(tc.shape, b.shape) # b.shape
                           \/ Pick(tc.dimsOrder, b.order) # b.order) \/ @]
TC(s, o, m, e) == [shape |-> s, dimsOrder |-> o, memSpace |-> m, elemType |-> e]

(* The *ForExplicitDistribution forms also give the buffer a new attr.    *)
WithDistribution(b, d) == [b EXCEPT !.dist = d]

SEInferOutputShape(se, s) == [s EXCEPT ![H] = @ * se, ![W] = @ * se]
SEBackInferInputShape(se, s) == [s EXCEPT ![H] = @ \div se, ![W] = @ \div se]
(* SEAttr::extractTile for a tile aligned to the factor: the input tile    *)
(* start and shape; the attr itself is unchanged.                          *)
SEInputTile(se, v) == SEBackInferInputShape(se, v)

InferWeightsSparsityMapShape(s) == <<s[OC], 1, 1, SMRowLength>>

(* VPUIP::tileSparsityCompression slices the per-OC counts; a range past  *)
(* the descriptor's end is an assertion failure.                           *)
CompressionTileInRange(comp, off, ts) == comp = None \/ off[OC] + ts[OC] <= Len(comp)
TileSparsityCompression(comp, off, ts) ==
  IF comp = None THEN None ELSE SubSeq(comp, off[OC] + 1, off[OC] + ts[OC])

(* VPU::getExplicitDistrAttrFor{SparseData,SparsityMap,SETable}: each      *)
(* sub-buffer's attr is derived from the composite-level one.              *)
DistrForSparseData(d) == d
DistrForSparsityMap(d) == d
DistrForSETable(d) == d

(***************************************************************************)
(* Queries.                                                                *)
(***************************************************************************)
(* getShape via VPU::getEffectiveSparseOutputType (lines 179-182).        *)
EffectiveShape(t) ==
  IF t.seAttr = None THEN t.data.shape ELSE SEInferOutputShape(t.seAttr, t.data.shape)

InputShape(t, s) == IF t.seAttr = None THEN s ELSE SEBackInferInputShape(t.seAttr, s)

WithSpatialOf(setShape, s) == [setShape EXCEPT ![H] = s[H], ![W] = s[W]]

(* seSize = data channels / SET channels, compared as a ratio.             *)
SameSeSize(t, u) ==
  EffectiveShape(t)[C] * u.storageElementTable.shape[C]
    = EffectiveShape(u)[C] * t.storageElementTable.shape[C]


(***************************************************************************)
(* NDTypeInterface transforms (lines 288-568).  Each takes the current     *)
(* value t and returns the outcome of its final SparseBufferType::get.     *)
(***************************************************************************)
(* Mutant: the weights branch dropped, the map reshaped like activations. *)
ChangeShapeElemTypeNoWeightsMap(t, shape, elemType) ==
  LET sm  == t.sparsityMap
      set == t.storageElementTable
  IN Get(NdChangeShapeElemType(t.data, InputShape(t, shape), elemType),
         IF sm = None THEN None ELSE NdChangeShape(sm, shape),
         IF set = None THEN None ELSE NdChangeShape(set, WithSpatialOf(set.shape, shape)),
         t.isWeights, t.sparsityCompression, t.seAttr)

ChangeShapeElemType(t, shape, elemType) ==
  LET data == NdChangeShapeElemType(t.data, InputShape(t, shape), elemType)
      sm   == t.sparsityMap
      set  == t.storageElementTable
  IN Get(data,
         IF sm = None THEN None
         ELSE IF t.isWeights THEN NdChangeShape(sm, InferWeightsSparsityMapShape(shape))
         ELSE NdChangeShape(sm, shape),
         IF set = None THEN None ELSE NdChangeShape(set, WithSpatialOf(set.shape, shape)),
         t.isWeights, t.sparsityCompression, t.seAttr)

ChangeElemType(t, elemType) ==
  Get(NdChangeElemType(t.data, elemType), t.sparsityMap, t.storageElementTable,
      t.isWeights, t.sparsityCompression, t.seAttr)

(* Mutant: the sparsity map reordered whether or not it holds weights.     *)
ChangeDimsOrderAllMaps(t, order) ==
  LET sm == t.sparsityMap
  IN Get(NdChangeDimsOrder(t.data, order), IF sm # None THEN NdChangeDimsOrder(sm, order) ELSE sm,
         t.storageElementTable, t.isWeights, t.sparsityCompression, t.seAttr)

ChangeDimsOrder(t, order) ==
  LET sm == t.sparsityMap
  IN Get(NdChangeDimsOrder(t.data, order),
         IF sm # None /\ ~t.isWeights THEN NdChangeDimsOrder(sm, order) ELSE sm,
         t.storageElementTable, t.isWeights, t.sparsityCompression, t.seAttr)

ChangeMemSpace(t, memSpace) ==
  LET sm  == t.sparsityMap
      set == t.storageElementTable
  IN Get(NdChangeMemSpace(t.data, memSpace),
         IF sm = None THEN None ELSE NdChangeMemSpace(sm, memSpace),
         IF set = None THEN None ELSE NdChangeMemSpace(set, memSpace),
         t.isWeights, t.sparsityCompression, t.seAttr)

(* With an SEAttr the strides apply to the effective (compact) data and    *)
(* only compact strides are accepted; the data itself is left alone.       *)
ChangeStrides(t, compact) ==
  IF t.seAttr # None /\ ~compact
  THEN Throw("SEAttrNonCompactStrides")
  ELSE Get(IF t.seAttr # None THEN t.data ELSE NdChangeStrides(t.data, compact),
           t.sparsityMap, t.storageElementTable, t.isWeights,
           t.sparsityCompression, t.seAttr)

ChangeTypeComponents(t, tc) ==
  LET shape     == Pick(tc.shape, EffectiveShape(t))
      dimsOrder == Pick(tc.dimsOrder, t.data.order)
      memSpace  == Pick(tc.memSpace, t.data.mem)
      sm        == t.sparsityMap
      set       == t.storageElementTable
  IN Get(NdChangeTypeComponents(t.data, [tc EXCEPT !.shape = InputShape(t, shape)]),
         IF sm = None THEN None
         ELSE IF ~t.isWeights THEN NdChangeTypeComponents(sm, TC(shape, dimsOrder, memSpace, None))
         ELSE NdChangeTypeComponents(sm, TC(InferWeightsSparsityMapShape(shape), None, memSpace, None)),
         IF set = None THEN None
         ELSE NdChangeTypeComponents(set, TC(WithSpatialOf(set.shape, shape), None, memSpace, None)),
         t.isWeights, t.sparsityCompression, t.seAttr)

(* Dense and view tiles share everything but the data/sparsity-map call.   *)
(* tileElemStrides are checked with any_of over [begin, begin): the range  *)
(* is empty, so the check never reports a strided tile (lines 478, 833).   *)
ViewTileStrided(es) == \E i \in {} : es[i] # 1

ExtractTile(t, off, ts, es, view) ==
  LET inShape == IF t.seAttr = None THEN ts ELSE SEInputTile(t.seAttr, ts)
      sm      == t.sparsityMap
      set     == t.storageElementTable
  IN IF view /\ t.seAttr # None /\ ViewTileStrided(es)
     THEN Throw("SEAttrStridedViewTile")
     ELSE IF ~CompressionTileInRange(t.sparsityCompression, off, ts)
     THEN Throw("CompressionTileOutOfRange")
     ELSE Get(IF view THEN NdExtractViewTile(t.data, inShape, es)
              ELSE NdExtractDenseTile(t.data, inShape),
              IF sm = None THEN None
              ELSE IF t.isWeights THEN NdChangeShape(sm, InferWeightsSparsityMapShape(ts))
              ELSE IF view THEN NdExtractViewTile(sm, ts, es)
              ELSE NdExtractDenseTile(sm, ts),
              IF set = None THEN None
              ELSE NdExtractDenseTile(set, WithSpatialOf(set.shape, ts)),
              t.isWeights, TileSparsityCompression(t.sparsityCompression, off, ts),
              t.seAttr)

ExtractDenseTile(t, off, ts) == ExtractTile(t, off, ts, <<1, 1, 1, 1>>, FALSE)
ExtractViewTile(t, off, ts, es) == ExtractTile(t, off, ts, es, TRUE)

EraseTiledInfo(t) ==
  LET sm  == t.sparsityMap
      set == t.storageElementTable
  IN Get(NdEraseTiledInfo(t.data),
         IF sm = None THEN None ELSE NdEraseTiledInfo(sm),
         IF set = None THEN None ELSE NdEraseTiledInfo(set),
         t.isWeights, t.sparsityCompression, t.seAttr)

(* Without an SEAttr the padded output shape is the padded data's; with   *)
(* one it is the padded effective shape, and the data is re-shaped to its  *)
(* back-inferred input shape.                                              *)
Pad(t, pb, pa) ==
  LET padded     == NdPad(t.data, pb, pa)
      outShape   == IF t.seAttr = None THEN padded.shape
                    ELSE NdPad(NdChangeShape(t.data, EffectiveShape(t)), pb, pa).shape
      data       == IF t.seAttr = None THEN padded
                    ELSE NdChangeShape(padded, SEBackInferInputShape(t.seAttr, outShape))
      sm         == t.sparsityMap
      set        == t.storageElementTable
  IN Get(data,
         IF sm = None THEN None
         ELSE IF t.isWeights THEN NdChangeShape(sm, InferWeightsSparsityMapShape(outShape))
         ELSE NdChangeShape(sm, outShape),
         IF set = None THEN None ELSE NdChangeShape(set, WithSpatialOf(set.shape, outShape)),
         t.isWeights, t.sparsityCompression, t.seAttr)


(***************************************************************************)
(* DistributedTypeInterface overloads taking an explicit distribution      *)
(* (lines 596-893).  A null attr falls back to the plain transform.        *)
(***************************************************************************)
(* The seSize check of lines 652-655, 722-725, 797-800, 874-877: integer   *)
(* division of the old and new data channels by the SET's channels.        *)
SeSizeMismatch(t, newC, setC) ==
  EffectiveShape(t)[C] \div setC # newC \div setC /\ setC # 1

(* Mutant: no check that the data is a distributed buffer.                 *)
ChangeShapeElemTypeForExplicitDistributionAnyData(t, shape, elemType, d) ==
  LET sm       == t.sparsityMap
      set      == t.storageElementTable
      smShape  == IF t.isWeights THEN InferWeightsSparsityMapShape(shape) ELSE shape
      setShape == WithSpatialOf(set.shape, shape)
  IN IF set # None /\ SeSizeMismatch(t, shape[C], setShape[C]) THEN Throw("SeSizeMismatch")
     ELSE Get(WithDistribution(NdChangeShapeElemType(t.data, InputShape(t, shape), elemType),
                               DistrForSparseData(d)),
              IF sm = None THEN None
              ELSE WithDistribution(NdChangeShape(sm, smShape), DistrForSparsityMap(d)),
              IF set = None THEN None
              ELSE WithDistribution(NdChangeShape(set, setShape), DistrForSETable(d)),
              t.isWeights, t.sparsityCompression, t.seAttr)

ChangeShapeElemTypeForExplicitDistribution(t, shape, elemType, d) ==
  LET sm       == t.sparsityMap
      set      == t.storageElementTable
      smShape  == IF t.isWeights THEN InferWeightsSparsityMapShape(shape) ELSE shape
      setShape == WithSpatialOf(set.shape, shape)
  IN CASE ~IsDistributed(t.data)                -> Throw("DataNotDistributed")
       [] sm # None /\ ~IsDistributed(sm)       -> Throw("SparsityMapNotDistributed")
       [] set # None /\ ~IsDistributed(set)     -> Throw("SETNotDistributed")
       [] set # None /\ SeSizeMismatch(t, shape[C], setShape[C]) -> Throw("SeSizeMismatch")
       [] OTHER ->
          Get(WithDistribution(NdChangeShapeElemType(t.data, InputShape(t, shape), elemType),
                               DistrForSparseData(d)),
              IF sm = None THEN None
              ELSE WithDistribution(NdChangeShape(sm, smShape), DistrForSparsityMap(d)),
              IF set = None THEN None
              ELSE WithDistribution(NdChangeShape(set, setShape), DistrForSETable(d)),
              t.isWeights, t.sparsityCompression, t.seAttr)

(* Mutant: the storage element table keeps its old distribution.          *)
ChangeTypeComponentsForExplicitDistributionKeepSET(t, tc, d) ==
  LET shape     == Pick(tc.shape, EffectiveShape(t))
      dimsOrder == Pick(tc.dimsOrder, t.data.order)
      memSpace  == Pick(tc.memSpace, t.data.mem)
      sm        == t.sparsityMap
      set       == t.storageElementTable
      smTC      == IF ~t.isWeights THEN TC(shape, dimsOrder, memSpace, None)
                   ELSE TC(InferWeightsSparsityMapShape(shape), None, memSpace, None)
      setShape  == WithSpatialOf(set.shape, shape)
  IN IF d = None THEN ChangeTypeComponents(t, tc)
     ELSE IF set # None /\ SeSizeMismatch(t, shape[C], setShape[C]) THEN Throw("SeSizeMismatch")
     ELSE Get(WithDistribution(NdChangeTypeComponents(t.data, [tc EXCEPT !.shape = InputShape(t, shape)]),
                               DistrForSparseData(d)),
              IF sm = None THEN None
              ELSE WithDistribution(NdChangeTypeComponents(sm, smTC), DistrForSparsityMap(d)),
              IF set = None THEN None
              ELSE NdChangeTypeComponents(set, TC(setShape, None, memSpace, None)),
              t.isWeights, t.sparsityCompression, t.seAttr)

(* Mutant: a weights sparsity map given the activation shape.            *)
ChangeTypeComponentsForExplicitDistributionActMap(t, tc, d) ==
  LET shape     == Pick(tc.shape, EffectiveShape(t))
      dimsOrder == Pick(tc.dimsOrder, t.data.order)
      memSpace  == Pick(tc.memSpace, t.data.mem)
      sm        == t.sparsityMap
      set       == t.storageElementTable
      setShape  == WithSpatialOf(set.shape, shape)
  IN IF d = None THEN ChangeTypeComponents(t, tc)
     ELSE IF set # None /\ SeSizeMismatch(t, shape[C], setShape[C]) THEN Throw("SeSizeMismatch")
     ELSE Get(WithDistribution(NdChangeTypeComponents(t.data, [tc EXCEPT !.shape = InputShape(t, shape)]),
                               DistrForSparseData(d)),
              IF sm = None THEN None
              ELSE WithDistribution(NdChangeTypeComponents(sm, TC(shape, dimsOrder, memSpace, None)),
                                    DistrForSparsityMap(d)),
              IF set = None THEN None
              ELSE WithDistribution(NdChangeTypeComponents(set, TC(setShape, None, memSpace, None)),
                                    DistrForSETable(d)),
              t.isWeights, t.sparsityCompression, t.seAttr)

ChangeTypeComponentsForExplicitDistribution(t, tc, d) ==
  LET shape     == Pick(tc.shape, EffectiveShape(t))
      dimsOrder == Pick(tc.dimsOrder, t.data.order)
      memSpace  == Pick(tc.memSpace, t.data.mem)
      sm        == t.sparsityMap
      set       == t.storageElementTable
      smTC      == IF ~t.isWeights THEN TC(shape, dimsOrder, memSpace, None)
                   ELSE TC(InferWeightsSparsityMapShape(shape), None, memSpace, None)
      setShape  == WithSpatialOf(set.shape, shape)
  IN IF d = None THEN ChangeTypeComponents(t, tc)
     ELSE IF set # None /\ SeSizeMismatch(t, shape[C], setShape[C]) THEN Throw("SeSizeMismatch")
     ELSE Get(WithDistribution(NdChangeTypeComponents(t.data, [tc EXCEPT !.shape = InputShape(t, shape)]),
                               DistrForSparseData(d)),
              IF sm = None THEN None
              ELSE WithDistribution(NdChangeTypeComponents(sm, smTC), DistrForSparsityMap(d)),
              IF set = None THEN None
              ELSE WithDistribution(NdChangeTypeComponents(set, TC(setShape, None, memSpace, None)),
                                    DistrForSETable(d)),
              t.isWeights, t.sparsityCompression, t.seAttr)

(* Lines 745-893: extractDenseTile / extractViewTileForExplicitDistribution, *)
(* with the seSize check of each (797-800, 874-877).                        *)
ExtractTileForExplicitDistribution(t, off, ts, es, view, d) ==
  LET inShape  == IF t.seAttr = None THEN ts ELSE SEInputTile(t.seAttr, ts)
      sm       == t.sparsityMap
      set      == t.storageElementTable
      setShape == WithSpatialOf(set.shape, ts)
  IN IF d = None THEN ExtractTile(t, off, ts, es, view)
     ELSE IF view /\ t.seAttr # None /\ ViewTileStrided(es) THEN Throw("SEAttrStridedViewTile")
     ELSE IF set # None /\ SeSizeMismatch(t, ts[C], setShape[C]) THEN Throw("SeSizeMismatch")
     ELSE IF ~CompressionTileInRange(t.sparsityCompression, off, ts)
     THEN Throw("CompressionTileOutOfRange")
     ELSE Get(WithDistribution(IF view THEN NdExtractViewTile(t.data, inShape, es)
                               ELSE NdExtractDenseTile(t.data, inShape),
                               DistrForSparseData(d)),
              IF sm = None THEN None
              ELSE WithDistribution(
                     IF t.isWeights THEN NdChangeShape(sm, InferWeightsSparsityMapShape(ts))
                     ELSE IF view THEN NdExtractViewTile(sm, ts, es)
                     ELSE NdExtractDenseTile(sm, ts),
                     DistrForSparsityMap(d)),
              IF set = None THEN None
              ELSE WithDistribution(NdExtractDenseTile(set, setShape), DistrForSETable(d)),
              t.isWeights, TileSparsityCompression(t.sparsityCompression, off, ts),
              t.seAttr)

ExtractDenseTileForExplicitDistribution(t, off, ts, d) ==
  ExtractTileForExplicitDistribution(t, off, ts, <<1, 1, 1, 1>>, FALSE, d)
ExtractViewTileForExplicitDistribution(t, off, ts, es, d) ==
  ExtractTileForExplicitDistribution(t, off, ts, es, TRUE, d)


(***************************************************************************)
(* The values a pass starts from: composites as the rewrites that create   *)
(* them build them, every sub-buffer of one kind, laid out alike.         *)
(***************************************************************************)
Buffer(kind, shape, order, mem, elem, d) ==
  [kind |-> kind, shape |-> shape, order |-> order, mem |-> mem, elem |-> elem,
   compact |-> TRUE, dist |-> d]

Aligned(se, v) == se = None \/ (v[H] % se = 0 /\ v[W] % se = 0)

SETsFor(kind, s, o, m, d) ==
  {Buffer(kind, <<1, sc, s[H], s[W]>>, o, m, "i32", d) : sc \in {x \in SETChannels : s[C] % x = 0}}

SEAttrsFor(s) == {None} \cup {f \in SEFactors : Aligned(f, s)}

ActivationComposites(kind, d, o, m, e) ==
  UNION {UNION {{Get(Buffer(kind, InputShape([seAttr |-> se], s), o, m, e, d),
                     sm, set, FALSE, None, se).val :
                   sm \in {None, Buffer(kind, s, o, m, "i1", d)},
                   set \in {None} \cup SETsFor(kind, s, o, m, d)} :
                 se \in SEAttrsFor(s)} :
           s \in {x \in Shapes : x[N] = 1}}

WeightsComposites(kind, d, o, m, e) ==
  UNION {{Get(Buffer(kind, s, o, m, e, d),
              Buffer(kind, InferWeightsSparsityMapShape(s), o, m, "i1", d),
              None, TRUE, comp, None).val :
            comp \in {None} \cup [1 .. s[OC] -> CompressionCounts]} :
           s \in Shapes}

(* Initial values share one default layout; transforms reach the others.  *)
InitComposites ==
  LET o == CHOOSE x \in Orders : TRUE
      m == CHOOSE x \in MemSpaces : TRUE
      e == CHOOSE x \in ElemTypes : TRUE
  IN UNION {ActivationComposites(k[1], k[2], o, m, e) \cup WeightsComposites(k[1], k[2], o, m, e) :
              k \in {<<Memref, None>>} \cup ({Distributed} \X Distributions)}

Init ==
  /\ buf \in InitComposites
  /\ status = "ok"

(***************************************************************************)
(* The requests a pass may make of the current value.  With an SEAttr,     *)
(* shapes, tiles and pads are in the attr's output space, aligned to it.   *)
(***************************************************************************)
(* An activation keeps its batch; a weights reshape may change OC.         *)
ShapeRequests(t) ==
  {s \in Shapes : Aligned(t.seAttr, s) /\ (t.isWeights \/ s[N] = EffectiveShape(t)[N])}

TileRequests(t) ==
  {r \in Offsets \X Shapes :
     /\ \A d \in Dims : r[1][d] + r[2][d] <= EffectiveShape(t)[d]
     /\ Aligned(t.seAttr, r[1]) /\ Aligned(t.seAttr, r[2])}

PadRequests(t) ==
  {r \in PadAmounts \X PadAmounts :
     /\ Aligned(t.seAttr, r[1]) /\ Aligned(t.seAttr, r[2])
     /\ [d \in Dims |-> EffectiveShape(t)[d] + r[1][d] + r[2][d]] \in Shapes}

(* Element types are changed through changeElemType; a dimsOrder or        *)
(* memSpace left unset defaults to the current one, which is in the sets. *)
TCRequests(t) ==
  {TC(s, o, m, None) : s \in ShapeRequests(t) \cup {None}, o \in Orders, m \in MemSpaces}

(* A transform returns a new value, or VPUX_THROW aborts the compilation. *)
Return(r) ==
  IF r.err = "ok" THEN buf' = r.val /\ status' = "ok"
  ELSE status' = r.err /\ UNCHANGED buf

(* The plain NDTypeInterface requests.                                     *)
PlainNext ==
  \/ \E s \in ShapeRequests(buf), e \in ElemTypes : Return(ChangeShapeElemType(buf, s, e))
  \/ \E e \in ElemTypes : Return(ChangeElemType(buf, e))
  \/ \E o \in Orders : Return(ChangeDimsOrder(buf, o))
  \/ \E m \in MemSpaces : Return(ChangeMemSpace(buf, m))
  \/ \E c \in BOOLEAN : Return(ChangeStrides(buf, c))
  \/ \E tc \in TCRequests(buf) : Return(ChangeTypeComponents(buf, tc))
  \/ \E r \in TileRequests(buf) : Return(ExtractDenseTile(buf, r[1], r[2]))
  \/ \E r \in TileRequests(buf), es \in ElemStrides : Return(ExtractViewTile(buf, r[1], r[2], es))
  \/ Return(EraseTiledInfo(buf))
  \/ \E r \in PadRequests(buf) : Return(Pad(buf, r[1], r[2]))

(* The explicit-distribution requests.  Only changeShapeElemType checks   *)
(* that the data is distributed; the others cast it to ClusterType-        *)
(* Interface, so their callers only make them of distributed composites.  *)
ExplicitNext(attrs) ==
  \/ \E s \in ShapeRequests(buf), e \in ElemTypes, d \in Distributions :
       Return(ChangeShapeElemTypeForExplicitDistribution(buf, s, e, d))
  \/ /\ IsDistributed(buf.data)
     /\ \/ \E tc \in TCRequests(buf), d \in attrs :
             Return(ChangeTypeComponentsForExplicitDistribution(buf, tc, d))
        \/ \E r \in TileRequests(buf), d \in attrs :
             Return(ExtractDenseTileForExplicitDistribution(buf, r[1], r[2], d))
        \/ \E r \in TileRequests(buf), es \in ElemStrides, d \in attrs :
             Return(ExtractViewTileForExplicitDistribution(buf, r[1], r[2], es, d))

Next == status = "ok" /\ (PlainNext \/ ExplicitNext(Distributions \cup {None}))

Spec == Init /\ [][Next]_vars

(* Clustering passes that reshape or tile only through the explicit-        *)
(* distribution overloads, always passing an attr, plus the layout changes *)
(* that leave shapes alone.                                                *)
ExplicitOnlyNext ==
  /\ status = "ok"
  /\ \/ ExplicitNext(Distributions)
     \/ \E o \in Orders : Return(ChangeDimsOrder(buf, o))
     \/ \E m \in MemSpaces : Return(ChangeMemSpace(buf, m))
     \/ \E e \in ElemTypes : Return(ChangeElemType(buf, e))

ExplicitOnlySpec == Init /\ [][ExplicitOnlyNext]_vars


(***************************************************************************)
(* Properties.                                                             *)
(***************************************************************************)
Aux(t) == {b \in {t.sparsityMap, t.storageElementTable} : b # None}

(* A memref carries no distribution; a distributed buffer carries one.    *)
BufferType(kinds) ==
  LET BufferOf(k, ds) ==
        [kind: {k}, shape: [Dims -> Nat], order: Orders, mem: MemSpaces,
         elem: ElemTypes \cup {"i1", "i32"}, compact: BOOLEAN, dist: ds]
  IN (IF Memref \in kinds THEN BufferOf(Memref, {None}) ELSE {})
     \cup (IF Distributed \in kinds THEN BufferOf(Distributed, Distributions) ELSE {})

TypeOK ==
  /\ buf.data \in BufferType({Memref, Distributed})
  /\ \A b \in Aux(buf) : b \in BufferType({Memref, Distributed})
  /\ buf.isWeights \in BOOLEAN
  /\ buf.sparsityCompression \in {None} \cup Seq(CompressionCounts)
  /\ buf.seAttr \in {None} \cup SEFactors
  /\ status \in {"ok", "DataNotDistributed", "SparsityMapNotDistributed",
                 "SETNotDistributed", "SeSizeMismatch", "SEAttrNonCompactStrides",
                 "SEAttrStridedViewTile", "DataNotBuffer", "SparsityMapNotBuffer",
                 "SETNotBuffer", "SEAttrNotExclusive", "CompressionTileOutOfRange"}

(* Co-transformation (spec 3, inv. 3 and 4; spec 4.2 steps 1-3): whatever  *)
(* sequence of transforms a pass applied, an activation sparsity map has   *)
(* the effective (SEAttr output) shape and the data's dims order, a        *)
(* weights sparsity map has the shape inferred from the effective shape,   *)
(* the storage element table spans the effective spatial extent, and all  *)
(* sub-buffers live in the data's memory space.                            *)
SubBuffersAgree ==
  LET s  == EffectiveShape(buf)
      sm == buf.sparsityMap
      se == buf.storageElementTable
  IN /\ sm # None /\ ~buf.isWeights => sm.shape = s /\ sm.order = buf.data.order
     /\ sm # None /\ buf.isWeights => sm.shape = InferWeightsSparsityMapShape(s)
     /\ se # None => se.shape[H] = s[H] /\ se.shape[W] = s[W]
     /\ \A b \in Aux(buf) : b.mem = buf.data.mem

(* Distribution consistency (spec 8): when the data is a distributed       *)
(* buffer every present sub-buffer is one too, and the explicit-           *)
(* distribution overloads re-derive every sub-buffer's attr from the same  *)
(* composite-level distribution as the data's.                             *)
DistributionsAgree ==
  IsDistributed(buf.data) => \A b \in Aux(buf) : IsDistributed(b) /\ b.dist = buf.data.dist

(* Scenario D of spec 8: no transform changes the dims order of a weights  *)
(* sparsity map (changeDimsOrder and changeTypeComponents skip it).        *)
WeightsMapOrderFixed ==
  [][buf.isWeights /\ buf.sparsityMap # None
       => buf'.sparsityMap.order = buf.sparsityMap.order]_vars

(* seSize invariance (spec 4.2 step 3): a transform that succeeds on a     *)
(* composite whose storage element table has more than one channel keeps   *)
(* seSize = data channels / SET channels.                                  *)
SeSizePreserved ==
  [][/\ status' = "ok"
     /\ buf.storageElementTable # None
     /\ buf.storageElementTable.shape[C] # 1
     => SameSeSize(buf, buf')]_vars

(* Lines 374-375 and 481: with an SEAttr the data is only ever compact; a  *)
(* view tile with non-unit element strides is to be refused.               *)
SEAttrDataCompact == buf.seAttr # None => buf.data.compact

(* The compression descriptor counts one entry per output channel of the   *)
(* data it describes (spec 3; used by getTotalAllocSize, lines 252-253).   *)
CompressionCoversData ==
  buf.sparsityCompression # None => Len(buf.sparsityCompression) = buf.data.shape[OC]


(***************************************************************************)
(* Refinement: the composite seen through the contract of spec 3 / 4.2.    *)
(***************************************************************************)
View(t) ==
  [shape          |-> EffectiveShape(t),
   dataKind       |-> t.data.kind,
   sm             |-> IF t.sparsityMap = None THEN None
                      ELSE [kind |-> t.sparsityMap.kind, shape |-> t.sparsityMap.shape],
   set            |-> IF t.storageElementTable = None THEN None
                      ELSE [kind     |-> t.storageElementTable.kind,
                            spatial  |-> <<t.storageElementTable.shape[H], t.storageElementTable.shape[W]>>,
                            channels |-> t.storageElementTable.shape[C]],
   isWeights      |-> t.isWeights,
   hasCompression |-> t.sparsityCompression # None,
   hasSE          |-> t.seAttr # None]

Contract == INSTANCE SparseBufferContract
              WITH value <- View(buf), failed <- status # "ok",
                   WeightsMapShape <- InferWeightsSparsityMapShape

(* The transforms implement the contract: every step either yields a       *)
(* composite that satisfies spec 3's invariants and keeps its structure    *)
(* and seSize, or aborts, and nothing follows an abort.                    *)
ContractSpec == Contract!Spec

=============================================================================
