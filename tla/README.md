# Model checking the VPUX sparse buffer type and the WLM task-location pass

These TLA+ modules model the parts of this repository that carry state and
control that a model checker can explore:

- `VPUIP::SparseBufferType`, the distributed sparse buffer type algebra.
  Its transforms and verifier are in
  `src/src/vpux_compiler/src/dialect/VPUIP/IR/types/sparse_buffer.cpp`.
- The text form of that type: `print` and `parse` in the same file.
- `ResolveWLMTaskLocationPass`, in
  `src/src/vpux_compiler/src/dialect/VPUMI40XX/passes/resolve_WLM_task_locations.cpp`.
- `IE::MergeFakeQuantPass`, in
  `src/src/vpux_compiler/src/dialect/IE/transforms/passes/merge_fake_quant.cpp`.
- The `BlobScanner` of the loader tool, in
  `src/tools/vpux-binutils/vpux-loader/blob_scanner.hpp`.
- The layout families of `src/src/vpux_compiler/include/vpux/compiler/core/layers.hpp`.
- The read-after-write DMA/DPU hardware test builder, in
  `src/src/vpux_translate_utils/src/hwtest/buildReadAfterWriteDMADPUTest.cpp`,
  run on a model of the hardware runtime's barrier contract.

Every definition that models code is listed in `PROJECT.json` under "map",
with the source lines it translates.

## 1. The system

### Components, their state and operations

**Sparse composite (`SparseBufferType`).** This is an immutable value with six fields:

- `data`: a memref or a distributed buffer;
- an optional `sparsityMap`;
- an optional `storageElementTable` (SET);
- an `isWeights` flag;
- an optional `sparsityCompression` (per-output-channel element counts);
- an optional `seAttr`, a shape-expansion mapping from the stored input shape
  to a larger effective shape.

It has no mutable state of its own. The state a model checker explores is the
value that a compiler pass threads through a chain of transforms. Each
transform returns a new value, or aborts the compilation with `VPUX_THROW`
or a verifier failure.

The operations are:

- `verify`/`get` (lines 142-173);
- `getShape` (179-182, the effective shape);
- the NDTypeInterface transforms (288-568):
  - changeShape and changeShapeElemType;
  - changeElemType, changeDimsOrder and changeMemSpace;
  - changeStrides and changeTypeComponents;
  - extractDenseTile and extractViewTile;
  - eraseTiledInfo and pad;
- the explicit-distribution overloads (596-893):
  - changeShape/changeShapeElemType;
  - changeTypeComponents;
  - extractDenseTile and extractViewTile.

**Collaborators that are not under `src/`.** These are modelled from the spec
and marked `spec_modelled` in the map:

- the NDTypeInterface of a single memref or distributed buffer;
- `SEAttr` (`backInferInputShape`, `inferOutputShape`, `extractTile`);
- `NCESparsity::inferWeightsSparsityMapShape`;
- `tileSparsityCompression`;
- the `getExplicitDistrAttrFor*` derivations.

**Text encoding.**

- `print` writes the present fields in one fixed order.
- `parse` is a chain of optional-token branches. It returns the null
  `Type()` on a syntax error, and otherwise calls `get`.
- The spec (§6, §8) requires `parse(print(T)) == T` for every valid T.

**WLM task-location pass.** For each tile and each of four task types, the
pass works in three steps:

1. It declares `2 * groupSize` task buffers.
2. It walks the list's chain of execution groups.
3. It gives the task with `taskCtr` k in a group the buffer
   `groupCtr + k`, where `groupCtr` alternates between 0 and `groupSize`
   (lines 57-90).

**MergeFakeQuant pass.** Two rewrite patterns go to MLIR's greedy driver:

- `MergeQuantDequant` replaces Quantize -> Dequantize by a FakeQuantize of
  the Quantize's input (lines 35-61);
- `MergeQuantCastDequant` does the same for Quantize -> QuantizeCast ->
  Dequantize, if the two quantized types have the same number of levels
  (lines 80-124).

The FakeQuantize's ranges come from `getFakeQuantParams` of the types. The
driver applies the patterns in an order it chooses and erases ops left
without users, until nothing matches (lines 140-151).

**Blob scanner.** The constructor walks the section headers of an ELF blob
once (lines 83-107). It files each section with `SHF_ALLOC` in two
`MemoryRequirementsCategory` objects: by processor (one group per processor
whose flag bit it carries) and by allocation type (PROGBITS or NOBITS). A
category keeps the requirements and total of each group, and its own total.

**Layout families.** Each family in `layers.hpp` (Dims3D, Dims4D, Dims5D and
DimsGroups5D, each with Act and Filter) names its dimensions and declares
`numSpatialDims`. Its `getSpatialDim(index)` throws unless `index` is below a
bound written separately, and returns `Dim(index + offset)`.

**Read-after-write test builder.** `buildReadAfterWriteDMADPUTest` lays
out weights, weight table, input and two outputs in CMX (lines 61-89), then
emits a program of tasks linked by barriers:

- three DMAs copy the weights, weight table and input into CMX
  (lines 156-178); the input DMA waits on the WLM start barrier;
- each loop round (lines 179-222) emits a DPU that reads the last output as
  its input and writes the next output, then swaps the two output buffers
  (`Relocate`);
- a final DMA copies the last output to the network output (lines 224-232).

A task waits on a set of barriers and updates another set. The runtime that
runs the program (the DMA and DPU engines) is not in the repository.

### How they interact

- A pass asks a composite for a transform.
- The composite back-infers the data shape through the `seAttr`.
- It co-transforms the sparsity map, with one rule for weights and another
  for activations. It changes only the spatial dimensions of the SET.
- On tiles it re-slices the compression descriptor.
- The explicit overloads also derive one distribution per sub-buffer from the
  composite's attr, and check seSize (data channels / SET channels).
- The result goes through `get`, and so through `verify`.
- The text form serialises the same fields.
- The test builder's barrier ids come after the WLM start sequence's
  (`freeBarrierId`); its loop count is tied to the same ids.

### What makes each part correct, and what is hard

What makes each part correct:

- **The sub-buffers agree with the data after any sequence of transforms.**
  - An activation map has the effective shape and the data's dims order.
  - A weights map has the shape inferred from the output channels.
  - The SET spans the effective spatial extent.
  - All sub-buffers share the data's memory space and distribution.
- **seSize is preserved.**
- **Data under an `seAttr` stays compact.**
- **The compression descriptor has one count per output channel.**
- **Print and parse are inverse.**
- **The WLM ring:** every index stays inside the declared buffers, and two
  consecutive groups never share a buffer.
- **MergeFakeQuant:** every returned value computes the same function after
  the pass, whatever order the patterns fire in.
- **Blob scanner:** each group lists and sums the sections filed under it,
  and the allocation-type total is the sum of the allocated sections.
- **Read-after-write test:** every task reads what the task before it in
  the dataflow wrote, no two tasks the barriers let run together touch the
  same CMX bytes, and the network output is eventually the input.

None of these can be checked on a single call. They depend on sequences of
transforms in orders nobody writes tests for, or on field combinations that
are rarely printed. `PROJECT.json` "hazards" lists each one at its line.

## 2. Modules

| module | models | state | actions |
|---|---|---|---|
| `SparseBufferType` | verify (142-173) and `get` | none (operators) | `VerifyError`, `Get` return an outcome `[err, val]` |
| `SparseBuffer` | the transforms (179-182, 288-568, 596-893) | `buf` (the composite), `status` ("ok" or the abort) | one operator per method, each returning its final `get`; `Next` applies one to `buf` with inputs drawn from small sets |
| `SparseBufferText` | `print` (18-36), `parse` (38-136) | `input` tokens, `pos`, `pc` (the parse stretch), `parsed` fields, `result` | `ParseData`, `ParseAfterData`, `ParseAfterSparsityMap`, `ParseAfterSET`, each a stretch of parse between branch points with all its early returns |
| `WLMTaskLocation` | `safeRunOnFunc` (43-90) | `pending` (outer loop), `list`, `groupIdx`, `groupCtr`, `loc` (setTaskLocation calls) | `SkipEmptyList`, `StartList`, `SolveGroup` (one while-loop iteration), `EndList` |
| `SparseBufferContract` | the contract of spec §3 and §4.2, no code | `value` (the composite seen through its effective shape, sub-buffer kinds and shapes, SET spatial extent and channels, flags), `failed` | `Transform` (any step to a valid composite that keeps structure and seSize), `Fail` |
| `MergeFakeQuant` | both patterns (35-61, 80-124) and `safeRunOnFunc` (140-151) | `ops` (op id -> kind, operand, quantized type, FakeQuantize params), `alive`, `orig` (the function before the pass) | `MergeQuantDequant(d)`, `MergeQuantCastDequant(d)`, `EraseDeadOp(o)` (the driver's dead-op erasure) |
| `BlobScanner` | the constructor (79-108) and `addRequirementToGroup` (37-42) | `blob` (section headers), `sectionIdx`, the two categories `[map, total]` | `ScanSection`, one loop iteration with both categories' updates |
| `LayerDims` | the eight families with a `getSpatialDim` (lines 17-56, 62-93, 139-172, 221-254) | `layout`, `index`, `got` (the results of a caller's walk over `[0, numSpatialDims)`) | `Step`, one `getSpatialDim` call |
| `ReadAfterWriteTest` | `Layout` (61-89), the DMA/DPU builders, the loop (179-222) and `Build` (156-232); the runtime from its contract | `tasks` (the program, fixed at Init), `cmx` (granule -> token), `netOut`, `status` (idle/running/done per task), `read` (what a task read at Start) | `Start(t)` (issue in order per engine once its wait barriers are released; read sources), `Finish(t)` (write destination) |
| `ReadAfterWriteContract` | what the test promises, no code | `out` (network output) | `DeliverInput`: the output goes from unwritten to the network input, once |
| `MC_*` | values for the constants | | |

### How the state corresponds to the code

**Sub-buffers.** A sub-buffer is a record. Its fields are:

- `kind` (memref or distributed);
- `shape` (4D, N C H W; for weights the first dimension is OC);
- `order`, `mem` and `elem`;
- `compact` (whether its strides are compact);
- `dist` (the composite-level attr it was derived from).

**seAttr.** An `seAttr` is abstracted to its upsampling factor on H and W.
Requested shapes, tiles and pads are aligned to that factor, as the SEAttr
implementations require.

**Initial values.** The initial composites are those the rewrites that create
them build:

- activations with an optional map, an optional SET (whose channels divide
  the data's) and an optional `seAttr`;
- weights with their inferred map and an optional compression descriptor.

Each comes in a memref form and a distributed form.

**Inputs.** The explicit overloads other than changeShapeElemType cast the
data to `ClusterTypeInterface` unchecked, so they are only issued on
distributed composites.

**Parser.**

- Text is a sequence of tokens: keywords, types, and attributes tagged with
  their class, as `parseAttribute<T>` requires.
- The inputs are `<data=T` followed by every arrangement of the other fields,
  each at most once, followed by `>`. This covers every printed form and every
  reordering of one.
- `parse` calls `get`, which verifies only in debug builds. A result the
  verifier rejects is recorded as `Invalid`.

**WLM pass.**

- A group's ops are chosen when the loop reaches the group.
- The grouping pass that builds the groups is not in this repository. It puts
  at most `groupSize` tasks of a type in a group, and the model assumes this.

**MergeFakeQuant.**

- A function is a small dataflow graph. Op 0 is the argument. A FakeQuantize
  keeps the id of the Dequantize it replaces, because `replaceOpWithNewOp`
  gives it every use of the old op.
- `getFakeQuantParams` and the value semantics of Quantize, QuantizeCast,
  Dequantize and FakeQuantize are not in this repository. They are modelled
  from the IE operation definitions and marked `spec_modelled`.
- Numbers are exact rationals, and `Eval` computes a returned value from the
  argument. Quantize and FakeQuantize use the same rounding.
- QuantizeCast keeps the stored integer and changes only its type.

**Blob scanner.** The ELF reader is abstracted to a sequence of headers
`[flags, type, size]`. Flags are sets of bits, so `sh_flags & mask` is an
intersection. `print` only formats what the categories hold.

**Read-after-write test.**

- `Build(d)` is a pure operator from a test descriptor to `[thrown, tasks]`.
  `thrown` is the builder's alignment `VPUX_THROW_UNLESS`. `Rounds` is the
  `for` loop as a RECURSIVE operator.
- Memory is 16-byte granules. A granule holds a token `<<space, j>>`, the
  j-th granule of the data first loaded from `space` (NetIn, Weights, Table),
  or `Uninit`. A DMA copies tokens; the DPU in this test is a copy of its
  input to its output (the weights are identity), so it copies tokens too.
- The runtime is modelled from the barrier contract the builder relies on:
  tasks of one engine issue in program order, several may be in flight, a
  task starts when every barrier it waits on has been updated by all of its
  updaters, reads at Start and writes at Finish. It is marked `spec_modelled`.
- The WLM start sequence (`insertWLMStartSequence`) is not in the
  repository; the MC module assumes it either emits nothing (freeBarrierId 0)
  or one barrier 0 that the input DMA waits on (freeBarrierId 1).

## 3. Runs

| run | cfg | expect | what it shows |
|---|---|---|---|
| sparse_buffer_core | `SparseBuffer.cfg` | pass | `TypeOK`, `SubBuffersAgree`, `DistributionsAgree` and `WeightsMapOrderFixed` hold over every sequence of plain and explicit transforms (22,912 states) |
| se_size_explicit | `SeSizeExplicit.cfg` | pass | with only the explicit overloads given an attr, plus layout changes, `SparseBuffer` refines `SparseBufferContract` (`ContractSpec`, the contract instantiated with `value <- View(buf)`, `failed <- status # "ok"`); the contract's steps keep seSize, so the run shows these overloads never change it |
| se_size_plain | `SeSizePlain.cfg` | violation | a plain `changeShape` from 2 to 4 data channels under a 2-channel SET succeeds, and seSize changes from 1 to 2 |
| se_attr_strided | `SEAttrStrided.cfg` | violation | a strided `extractViewTile` of a composite with an `seAttr` succeeds: the stride check runs `any_of` over `[begin, begin)` (line 478, also 833) |
| compression_stale | `CompressionStale.cfg` | violation | a weights reshape that changes OC keeps the old compression descriptor |
| text_canonical | `SparseBufferText.cfg` | pass | everything `parse` accepts is exactly `print` of its result (answers the spec's open question on whether parse and print are a bijection) |
| text_round_trip | `RoundTrip.cfg` | violation | valid composites such as `<data=T, SE>` or `<data=T, COMPRESSION>` print to text that `parse` rejects |
| wlm_task_location | `WLMTaskLocation.cfg` | pass | task locations stay inside the `2 * groupSize` buffers, and consecutive groups use disjoint halves |
| spatial_dims | `SpatialDims.cfg` | violation | `Dims3D::Act` and `Dims3D::Filter` declare `numSpatialDims = 2`, but `getSpatialDim(1)` throws: the bound is `index < 1` (lines 26-29, 41-44) |
| merge_fake_quant | `MergeFakeQuant.cfg` | pass | `SemanticsPreserved`: in every order of rewrites, every returned value keeps its value on every input. |
| blob_scanner | `BlobScanner.cfg` | pass | `RequirementsMatchBlob`: after every section, each group lists its allocated sections once and in order with the matching total, and the allocation-type total is the sum of the allocated sections; the processor total is left out on purpose (section 6) |
| read_after_write | `ReadAfterWriteTest.cfg` | pass | for every test descriptor the builder accepts, every task reads the data intended for it (`EveryReadSeesItsData`), no two concurrently running tasks overlap in CMX (`NoRaceOnCMX`) and the network output goes from unwritten to the input, once and eventually (`TestContract`, refinement of `ReadAfterWriteContract`) |

`SeSizeDivision.cfg` is kept beside the runs but not in the run list: with
data channels 4 and 5 under a 2-channel SET, TLC shows the explicit
`changeShapeElemType` from 4 to 5 channels passing the integer-division
seSize check (4/2 = 5/2) while the ratio changes. It is the hazard at
`sparse_buffer.cpp:652` in `PROJECT.json`.

Each property of each pass run has a mutant in `PROJECT.json`. A mutant is a
plausible bug in the definition it replaces, and TLC finds the property
violated under the mutant. Examples:

- the weights branch dropped from changeShapeElemType;
- the SET left with its old distribution;
- a weights sparsity map given the activation shape in the explicit
  `changeTypeComponents`;
- the ring's modulo taken by one half;
- the levels check dropped from `MergeQuantCastDequant`;
- a group's total not updated when a section is added to it;
- the DPU of a round waiting on the previous round's barrier instead of its
  own, so it reads an output still being written;
- the input placed over the weight table.

The violation runs are written up under "findings" in `PROJECT.json`.

## 4. Bounds and why they are enough

**SparseBuffer.**

- Shapes have N in {1,2}, C in {2,4}, H in {1,2,4} and W in {1,2}.
- SET channels are {1,2}, the SE factor is 2, compression counts are {1,2},
  and two orders, memory spaces, element types and distributions are used.
- These bounds are enough for:
  - weights maps whose OC changes;
  - SETs with seSize 1 and 2, and a broadcast SET with 1 channel;
  - SE-expanded shapes that are tiled and padded on H;
  - tiles with offsets in C and H;
  - memref and distributed composites under two different attrs.
- `SeSizeDivision.cfg` uses its own shapes, `<<1, c, h, 1>>` with c in {4, 5},
  and a 2-channel SET, to reach a channel change the SET does not divide.
- The search depth is not bounded; the state space closes at 22,912 states.
- The initial layout is fixed to one order, memory space and element type.
  The transforms reach the others.

**Text.**

- Three type kinds: memref, distributed, and a tensor the verifier rejects.
- One compression attribute and one SE attribute.
- All k-permutations of the five optional fields: 6,654 inputs.

**WLM.**

- Group sizes 1 and 2, on two tiles.
- Up to three groups per list, so the ring wraps.
- Up to three ops per group, with other-type ops mixed in.

**MergeFakeQuant.**

- Types have scales 1, 2 and 1/2, zero points 0 and 1, and storage ranges
  0..3 or 0..2. The second range is one level short, like `u8:[0..254]`.
- The first function is `Quantize(x)`, dequantized both directly and
  through a QuantizeCast, so the two patterns share the Quantize (144
  functions).
- The second dequantizes `Quantize(x)` through one QuantizeCast and through
  a chain of two. The chain reaches the early return of lines 87-90 (the
  QuantizeCast's input is not a Quantize), and the other Dequantize is still
  merged (1,728 functions). Together: 3,240 states, every order of rewrites
  and erasures.
- The inputs are -2..7. This covers values below, inside and above every
  type's real range, including rounding ties.

**Blob scanner.**

- Three processors (EXEC, DPU, DMA), each with one flag bit.
- Headers take every mix of ALLOC and processor bits, PROGBITS, NOBITS or
  another type, and size 1 or 2.
- Blobs have up to two sections (9,313 blobs). Two are enough for a group to
  hold two requirements and for a section to sit in two groups.

**Read-after-write test.**

- `inBits` 8 and 16, weights 32 and 48 bytes, `oc` 1 and 2, input (= output)
  32, 64 and 96 bytes, `iterationCount` 4 to 7, with and without the WLM
  start barrier: 192 descriptors. Those the builder's alignment check rejects
  (an f16 layout with a 48-byte weights buffer or one output channel) are
  dropped, as the builder throws before emitting anything.
- Counts 4 to 7 give one to three rounds (freeBarrierId 1 or 0), so the
  output buffers are relocated twice and the final DMA reads the first or a
  relocated buffer. The run has 2,880 states and takes a few seconds.
- Counts at or below freeBarrierId + 2 are left out: they give a program
  that reads unwritten CMX or deadlocks (see "hazards").

## 5. Fairness

`ReadAfterWriteTest` assumes weak fairness of each task's `Start` and
`Finish`: a DMA or DPU engine with a task whose barriers are released does
issue it, and a running task completes. This is what hardware engines do,
and it is what `TestContract` needs for the contract's eventual delivery of
the output: with it, that delivery fails exactly when the barrier wiring
deadlocks.

All the other properties are safety properties, and no fairness is assumed
for them:

- A compilation may stop after any transform.
- The parser, the WLM pass and the blob scan terminate by construction.

Terminal states are real ends: an abort, a finished parse, or the end of the
pass, scan, walk or test program. So the cfgs say `CHECK_DEADLOCK FALSE`.

## 6. What is not modelled

- **Queries.**
  - `getTotalAllocSize` and `getCompactAllocSize` (250-286) are size sums and
    change no state. `CompressionCoversData` states the precondition they rely
    on.
  - The other queries (179-248) delegate to the data.
- **Offsets and strides.** Tile offsets matter only for compression slicing.
  Strides are abstracted to compact or not.
- **Distributions.** The derivation policy (`getExplicitDistrAttrFor*`) is
  out of the spec's scope. It is modelled as tagging each sub-buffer with the
  composite's attr. The spec's contract on split factors is not checked.
- **Other source files.** These are listed as `not_modelled` in
  `PROJECT.json`, each with a reason:
  - `abs.cpp` (size arithmetic). `fitIntoCMX` compares against the whole
    CMX when `reservedMem` is 0 and against the fragmentation-aware size
    otherwise. Both sizes are defined outside this repository, and the check
    is one comparison. It is listed as a hazard without a property.
  - bufferization, codegen and register types. `isLegalConvertOp` sends a
    convert with an element type outside f16, f32 and the integers to the
    DMA path, although `isConvertSupportedOnDMA` refused it. That predicate
    is not in the repository, and the choice is one call with no state. It
    is listed as a hazard without a property.
  - test builders and tests.
- **MergeFakeQuant.** These are not modelled:
  - per-axis quantization;
  - a QuantizeCast between storage types with different lowest values, such
    as unsigned to signed, because what it does to the stored integer is not
    defined here;
  - the driver's iteration limit. Each rewrite removes a match, so the driver
    converges in one sweep.
- **Layout families.** The `Dim` values are defined in `layers.cpp`, which is
  not in this repository. They are taken in declaration order. The families
  without `getSpatialDim` (kernels, strides, pads) are plain name tables.
- **Plugin metrics.** `vpux_metrics.cpp` is not modelled. It resolves a device
  name against the backends' list, then asks the backend for the device. What
  the backend's `getDevice` accepts is not in this repository, so the
  outcome of every query but `getDeviceName` cannot be stated. A bare
  platform name is accepted when several devices share that platform, while
  an empty name is refused as ambiguous. `GetDeviceUuid` returns an empty
  Uuid where the other getters throw. These are listed as a hazard without a
  property: each query is one lookup with no state to explore.
- **Blob scanner.** A section whose flags name two processors is added to
  both groups, so the by-processor total counts it twice. The comment at
  lines 89-90 concedes this is not handled. `RequirementsMatchBlob` checks
  each group's list and total and the allocation-type total, and leaves the
  processor total out on purpose: it would only restate the accounting the
  comment calls unhandled. The totals are summed
  exactly. A 64-bit wrap of the sizes read from the file is out of TLC's
  reach.

- **Read-after-write test.**
  - The hardware runtime is not in the repository; it is modelled from the
    barrier contract.
  - CMX capacity: the builder never checks that the layout fits in CMX, and
    the CMX size is not in the repository.
  - Input and output of different sizes, and loop counts that give no round,
    are hazards in `PROJECT.json` and not enumerated by the run.
  - The MLIR builder calls, types and the DPU's arithmetic are abstracted;
    the DPU is a copy because the test's weights are identity.

## 7. Refinement

`SparseBufferContract` states what the composite promises, with no
transform in it:

- every step either yields a composite that satisfies invariants 1-4 of
  spec §3;
- it keeps which sub-buffers are present, the flags, the data's kind and
  seSize;
- or it aborts, and nothing follows an abort.

`SparseBuffer` maps onto it through `View`:

- the effective shape;
- each sub-buffer's kind and shape;
- the SET's spatial extent and channels;
- the flags.

The mapping keeps exactly the fields the contract constrains. The
refinement is checked as `PROPERTY ContractSpec`.

- It holds for passes that use the explicit overloads with an attr.
- Under the full `Spec` it fails. TLC's first counterexample is the seSize
  step of the `se_size_plain` run.

`ReadAfterWriteContract` states what the test promises: the network output
stays unwritten until, in one step, it becomes the network input, and this
eventually happens. `ReadAfterWriteTest` maps onto it with `out <- netOut`,
checked as `PROPERTY TestContract`. Only the final DMA writes `netOut`, so
the refinement says that the chain of DPUs and buffer swaps delivers the input
unchanged.

## 8. Plan

Modelled so far:

- the composite algebra, with its contract;
- the text form;
- the WLM ring;
- the MergeFakeQuant pass, with a QuantizeCast chain no
  pattern may merge;
- the blob scanner;
- the layout families' spatial dimensions;
- the read-after-write test builder, with its contract.

Next:

1. The spec's split-factor contract for the SET distribution (channel split
   divided by seSize), with distributions given split factors; this would
   replace the identity model of `getExplicitDistrAttrFor*`.
2. Strides as values rather than a compact flag, so that `changeStrides`
   with an `seAttr` checks the effective data's strides as the code does.
3. The size queries `getTotalAllocSize`, `getCompactAllocSize` and
   `getNumElements` (lines 199-286) as operators, with a property relating
   them to the sub-buffers.
   `getCompactAllocSize` takes the data's total, not compact, size
   (line 272). With strides as values (item 2), a property comparing it
   with the compact size of every sub-buffer would decide whether that is
   intended.
4. A QuantizeCast between storage types of different signedness in
   MergeFakeQuant, once the stored-integer semantics of that cast is fixed
   (hazard at `merge_fake_quant.cpp:104`).
