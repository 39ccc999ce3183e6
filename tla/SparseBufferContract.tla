------------------------- MODULE SparseBufferContract -------------------------
(***************************************************************************)
(* What a SparseBufferType promises its callers (spec 3 and 4.2), with no  *)
(* transform in it: the composite is seen only through its effective      *)
(* shape, the kinds and shapes of its sub-buffers and its flags.  A        *)
(* transform either yields a composite that satisfies invariants 1-4 of    *)
(* spec 3, keeps the composite's structure and its seSize, or fails, and  *)
(* a failure ends the compilation.                                         *)
(***************************************************************************)
EXTENDS SparseBufferType, Integers

CONSTANT WeightsMapShape(_)  \* the weights sparsity-map shape for an output shape

VARIABLES
  value,  \* [shape, dataKind, sm, set, isWeights, hasCompression, hasSE]
  failed  \* a transform has failed

C == 2
H == 3
W == 4

(* Spec 3, invariants 1-4.                                                 *)
Valid(v) ==
  /\ v.dataKind \in {Memref, Distributed}
  /\ \A b \in {x \in {v.sm, v.set} : x # None} :
       /\ b.kind \in {Memref, Distributed}
       /\ v.dataKind = Distributed => b.kind = Distributed
  /\ v.hasSE => ~v.isWeights /\ ~v.hasCompression
  /\ v.sm # None => v.sm.shape = IF v.isWeights THEN WeightsMapShape(v.shape) ELSE v.shape
  /\ v.set # None => v.set.spatial = <<v.shape[H], v.shape[W]>>

(* A transform keeps which parts are present, the flags, the data's kind,  *)
(* and seSize = data channels / SET channels unless the SET broadcasts.    *)
Keeps(v, u) ==
  /\ u.dataKind = v.dataKind
  /\ u.isWeights = v.isWeights /\ u.hasCompression = v.hasCompression /\ u.hasSE = v.hasSE
  /\ (u.sm = None) = (v.sm = None)
  /\ (u.set = None) = (v.set = None)
  /\ v.set # None /\ v.set.channels # 1 =>
       v.shape[C] * u.set.channels = u.shape[C] * v.set.channels

Transform ==
  /\ ~failed
  /\ Valid(value') /\ Keeps(value, value')
  /\ failed' = FALSE

Fail ==
  /\ ~failed
  /\ failed' = TRUE
  /\ UNCHANGED value

Spec == Valid(value) /\ ~failed /\ [][Transform \/ Fail]_<<value, failed>>

=============================================================================
