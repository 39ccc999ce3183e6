------------------------------ MODULE LayerDims ------------------------------
(***************************************************************************)
(* The layout families of vpux/compiler/core/layers.hpp.  Each family     *)
(* names its dimensions (numbered in declaration order, as layers.cpp      *)
(* defines them), declares numSpatialDims, and maps a spatial index to a   *)
(* dimension with getSpatialDim, which throws unless index < its bound.   *)
(*                                                                         *)
(* A caller that needs the spatial dimensions of a layout walks            *)
(* getSpatialDim(0 .. numSpatialDims - 1); the spec makes the variables    *)
(* of that walk the state, one layout per behaviour.                       *)
(***************************************************************************)
EXTENDS Integers, Sequences, SequencesExt

CONSTANT Throw  \* the VPUX_THROW_UNLESS of getSpatialDim

VARIABLES
  layout,  \* the family walked
  index,   \* the next spatial index
  got      \* the dimensions (or Throw) getSpatialDim returned so far

vars == <<layout, index, got>>

(* One family: its dimensions in declaration order, numSpatialDims, and   *)
(* getSpatialDim's bound and offset.                                      *)
Family(dims, numSpatialDims, bound, offset) ==
  [dims |-> dims, numSpatialDims |-> numSpatialDims, bound |-> bound, offset |-> offset]

(* Lines 17-56: Matmul3d activations (B, H, IC) and filter (B, IC, OC).   *)
Dims3D ==
  [Act    |-> Family(<<"B", "H", "IC">>, 2, 1, 1),
   Filter |-> Family(<<"B", "IC", "OC">>, 2, 1, 1)]

(* Lines 62-93: Convolution2D/Pooling2D activations and filter.           *)
Dims4D ==
  [Act    |-> Family(<<"N", "C", "H", "W">>, 2, 2, 2),
   Filter |-> Family(<<"OC", "IC", "KY", "KX">>, 2, 2, 2)]

(* Lines 139-172: Convolution3D/Pooling3D activations and filter.         *)
Dims5D ==
  [Act    |-> Family(<<"N", "C", "D", "H", "W">>, 3, 3, 2),
   Filter |-> Family(<<"OC", "IC", "KZ", "KY", "KX">>, 3, 3, 2)]

(* Lines 221-254: grouped 2D layer activations and filter.                *)
DimsGroups5D ==
  [Act    |-> Family(<<"G", "N", "C", "H", "W">>, 2, 2, 3),
   Filter |-> Family(<<"G", "OC", "IC", "KY", "KX">>, 2, 2, 3)]

Layouts ==
  {Dims3D.Act, Dims3D.Filter, Dims4D.Act, Dims4D.Filter,
   Dims5D.Act, Dims5D.Filter, DimsGroups5D.Act, DimsGroups5D.Filter}

(* getSpatialDim(index): VPUX_THROW_UNLESS(index < bound), then           *)
(* Dim(index + offset) (lines 27-30 and the same body in every family).   *)
GetSpatialDim(f, i) ==
  IF i < f.bound THEN f.dims[i + f.offset + 1] ELSE Throw

Init ==
  /\ layout \in Layouts
  /\ index = 0
  /\ got = <<>>

(* One call of the walk; a throw ends it.                                  *)
Step ==
  /\ index < layout.numSpatialDims
  /\ Throw \notin ToSet(got)
  /\ got' = Append(got, GetSpatialDim(layout, index))
  /\ index' = index + 1
  /\ UNCHANGED layout

Spec == Init /\ [][Step]_vars

(* numSpatialDims agrees with getSpatialDim: every index below it is       *)
(* accepted, and the indices yield distinct dimensions of the family.     *)
SpatialDimsAgree ==
  /\ Throw \notin ToSet(got)
  /\ IsInjective(got)

====
