------------------------- MODULE MC_SparseBufferText -------------------------
(* Model values for SparseBufferText: the memref and distributed kinds,   *)
(* and a tensor the verifier rejects as a sub-buffer.                      *)
EXTENDS SparseBufferText

MCTypeKinds == {Memref, Distributed, "tensor"}

=============================================================================
