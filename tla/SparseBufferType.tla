--------------------------- MODULE SparseBufferType ---------------------------
(***************************************************************************)
(* The constructor of VPUIP::SparseBufferType: SparseBufferType::get and   *)
(* its verifier (sparse_buffer.cpp lines 142-173), shared by the transform *)
(* algebra (SparseBuffer) and the text form (SparseBufferText).  A sub-    *)
(* buffer type is a record whose kind field says whether it is a memref,  *)
(* a distributed buffer, or some other type.                               *)
(***************************************************************************)
CONSTANT None   \* an absent optional component (a null mlir::Type/Attr)

Memref == "memref"
Distributed == "distributed"

(***************************************************************************)
(* verify (lines 142-173) and get: an outcome is [err, val].               *)
(***************************************************************************)
IsBuffer(b) == b.kind \in {Memref, Distributed}
IsDistributed(b) == b.kind = Distributed

VerifyError(data, sm, set, isW, comp, se) ==
  CASE ~IsBuffer(data)                                 -> "DataNotBuffer"
    [] sm # None /\ ~IsBuffer(sm)                      -> "SparsityMapNotBuffer"
    [] set # None /\ ~IsBuffer(set)                    -> "SETNotBuffer"
    [] se # None /\ (isW \/ comp # None)               -> "SEAttrNotExclusive"
    [] IsDistributed(data) /\ sm # None /\ ~IsDistributed(sm)   -> "SparsityMapNotDistributed"
    [] IsDistributed(data) /\ set # None /\ ~IsDistributed(set) -> "SETNotDistributed"
    [] OTHER                                           -> "ok"

Get(data, sm, set, isW, comp, se) ==
  [err |-> VerifyError(data, sm, set, isW, comp, se),
   val |-> [data |-> data, sparsityMap |-> sm, storageElementTable |-> set,
            isWeights |-> isW, sparsityCompression |-> comp, seAttr |-> se]]

Throw(e) == [err |-> e, val |-> None]

=============================================================================
