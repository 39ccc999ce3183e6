--------------------------- MODULE MC_SparseBuffer ---------------------------
(* Small instance of SparseBuffer: batch/OC 1-2, channels 2 and 4, spatial *)
(* extents that an SEAttr of factor 2 maps onto each other.                *)
EXTENDS SparseBuffer

MCShapes == {<<n, c, h, w>> : n \in {1, 2}, c \in {2, 4}, h \in {1, 2, 4}, w \in {1, 2}}
MCOffsets == {<<n, c, h, w>> : n \in {0, 1}, c \in {0, 2}, h \in {0, 2}, w \in {0}}
MCElemStrides == {<<1, 1, 1, 1>>, <<1, 1, 2, 1>>}
MCPadAmounts == {<<0, 0, 0, 0>>, <<0, 0, 2, 0>>}

(* Channel counts 4 and 5 under a 2-channel SET: a change of data channels *)
(* that the SET channels do not divide.                                    *)
MCShapesOddChannels == {<<1, c, h, 1>> : c \in {4, 5}, h \in {1, 2}}
=============================================================================
