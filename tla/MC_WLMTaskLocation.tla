------------------------- MODULE MC_WLMTaskLocation -------------------------
(* Two of the pass's task types, with group sizes 1 and 2 (the runtime's   *)
(* counts are 32 and more; the ring only needs a size above 1 to overlap), *)
(* on two tiles.                                                           *)
EXTENDS WLMTaskLocation

MCTaskTypeOrder == <<"DPUInvariant", "DPUVariant">>

MCGroupSize == [t \in {"DPUInvariant", "DPUVariant"} |-> IF t = "DPUInvariant" THEN 1 ELSE 2]

=============================================================================
