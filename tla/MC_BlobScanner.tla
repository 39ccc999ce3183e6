---------------------------- MODULE MC_BlobScanner ----------------------------
(* Three of defaultProcMap's entries, each one flag bit, and headers that  *)
(* are allocated or not, carry any mix of processor bits, have any of the  *)
(* three kinds of type and one of two sizes.                               *)
EXTENDS BlobScanner

MCProcessorMap == [g \in {"EXEC", "DPU", "DMA"} |->
                     CASE g = "EXEC" -> {"SHF_EXECINSTR"}
                       [] g = "DPU"  -> {"VPU_SHF_PROC_DPU"}
                       [] g = "DMA"  -> {"VPU_SHF_PROC_DMA"}]

MCSectionHeaders ==
  [flags: {a \cup p : a \in {{}, {ALLOC}},
                      p \in SUBSET {"SHF_EXECINSTR", "VPU_SHF_PROC_DPU", "VPU_SHF_PROC_DMA"}},
   type: {"PROGBITS", "NOBITS", "OTHER"}, size: {1, 2}]

=============================================================================
