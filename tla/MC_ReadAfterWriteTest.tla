------------------------ MODULE MC_ReadAfterWriteTest ------------------------
EXTENDS ReadAfterWriteTest

(* Test descriptors: u8 or f16 input, weights of 32 or 48 bytes, one or   *)
(* two output channels (a 16- or 32-byte weights table), equal input and  *)
(* output sizes, and iteration counts that give one to three rounds with *)
(* and without partial WLM.  Some of them fail the alignment checks.      *)
MCTestDescs ==
  {d \in [inBits: {8, 16}, weightsSize: {32, 48}, oc: {1, 2}, inputSize: {32, 64, 96},
         outputSize: {32, 64, 96}, iterationCount: 4 .. 7, wlmPartial: {FALSE, TRUE}] :
     d.inputSize = d.outputSize}

(* insertWLMStartSequence: without partial WLM no barrier is taken; with  *)
(* it the start sequence's barrier 0 (released before the test's tasks)   *)
(* is waited on by the first DMA and the first free barrier is 1.          *)
MCWLMStart ==
  [p \in BOOLEAN |-> IF p THEN [wait |-> {0}, free |-> 1] ELSE [wait |-> {}, free |-> 0]]
=============================================================================
