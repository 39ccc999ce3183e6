-------------------------- MODULE ReadAfterWriteTest --------------------------
(***************************************************************************)
(* The read-after-write DMA/DPU hardware test                              *)
(* (vpux_translate_utils/src/hwtest/buildReadAfterWriteDMADPUTest.cpp),    *)
(* and the execution of the task list it builds.                          *)
(*                                                                         *)
(* The builder lays out CMX (weights, weights table, input, then a DPU    *)
(* output and a DMA output per round), emits three DMAs that load input,  *)
(* weights and table, then rounds of DMA copy -> DPU convolution, and a   *)
(* last DMA to the network output.  The DPU output of a round overlaps    *)
(* the last rewritable_bytes of that round's input buffer: the test only  *)
(* passes if the round's DMA has read the input before the DPU writes it. *)
(* Only barriers order the DMA and the DPU.                                *)
(*                                                                         *)
(* The runtime is modelled from its contract, not from code of this       *)
(* repository: each engine starts its tasks in program order, a task      *)
(* starts once every barrier it waits on is released, reads its sources   *)
(* when it starts and writes its destination when it finishes, and a      *)
(* barrier is released once every task that updates it has finished.     *)
(* Memory is kept per 16-byte granule, each holding a token naming the    *)
(* datum it carries.                                                       *)
(***************************************************************************)
EXTENDS Integers, Sequences, SequencesExt

CONSTANTS
  TestDescs,  \* [inBits, weightsSize, oc, inputSize, outputSize, iterationCount, wlmPartial]
  WLMStart,   \* partial-WLM flag -> [wait, free] of insertWLMStartSequence
  Uninit      \* the content of CMX nobody has written

VARIABLES
  tasks,   \* the task list the builder emitted (fixed once built)
  cmx,     \* CMX granule -> token
  netOut,  \* the network output buffer, granule -> token
  status,  \* task -> "idle" | "running" | "done"
  read     \* task -> what it read when it started

vars == <<tasks, cmx, netOut, status, read>>

Granule == 16

(* A buffer: its memory space, byte offset and byte size.                 *)
Region(space, off, size) == [space |-> space, off |-> off, size |-> size]

(* What a task sees in a space that nobody writes: the network input and  *)
(* the two constants (weights and weights table).                          *)
Source(space, j) == <<space, j>>
Data(space, n) == [j \in 0 .. n - 1 |-> Source(space, j)]

(* A DMA: waits, updates, src, dst.  A DPU: waits, updates, the regions   *)
(* it reads (input, weights, table) and the output it writes.              *)
DMA(waits, updates, src, dst) ==
  [engine |-> "DMA", waits |-> waits, updates |-> updates, srcs |-> <<src>>, dst |-> dst]
DPU(waits, updates, input, weights, table, out) ==
  [engine |-> "DPU", waits |-> waits, updates |-> updates,
   srcs |-> <<input, weights, table>>, dst |-> out]

(* Mutant of lines 68-69: the element size taken in bytes, not bits.      *)
LayoutByteSize(d) ==
  LET alignment == (16 * (d.inBits \div 8)) \div 8
      weights   == 0
      table     == weights + d.weightsSize
      input     == table + 4 * d.oc * 4
      dpuOut    == input + d.inputSize - alignment
      dmaOut    == dpuOut + d.outputSize
  IN [alignment |-> alignment, weights |-> weights, table |-> table, input |-> input,
      dpuOut |-> dpuOut, dmaOut |-> dmaOut,
      ok |-> \A off \in {weights, table, input, dpuOut, dmaOut} : off % alignment = 0]

(* Mutant of line 78: the input placed at the table's offset (the table  *)
(* size left out of the sum).                                              *)
LayoutInputOverTable(d) ==
  LET alignment == (16 * d.inBits) \div 8
      weights   == 0
      table     == weights + d.weightsSize
      input     == table
      dpuOut    == input + d.inputSize - alignment
      dmaOut    == dpuOut + d.outputSize
  IN [alignment |-> alignment, weights |-> weights, table |-> table, input |-> input,
      dpuOut |-> dpuOut, dmaOut |-> dmaOut,
      ok |-> \A off \in {weights, table, input, dpuOut, dmaOut} : off % alignment = 0]

(* Lines 61-89: the fixed part of the CMX layout and its alignment checks. *)
Layout(d) ==
  LET alignment == (16 * d.inBits) \div 8
      weights   == 0
      table     == weights + d.weightsSize
      input     == table + 4 * d.oc * 4
      dpuOut    == input + d.inputSize - alignment
      dmaOut    == dpuOut + d.outputSize
  IN [alignment |-> alignment, weights |-> weights, table |-> table, input |-> input,
      dpuOut |-> dpuOut, dmaOut |-> dmaOut,
      ok |-> \A off \in {weights, table, input, dpuOut, dmaOut} : off % alignment = 0]

(* Lines 182-195: a round after the first reads the previous DMA output   *)
(* and places a new DPU output and DMA output after it.                    *)
Relocate(d, st) ==
  LET dpuOff == st.dmaOff + d.outputSize - st.alignment
      dmaOff == dpuOff + d.outputSize
  IN [st EXCEPT !.inputCMX = st.outputDMACMX,
                !.dpuOff = dpuOff, !.dmaOff = dmaOff,
                !.outputDPUCMX = Region("CMX", dpuOff, d.outputSize),
                !.outputDMACMX = Region("CMX", dmaOff, d.outputSize),
                !.ok = st.ok /\ dpuOff % st.alignment = 0 /\ dmaOff % st.alignment = 0]

(* Mutant of line 208: the DPU waits on the barrier the round's DMA waits *)
(* on, not on the one the DMA updates.                                     *)
RoundDPUEarly(d, i, st) ==
  LET r == IF i # st.startIter THEN Relocate(d, st) ELSE st
  IN [r EXCEPT
        !.tasks = r.tasks \o
                  <<DMA({r.waitB}, {i}, r.inputCMX, r.outputDMACMX),
                    DPU({r.waitB}, {i + 1}, r.inputCMX, r.weightsCMX, r.tableCMX, r.outputDPUCMX)>>,
        !.waitB = i + 1]

(* Lines 197-222: one round; the DMA copies the input to this round's DMA *)
(* output, the DPU convolves the same input into its output.               *)
Round(d, i, st) ==
  LET r == IF i # st.startIter THEN Relocate(d, st) ELSE st
  IN [r EXCEPT
        !.tasks = r.tasks \o
                  <<DMA({r.waitB}, {i}, r.inputCMX, r.outputDMACMX),
                    DPU({i}, {i + 1}, r.inputCMX, r.weightsCMX, r.tableCMX, r.outputDPUCMX)>>,
        !.waitB = i + 1]

(* Lines 179-223: for (i = startIter; i + 1 < iterationCount; i += 2).    *)
RECURSIVE Rounds(_, _, _)
Rounds(d, i, st) ==
  IF i + 1 < d.iterationCount THEN Rounds(d, i + 2, Round(d, i, st)) ELSE st

(* buildReadAfterWriteDMADPUTest (lines 26-243): the task list it emits,  *)
(* and whether one of its VPUX_THROW_UNLESS checks failed.                 *)
Build(d) ==
  LET l    == Layout(d)
      wlm  == WLMStart[d.wlmPartial]
      f0   == wlm.free
      init == [tasks |-> <<DMA(wlm.wait, {f0}, Region("NetIn", 0, d.inputSize),
                               Region("CMX", l.input, d.inputSize)),
                           DMA({}, {f0}, Region("Weights", 0, d.weightsSize),
                               Region("CMX", l.weights, d.weightsSize)),
                           DMA({}, {f0}, Region("Table", 0, 16 * d.oc),
                               Region("CMX", l.table, 16 * d.oc))>>,
               waitB |-> f0, startIter |-> f0 + 1, alignment |-> l.alignment,
               inputCMX |-> Region("CMX", l.input, d.inputSize),
               weightsCMX |-> Region("CMX", l.weights, d.weightsSize),
               tableCMX |-> Region("CMX", l.table, 16 * d.oc),
               outputDMACMX |-> Region("CMX", l.dmaOut, d.inputSize),
               outputDPUCMX |-> Region("CMX", l.dpuOut, d.outputSize),
               dpuOff |-> l.dpuOut, dmaOff |-> l.dmaOut, ok |-> l.ok]
      st   == Rounds(d, f0 + 1, init)
  IN [thrown |-> ~st.ok,
      tasks  |-> st.tasks \o <<DMA({st.waitB}, {d.iterationCount}, st.outputDMACMX,
                                   Region("NetOut", 0, d.outputSize))>>]

(* The task lists of the descriptors the builder accepts.                  *)
Programs == {Build(d).tasks : d \in {d \in TestDescs : ~Build(d).thrown}}

Tasks == tasks
TaskIds == DOMAIN tasks

(* The granules of a region, and what a region holds now.                  *)
Granules(r) == (r.off \div Granule) .. ((r.off + r.size) \div Granule - 1)
Contents(r) ==
  [j \in 0 .. r.size \div Granule - 1 |->
     CASE r.space = "CMX"    -> cmx[r.off \div Granule + j]
       [] r.space = "NetOut" -> netOut[j]
       [] OTHER              -> Source(r.space, r.off \div Granule + j)]

(* The CMX granules the test touches.                                      *)
CMXGranules(ts) ==
  UNION {Granules(r) : r \in {r \in {ts[t].dst : t \in DOMAIN ts} \cup
                                     UNION {ToSet(ts[t].srcs) : t \in DOMAIN ts} :
                                r.space = "CMX"}}

Init ==
  /\ tasks \in Programs
  /\ cmx = [g \in CMXGranules(tasks) |-> Uninit]
  /\ netOut = [j \in 0 .. Last(tasks).dst.size \div Granule - 1 |-> Uninit]
  /\ status = [t \in TaskIds |-> "idle"]
  /\ read = [t \in TaskIds |-> <<>>]

(* A barrier is released once every task that updates it has finished.    *)
Released(b) == \A u \in TaskIds : b \in Tasks[u].updates => status[u] = "done"

(* The engine starts task t: its earlier tasks have started and the       *)
(* barriers it waits on are released; it reads its sources.                *)
Start(t) ==
  /\ status[t] = "idle"
  /\ \A u \in 1 .. t - 1 : Tasks[u].engine = Tasks[t].engine => status[u] # "idle"
  /\ \A b \in Tasks[t].waits : Released(b)
  /\ status' = [status EXCEPT ![t] = "running"]
  /\ read' = [read EXCEPT ![t] = [k \in DOMAIN Tasks[t].srcs |-> Contents(Tasks[t].srcs[k])]]
  /\ UNCHANGED <<tasks, cmx, netOut>>

(* Task t finishes: a DMA writes what it read, a DPU writes its result.   *)
Result(t) ==
  IF Tasks[t].engine = "DMA" THEN read[t][1]
  ELSE [j \in 0 .. Tasks[t].dst.size \div Granule - 1 |-> <<"DPU", t, j>>]

Finish(t) ==
  /\ status[t] = "running"
  /\ LET dst == Tasks[t].dst
         out == Result(t)
     IN IF dst.space = "CMX"
        THEN /\ cmx' = [g \in DOMAIN cmx |->
                          IF g \in Granules(dst) THEN out[g - dst.off \div Granule] ELSE cmx[g]]
             /\ UNCHANGED netOut
        ELSE /\ netOut' = out
             /\ UNCHANGED cmx
  /\ status' = [status EXCEPT ![t] = "done"]
  /\ UNCHANGED <<tasks, read>>

Next == \E t \in TaskIds : Start(t) \/ Finish(t)

(* The task indices any descriptor can give.                               *)
TaskSlots ==
  LET lens == {Len(p) : p \in Programs}
  IN 1 .. (CHOOSE m \in lens : \A x \in lens : x <= m)

(* The engines start every task that can start and finish every task they *)
(* started: a task that is ready is not left waiting forever.              *)
Spec == Init /\ [][Next]_vars /\ \A t \in TaskSlots : WF_vars(t \in TaskIds /\ (Start(t) \/ Finish(t)))

(***************************************************************************)
(* Properties.                                                             *)
(***************************************************************************)
AllRegions == {Tasks[t].dst : t \in TaskIds} \cup UNION {ToSet(Tasks[t].srcs) : t \in TaskIds}

TypeOK ==
  /\ status \in [TaskIds -> {"idle", "running", "done"}]
  /\ \A r \in AllRegions : r.off % Granule = 0 /\ r.size % Granule = 0 /\ r.size > 0
  /\ \A t \in TaskIds : (read[t] = <<>>) <=> (status[t] = "idle")

(* What each task of the test must read for the test to mean anything:    *)
(* the three loads read the network input and the constants; every later *)
(* DMA (the round copies and the copy to the network output) reads the    *)
(* network input as the first load put it in CMX; every DPU reads that    *)
(* input, the weights and the weights table.                               *)
Intended(t) ==
  [k \in DOMAIN Tasks[t].srcs |->
     LET r == Tasks[t].srcs[k]
         n == r.size \div Granule
     IN CASE r = Tasks[2].dst -> Data("Weights", n)
          [] r = Tasks[3].dst -> Data("Table", n)
          [] r.space = "CMX"  -> Data("NetIn", n)
          [] OTHER            -> Data(r.space, n)]

(* Whatever order the engines run the tasks in that the barriers allow,   *)
(* every task that has started read what the test intends: no DMA copy    *)
(* of a round reads an input the round's DPU has already partly           *)
(* overwritten, and no DPU starts before its input and constants are in   *)
(* CMX.                                                                    *)
EveryReadSeesItsData ==
  \A t \in TaskIds : status[t] # "idle" => read[t] = Intended(t)

(* The CMX granules a task writes, and those it reads.                     *)
Writes(t) == IF Tasks[t].dst.space = "CMX" THEN Granules(Tasks[t].dst) ELSE {}
Reads(t) == UNION {Granules(r) : r \in {r \in ToSet(Tasks[t].srcs) : r.space = "CMX"}}

(* No data race on CMX: two tasks in flight at once (the three loads      *)
(* share one barrier and run together; any two tasks the barriers leave  *)
(* unordered may) never write a granule the other reads or writes.         *)
NoRaceOnCMX ==
  \A t, u \in TaskIds :
    t # u /\ status[t] = "running" /\ status[u] = "running" =>
      Writes(t) \cap (Writes(u) \cup Reads(u)) = {}

(* The test implements its contract: its network output goes, in one     *)
(* step and eventually, from unwritten to the network input.               *)
Contract == INSTANCE ReadAfterWriteContract WITH out <- netOut
TestContract == Contract!ContractSpec

====
