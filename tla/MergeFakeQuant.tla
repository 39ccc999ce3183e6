---------------------------- MODULE MergeFakeQuant ----------------------------
(***************************************************************************)
(* IE::MergeFakeQuantPass (IE/transforms/passes/merge_fake_quant.cpp).    *)
(* The pass hands two rewrite patterns to MLIR's greedy driver:            *)
(*   MergeQuantDequant      Quantize -> Dequantize                 => FQ   *)
(*   MergeQuantCastDequant  Quantize -> QuantizeCast -> Dequantize => FQ   *)
(* where FQ is a FakeQuantize of the Quantize's input whose ranges and    *)
(* levels come from the quantized types (getFakeQuantParams).  The driver *)
(* applies a matching pattern to some op of its worklist, in an order the *)
(* pass does not fix, and erases ops left without users, until no pattern *)
(* matches.                                                                *)
(*                                                                         *)
(* The function is a small dataflow graph: ops maps an op id to its kind, *)
(* its operand (0 is the function's argument) and, for Quantize and       *)
(* QuantizeCast, its result's quantized type.  A FakeQuantize takes the   *)
(* id of the Dequantize it replaces: replaceOpWithNewOp gives the new op  *)
(* every use of the old one.  Numbers are rationals <<num, den>>, den > 0, *)
(* so that a graph can be evaluated exactly on small inputs.               *)
(***************************************************************************)
EXTENDS Integers, FiniteSets

CONSTANTS
  QuantTypes, \* [scale: rational, zp: Int, qmin: Int, qmax: Int], per-tensor
  Inputs,     \* the integer values the function's argument is evaluated on
  Functions,  \* the functions the pass may be run on: op id -> op
  Results,    \* the op ids the function returns
  None

VARIABLES
  ops,    \* op id -> [kind, arg, type, fq]
  alive,  \* the ids of the ops still in the function
  orig    \* the function as it was before the pass, for comparison

vars == <<ops, alive, orig>>

(* Exact rational arithmetic.                                              *)
Rat(n) == <<n, 1>>
RAdd(a, b) == <<a[1] * b[2] + b[1] * a[2], a[2] * b[2]>>
RSub(a, b) == RAdd(a, <<-b[1], b[2]>>)
RMul(a, b) == <<a[1] * b[1], a[2] * b[2]>>
RDiv(a, b) == IF b[1] > 0 THEN <<a[1] * b[2], a[2] * b[1]>> ELSE <<-a[1] * b[2], -a[2] * b[1]>>
RLeq(a, b) == a[1] * b[2] <= b[1] * a[2]
REq(a, b) == a[1] * b[2] = b[1] * a[2]
RoundHalfUp(a) == (2 * a[1] + a[2]) \div (2 * a[2])

(* Mutant of lines 55-56: the low and high range operands swapped.        *)
OpFQRangesSwapped(arg, inLow, inHigh, outLow, outHigh, levels) ==
  [kind |-> "FakeQuantize", arg |-> arg, type |-> None,
   fq |-> [inLow |-> inHigh, inHigh |-> inLow, outLow |-> outHigh,
           outHigh |-> outLow, levels |-> levels]]

(* Op constructors; OpFQ is lines 51-58, the two Const::DeclareOp ranges   *)
(* and the FakeQuantizeOp that takes them in (low, high) order.            *)
OpQ(arg, t) == [kind |-> "Quantize", arg |-> arg, type |-> t, fq |-> None]
OpQC(arg, t) == [kind |-> "QuantizeCast", arg |-> arg, type |-> t, fq |-> None]
OpDQ(arg) == [kind |-> "Dequantize", arg |-> arg, type |-> None, fq |-> None]
OpFQ(arg, inLow, inHigh, outLow, outHigh, levels) ==
  [kind |-> "FakeQuantize", arg |-> arg, type |-> None,
   fq |-> [inLow |-> inLow, inHigh |-> inHigh, outLow |-> outLow,
           outHigh |-> outHigh, levels |-> levels]]

(* getFakeQuantParams of a per-tensor quantized type: the levels and the  *)
(* real range its integer range dequantizes to.                            *)
GetFakeQuantParams(t) ==
  [levels |-> t.qmax - t.qmin + 1,
   rMin   |-> RMul(Rat(t.qmin - t.zp), t.scale),
   rMax   |-> RMul(Rat(t.qmax - t.zp), t.scale)]

(* The ops' semantics (the IE operation definitions): Quantize rounds and *)
(* clamps to the storage range, QuantizeCast keeps the stored integer and *)
(* changes only its type, Dequantize scales back, FakeQuantize snaps to    *)
(* one of its levels.                                                      *)
QuantizeVal(x, t) ==
  LET q == RoundHalfUp(RDiv(x, t.scale)) + t.zp
  IN Rat(IF q < t.qmin THEN t.qmin ELSE IF q > t.qmax THEN t.qmax ELSE q)
DequantizeVal(q, t) == RMul(RSub(q, Rat(t.zp)), t.scale)
FakeQuantizeVal(x, p) ==
  IF RLeq(x, p.inLow) THEN p.outLow
  ELSE IF ~RLeq(x, p.inHigh) THEN p.outHigh
  ELSE LET idx == RoundHalfUp(RMul(RDiv(RSub(x, p.inLow), RSub(p.inHigh, p.inLow)),
                                   Rat(p.levels - 1)))
       IN RAdd(RDiv(RMul(Rat(idx), RSub(p.outHigh, p.outLow)), Rat(p.levels - 1)), p.outLow)

(* The value op id computes in graph g when the argument is x.             *)
RECURSIVE Eval(_, _, _)
Eval(g, id, x) ==
  IF id = 0 THEN Rat(x)
  ELSE LET op == g[id]
           in == Eval(g, op.arg, x)
       IN CASE op.kind = "Quantize"     -> QuantizeVal(in, op.type)
            [] op.kind = "QuantizeCast" -> in
            [] op.kind = "Dequantize"   -> DequantizeVal(in, g[op.arg].type)
            [] op.kind = "FakeQuantize" -> FakeQuantizeVal(in, op.fq)

Users(g, live, id) == {u \in live : g[u].arg = id}

(* Lines 37-40 and 87-90: getDefiningOp<IE::QuantizeOp> of a value.        *)
DefiningQuantize(g, v) ==
  IF v # 0 /\ g[v].kind = "Quantize" THEN v ELSE None

(* Lines 82-85: getDefiningOp<IE::QuantizeCastOp>.                         *)
DefiningQuantizeCast(g, v) ==
  IF v # 0 /\ g[v].kind = "QuantizeCast" THEN v ELSE None

(* Mutant of lines 104-106: the levels check dropped.                     *)
SameLevelsUnchecked(inP, outP) == TRUE

(* Lines 104-106.                                                          *)
SameLevels(inP, outP) == inP.levels = outP.levels

(* MergeQuantDequant::matchAndRewrite (lines 35-61).                       *)
MergeQuantDequant(d) ==
  /\ ops[d].kind = "Dequantize"
  /\ LET q == DefiningQuantize(ops, ops[d].arg)
     IN /\ q # None
        /\ LET p == GetFakeQuantParams(ops[ops[d].arg].type)
           IN ops' = [ops EXCEPT ![d] = OpFQ(ops[q].arg, p.rMin, p.rMax, p.rMin, p.rMax, p.levels)]
  /\ UNCHANGED <<alive, orig>>

(* MergeQuantCastDequant::matchAndRewrite (lines 80-124).                  *)
MergeQuantCastDequant(d) ==
  /\ ops[d].kind = "Dequantize"
  /\ LET qc == DefiningQuantizeCast(ops, ops[d].arg)
         q  == IF qc = None THEN None ELSE DefiningQuantize(ops, ops[qc].arg)
     IN /\ qc # None
        /\ q # None
        /\ LET inP  == GetFakeQuantParams(ops[ops[qc].arg].type)
               outP == GetFakeQuantParams(ops[ops[d].arg].type)
           IN /\ SameLevels(inP, outP)
              /\ ops' = [ops EXCEPT ![d] = OpFQ(ops[q].arg, inP.rMin, inP.rMax,
                                                outP.rMin, outP.rMax, inP.levels)]
  /\ UNCHANGED <<alive, orig>>

(* The greedy driver erases an op whose result has no use left (the IE    *)
(* quantization ops have no side effects); a returned value has a use.    *)
EraseDeadOp(o) ==
  /\ o \notin Results
  /\ Users(ops, alive, o) = {}
  /\ alive' = alive \ {o}
  /\ UNCHANGED <<ops, orig>>

Init ==
  /\ ops \in Functions
  /\ alive = DOMAIN ops
  /\ orig = ops

(* MergeFakeQuantPass::safeRunOnFunc (lines 140-151): both patterns are   *)
(* registered and the greedy driver applies them, in an order it chooses, *)
(* to the live ops until none matches.                                     *)
Next ==
  \E o \in alive :
    \/ MergeQuantDequant(o)
    \/ MergeQuantCastDequant(o)
    \/ EraseDeadOp(o)

Spec == Init /\ [][Next]_vars

(***************************************************************************)
(* Properties.                                                             *)
(***************************************************************************)
Kinds == {"Quantize", "QuantizeCast", "Dequantize", "FakeQuantize"}

TypeOK ==
  /\ alive \subseteq DOMAIN ops
  /\ \A o \in DOMAIN ops : ops[o].kind \in Kinds /\ ops[o].arg \in {0} \cup DOMAIN ops
  /\ Results \subseteq alive
  /\ \A o \in alive : ops[o].arg \in {0} \cup alive
  /\ \A o \in alive : ops[o].kind = "FakeQuantize" =>
        /\ ops[o].fq.levels >= 2
        /\ ~RLeq(ops[o].fq.inHigh, ops[o].fq.inLow)
        /\ ~RLeq(ops[o].fq.outHigh, ops[o].fq.outLow)

(* Whatever order the driver applies the two patterns in, and however a   *)
(* Quantize or QuantizeCast is shared between chains, every value the      *)
(* function returns is, for every input, the value it had before the pass *)
(* (the FakeQuantize built from getFakeQuantParams computes exactly what  *)
(* the Quantize -> [QuantizeCast ->] Dequantize chain it replaces did).    *)
SemanticsPreserved ==
  \A r \in Results, x \in Inputs : REq(Eval(ops, r, x), Eval(orig, r, x))

====
