--------------------------- MODULE MC_MergeFakeQuant ---------------------------
(* Per-tensor quantized types with an 8-bit-like storage range cut down to *)
(* 0..3, or 0..2 as for a range with one level fewer (u8:[0..254]); scales *)
(* 1, 2 and 1/2 and zero points 0 and 1.  The first function quantizes *)
(* its argument once and dequantizes it both directly and through a     *)
(* QuantizeCast, so the two patterns share the Quantize.                    *)
EXTENDS MergeFakeQuant

MCQuantTypes ==
  [scale: {<<1, 1>>, <<2, 1>>, <<1, 2>>}, zp: {0, 1}, qmin: {0}, qmax: {2, 3}]

(* Arguments below, inside and above every type's real range.            *)
MCInputs == -2 .. 7

(* The function of the header, and one whose second returned value is a  *)
(* Dequantize of a chain of two QuantizeCasts: MergeQuantCastDequant finds *)
(* no Quantize under that Dequantize's QuantizeCast (lines 87-90), while   *)
(* the first chain is still merged.                                        *)
MCFunctions ==
  {<<OpQ(0, t1), OpDQ(1), OpQC(1, t2), OpDQ(3)>> : t1, t2 \in MCQuantTypes}
  \cup
  {<<OpQ(0, t1), OpDQ(3), OpQC(1, t2), OpDQ(5), OpQC(3, t3)>> : t1, t2, t3 \in MCQuantTypes}

=============================================================================
