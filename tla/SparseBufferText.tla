--------------------------- MODULE SparseBufferText ---------------------------
(***************************************************************************)
(* The text form of VPUIP::SparseBufferType: SparseBufferType::print and   *)
(* SparseBufferType::parse (sparse_buffer.cpp lines 18-136).  Text is a    *)
(* sequence of tokens: keywords and punctuation, sub-buffer types, and the *)
(* compression and SEAttr attributes, each printed with its own mnemonic.  *)
(* The parser is a state machine over the input; each action is one of    *)
(* the straight-line stretches of parse between its branch points, with   *)
(* every early "return Type()" of the stretch.                             *)
(***************************************************************************)
EXTENDS SparseBufferType, Integers, Sequences, SequencesExt

CONSTANTS
  TypeKinds,        \* kinds of the sub-buffer types that appear in text
  CompressionAttrs, \* VPUIP::SparsityCompressionAttr values
  SEAttrs,          \* VPU::SEAttr values
  NoType,           \* the null Type() parse returns on a syntax error
  Invalid           \* get(...) of fields the verifier rejects

VARIABLES
  input,   \* the tokens after the type's mnemonic
  pos,     \* index of the next token to read
  pc,      \* which stretch of parse runs next, or "done"
  parsed,  \* sub-buffer types read so far
  result   \* what parse returned

vars == <<input, pos, pc, parsed, result>>

Types == {[kind |-> k] : k \in TypeKinds}

Kw(k) == [kw |-> k]
TypeTok(b) == [type |-> b]
AttrTok(cls, a) == [attr |-> cls, val |-> a]

(***************************************************************************)
(* print (lines 18-36), as TextOf: the fields in one fixed order.         *)
(***************************************************************************)
TextOf(t) ==
  <<Kw("<"), Kw("data"), Kw("="), TypeTok(t.data)>>
  \o (IF t.sparsityMap = None THEN <<>>
      ELSE <<Kw(","), Kw("sparsity_map"), Kw("="), TypeTok(t.sparsityMap)>>)
  \o (IF t.storageElementTable = None THEN <<>>
      ELSE <<Kw(","), Kw("storage_element_table"), Kw("="), TypeTok(t.storageElementTable)>>)
  \o (IF t.isWeights THEN <<Kw(","), Kw("is_weights")>> ELSE <<>>)
  \o (IF t.sparsityCompression = None THEN <<>>
      ELSE <<Kw(","), AttrTok("compression", t.sparsityCompression)>>)
  \o (IF t.seAttr = None THEN <<>> ELSE <<Kw(","), AttrTok("se", t.seAttr)>>)
  \o <<Kw(">")>>

(***************************************************************************)
(* mlir::AsmParser primitives: the next token, and the typed parseType /   *)
(* parseAttribute<T>, which fail on a token of another class.              *)
(***************************************************************************)
Tok(i) == IF i <= Len(input) THEN input[i] ELSE Kw("EOF")
IsType(x) == "type" \in DOMAIN x
IsAttr(x, cls) == "attr" \in DOMAIN x /\ x.attr = cls

(* parse returns: Type() on a syntax error, else get(...) of the fields.   *)
(* get of fields its verifier rejects is recorded as Invalid.              *)
Fail ==
  /\ pc' = "done" /\ result' = NoType
  /\ UNCHANGED <<input, pos, parsed>>

(* A parse that returns get(...) unverified, as a release build's get does. *)
FinishUnchecked(r) ==
  /\ pc' = "done" /\ result' = r.val
  /\ UNCHANGED <<input, pos, parsed>>

Finish(r) ==
  /\ pc' = "done" /\ result' = IF r.err = "ok" THEN r.val ELSE Invalid
  /\ UNCHANGED <<input, pos, parsed>>

Goto(label, p, fields) ==
  /\ pc' = label /\ pos' = p /\ parsed' = fields
  /\ UNCHANGED <<input, result>>

(* The tail after "is_weights" (lines 65-72, 91-100, 113-120): an optional *)
(* ", <compression>" then ">".                                             *)
(* The tail without its closing parseGreater.                              *)
IsWeightsTailNoGreater(p) ==
  LET hasComp == Tok(p) = Kw(",")
  IN IF hasComp /\ ~IsAttr(Tok(p + 1), "compression") THEN Fail
     ELSE Finish(Get(parsed.data, parsed.sm, parsed.set, TRUE,
                     IF hasComp THEN Tok(p + 1).val ELSE None, None))

IsWeightsTail(p) ==
  LET hasComp == Tok(p) = Kw(",")
      q       == IF hasComp THEN p + 2 ELSE p
  IN IF hasComp /\ ~IsAttr(Tok(p + 1), "compression") THEN Fail
     ELSE IF Tok(q) # Kw(">") THEN Fail
     ELSE Finish(Get(parsed.data, parsed.sm, parsed.set, TRUE,
                     IF hasComp THEN Tok(p + 1).val ELSE None, None))

(* Lines 39-63: "<data=" TYPE, then ">" or ",".                            *)
ParseData ==
  /\ pc = "data"
  /\ IF Tok(pos) = Kw("<") /\ Tok(pos + 1) = Kw("data") /\ Tok(pos + 2) = Kw("=")
        /\ IsType(Tok(pos + 3))
     THEN IF Tok(pos + 4) = Kw(">")
          THEN Finish(Get(Tok(pos + 3).type, None, None, FALSE, None, None))
          ELSE IF Tok(pos + 4) = Kw(",")
          THEN Goto("afterData", pos + 5, [parsed EXCEPT !.data = Tok(pos + 3).type])
          ELSE Fail
     ELSE Fail

(* Lines 64-89: "is_weights" tail, or "sparsity_map=" TYPE then ">" / ",". *)
ParseAfterData ==
  /\ pc = "afterData"
  /\ IF Tok(pos) = Kw("is_weights") THEN IsWeightsTail(pos + 1)
     ELSE IF Tok(pos) = Kw("sparsity_map") /\ Tok(pos + 1) = Kw("=") /\ IsType(Tok(pos + 2))
     THEN IF Tok(pos + 3) = Kw(">")
          THEN Finish(Get(parsed.data, Tok(pos + 2).type, None, FALSE, None, None))
          ELSE IF Tok(pos + 3) = Kw(",")
          THEN Goto("afterSparsityMap", pos + 4, [parsed EXCEPT !.sm = Tok(pos + 2).type])
          ELSE Fail
     ELSE Fail

(* Lines 90-110: "is_weights" tail, or "storage_element_table=" TYPE.      *)
ParseAfterSparsityMap ==
  /\ pc = "afterSparsityMap"
  /\ IF Tok(pos) = Kw("is_weights") THEN IsWeightsTail(pos + 1)
     ELSE IF Tok(pos) = Kw("storage_element_table") /\ Tok(pos + 1) = Kw("=")
             /\ IsType(Tok(pos + 2))
     THEN Goto("afterSET", pos + 3, [parsed EXCEPT !.set = Tok(pos + 2).type])
     ELSE Fail

(* Lines 111-135: ", is_weights" tail, ", <SEAttr> >", or ">".             *)
ParseAfterSET ==
  /\ pc = "afterSET"
  /\ IF Tok(pos) = Kw(",")
     THEN IF Tok(pos + 1) = Kw("is_weights") THEN IsWeightsTail(pos + 2)
          ELSE IF IsAttr(Tok(pos + 1), "se") /\ Tok(pos + 2) = Kw(">")
          THEN Finish(Get(parsed.data, parsed.sm, parsed.set, FALSE, None, Tok(pos + 1).val))
          ELSE Fail
     ELSE IF Tok(pos) = Kw(">")
     THEN Finish(Get(parsed.data, parsed.sm, parsed.set, FALSE, None, None))
     ELSE Fail

(***************************************************************************)
(* Inputs: "<data=TYPE", then any arrangement of the other fields, each at *)
(* most once, then ">"; this holds every printed form and every reordering *)
(* of one.                                                                 *)
(***************************************************************************)
Fields == {"sparsity_map", "storage_element_table", "is_weights", "compression", "se"}

FieldTokens(f, v) ==
  CASE f = "sparsity_map"          -> <<Kw(","), Kw("sparsity_map"), Kw("="), TypeTok(v.sm)>>
    [] f = "storage_element_table" -> <<Kw(","), Kw("storage_element_table"), Kw("="), TypeTok(v.set)>>
    [] f = "is_weights"            -> <<Kw(","), Kw("is_weights")>>
    [] f = "compression"           -> <<Kw(","), AttrTok("compression", v.comp)>>
    [] f = "se"                    -> <<Kw(","), AttrTok("se", v.se)>>

Valuations == [data: Types, sm: Types, set: Types, comp: CompressionAttrs, se: SEAttrs]

Inputs ==
  {<<Kw("<"), Kw("data"), Kw("="), TypeTok(v.data)>>
     \o FlattenSeq([i \in DOMAIN p |-> FieldTokens(p[i], v)]) \o <<Kw(">")>> :
     p \in SetToAllKPermutations(Fields), v \in Valuations}

Init ==
  /\ input \in Inputs
  /\ pos = 1
  /\ pc = "data"
  /\ parsed = [data |-> None, sm |-> None, set |-> None]
  /\ result = None

Next ==
  \/ ParseData
  \/ ParseAfterData
  \/ ParseAfterSparsityMap
  \/ ParseAfterSET

Spec == Init /\ [][Next]_vars

(***************************************************************************)
(* Properties.                                                             *)
(***************************************************************************)
Composites ==
  [data: Types, sparsityMap: Types \cup {None}, storageElementTable: Types \cup {None},
   isWeights: BOOLEAN, sparsityCompression: CompressionAttrs \cup {None},
   seAttr: SEAttrs \cup {None}]

ValidComposites ==
  {t \in Composites :
     VerifyError(t.data, t.sparsityMap, t.storageElementTable, t.isWeights,
                 t.sparsityCompression, t.seAttr) = "ok"}

TypeOK ==
  /\ input \in Seq([kw: STRING] \cup [type: Types]
                   \cup [attr: {"compression"}, val: CompressionAttrs]
                   \cup [attr: {"se"}, val: SEAttrs])
  /\ pos \in 1..Len(input)
  /\ pc \in {"data", "afterData", "afterSparsityMap", "afterSET", "done"}
  /\ parsed \in [data: Types \cup {None}, sm: Types \cup {None}, set: Types \cup {None}]
  /\ result \in ValidComposites \cup {None, NoType, Invalid}

(* Everything parse accepts is the printed form of what it returns: the    *)
(* parser reads no text print would not write, so no two texts name one    *)
(* type and no field is read into the wrong slot.                           *)
ParsesOnlyCanonical ==
  pc = "done" /\ result \in ValidComposites => TextOf(result) = input

(* Every type the verifier admits reads back from its printed form: parse  *)
(* of print(t) returns t (the spec's print/parse round trip).               *)
RoundTrip ==
  pc = "done" => \A t \in ValidComposites : input = TextOf(t) => result = t

=============================================================================
