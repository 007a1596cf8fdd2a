-------------------------------- MODULE Llvm ---------------------------------
(***************************************************************************)
(* The LLVM backend (src/src/codegen_llvm/): one pass over the optimised   *)
(* IR that writes typed LLVM instructions.  The IR's temporaries have no   *)
(* widths of their own, so the emitter remembers the type it last gave     *)
(* each of them and converts where a use wants another one.                *)
(*                                                                         *)
(* A function it writes is again a Fn, of basic blocks whose instructions  *)
(* are an opcode k, the predicate, target type or callee op, and the type  *)
(* ty of the operands.  Text is left out: a name is what it is made from.  *)
(***************************************************************************)
EXTENDS Ssa

LlvmType(ty) == CASE ty = "I64" -> "i64" [] ty \in {"I8", "Trit"} -> "i8" [] ty = "Bool" -> "i1"
                  [] ty \in {"Ptr", "Array"} -> "ptr" [] ty = "Void" -> "void"
IntWidth(t) == CASE t = "i1" -> 1 [] t = "i8" -> 8 [] OTHER -> I64Bits
WidenOp(t)  == IF t = "i1" THEN "zext" ELSE "sext"
Integer(t)  == t \notin {"ptr", "void"}
\* Two types a value has to be converted between.
Differ(t, u) == Integer(t) /\ Integer(u) /\ IntWidth(t) # IntWidth(u)
WidestOf(ts) == ts[Max({n \in DOMAIN ts : \A m \in DOMAIN ts : IntWidth(ts[m]) <= IntWidth(ts[n])})]
GuessValueType(v) == CASE v[1] \in {"int", "temp"} -> "I64" [] v[1] = "bool" -> "Bool" [] v[1] = "trit" -> "I8" [] OTHER -> "Void"

\* Instructions.
Ll(k, op, d, as, ty)    == Instr(k, op, d, as, ty)
Convert(d, op, v, t, u) == Ll(op, u, d, <<v>>, t)
Extend(d, v, t, u)      == Convert(d, IF IntWidth(t) < IntWidth(u) THEN WidenOp(t) ELSE "trunc", v, t, u)
Icmp(d, pred, x, y, t)  == Ll("icmp", pred, d, <<x, y>>, t)
Choose3(d, c, x, y, t)  == Ll("select", "", d, <<c, x, y>>, t)
\* A call: the types of its arguments are in from.
CallOf(d, f, as, ts, t) == [Ll("call", f, d, as, t) EXCEPT !.from = ts]
Guard(f, as)            == CallOf("", f, as, [n \in DOMAIN as |-> "i64"], "void")
Null  == <<"null", 0>>
Undef == <<"undef", Undefined>>

-----------------------------------------------------------------------------
(* The emitter's state s: types of the temporaries so far, substituted     *)
(* (what an Assign or a void call stands for), stored (the type last       *)
(* stored through a pointer), sigs of the functions, the block's label,    *)
(* the predecessors of every block as emitted, the return type, and anon,  *)
(* which numbers the names made up on the way.                             *)

ActualType(s, v) == IF IsTemp(v) /\ v[2] \in DOMAIN s.types THEN s.types[v[2]] ELSE LlvmType(GuessValueType(v))
Resolve(s, v)    == IF IsTemp(v) /\ v[2] \in DOMAIN s.substituted THEN s.substituted[v[2]] ELSE v
Record(s, d, t)  == [s EXCEPT !.types = (d :> t) @@ @]
Anon(s, prefix)  == prefix \o ToString(s.anon)

\* The value of v as a t, under a name of its own when that takes a conversion.
Fit(s, v, t, name)    == IF Differ(ActualType(s, v), t) THEN <<Extend(name, Resolve(s, v), ActualType(s, v), t)>> ELSE << >>
Fitted(s, v, t, name) == IF Differ(ActualType(s, v), t) THEN Temp(name) ELSE Resolve(s, v)
ResolveWith(s, v, t, suffix)  == Fit(s, v, t, "__coerce_" \o suffix)
ResolvedAs(s, v, t, suffix) == Fitted(s, v, t, "__coerce_" \o suffix)

\* An operand of type t as a runtime guard takes it.
Widens(v, t)           == t # "i64" /\ IsTemp(v)
WidenToI64(v, t, name) == IF Widens(v, t) THEN <<Convert("__w64_" \o name, WidenOp(t), v, t, "i64")>> ELSE << >>
Widened(v, t, name)    == IF Widens(v, t) THEN Temp("__w64_" \o name) ELSE v

-----------------------------------------------------------------------------
(* What is written for an instruction of the IR                            *)

Opcodes  == [Add |-> "add", Sub |-> "sub", Mul |-> "mul", Div |-> "sdiv", Rem |-> "srem",
             AddT27 |-> "add", SubT27 |-> "sub", MulT27 |-> "mul", And |-> "and", Or |-> "or", Xor |-> "xor"]
Predicates == [IEq |-> "eq", INe |-> "ne", ILt |-> "slt", IGt |-> "sgt", ILe |-> "sle", IGe |-> "sge"]
T27Guards  == [AddT27 |-> "manit_check_t27_add", SubT27 |-> "manit_check_t27_sub", MulT27 |-> "manit_check_t27_mul"]
LaneFuncs  == [And |-> "manit_lane_and", Or |-> "manit_lane_or", Xor |-> "manit_lane_xor",
               Imp |-> "manit_lane_imp", Cmp |-> "manit_lane_cmp"]

\* A ternary shift is the operation it was reduced from.
Unshift(i) ==
  IF i.k # "BinOp" \/ i.op \notin {"TShl", "TShlT27", "TShr"} THEN i
  ELSE [i EXCEPT !.op = CASE @ = "TShl" -> "Mul" [] @ = "TShlT27" -> "MulT27" [] OTHER -> "DivNear",
                 !.as[2] = IntC(Pow(3, i.as[2][2]))]

\* To the nearest, without a branch: the quotient, moved one away from zero
\* when the remainder is at least half of the divisor.
DivNear(n, l, r, t, rem) ==
  LET N(x) == Temp(n \o x)
  IN  <<Ll("sdiv", "", n \o "_q", <<l, r>>, t), Ll("srem", "", n \o "_rm", <<l, r>>, t),
        Ll("sub", "", n \o "_rn", <<IntC(0), N("_rm")>>, t),
        Icmp(n \o "_rp", "sgt", N("_rm"), IntC(0), t), Choose3(n \o "_nr", N("_rp"), N("_rn"), N("_rm"), t),
        Ll("sub", "", n \o "_bn", <<IntC(0), r>>, t),
        Icmp(n \o "_bp", "sgt", r, IntC(0), t), Choose3(n \o "_nb", N("_bp"), N("_bn"), r, t),
        Ll("sub", "", n \o "_th", <<N("_nb"), N("_nr")>>, t), Icmp(n \o "_tie", "sle", N("_nr"), N("_th"), t),
        Icmp(n \o "_ls", "slt", l, IntC(0), t), Icmp(n \o "_bs", "slt", r, IntC(0), t),
        Icmp(n \o "_sm", "eq", N("_ls"), N("_bs"), "i1"),
        Choose3(n \o "_st", N("_sm"), IntC(1), IntC(-1), t), Choose3(n \o "_ad", N("_tie"), N("_st"), IntC(0), t)>>
      \o IF ~rem THEN <<Ll("add", "", n, <<N("_q"), N("_ad")>>, t)>>
         ELSE <<Ll("add", "", n \o "_qn", <<N("_q"), N("_ad")>>, t),
                Ll("mul", "", n \o "_qb", <<N("_qn"), r>>, t), Ll("sub", "", n, <<l, N("_qb")>>, t)>>

\* The operation itself, on operands l and r of type t.
Operation(i, l, r, t) ==
  IF i.op \in DOMAIN T27Guards
  THEN WidenToI64(l, t, i.d \o "_gl") \o WidenToI64(r, t, i.d \o "_gr")
       \o <<Guard(T27Guards[i.op], <<Widened(l, t, i.d \o "_gl"), Widened(r, t, i.d \o "_gr")>>),
            Ll(Opcodes[i.op], "", i.d, <<l, r>>, t)>>
  ELSE IF i.op \in {"Div", "Rem", "DivNear", "RemNear"}
  THEN WidenToI64(r, t, i.d \o "_dz") \o <<Guard("manit_check_divisor", <<Widened(r, t, i.d \o "_dz")>>)>>
       \o IF i.op \in DOMAIN Opcodes THEN <<Ll(Opcodes[i.op], "", i.d, <<l, r>>, t)>> ELSE DivNear(i.d, l, r, t, i.op = "RemNear")
  ELSE <<Ll(Opcodes[i.op], "", i.d, <<l, r>>, t)>>

\* A comparison is made at the widest of the types of its operands and the one
\* declared, which, when it is only the Bool of the result, is guessed.
OperandTypeForCmp(i) ==
  CASE i.ty # "Bool" -> i.ty
    [] GuessValueType(i.as[1]) # "Bool" -> GuessValueType(i.as[1])
    [] OTHER -> GuessValueType(i.as[2])
IcmpCoerced(s, i, t) ==
  Fit(s, i.as[1], t, i.d \o "__lext") \o Fit(s, i.as[2], t, i.d \o "__rext")
  \o <<Icmp(i.d, Predicates[i.op], Fitted(s, i.as[1], t, i.d \o "__lext"), Fitted(s, i.as[2], t, i.d \o "__rext"), t)>>

BinOpCode(s, i, t) ==
  IF i.op \in DOMAIN Predicates
  THEN IcmpCoerced(s, i, WidestOf(<<LlvmType(OperandTypeForCmp(i)), ActualType(s, i.as[1]), ActualType(s, i.as[2])>>))
  ELSE IF i.op \in {"And", "Or", "Xor"}
  THEN <<Ll(Opcodes[i.op], "", i.d, <<Resolve(s, i.as[1]), Resolve(s, i.as[2])>>, t)>>
  ELSE ResolveWith(s, i.as[1], t, i.d \o "_l") \o ResolveWith(s, i.as[2], t, i.d \o "_r")
       \o Operation(i, ResolvedAs(s, i.as[1], t, i.d \o "_l"), ResolvedAs(s, i.as[2], t, i.d \o "_r"), t)

AssignCode(s, i) ==
  IF i.ty = "Void" \/ ActualType(s, i.as[1]) = "ptr" THEN << >>
  ELSE <<Ll("add", "", i.d, <<Resolve(s, i.as[1]), IntC(0)>>, ActualType(s, i.as[1]))>>

\* The type a value is stored at: a constant takes the slot's, an integer is
\* converted to it, and a pointer stays one.
StoreType(s, i) ==
  LET declared == LlvmType(i.ty)
      actual   == ActualType(s, i.as[2])
  IN  IF ~IsConst(i.as[2]) /\ "ptr" \in {actual, declared} THEN actual ELSE declared
StoreConverts(s, i) == ~IsConst(i.as[2]) /\ Differ(ActualType(s, i.as[2]), LlvmType(i.ty))
StoreCode(s, i) ==
  LET name == Anon(s, "__store_sx")
  IN  IF StoreConverts(s, i)
      THEN Fit(s, i.as[2], LlvmType(i.ty), name) \o <<Ll("store", "", "", <<Resolve(s, i.as[1]), Temp(name)>>, LlvmType(i.ty))>>
      ELSE <<Ll("store", "", "", <<Resolve(s, i.as[1]), Resolve(s, i.as[2])>>, StoreType(s, i))>>

\* What was stored last decides what a load reads.
LoadType(s, i) == IF i.as[1][2] \in DOMAIN s.stored THEN s.stored[i.as[1][2]] ELSE LlvmType(i.ty)

\* The functions the runtime gives, and those of the module.
Natives == [Ok |-> [params |-> <<"i64">>, ret |-> "ptr"], Unknown |-> [params |-> <<"ptr">>, ret |-> "ptr"],
            Err |-> [params |-> <<"ptr">>, ret |-> "ptr"], manit_check_result_ok |-> [params |-> <<"i64">>, ret |-> "void"]]
ArgName(s, n) == Anon(s, "argc") \o "_" \o ToString(n)
ArgTo(s, v, t, name) ==
  IF ActualType(s, v) # t /\ "ptr" \in {ActualType(s, v), t}
  THEN <<Convert(name, IF t = "ptr" THEN "inttoptr" ELSE "ptrtoint", Resolve(s, v), ActualType(s, v), t)>>
  ELSE Fit(s, v, t, name)
ArgFrom(s, v, t, name) == IF ArgTo(s, v, t, name) = << >> THEN Resolve(s, v) ELSE Temp(name)
RECURSIVE ArgsTo(_, _, _, _)
ArgsTo(s, vs, ts, n) == IF n > Len(vs) THEN << >> ELSE ArgTo(s, vs[n], ts[n], ArgName(s, n)) \o ArgsTo(s, vs, ts, n + 1)
CallCode(s, i, sig) ==
  ArgsTo(s, i.as, sig.params, 1)
  \o <<CallOf(IF sig.ret = "void" THEN "" ELSE i.d, i.op,
              [n \in DOMAIN i.as |-> ArgFrom(s, i.as[n], sig.params[n], ArgName(s, n))], sig.params, sig.ret)>>

\* A base that came through an integer slot is made a pointer again.  A step is
\* as wide as its type: a word, or a whole row.
Stride(i) == IF i.ty = "Array" THEN i.n ELSE 1
GetPtrCode(s, i) ==
  LET base == ActualType(s, i.as[1])
      name == Anon(s, "gepp")
  IN  (IF Integer(base) THEN <<Convert(name, "inttoptr", Resolve(s, i.as[1]), base, "ptr")>> ELSE << >>)
      \o ResolveWith(s, i.as[2], "i64", i.d \o "_idx")
      \o <<[Ll("gep", "", i.d, <<IF Integer(base) THEN Temp(name) ELSE Resolve(s, i.as[1]), ResolvedAs(s, i.as[2], "i64", i.d \o "_idx")>>, "ptr") EXCEPT !.n = Stride(i)]>>

BoundsCheckCode(s, i, name) ==
  WidenToI64(Resolve(s, i.as[1]), ActualType(s, i.as[1]), name)
  \o <<Guard("manit_check_index", <<Widened(Resolve(s, i.as[1]), ActualType(s, i.as[1]), name), IntC(i.n)>>)>>

\* The operations on trits take theirs as i8, those on words as i64.
PairTo(s, i, t) == ResolveWith(s, i.as[1], t, i.d \o "_a") \o ResolveWith(s, i.as[2], t, i.d \o "_b")
PairAs(s, i, t) == <<ResolvedAs(s, i.as[1], t, i.d \o "_a"), ResolvedAs(s, i.as[2], t, i.d \o "_b")>>
TritPick(s, i, pred, name) ==
  PairTo(s, i, "i8") \o <<Icmp(name \o i.d, pred, PairAs(s, i, "i8")[1], PairAs(s, i, "i8")[2], "i8"),
                          Choose3(i.d, Temp(name \o i.d), PairAs(s, i, "i8")[1], PairAs(s, i, "i8")[2], "i8")>>
TritNegCode(s, i) == ResolveWith(s, i.as[1], "i8", i.d \o "_a") \o <<Ll("sub", "", i.d, <<IntC(0), ResolvedAs(s, i.as[1], "i8", i.d \o "_a")>>, "i8")>>
TritSignCode(s, i, w) ==
  ResolveWith(s, i.as[1], "i64", i.d \o "_a")
  \o <<Icmp(i.d \o "_pos", "sgt", w, IntC(0), "i64"), Icmp(i.d \o "_neg", "slt", w, IntC(0), "i64"),
       Convert(i.d \o "_p8", "zext", Temp(i.d \o "_pos"), "i1", "i8"), Convert(i.d \o "_n8", "zext", Temp(i.d \o "_neg"), "i1", "i8"),
       Ll("sub", "", i.d, <<Temp(i.d \o "_p8"), Temp(i.d \o "_n8")>>, "i8")>>
TritLaneCode(s, i) == PairTo(s, i, "i64") \o <<CallOf(i.d, LaneFuncs[i.op], PairAs(s, i, "i64"), <<"i64", "i64">>, "i64")>>

PrintIntCode(s, i) ==
  ResolveWith(s, i.as[1], "i64", Anon(s, "pint")) \o <<CallOf("", "printf", <<ResolvedAs(s, i.as[1], "i64", Anon(s, "pint"))>>, <<"i64">>, "i64")>>

\* The type of a phi is the IR's, unless an arm is a pointer; its labels are
\* those of the edges as they are emitted, and an edge it lacks is undefined.
PhiType(s, i) == IF \E v \in Range(i.as) : ActualType(s, v) = "ptr" THEN "ptr" ELSE LlvmType(i.ty)
CheckLabel(l) == l \o "__tneg_check"
EdgeLabel(l, preds) == IF l \notin preds /\ CheckLabel(l) \in preds THEN CheckLabel(l) ELSE l
PhiArm(v, t)  == IF t = "ptr" /\ IsConst(v) /\ v[2] = 0 THEN Null ELSE v
PhiCode(s, i, t, preds) ==
  LET labels  == [n \in DOMAIN i.from |-> EdgeLabel(i.from[n], preds)]
      lacking == Listed(preds \ Range(labels))
  IN  <<Phi(i.d, t, [n \in DOMAIN i.as |-> PhiArm(Resolve(s, i.as[n]), t)]
                    \o [n \in DOMAIN lacking |-> IF t = "ptr" THEN Null ELSE Undef], labels \o lacking)>>

ClampToTrit(d, v, t) ==
  <<Icmp(d \o "__isp", "sgt", v, IntC(0), t), Icmp(d \o "__isn", "slt", v, IntC(0), t),
    Choose3(d \o "__neg", Temp(d \o "__isn"), IntC(-1), IntC(0), "i8"), Choose3(d, Temp(d \o "__isp"), IntC(1), Temp(d \o "__neg"), "i8")>>
\* One opcode, except to a trit, which is clamped, and to a bool, which is
\* whether it is not zero.
CastSequence(d, v, from, to) ==
  LET f == LlvmType(from)
      t == LlvmType(to)
  IN CASE to = "Trit" /\ from \in {"I8", "I64"} -> ClampToTrit(d, v, f)
       [] f = t -> <<Ll("add", "", d, <<v, IntC(0)>>, t)>>
       [] to = "Bool" -> <<Icmp(d, "ne", v, IntC(0), f)>>
       [] OTHER -> <<Extend(d, v, f, t)>>
CastCode(s, i) ==
  ResolveWith(s, i.as[1], LlvmType(i.op), i.d \o "_cast")
  \o CastSequence(i.d, ResolvedAs(s, i.as[1], LlvmType(i.op), i.d \o "_cast"), i.op, i.ty)

SigOf(s, f) == IF f \in DOMAIN Natives THEN Natives[f] ELSE s.sigs[f]
InstrCode(s, i) ==
  CASE i.k = "BinOp"       -> BinOpCode(s, i, LlvmType(i.ty))
    [] i.k = "UnOp"        -> <<Ll("sub", "", i.d, <<IntC(0), Resolve(s, i.as[1])>>, LlvmType(i.ty))>>
    [] i.k = "Assign"      -> AssignCode(s, i)
    [] i.k = "Cast"        -> CastCode(s, i)
    [] i.k = "Alloca"      -> IF i.ty = "Void" THEN << >> ELSE <<[Ll("alloca", "", i.d, << >>, IF i.ty = "Array" THEN "i64" ELSE LlvmType(i.ty)) EXCEPT !.n = i.n]>>
    [] i.k = "Store"       -> IF i.ty = "Void" THEN << >> ELSE StoreCode(s, i)
    [] i.k = "Load"        -> <<Ll("load", "", i.d, <<Resolve(s, i.as[1])>>, LoadType(s, i))>>
    [] i.k = "GetPtr"      -> GetPtrCode(s, i)
    [] i.k = "BoundsCheck" -> BoundsCheckCode(s, i, Anon(s, "bc"))
    [] i.k = "TritMin"     -> TritPick(s, i, "slt", "__tmin_cmp_")
    [] i.k = "TritMax"     -> TritPick(s, i, "sgt", "__tmax_cmp_")
    [] i.k = "TritNeg"     -> TritNegCode(s, i)
    [] i.k = "TritSign"    -> TritSignCode(s, i, ResolvedAs(s, i.as[1], "i64", i.d \o "_a"))
    [] i.k = "TritLane"    -> TritLaneCode(s, i)
    [] i.k = "PrintInt"    -> PrintIntCode(s, i)
    [] i.k = "Call"        -> CallCode(s, i, SigOf(s, i.op))
    [] i.k = "Phi"         -> PhiCode(s, i, PhiType(s, i), s.preds[s.label])

\* What the emitter remembers after it.
RecordedType(s, i) ==
  CASE i.k = "BinOp"  -> IF i.op \in DOMAIN Predicates THEN "i1" ELSE LlvmType(i.ty)
    [] i.k = "Assign" -> ActualType(s, i.as[1])
    [] i.k \in {"Alloca", "GetPtr"} -> "ptr"
    [] i.k = "Load"   -> LoadType(s, i)
    [] i.k = "Call"   -> IF SigOf(s, i.op).ret = "void" THEN "i64" ELSE SigOf(s, i.op).ret
    [] i.k \in {"TritMin", "TritMax", "TritNeg", "TritSign"} -> "i8"
    [] i.k = "TritLane" -> "i64"
    [] i.k = "Phi"    -> PhiType(s, i)
    [] OTHER          -> LlvmType(i.ty)
TypeRecorded(s, i) == IF i.d = "" THEN s ELSE Record(s, i.d, RecordedType(s, i))
Substituting(s, i) ==
  CASE i.k = "Assign" -> [s EXCEPT !.substituted = (i.d :> Resolve(s, i.as[1])) @@ @]
    [] i.k = "Call" /\ i.d # "" /\ SigOf(s, i.op).ret = "void" -> [s EXCEPT !.substituted = (i.d :> IntC(0)) @@ @]
    [] i.k = "Store" /\ i.ty # "Void" /\ ~StoreConverts(s, i) /\ IsTemp(i.as[1]) -> [s EXCEPT !.stored = (i.as[1][2] :> StoreType(s, i)) @@ @]
    [] OTHER -> s
Learn(s, i) == TypeRecorded([Substituting(s, i) EXCEPT !.anon = @ + 1], i)

RECURSIVE InstrsCode(_, _)
InstrsCode(s, is) ==
  IF is = << >> THEN s
  ELSE InstrsCode([Learn(s, Unshift(Head(is))) EXCEPT !.code = @ \o InstrCode(s, Unshift(Head(is)))], Tail(is))

-----------------------------------------------------------------------------
(* Terminators, blocks, functions                                          *)

\* The value a function returns, as its return type: a constant adapts, a block
\* nobody should reach gives a zero.
ZeroOfType(t) == IF t = "ptr" THEN Null ELSE IntC(0)
ReturnAs(s, v, t, name) ==
  IF v = Void /\ t # "void" THEN [code |-> << >>, term |-> Return(ZeroOfType(t))]
  ELSE IF IsConst(v) THEN [code |-> << >>, term |-> Return(PhiArm(v, t))]
  ELSE [code |-> ArgTo(s, v, t, name), term |-> Return(ArgFrom(s, v, t, name))]

\* A condition that is not an i1 is compared with zero, under a name made from
\* its own.
BranchName(v) == "__brbool_" \o IF IsTemp(v) THEN v[2] ELSE "cond"
BranchOn(s, t, v) ==
  IF ActualType(s, v) \in {"i8", "i64"}
  THEN [code |-> <<Icmp(BranchName(v), "ne", Resolve(s, v), IntC(0), ActualType(s, v))>>, term |-> BinBranch(Temp(BranchName(v)), t.to[1], t.to[2])]
  ELSE [code |-> << >>, term |-> BinBranch(Resolve(s, v), t.to[1], t.to[2])]

\* Three ways are two branches, the second in a block of its own.
TritTests(v, t, widening, tpos, tneg, l, to) ==
  <<Block(l, widening \o <<Icmp(tpos, "sgt", v, IntC(0), t)>>, BinBranch(Temp(tpos), to[1], CheckLabel(l))),
    Block(CheckLabel(l), <<Icmp(tneg, "slt", v, IntC(0), t)>>, BinBranch(Temp(tneg), to[3], to[2]))>>
TritBlocks(s, to, v) ==
  LET narrow == ActualType(s, v) = "i1"
      z      == Anon(s, "__tzext")
  IN  TritTests(IF narrow THEN Temp(z) ELSE Resolve(s, v), IF ActualType(s, v) = "i64" THEN "i64" ELSE "i8",
                IF narrow THEN <<Convert(z, "zext", Resolve(s, v), "i1", "i8")>> ELSE << >>,
                Anon(s, "__tpos"), Anon(s, "__tneg"), s.label, to)

Terminated(s, t) ==
  CASE t.k = "Return" /\ t.as = << >> ->
         [code |-> << >>, term |-> IF s.ret = "void" THEN ReturnNone ELSE Return(ZeroOfType(s.ret))]
    [] t.k = "Return" /\ t.as # << >> -> ReturnAs(s, t.as[1], s.ret, Anon(s, "__ret_coerce"))
    [] t.k = "BinBranch"   -> BranchOn(s, t, t.as[1])
    [] t.k = "Unreachable" -> [code |-> <<CallOf("", "manit_unreachable", << >>, << >>, "void")>>, term |-> t]
    [] OTHER               -> [code |-> << >>, term |-> t]
With(bs, e)  == LET n == Len(bs) IN [bs EXCEPT ![n].is = @ \o e.code, ![n].term = e.term]
BlocksFor(s, t) ==
  IF t.k # "TritBranch" THEN With(<<Block(s.label, s.code, t)>>, Terminated(s, t))
  ELSE LET two == TritBlocks(s, t.to, t.as[1]) IN <<[two[1] EXCEPT !.is = s.code \o @], two[2]>>
EmittedBlock(s, b) == [s EXCEPT !.bs = @ \o BlocksFor(s, b.term), !.anon = @ + 1]
RECURSIVE BlocksCode(_, _)
BlocksCode(s, bs) ==
  IF bs = << >> THEN s.bs
  ELSE BlocksCode(EmittedBlock(InstrsCode([s EXCEPT !.label = Head(bs).label, !.code = << >>], Head(bs).is), Head(bs)), Tail(bs))

\* Where the blocks are reached from once the branches are emitted.
EmittedFrom(b, l) ==
  {p \in {b.label, CheckLabel(b.label)} :
     \E n \in DOMAIN b.term.to : b.term.to[n] = l /\ p = IF b.term.k = "TritBranch" /\ n # 1 THEN CheckLabel(b.label) ELSE b.label}
BlockPredecessors(f) == [l \in {f.bs[b].label : b \in DOMAIN f.bs} |-> UNION {EmittedFrom(b, l) : b \in Range(f.bs)}]

AbiParams(f) == [n \in DOMAIN f.params |-> <<f.params[n][1], LlvmType(f.params[n][2])>>]
FnSigs(mod) ==
  [name \in {mod[n].name : n \in DOMAIN mod} |->
     LET f == mod[CHOOSE n \in DOMAIN mod : mod[n].name = name]
     IN  [params |-> [n \in DOMAIN f.params |-> LlvmType(f.params[n][2])], ret |-> LlvmType(f.ret)]]
EmitterFor(f, sigs) ==
  [types |-> [p \in Params(f) |-> LlvmType(ValueTypes(f)[p])], substituted |-> << >>, stored |-> << >>, sigs |-> sigs,
   label |-> "", preds |-> BlockPredecessors(f), ret |-> LlvmType(f.ret), anon |-> 0, code |-> << >>, bs |-> << >>]
LlvmFunction(f, sigs) == Fn(f.name, AbiParams(f), LlvmType(f.ret), BlocksCode(EmitterFor(f, sigs), f.bs))
LlvmModule(mod) == [n \in DOMAIN mod |-> LlvmFunction(mod[n], FnSigs(mod))]

-----------------------------------------------------------------------------
(* What clang takes: SSA form, and every operand of the type it is defined *)
(* with.                                                                   *)

OperandTypes(i) ==
  CASE i.k = "select" -> <<"i1", i.ty, i.ty>>
    [] i.k = "load"   -> <<"ptr">>
    [] i.k = "store"  -> <<"ptr", i.ty>>
    [] i.k = "gep"    -> <<"ptr", "i64">>
    [] i.k = "call"   -> i.from
    [] OTHER          -> [n \in DOMAIN i.as |-> i.ty]
TypeDefined(i) ==
  CASE i.k = "icmp" -> "i1"
    [] i.k \in {"alloca", "gep"} -> "ptr"
    [] i.k \in {"zext", "sext", "trunc", "inttoptr", "ptrtoint"} -> i.op
    [] OTHER -> i.ty
TypesDefined(f) ==
  LET defs == {i \in AllInstrs(f) : i.d # ""}
  IN  [p \in Params(f) |-> (CHOOSE q \in Range(f.params) : "param_" \o q[1] = p)[2]]
      @@ [t \in {i.d : i \in defs} |-> TypeDefined(CHOOSE i \in defs : i.d = t)]

HasType(types, v, t) ==
  CASE v[1] = "temp"  -> v[2] \in DOMAIN types /\ types[v[2]] = t
    [] v[1] = "undef" -> t # "void"
    [] v[1] = "null"  -> t = "ptr"
    [] v[1] = "void"  -> FALSE
    [] OTHER          -> Integer(t)
TermTyped(types, t, ret) ==
  /\ t.k = "BinBranch" => HasType(types, t.as[1], "i1")
  /\ t.k = "Return" => IF t.as = << >> THEN ret = "void" ELSE ret # "void" /\ HasType(types, t.as[1], ret)
\* One arm of a phi for each edge, both edges of a branch to one block counted.
ArmPerEdge(f, b, i) ==
  \A p \in DOMAIN f.bs : Cardinality({n \in DOMAIN f.bs[p].term.to : f.bs[p].term.to[n] = f.bs[b].label})
                         = Cardinality({n \in DOMAIN i.from : i.from[n] = f.bs[p].label})
WellTyped(f, types) ==
  \A b \in DOMAIN f.bs :
    /\ TermTyped(types, f.bs[b].term, f.ret)
    /\ \A i \in Range(f.bs[b].is) : /\ \A n \in DOMAIN i.as : HasType(types, i.as[n], OperandTypes(i)[n])
                                    /\ IsPhi(i) => ArmPerEdge(f, b, i)
Builds(ll) == \A f \in Range(ll) : Verify(f) = {} /\ WellTyped(f, TypesDefined(f))

-----------------------------------------------------------------------------
(* What the built program does: two's complement at the width of the type, *)
(* slots of the size they were made with, and the guards of the runtime    *)
(* (src/runtime/core.c), which end it.                                     *)

\* The value of type t that the bits of x, taken at its width, stand for.
Norm(t, x) == CASE t = "i1" -> x % 2 [] t = "i8" -> ((x + 128) % 256) - 128 [] OTHER -> I64Wrap(x)
AsSigned(t, x) == IF t = "i1" THEN -x ELSE x
Holds(pred, x, y) == CASE pred = "eq" -> x = y [] pred = "ne" -> x # y [] pred = "slt" -> x < y
                       [] pred = "sgt" -> x > y [] pred = "sle" -> x <= y [] pred = "sge" -> x >= y
LlValue(env, v, t) == Norm(t, IF IsTemp(v) THEN IF v[2] \in DOMAIN env THEN env[v[2]] ELSE Undefined ELSE v[2])
Result(i, x) ==
  CASE i.k = "add"  -> x[1] + x[2] [] i.k = "sub" -> x[1] - x[2] [] i.k = "mul" -> x[1] * x[2]
    [] i.k = "sdiv" -> DivTrunc(x[1], x[2]) [] i.k = "srem" -> RemTrunc(x[1], x[2])
    [] i.k = "and" -> B(x[1] # 0 /\ x[2] # 0) [] i.k = "or" -> B(x[1] # 0 \/ x[2] # 0) [] i.k = "xor" -> B(x[1] # x[2])
    [] i.k = "icmp" -> B(Holds(i.op, AsSigned(i.ty, x[1]), AsSigned(i.ty, x[2])))
    [] i.k = "select" -> IF x[1] # 0 THEN x[2] ELSE x[3]
    [] i.k = "sext" -> AsSigned(i.ty, x[1])
    [] i.k \in {"zext", "trunc", "inttoptr", "ptrtoint"} -> x[1]
    [] i.k = "gep" -> x[1] + x[2] * i.n

\* A slot is n words of type t: what is wider does not fit, and reading more
\* than what was written (as a has) reads rubbish.
CellOf(t, v) == [t |-> t, has |-> t, v |-> v]
SizeOf(t) == IF t \in {"i1", "i8"} THEN 8 ELSE I64Bits
StoreInto(c, p, t, v) == IF p \in DOMAIN c.mem /\ SizeOf(t) <= SizeOf(c.mem[p].t) THEN [c EXCEPT !.mem[p].v = v, !.mem[p].has = t] ELSE [c EXCEPT !.end = "stray"]

LaneOfFunc(f) == CHOOSE op \in DOMAIN LaneFuncs : LaneFuncs[op] = f
GuardFails(f, x) ==
  \/ f = "manit_check_divisor" /\ x[1] = 0
  \/ f = "manit_check_t27_add" /\ ~InWord(x[1] + x[2])
  \/ f = "manit_check_t27_sub" /\ ~InWord(x[1] - x[2])
  \/ f = "manit_check_t27_mul" /\ ~InWord(x[1] * x[2])
  \/ f = "manit_check_index" /\ x[1] \notin 0..x[2]-1
  \/ f = UnwrapGuard /\ x[1] # 1
  \/ f = "manit_unreachable"
RuntimeCall(env, c, i, x) ==
  IF i.op \in DOMAIN Tags
  THEN <<Set(env, i.d, Len(c.mem) + 1), [c EXCEPT !.mem = @ \o <<CellOf("i64", Tags[i.op]), CellOf("i64", x[1])>>]>>
  ELSE IF i.op = "printf" THEN <<env, [c EXCEPT !.out = Append(@, x[1])]>>
  ELSE IF i.op \in Range(LaneFuncs) THEN <<Set(env, i.d, LaneWise(LaneOfFunc(i.op), x[1], x[2])), c>>
  ELSE <<env, IF GuardFails(i.op, x) THEN [c EXCEPT !.end = "trap"] ELSE c>>

RECURSIVE RunLlvm(_, _, _, _)
RECURSIVE LlBlock(_, _, _, _, _, _)
RECURSIVE LlInstrs(_, _, _, _)
OwnCall(env, i, r) == <<IF r.end = "run" THEN Set(env, i.d, r.ret) ELSE env, [r EXCEPT !.ret = 0]>>
LlInstr(ll, i, x, env, c) ==
  CASE i.k = "alloca" -> <<Set(env, i.d, Len(c.mem) + 1), [c EXCEPT !.mem = @ \o [m \in 1..i.n |-> CellOf(i.ty, 0)]]>>
    [] i.k = "store"  -> <<env, StoreInto(c, x[1], i.ty, x[2])>>
    [] i.k = "load"   -> IF x[1] \in DOMAIN c.mem /\ SizeOf(i.ty) <= SizeOf(c.mem[x[1]].has)
                         THEN <<Set(env, i.d, Norm(i.ty, c.mem[x[1]].v)), c>> ELSE <<env, [c EXCEPT !.end = "stray"]>>
    [] i.k = "call"   -> IF \E n \in DOMAIN ll : ll[n].name = i.op
                         THEN OwnCall(env, i, RunLlvm(ll, i.op, x, c))
                         ELSE RuntimeCall(env, c, i, x)
    [] OTHER          -> <<Set(env, i.d, Norm(TypeDefined(i), Result(i, x))), c>>
OperandValues(env, i) == [n \in DOMAIN i.as |-> LlValue(env, i.as[n], OperandTypes(i)[n])]
LlThen(ll, is, s) == LlInstrs(ll, is, s[1], s[2])
LlInstrs(ll, is, env, c) ==
  IF is = << >> \/ c.end # "run" THEN <<env, c>>
  ELSE LlThen(ll, Tail(is), LlInstr(ll, Head(is), OperandValues(env, Head(is)), env, c))

\* The phis of a block take the arms of the edge from prev, all together.
LlPhis(b, prev, env) ==
  LET phis == SelectSeq(b.is, IsPhi)
      Arm(p) == LlValue(env, p.as[CHOOSE n \in DOMAIN p.from : p.from[n] = prev], p.ty)
  IN  [t \in {phis[n].d : n \in DOMAIN phis} |-> Arm(CHOOSE p \in Range(phis) : p.d = t)] @@ env
NotPhi(i) == ~IsPhi(i)
ArgsGiven(f, args) == [p \in Params(f) |-> args[CHOOSE n \in DOMAIN f.params : "param_" \o f.params[n][1] = p]]
LlLeaves(ll, f, b, env, c) ==
  LET t == f.bs[b].term
      v == IF t.as = << >> THEN 1 ELSE LlValue(env, t.as[1], IF t.k = "Return" THEN f.ret ELSE "i1")
  IN CASE c.end # "run"        -> c
       [] t.k = "Unreachable"  -> [c EXCEPT !.end = "fell off"]
       [] t.k = "Return"       -> [c EXCEPT !.ret = v]
       [] OTHER -> LlBlock(ll, f, BlockNamed(f, t.to[Chosen(t, v)]), f.bs[b].label, env, c)
LlRest(ll, f, b, s) == LlLeaves(ll, f, b, s[1], s[2])
LlBlock(ll, f, b, prev, env, c) ==
  IF c.fuel = 0 THEN [c EXCEPT !.end = "diverges"]
  ELSE LlRest(ll, f, b, LlInstrs(ll, SelectSeq(f.bs[b].is, NotPhi), LlPhis(f.bs[b], prev, env), [c EXCEPT !.fuel = @ - 1]))
EnterLl(ll, f, args, c) == LlBlock(ll, f, 1, "", ArgsGiven(f, args), c)
RunLlvm(ll, name, args, c) == EnterLl(ll, ll[CHOOSE n \in DOMAIN ll : ll[n].name = name], args, c)

NativeEnd(c) == [out |-> c.out, end |-> IF c.end = "run" THEN "normal" ELSE c.end]
NativeRun(ll, fuel) == NativeEnd(RunLlvm(ll, "main", << >>, [mem |-> << >>, out |-> << >>, end |-> "run", fuel |-> fuel, ret |-> 0]))
=============================================================================
