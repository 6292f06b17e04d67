-------------------------------- MODULE Borsh --------------------------------
(***************************************************************************)
(* What the decoder is checked against: for a type, the set of its values, *)
(* each as the bytes Borsh writes for it and the JSON it stands for.  It   *)
(* goes from values to bytes, where decoder/mod.rs goes from bytes to      *)
(* values, and resolves type parameters by substitution.                   *)
(***************************************************************************)
EXTENDS Decoder, FiniteSets

CONSTANT MaxBytes   \* longest encoding that is considered

Encoded(bs, v) == [bytes |-> bs, val |-> v]
Short(encodings) == {e \in encodings : Len(e.bytes) <= MaxBytes}

ToLe(v, size) == [i \in 1 .. size |-> (v \div Base ^ (i - 1)) % Base]
ByteStrings(n) == [1 .. n -> Byte]

\* The integers of a kind, as bytes and as numbers.
IntegerEncodings(kind, tag) ==
    LET size == ScalarSize[kind]
        modulus == Base ^ size
        low == IF kind \in Signed THEN -(modulus \div 2) ELSE 0
    IN  {Encoded(ToLe(v % modulus, size), <<tag, v>>) : v \in low .. low + modulus - 1}

Verbatim(kind, Tag(_)) == {Encoded(bs, <<Tag(bs), bs>>) : bs \in ByteStrings(ScalarSize[kind])}

ScalarEncodings(kind) ==
    CASE kind = "bool"             -> {Encoded(<<0>>, <<"bool", FALSE>>), Encoded(<<1>>, <<"bool", TRUE>>)}
      [] kind \in {"u128", "i128"} -> IntegerEncodings(kind, "dec")
      [] kind = "u256"             -> Verbatim(kind, LAMBDA bs : "hex")
      [] kind = "pubkey"           -> Verbatim(kind, LAMBDA bs : "base58")
      [] kind = "f64"              -> Verbatim(kind, LAMBDA bs : IF bs \in NonFinite THEN "str" ELSE "float")
      [] OTHER                     -> IntegerEncodings(kind, "num")

\* Strings and byte arrays: their length, then their bytes.
TextEncodings(kind) ==
    LET text(bs) == IF kind = "bytes" THEN <<"arr", [i \in DOMAIN bs |-> <<"num", bs[i]>>]>>
                                      ELSE <<"str", bs>>
        some == UNION {ByteStrings(n) : n \in 0 .. MaxBytes - LenSize}
    IN  {Encoded(ToLe(Len(bs), LenSize) \o bs, text(bs)) :
            bs \in {b \in some : Len(b) < Base ^ LenSize /\ (kind = "bytes" \/ ValidUtf8(b))}}

RECURSIVE Subst(_, _)

\* A type with its parameters replaced.
Subst(ty, env) ==
    CASE ty.k = "generic" -> IF ty.name \in DOMAIN env THEN env[ty.name] ELSE ty
      [] ty.k \in {"option", "vec", "array"} -> [ty EXCEPT !.of = Subst(ty.of, env)]
      [] ty.k = "defined" -> [ty EXCEPT !.args = [i \in DOMAIN ty.args |-> Subst(ty.args[i], env)]]
      [] OTHER -> ty

SubstAll(tys, env) == [i \in DOMAIN tys |-> Subst(tys[i], env)]

RECURSIVE Encodings(_, _, _), EncodingsOfAll(_, _, _)

\* The values of a sequence of types, one after the other; val is a sequence.
EncodingsOfAll(tys, reg, depth) ==
    IF tys = <<>> THEN {Encoded(<<>>, <<>>)}
    ELSE LET firsts == Encodings(Head(tys), reg, depth)
             rests == EncodingsOfAll(Tail(tys), reg, depth)
         IN  Short({Encoded(p[1].bytes \o p[2].bytes, <<p[1].val>> \o p[2].val) :
                        p \in firsts \X rests})

DefEncodings(def, args, reg, depth) ==
    LET env == Bind(<< >>, def, args)
        parts(fields) == EncodingsOfAll(SubstAll(FieldTypes(fields), env), reg, depth + 1)
        variant(i) == {Encoded(<<i - 1>> \o e.bytes,
                               <<"obj", << <<def.variants[i].name,
                                             PayloadShown(def.variants[i].fields, e.val)>> >> >>) :
                          e \in parts(def.variants[i].fields)}
    IN  CASE def.form = "struct" -> {Encoded(e.bytes, FieldsShown(def.fields, e.val)) : e \in parts(def.fields)}
          [] def.form = "enum"   -> UNION {variant(i) : i \in DOMAIN def.variants}
          [] def.form = "alias"  -> Encodings(Subst(def.alias, env), reg, depth + 1)

\* COption has room for a value of the one size its type's values have.
COptionEncodings(ty, reg, depth) ==
    LET some == Encodings(ty, reg, depth + 1)
        sizes == {Len(e.bytes) : e \in some}
    IN  IF Cardinality(sizes) # 1 THEN {}
        ELSE {Encoded(ToLe(1, LenSize) \o e.bytes, e.val) : e \in some}
             \cup {Encoded(ToLe(0, LenSize) \o bs, Null) :
                      bs \in ByteStrings(CHOOSE n \in sizes : TRUE)}

\* The values of a type without free parameters that nest no deeper than
\* MaxDecodeDepth.
Encodings(ty, reg, depth) ==
    LET lists(n, before) == {Encoded(before \o e.bytes, <<"arr", e.val>>) :
                                e \in EncodingsOfAll([i \in 1 .. n |-> ty.of], reg, depth + 1)}
        all ==
          CASE ty.k \in DOMAIN ScalarSize   -> ScalarEncodings(ty.k)
            [] ty.k \in {"string", "bytes"} -> TextEncodings(ty.k)
            [] ty.k = "option" -> {Encoded(<<0>>, Null)}
                                  \cup {Encoded(<<1>> \o e.bytes, e.val) : e \in Encodings(ty.of, reg, depth + 1)}
            [] ty.k = "vec"    -> UNION {lists(n, ToLe(n, LenSize)) :
                                            n \in {m \in 0 .. MaxBytes : m < Base ^ LenSize}}
            [] ty.k = "array" /\ ty.len >= 0 -> lists(ty.len, <<>>)
            [] ty.k = "defined" /\ ty.name = "COption" -> COptionEncodings(ty.args[1], reg, depth)
            [] ty.k = "defined" /\ ty.name # "COption" ->
                  IF ty.name \in DOMAIN reg /\ reg[ty.name].ser = "borsh"
                  THEN DefEncodings(reg[ty.name], ty.args, reg, depth + 1) ELSE {}
            [] OTHER -> {}
    IN  IF depth > MaxDecodeDepth THEN {} ELSE Short(all)

=============================================================================
