------------------------------- MODULE Decoder -------------------------------
(***************************************************************************)
(* The Borsh decoder of decoder/mod.rs: it turns the raw bytes of an       *)
(* instruction or an account into JSON, guided by an Anchor IDL.           *)
(*                                                                         *)
(* Everything here is a pure operator.  Scaled down by constants: the      *)
(* number of byte values, the sizes of the scalar types, the size of a     *)
(* length prefix (u32 in the code), the length of a computed discriminator *)
(* (8 in the code) and MAX_DECODE_DEPTH (64 in the code).                  *)
(*                                                                         *)
(* A JSON value is a pair <<tag, content>>, so that two values of          *)
(* different shape are comparable: <<"num", n>>, <<"str", s>>,             *)
(* <<"bool", b>>, <<"null", 0>>, <<"arr", seq>> and                        *)
(* <<"obj", seq of <<key, value>> >>.                                      *)
(***************************************************************************)
EXTENDS Integers, Sequences, SequencesExt

CONSTANTS
    Base,           \* number of byte values
    ScalarSize,     \* [scalar type name -> its size in bytes]
    LenSize,        \* size of a u32: length prefixes and COption tags
    DiscSize,       \* length of a computed discriminator
    MaxDecodeDepth, \* MAX_DECODE_DEPTH
    NonFinite,      \* encodings of the NaN and infinite floats
    Idl,            \* the program's IDL: [instructions, accounts, types]
    Computed(_, _)  \* the SHA-256 discriminator of ("global" | "account", name)

ASSUME DecoderConstants ==
    /\ Base \in Nat \ {0, 1} /\ LenSize \in Nat \ {0}
    /\ DiscSize \in Nat \ {0} /\ MaxDecodeDepth \in Nat

Byte == 0 .. Base - 1
Null == <<"null", 0>>

\* Ok((value, consumed)) and Err(variant) of the decoding functions.
Ok(v, n) == [ok |-> TRUE, val |-> v, n |-> n]
Err(variant) == [ok |-> FALSE, err |-> variant]
Failed == Err("deserialization_failed")
Unsupported == Err("unsupported_type")

\* The operator ?: go on with what was computed, or return its error.
Try(result, Then(_)) == CHOOSE out \in {IF r.ok THEN Then(r) ELSE r : r \in {result}} : TRUE

\* ensure_bytes; offsets count the bytes before the one to be read.
EnsureBytes(data, offset, needed) == offset + needed <= Len(data)

Bytes(data, offset, n) == SubSeq(data, offset + 1, offset + n)

\* from_le_bytes of an unsigned integer.
LittleEndian(bs) ==
    FoldRight(LAMBDA b, high : b + Base * high, bs, 0)

Signed == {"i8", "i16", "i32", "i64", "i128"}

\* from_le_bytes of a two's complement integer.
FromLeBytes(kind, bs) ==
    LET v == LittleEndian(bs)
        modulus == Base ^ Len(bs)
    IN  IF kind \in Signed /\ 2 * v >= modulus THEN v - modulus ELSE v

-----------------------------------------------------------------------------
(* Types without parts.                                                    *)

\* How the value of a scalar appears in JSON: integers up to 64 bits and
\* finite floats as numbers, 128-bit integers as decimal strings, 256-bit
\* integers as hex strings, keys in base58, other floats by name.
Shown(kind, bs) ==
    CASE kind = "bool"                -> <<"bool", bs[1] = 1>>
      [] kind \in {"u128", "i128"}    -> <<"dec", FromLeBytes(kind, bs)>>
      [] kind \in {"u256", "i256"}    -> <<"hex", bs>>
      [] kind = "pubkey"              -> <<"base58", bs>>
      [] kind \in {"f32", "f64"}      -> <<IF bs \in NonFinite THEN "str" ELSE "float", bs>>
      [] OTHER                        -> <<"num", FromLeBytes(kind, bs)>>

DecodeScalar(data, offset, kind) ==
    LET size == ScalarSize[kind]
        bs == Bytes(data, offset, size)
    IN  IF ~EnsureBytes(data, offset, size) THEN Failed
        ELSE IF kind = "bool" /\ bs[1] \notin {0, 1} THEN Failed
        ELSE Ok(Shown(kind, bs), size)

\* A u32, read as a count, a length or a tag.
ReadU32(data, offset) ==
    IF EnsureBytes(data, offset, LenSize)
    THEN Ok(LittleEndian(Bytes(data, offset, LenSize)), LenSize)
    ELSE Failed

\* Text is valid when every byte is in the lower (ASCII) half.
ValidUtf8(bs) == \A i \in DOMAIN bs : 2 * bs[i] < Base

\* IdlType::String and IdlType::Bytes.
DecodeText(data, offset, kind) ==
    Try(ReadU32(data, offset), LAMBDA len :
        LET bs == Bytes(data, offset + LenSize, len.val)
        IN  IF ~EnsureBytes(data, offset + LenSize, len.val) THEN Failed
            ELSE IF kind = "bytes"
                 THEN Ok(<<"arr", [i \in DOMAIN bs |-> <<"num", bs[i]>>]>>, LenSize + len.val)
            ELSE IF ValidUtf8(bs) THEN Ok(<<"str", bs>>, LenSize + len.val)
            ELSE Failed)

-----------------------------------------------------------------------------
(* Named types: reg is the TypeRegistry, a function from names to          *)
(* definitions [ser, params, form, ...].                                   *)

\* TypeRegistry::from_idl: the last definition of a name wins.
FromIdl(types) ==
    [name \in {types[i].name : i \in DOMAIN types} |->
        types[CHOOSE i \in DOMAIN types :
                /\ types[i].name = name
                /\ \A k \in DOMAIN types : types[k].name = name => k <= i]]

\* TypeRegistry::resolve followed by check_serialization.
Resolves(reg, name) == name \in DOMAIN reg
CheckSerialization(def) == def.ser = "borsh"

\* The bindings of a generic definition: its type parameters, in order, over
\* those of the place where it is used.
Bind(env, def, args) ==
    LET n == IF Len(def.params) < Len(args) THEN Len(def.params) ELSE Len(args)
        index(p) == CHOOSE i \in 1 .. n : def.params[i] = p
        bound == {def.params[i] : i \in 1 .. n}
    IN  [p \in DOMAIN env \cup bound |-> IF p \in bound THEN args[index(p)] ELSE env[p]]

\* The sum of sizes, where -1 stands for None.
AddSizes(sizes) ==
    FoldLeft(LAMBDA a, b : IF a = -1 \/ b = -1 THEN -1 ELSE a + b, 0, sizes)

RECURSIVE FixedSize(_, _, _)

\* fixed_size: the encoded size of a type whose values all have the same one,
\* -1 (None) for the others.
FixedSize(ty, reg, depth) ==
    LET def == reg[ty.name]
        sizeOf(t) == FixedSize(t, reg, depth + 1)
    IN  CASE depth > MaxDecodeDepth -> -1
          [] ty.k \in DOMAIN ScalarSize -> ScalarSize[ty.k]
          [] ty.k = "array" /\ ty.len >= 0 ->
                IF sizeOf(ty.of) = -1 THEN -1 ELSE sizeOf(ty.of) * ty.len
          [] ty.k = "defined" /\ ty.name = "COption" ->
                IF ty.args = <<>> THEN -1
                ELSE AddSizes(<<LenSize, sizeOf(ty.args[1])>>)
          [] ty.k = "defined" /\ ty.name # "COption" /\ Resolves(reg, ty.name) ->
                CASE def.form = "struct" /\ def.fields.shape # "unit" ->
                        AddSizes([i \in DOMAIN def.fields.of |-> sizeOf(def.fields.of[i].ty)])
                  [] def.form = "alias" -> sizeOf(def.alias)
                  [] OTHER -> -1
          [] OTHER -> -1

\* Some fields, as the JSON of a struct or of an enum variant.
FieldsShown(fields, vals) ==
    IF fields.shape = "tuple" THEN <<"arr", vals>>
    ELSE <<"obj", [i \in DOMAIN vals |-> <<fields.of[i].name, vals[i]>>]>>

\* A variant's payload: one unnamed field stands for itself.
PayloadShown(fields, vals) ==
    IF fields.shape = "tuple" /\ Len(vals) = 1 THEN vals[1] ELSE FieldsShown(fields, vals)

FieldTypes(fields) == [i \in DOMAIN fields.of |-> fields.of[i].ty]

-----------------------------------------------------------------------------
(* decode_type and the functions it calls back.                            *)

RECURSIVE DecodeType(_, _, _, _, _, _), DecodeAll(_, _, _, _, _, _),
          DecodeTypedef(_, _, _, _, _, _)

\* The loop of Vec, Array, struct, tuple and variant: one type after the
\* other, each where the one before it ended; val is the sequence of values.
DecodeAll(data, offset, tys, reg, env, depth) ==
    IF tys = <<>> THEN Ok(<<>>, 0)
    ELSE Try(DecodeType(data, offset, Head(tys), reg, env, depth), LAMBDA first :
             Try(DecodeAll(data, offset + first.n, Tail(tys), reg, env, depth), LAMBDA rest :
                 Ok(<<first.val>> \o rest.val, first.n + rest.n)))

DecodeOption(data, offset, ty, reg, env, depth) ==
    IF ~EnsureBytes(data, offset, 1) THEN Failed
    ELSE CASE data[offset + 1] = 0 -> Ok(Null, 1)
           [] data[offset + 1] = 1 -> Try(DecodeType(data, offset + 1, ty.of, reg, env, depth + 1),
                                          LAMBDA inner : Ok(inner.val, 1 + inner.n))
           [] OTHER -> Failed

\* COption: a u32 tag, and room for the value whether it is there or not.
DecodeCoption(data, offset, args, reg, env, depth) ==
    LET size == FixedSize(args[1], reg, 0)
    IN  IF args = <<>> THEN Unsupported
        ELSE IF size = -1 THEN Unsupported
        ELSE Try(ReadU32(data, offset), LAMBDA tag :
            CASE tag.val = 0 ->
                    IF EnsureBytes(data, offset, LenSize + size)
                    THEN Ok(Null, LenSize + size) ELSE Failed
              [] tag.val = 1 ->
                    Try(DecodeType(data, offset + LenSize, args[1], reg, env, depth + 1),
                        LAMBDA inner : Ok(inner.val, LenSize + size))
              [] OTHER -> Failed)

DecodeDefined(data, offset, ty, reg, env, depth) ==
    IF ty.name = "COption" THEN DecodeCoption(data, offset, ty.args, reg, env, depth)
    ELSE IF ~Resolves(reg, ty.name) THEN Failed
    ELSE IF ~CheckSerialization(reg[ty.name]) THEN Unsupported
    ELSE DecodeTypedef(data, offset, reg[ty.name], reg,
                       Bind(env, reg[ty.name], ty.args), depth + 1)

DecodeType(data, offset, ty, reg, env, depth) ==
    LET items(n, before) ==
            Try(DecodeAll(data, offset + before, [i \in 1 .. n |-> ty.of], reg, env, depth + 1),
                LAMBDA all : Ok(<<"arr", all.val>>, before + all.n))
    IN  IF depth > MaxDecodeDepth THEN Failed
        ELSE CASE ty.k \in DOMAIN ScalarSize     -> DecodeScalar(data, offset, ty.k)
               [] ty.k \in {"string", "bytes"}   -> DecodeText(data, offset, ty.k)
               [] ty.k = "option"  -> DecodeOption(data, offset, ty, reg, env, depth)
               [] ty.k = "vec"     -> Try(ReadU32(data, offset), LAMBDA count : items(count.val, LenSize))
               [] ty.k = "array"   -> IF ty.len >= 0 THEN items(ty.len, 0) ELSE Failed
               [] ty.k = "defined" -> DecodeDefined(data, offset, ty, reg, env, depth)
               [] ty.k = "generic" ->
                    IF ty.name \in DOMAIN env
                    THEN DecodeType(data, offset, env[ty.name], reg, env, depth + 1)
                    ELSE Failed
               [] OTHER -> Unsupported

DecodeStructFields(data, offset, fields, reg, env, depth) ==
    Try(DecodeAll(data, offset, FieldTypes(fields), reg, env, depth + 1),
        LAMBDA all : Ok(FieldsShown(fields, all.val), all.n))

\* An enum: a byte that selects the variant, then its fields.
DecodeEnum(data, offset, variants, reg, env, depth) ==
    LET variant == variants[data[offset + 1] + 1]
        shown(vals) == <<"obj", << <<variant.name, PayloadShown(variant.fields, vals)>> >> >>
    IN  IF ~EnsureBytes(data, offset, 1) THEN Failed
        ELSE IF data[offset + 1] >= Len(variants) THEN Failed
        ELSE Try(DecodeAll(data, offset + 1, FieldTypes(variant.fields), reg, env, depth + 1),
                 LAMBDA all : Ok(shown(all.val), 1 + all.n))

DecodeTypedef(data, offset, def, reg, env, depth) ==
    CASE def.form = "struct" -> DecodeStructFields(data, offset, def.fields, reg, env, depth)
      [] def.form = "enum"   -> DecodeEnum(data, offset, def.variants, reg, env, depth)
      [] def.form = "alias"  -> DecodeType(data, offset, def.alias, reg, env, depth + 1)

-----------------------------------------------------------------------------
(* Discriminators.  An entry is an instruction or an account of the IDL,   *)
(* [name, disc, ...]; disc is <<>> in IDLs older than Anchor 0.30.         *)

\* find_instruction, find_account: the first entry whose discriminator is a
\* prefix of the data; 0 for None.
FindByDiscriminator(data, entries) ==
    SelectInSeq(entries, LAMBDA e : e.disc # <<>> /\ IsPrefix(e.disc, data))

\* The SHA-256 fallback of find_*_with_fallback, for entries without one.
FindByName(data, entries, space) ==
    SelectInSeq(entries, LAMBDA e : e.disc = <<>> /\ IsPrefix(Computed(space, e.name), data))

FindWithFallback(data, entries, space) ==
    LET i == FindByDiscriminator(data, entries)
    IN  IF i # 0 THEN i ELSE FindByName(data, entries, space)

DiscLen(entry) == IF entry.disc = <<>> THEN DiscSize ELSE Len(entry.disc)

\* decode_instruction: the arguments in order; bytes after the last one are
\* tolerated.  name is the instruction that was recognised.
DecodeInstruction(data, idl) ==
    LET i == FindWithFallback(data, idl.instructions, "global")
        ix == idl.instructions[i]
        shown(vals) == <<"obj", [k \in DOMAIN vals |-> <<ix.args[k].name, vals[k]>>]>>
    IN  IF i = 0 THEN Err("unknown_discriminator")
        ELSE Try(DecodeAll(data, DiscLen(ix), [k \in DOMAIN ix.args |-> ix.args[k].ty],
                           FromIdl(idl.types), << >>, 0),
                 LAMBDA args : [name |-> ix.name] @@ Ok(shown(args.val), args.n))

\* decode_account: the type named like the account.
DecodeAccountData(data, idl) ==
    LET i == FindWithFallback(data, idl.accounts, "account")
        account == idl.accounts[i]
        reg == FromIdl(idl.types)
    IN  IF i = 0 THEN Err("unknown_discriminator")
        ELSE IF ~Resolves(reg, account.name) THEN Failed
        ELSE IF ~CheckSerialization(reg[account.name]) THEN Unsupported
        ELSE IF Len(data) < DiscLen(account) THEN Failed
        ELSE Try(DecodeTypedef(data, DiscLen(account), reg[account.name], reg, << >>, 0),
                 LAMBDA state : [name |-> account.name] @@ state)

=============================================================================
