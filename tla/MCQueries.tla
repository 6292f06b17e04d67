----------------------------- MODULE MCQueries -----------------------------
(***************************************************************************)
(* The tables of a program, as they are written and queried: Instructions  *)
(* and Accounts.  Nothing that is done to one of them depends on the       *)
(* other, so a behaviour either has a chain of blocks or accounts.         *)
(*                                                                         *)
(* Two families of chains: one instruction with every possible data of up  *)
(* to MaxPayload bytes, for an IDL that has one instruction per type the   *)
(* decoder knows; and three blocks in which transactions invoke the        *)
(* program several times, for the pages.                                   *)
(***************************************************************************)
EXTENDS Instructions, Accounts

CONSTANTS MaxPayload, a1, a2

T(kind) == [k |-> kind]
OptionOf(t) == [k |-> "option", of |-> t]
VecOf(t) == [k |-> "vec", of |-> t]
ArrayOf(t, n) == [k |-> "array", of |-> t, len |-> n]
Defined(n, as) == [k |-> "defined", name |-> n, args |-> as]
Generic(n) == [k |-> "generic", name |-> n]

Field(n, t) == [name |-> n, ty |-> t]
Named(fs) == [shape |-> "named", of |-> fs]
Tuple(ts) == [shape |-> "tuple", of |-> [i \in DOMAIN ts |-> Field("", ts[i])]]
Unit == [shape |-> "unit", of |-> <<>>]
Struct(n, ps, fs) == [name |-> n, ser |-> "borsh", params |-> ps, form |-> "struct", fields |-> fs]
Variant(n, fs) == [name |-> n, fields |-> fs]

MCScalarSize ==
    [bool |-> 1, u8 |-> 1, i8 |-> 1, u32 |-> 1, u64 |-> 2, i64 |-> 2, u128 |-> 3, i128 |-> 3,
     u256 |-> 4, f64 |-> 2, pubkey |-> 2]

MCNonFinite == {<<3, 3>>}
MCComputed(space, name) == IF space = "global" THEN <<3, 3>> ELSE <<3, 2>>

MCTypes == <<
    Struct("Pair", <<>>, Named(<<Field("a", T("u8")), Field("b", T("bool"))>>)),
    Struct("Wide", <<>>, Tuple(<<T("i8"), T("u64")>>)),
    Struct("Nothing", <<>>, Unit),
    Struct("Box", <<"T">>, Named(<<Field("x", Generic("T")), Field("y", T("u8"))>>)),
    Struct("List", <<>>, Named(<<Field("next", OptionOf(Defined("List", <<>>)))>>)),
    [name |-> "Side", ser |-> "borsh", params |-> <<>>, form |-> "enum",
     variants |-> <<Variant("Bid", Unit), Variant("Ask", Tuple(<<T("u8")>>)),
                    Variant("Both", Named(<<Field("n", T("bool")), Field("m", T("u8"))>>))>>],
    [name |-> "Amount", ser |-> "borsh", params |-> <<>>, form |-> "alias", alias |-> T("u64")],
    [name |-> "Raw", ser |-> "bytemuck", params |-> <<>>, form |-> "struct",
     fields |-> Named(<<Field("a", T("u8"))>>)],
    Struct("Pool", <<>>, Named(<<Field(<<"amount", "_in">>, Defined("Amount", <<>>)),
                                 Field(<<"fee">>, OptionOf(T("u8"))),
                                 Field(<<"tick", "Size">>, T("i8")),
                                 Field(<<"root">>, T("u256"))>>)),
    Struct("Vault", <<>>, Named(<<Field(<<"size">>, T("u32"))>>)) >>

\* The arguments of the instructions, one instruction each.
MCArgs == <<
    <<T("bool"), T("i64")>>, <<T("u128")>>, <<T("i8"), T("f64")>>, <<T("u256")>>,
    <<T("string"), T("bool")>>, <<T("bytes"), T("u8")>>, <<T("pubkey"), OptionOf(T("i8"))>>,
    <<VecOf(Defined("Pair", <<>>)), T("u8")>>, <<ArrayOf(OptionOf(T("bool")), 2), T("u8")>>,
    <<Defined("COption", <<Defined("Pair", <<>>)>>), T("bool")>>,
    <<Defined("COption", <<T("string")>>)>>, <<Defined("Side", <<>>), T("u8")>>,
    <<Defined("Box", <<VecOf(T("bool"))>>)>>, <<Defined("List", <<>>), T("bool")>>,
    <<Defined("Amount", <<>>), Defined("Nothing", <<>>), Defined("Wide", <<>>)>>,
    <<Defined("Raw", <<>>)>> >>

Names == <<"i0", "i1", "i2", "i3", "i4", "i5", "i6", "i7", "i8", "i9", "i10", "i11",
           "i12", "i13", "i14", "i15">>
ArgNames == <<"p", "q", "r">>

\* The last but one has no discriminator and is found by its computed one.
MCInstruction(i) ==
    [name |-> Names[i],
     disc |-> CASE i < 15 -> <<(i - 1) \div 4, (i - 1) % 4>> [] i = 15 -> <<>> [] i = 16 -> <<3, 2>>,
     args |-> [k \in DOMAIN MCArgs[i] |-> Field(ArgNames[k], MCArgs[i][k])]]

MCIdl == [instructions |-> [i \in 1 .. 16 |-> MCInstruction(i)],
          accounts |-> <<[name |-> "Pool", disc |-> <<1>>], [name |-> "Vault", disc |-> <<>>]>>,
          types |-> MCTypes]

Payloads == UNION {ByteStrings(n) : n \in 0 .. MaxPayload}

Ix(p, as, d) == [prog |-> p, accts |-> as, data |-> d]
RawTx(s, is, in) ==
    [sigs |-> <<s>>, err |-> FALSE, keys |-> <<"payer", Program>>, writable |-> <<"w">>,
     readonly |-> <<"r">>, ixs |-> is, inner |-> in]
Block(t, ts) == [time |-> t, txs |-> ts]

\* One transaction with one instruction.
Discs == {MCInstruction(i).disc : i \in 1 .. 16} \cup {MCComputed("global", "i14")}
DataChains ==
    {<<Block(0, <<RawTx(1, <<Ix(1, <<>>, d \o p)>>, <<>>)>>)>> : d \in Discs, p \in Payloads}

Ping == <<0, 0, 1, 0, 0>>
Pong == <<2, 3, 0, 1>>

\* Three blocks.  In the first, one transaction invokes the program at the top
\* level and through another program, and one only through another program;
\* the second has a failed transaction; the third a transaction whose data is
\* not base58, so that only the stream can index the other one.
PageChain == <<
    Block(5, <<RawTx(2, <<Ix(1, <<3, 2, 0>>, Ping), Ix(0, <<>>, Pong)>>,
                        <<[index |-> 1, ixs |-> <<Ix(1, <<>>, Ping), Ix(1, <<2>>, Ping)>>]>>),
               RawTx(1, <<Ix(0, <<>>, Ping)>>, <<[index |-> 0, ixs |-> <<Ix(1, <<>>, Ping)>>]>>)>>),
    Block(9, <<[RawTx(3, <<Ix(1, <<>>, NotBase58)>>, <<>>) EXCEPT !.err = TRUE],
               RawTx(4, <<Ix(1, <<>>, Ping), Ix(1, <<>>, Pong)>>, <<>>)>>),
    Block(14, <<RawTx(5, <<Ix(0, <<>>, NotBase58)>>, <<>>), RawTx(6, <<Ix(1, <<>>, Ping)>>, <<>>)>>) >>

MCChains == DataChains \cup {PageChain, <<>>}
PageChains == {PageChain}

MCRequest == {[name |-> "i0", slot_gte |-> 0, limit |-> 0], [name |-> "i0", slot_gte |-> 0, limit |-> 1],
              [name |-> "i0", slot_gte |-> 2, limit |-> 9]}

-----------------------------------------------------------------------------
MCPgSize == [SMALLINT |-> 2, INTEGER |-> 1, BIGINT |-> 2]
MCSanitize(name) == IF name = <<"tick", "Size">> THEN <<"tick", "size">> ELSE name
MCAccount == {a1, a2}

Held(d) == [data |-> d, lamports |-> Len(d)]
Root == <<1, 0, 0, 2>>
Pool(amount, fee) ==
    {<<"Pool", <<"obj", << <<<<"amount", "_in">>, amount>>, <<<<"fee">>, fee>>,
                           <<<<"tick", "Size">>, <<"num", 1>>>>, <<<<"root">>, <<"hex", Root>>>> >> >> >>}
Vault(size) == {<<"Vault", <<"obj", << <<<<"size">>, size>> >> >> >>}

\* A pool at i64::MAX with a fee and one above it without, a vault
\* beyond its column, and a pool cut short, with what they decode to.
Decoded ==
    (Held(<<1, 3, 1, 1, 2, 1>> \o Root) :> Pool(<<"num", 7>>, <<"num", 2>>)) @@
    (Held(<<1, 0, 2, 0, 1>> \o Root)    :> Pool(<<"num", 8>>, Null)) @@
    (Held(<<3, 2, 3>>)                  :> Vault(<<"num", 3>>)) @@
    (Held(<<1, 0>>)                     :> {})

MCContent == DOMAIN Decoded
MCClosed == Held(<<>>)
MCDecodeAccount(c) == Decoded[c]

\* The table is what the decoder computes.
ASSUME DecodedByDecoder ==
    \A c \in MCContent :
        LET account == DecodeAccountData(c.data, MCIdl)
        IN  Decoded[c] = IF account.ok THEN {<<account.name, account.val>>} ELSE {}

-----------------------------------------------------------------------------
Empty == [k \in Account |-> Closed]

\* The first account is a pool or absent to begin with.
MCInit ==
    /\ Init /\ SnapshotInit
    /\ hist[1][a1] \in {Held(<<1, 3, 1, 1, 2, 1>> \o Root), Closed}
    /\ chain # <<>> => hist = <<Empty>>

\* Blocks and transactions are asked for with no accounts around, by one call.
MCAccountsNext ==
    /\ chain = <<>>
    /\ SnapshotNext
    /\ calls' # calls /\ pc' # "keys" => calls = 0 /\ hist = <<Empty>>
    /\ hi # 0 \/ pc \in {"block", "transaction", "some", "none"} => UNCHANGED <<hist, cancelled, calls>>

MCNext ==
    \/ chain # <<>> /\ Next /\ UNCHANGED snapshotVars
    \/ MCAccountsNext /\ UNCHANGED instrVars

MCSpec ==
    /\ MCInit /\ [][MCNext]_<<instrVars, snapshotVars>>
    /\ WF_instrVars(NextPage /\ UNCHANGED <<chain, indexed, snapshotVars>>)
    /\ WF_snapshotVars(ClientStep /\ UNCHANGED instrVars)
=============================================================================
