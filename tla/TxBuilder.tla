------------------------------ MODULE TxBuilder ------------------------------
(***************************************************************************)
(* The four builders of Zcash transactions: TxBuilder spends notes and     *)
(* ShieldingTxBuilder shields transparent coins, each natively (frozt-lib, *)
(* behind a handle) and in the browser (frozt-wasm, a JavaScript object).  *)
(* A caller adds inputs and outputs in any order, builds, has the sighash  *)
(* signed elsewhere and completes with the signatures.  Keys, proofs,      *)
(* memos and ciphertexts are left out: a spend is a value and the anchor   *)
(* its proof is for, an output a value, and a digest the record of what is *)
(* hashed.  A call that fails a check leaves the builder as it was, unless *)
(* an action below says otherwise.                                         *)
(***************************************************************************)
EXTENDS Integers, Sequences

CONSTANTS
    Kind,       \* the builders, a subset of the four names below
    Amount,     \* the amounts callers use, in zatoshis
    Anchor,     \* the anchors of the witnesses callers supply
    Height,     \* the target heights
    NU6, NU6_1, \* activation heights in branch_id_for_height
    Half,       \* 2^63: an i64 is below it, a u64 below its double
    MaxFee,     \* MAX_FEE_ZATOSHIS
    MaxAdds,    \* bound: how many inputs and outputs are added in one behaviour
    None

ASSUME TxAssumption ==
    /\ Kind \subseteq {"spend", "wasmSpend", "shield", "wasmShield"}
    /\ Half \in Nat \ {0} /\ MaxFee \in 0..(Half - 1) /\ MaxAdds \in Nat
    /\ Amount \subseteq 0..(2 * Half - 1)

VARIABLES
    b,       \* the builder, None before it is made and after it is gone
    asked,   \* the sighashes the last build gave its caller, one per signature
    old,     \* the ones of the build before
    tx,      \* the transaction the last complete returned
    reused,  \* was anything added after a build?
    adds     \* how many inputs and outputs were added, for the bound

vars == <<b, asked, old, tx, reused, adds>>

Spending(k) == k \in {"spend", "wasmSpend"}

Wrap(n) == n % (2 * Half)
AsI64(n) == IF n >= Half THEN n - 2 * Half ELSE n
NegI64(n) == IF n = -Half THEN n ELSE -n

Sum(s) ==
    LET upTo[n \in 0..Len(s)] == IF n = 0 THEN 0 ELSE upTo[n - 1] + s[n]
    IN  upTo[Len(s)]
-----------------------------------------------------------------------------
(***************************************************************************)
(* Digests and serialisation.                                              *)
(***************************************************************************)
branch_id_for_height(h) == IF h >= NU6_1 THEN "NU6.1" ELSE IF h >= NU6 THEN "NU6" ELSE "NU5"

hash_header(branch, expiry) == [branch |-> branch, expiry |-> expiry]

\* Each spend with its own anchor, the outputs and the value balance.
hash_sapling(spends, outputs, balance) ==
    IF spends = <<>> /\ outputs = <<>> THEN <<>> ELSE <<spends, outputs, balance>>

hash_transparent_txid_digest(inputs, touts) ==
    [all |-> inputs, outs |-> [i \in DOMAIN touts |-> AsI64(touts[i])], one |-> 0]
hash_transparent_sig_digest(inputs, touts, i) ==
    [all |-> inputs, outs |-> [j \in DOMAIN touts |-> AsI64(touts[j])], one |-> i]

compute_v5_sighash(spends, outputs, balance, branch, expiry) ==
    [header |-> hash_header(branch, expiry), transparent |-> "empty",
     sapling |-> hash_sapling(spends, outputs, balance)]

\* For input i, or for the binding signature when i is 0.
compute_shielding_sighash(inputs, touts, outputs, balance, branch, expiry, i) ==
    [header |-> hash_header(branch, expiry),
     transparent |-> IF i = 0 THEN hash_transparent_txid_digest(inputs, touts)
                     ELSE hash_transparent_sig_digest(inputs, touts, i),
     sapling |-> hash_sapling(<<>>, outputs, balance)]

\* The bytes of a transaction.  A v5 transaction has room for one anchor: that
\* of the first spend.
serialize_v5_tx(spends, outputs, balance, sigs, bound, branch, expiry) ==
    [ins |-> [i \in DOMAIN spends |-> spends[i].value],
     proofs |-> {spends[i].anchor : i \in DOMAIN spends}, anchor |-> spends[1].anchor,
     outputs |-> outputs, touts |-> <<>>, balance |-> balance,
     sigs |-> sigs, bound |-> bound, branch |-> branch, expiry |-> expiry, spending |-> TRUE]

\* Inputs are zipped with the script sigs; their count is written before.
serialize_shielding_v5_tx(inputs, sigs, touts, outputs, balance, bound, branch, expiry) ==
    [ins |-> inputs, proofs |-> {None}, anchor |-> None, outputs |-> outputs,
     touts |-> touts, balance |-> balance, sigs |-> sigs, bound |-> bound,
     branch |-> branch, expiry |-> expiry, spending |-> FALSE]
-----------------------------------------------------------------------------
\* build_tx_builder and frozt_tx_builder_new; the three others start alike.
NewBuilder(k, h) ==
    [kind |-> k, height |-> h, inputs |-> <<>>, outputs |-> <<>>, touts |-> <<>>,
     alphas |-> <<>>, total_input |-> 0, total_output |-> 0, total_transparent |-> 0,
     finished |-> None]
WasmTxBuilder(h) == NewBuilder("wasmSpend", h)
ShieldingTxBuilder(h) == NewBuilder("shield", h)
WasmShieldingTxBuilder(h) == NewBuilder("wasmShield", h)

Init ==
    /\ \E h \in Height :
          b \in {r \in {NewBuilder("spend", h), WasmTxBuilder(h), ShieldingTxBuilder(h),
                        WasmShieldingTxBuilder(h)} : r.kind \in Kind}
    /\ asked = <<>> /\ old = <<>> /\ tx = None /\ reused = FALSE /\ adds = 0

CanAdd == b # None /\ tx = None /\ adds < MaxAdds
Added(nb) ==
    /\ b' = nb
    /\ reused' = (reused \/ asked # <<>>)
    /\ adds' = adds + 1
    /\ UNCHANGED <<asked, old, tx>>

\* make_spend: the proof is for the root of the note's witness; nothing
\* compares it with the anchors of the other spends.
make_spend(v, a) == [value |-> v, anchor |-> a]

add_spendFirst(v, a) ==
    /\ CanAdd /\ b.kind = "spend"
    /\ Added([b EXCEPT !.total_input = Wrap(@ + v),
                       !.inputs = Append(@, make_spend(v, a)),
                       !.alphas = <<make_spend(v, a)>> \o @])

\* frozt_tx_builder_add_spend; alpha i is the randomizer of spend i.
add_spend(v, a) ==
    /\ CanAdd /\ b.kind = "spend"
    /\ Added([b EXCEPT !.total_input = Wrap(@ + v),
                       !.inputs = Append(@, make_spend(v, a)),
                       !.alphas = Append(@, make_spend(v, a))])
wasm_add_spend(v, a) ==
    /\ CanAdd /\ b.kind = "wasmSpend"
    /\ Added([b EXCEPT !.total_input = Wrap(@ + v),
                       !.inputs = Append(@, make_spend(v, a)),
                       !.alphas = Append(@, make_spend(v, a))])

add_output(v) ==
    /\ CanAdd /\ b.kind = "spend"
    /\ Added([b EXCEPT !.total_output = Wrap(@ + v), !.outputs = Append(@, v)])
wasm_add_output(v) ==
    /\ CanAdd /\ b.kind = "wasmSpend"
    /\ Added([b EXCEPT !.total_output = Wrap(@ + v), !.outputs = Append(@, v)])

\* u64::checked_add: a sum that does not fit is refused.
FitsU64Always(n) == TRUE
FitsU64(n) == n < 2 * Half

add_input(v) ==
    /\ CanAdd /\ b.kind = "shield" /\ FitsU64(b.total_input + v)
    /\ Added([b EXCEPT !.total_input = Wrap(@ + v), !.inputs = Append(@, v)])
wasm_add_input(v) ==
    /\ CanAdd /\ b.kind = "wasmShield" /\ FitsU64(b.total_input + v)
    /\ Added([b EXCEPT !.total_input = Wrap(@ + v), !.inputs = Append(@, v)])

shield_add_output(v) ==
    /\ CanAdd /\ b.kind = "shield" /\ FitsU64(b.total_output + v)
    /\ Added([b EXCEPT !.total_output = Wrap(@ + v), !.outputs = Append(@, v)])
wasm_shield_add_output(v) ==
    /\ CanAdd /\ b.kind = "wasmShield" /\ FitsU64(b.total_output + v)
    /\ Added([b EXCEPT !.total_output = Wrap(@ + v), !.outputs = Append(@, v)])

add_transparent_output(v) ==
    /\ CanAdd /\ b.kind = "shield" /\ FitsU64(b.total_transparent + v)
    /\ Added([b EXCEPT !.total_transparent = Wrap(@ + v), !.touts = Append(@, v)])
wasm_add_transparent_output(v) ==
    /\ CanAdd /\ b.kind = "wasmShield" /\ FitsU64(b.total_transparent + v)
    /\ Added([b EXCEPT !.total_transparent = Wrap(@ + v), !.touts = Append(@, v)])
-----------------------------------------------------------------------------
\* The caller receives the sighashes of a build.
Asked(shs) ==
    /\ asked' = shs /\ old' = asked
    /\ UNCHANGED <<tx, reused, adds>>

\* frozt_tx_builder_build: the parts move into the finished state, the totals
\* and the alphas stay.
CanBuildNoFee ==
    /\ b.inputs # <<>>
    /\ b.total_output <= b.total_input
CanBuild ==
    /\ b.inputs # <<>>
    /\ b.total_output <= b.total_input
    /\ b.total_input - b.total_output <= MaxFee
BuildState ==
    LET balance == b.total_input - b.total_output
        branch == branch_id_for_height(b.height)
        expiry == b.height + 100
    IN [inputs |-> b.inputs, outputs |-> b.outputs, balance |-> balance,
        branch |-> branch, expiry |-> expiry,
        sighash |-> compute_v5_sighash(b.inputs, b.outputs, balance, branch, expiry)]
Built(s) ==
    /\ b' = [b EXCEPT !.inputs = <<>>, !.outputs = <<>>, !.finished = s]
    /\ Asked([i \in DOMAIN s.inputs |-> s.sighash])
build ==
    /\ b # None /\ b.kind = "spend" /\ CanBuild
    /\ Built(BuildState)
wasm_build ==
    /\ b # None /\ b.kind = "wasmSpend" /\ CanBuild
    /\ Built(BuildState)

\* frozt_shielding_tx_builder_build.  The browser's keeps its parts and only
\* remembers the sighashes.
CanShield ==
    /\ b.inputs # <<>> /\ b.outputs # <<>>
    /\ FitsU64(b.total_output + b.total_transparent)
    /\ b.total_input > b.total_output + b.total_transparent
ShieldBalance == NegI64(AsI64(b.total_output))
ShieldingSighash(i) ==
    compute_shielding_sighash(b.inputs, b.touts, b.outputs, ShieldBalance,
                              branch_id_for_height(b.height), b.height + 40, i)
ShieldingBuildState ==
    [inputs |-> b.inputs, outputs |-> b.outputs, touts |-> b.touts, balance |-> ShieldBalance,
     branch |-> branch_id_for_height(b.height), expiry |-> b.height + 40,
     sighash |-> ShieldingSighash(0)]
shield_build ==
    /\ b # None /\ b.kind = "shield" /\ CanShield
    /\ b' = [b EXCEPT !.inputs = <<>>, !.outputs = <<>>, !.touts = <<>>,
                      !.finished = ShieldingBuildState]
    /\ Asked([i \in DOMAIN b.inputs |-> ShieldingSighash(i)])
wasm_shield_build ==
    /\ b # None /\ b.kind = "wasmShield" /\ CanShield
    /\ b' = [b EXCEPT !.finished = [inputs |-> <<>>, outputs |-> <<>>,
                                    n |-> Len(b.inputs), sighash |-> ShieldingSighash(0)]]
    /\ Asked([i \in DOMAIN b.inputs |-> ShieldingSighash(i)])
-----------------------------------------------------------------------------
\* The caller returns with signatures of the sighashes of the last build or of
\* the one before.
Signatures == {s \in {asked, old} : s # <<>>}
Returned(nb, t) ==
    /\ b' = nb /\ tx' = t
    /\ UNCHANGED <<asked, old, reused, adds>>

\* frozt_tx_builder_complete takes the builder out of the table before it looks
\* at the signatures: whatever is wrong with them, the builder is gone.
complete(sigs) ==
    /\ b # None /\ b.kind = "spend" /\ tx = None
    /\ LET s == b.finished IN
       IF s = None \/ (s # None /\ Len(sigs) # Len(s.inputs)) THEN Returned(None, None)
       ELSE Returned(None, serialize_v5_tx(s.inputs, s.outputs, s.balance, sigs, s.sighash,
                                           s.branch, s.expiry))

\* WasmTxBuilder.complete takes the finished state only: the builder can be
\* filled again.
wasm_complete(sigs) ==
    /\ b # None /\ b.kind = "wasmSpend" /\ tx = None /\ b.finished # None
    /\ LET s == b.finished
           left == [b EXCEPT !.finished = None] IN
       IF Len(sigs) # Len(s.inputs) THEN Returned(left, None)
       ELSE Returned(left, serialize_v5_tx(s.inputs, s.outputs, s.balance, sigs, s.sighash,
                                           s.branch, s.expiry))

shield_complete(sigs) ==
    /\ b # None /\ b.kind = "shield" /\ tx = None
    /\ LET s == b.finished IN
       IF s = None \/ (s # None /\ Len(sigs) # Len(s.inputs)) THEN Returned(None, None)
       ELSE Returned(None, serialize_shielding_v5_tx(s.inputs, sigs, s.touts, s.outputs,
                               s.balance, s.sighash, s.branch, s.expiry))

\* WasmShieldingTxBuilder.complete serialises what the builder holds now under
\* the sighashes of its last build, and can be called again.
wasm_shield_complete(sigs) ==
    /\ b # None /\ b.kind = "wasmShield" /\ tx = None /\ b.finished # None
    /\ Len(sigs) = b.finished.n
    /\ Returned(b, serialize_shielding_v5_tx(b.inputs, sigs, b.touts, b.outputs,
                       ShieldBalance, b.finished.sighash,
                       branch_id_for_height(b.height), b.height + 40))

\* The caller has broadcast the transaction and goes on with the builder.
Broadcast ==
    /\ b # None /\ tx # None
    /\ Returned(b, None)

\* handle_free, or free() of the JavaScript object.
Free ==
    /\ b # None
    /\ Returned(None, tx)

Next ==
    \/ \E v \in Amount :
          \/ \E a \in Anchor : add_spend(v, a) \/ wasm_add_spend(v, a)
          \/ add_output(v) \/ wasm_add_output(v) \/ add_input(v) \/ wasm_add_input(v)
          \/ shield_add_output(v) \/ wasm_shield_add_output(v)
          \/ add_transparent_output(v) \/ wasm_add_transparent_output(v)
    \/ build \/ wasm_build \/ shield_build \/ wasm_shield_build
    \/ \E s \in Signatures \cup {<<>>} :
          complete(s) \/ wasm_complete(s) \/ shield_complete(s) \/ wasm_shield_complete(s)
    \/ Broadcast \/ Free

Spec == Init /\ [][Next]_vars
-----------------------------------------------------------------------------
(***************************************************************************)
(* What the network checks, computing the digests as the library does and  *)
(* not as ZIP 244 has them: the proofs are for the one anchor, the binding *)
(* signature proves that the values balance, the transparent part pays for *)
(* the rest, and every signature is of the digest of the transaction as it *)
(* arrived.                                                                *)
(***************************************************************************)
Digest(t, i) ==
    IF t.spending
    THEN compute_v5_sighash([j \in DOMAIN t.ins |-> make_spend(t.ins[j], t.anchor)],
                            t.outputs, t.balance, t.branch, t.expiry)
    ELSE compute_shielding_sighash(t.ins, t.touts, t.outputs, t.balance, t.branch, t.expiry, i)

Fee(t) == Sum(t.ins) - Sum(t.outputs) - Sum(t.touts)

Accepted(t) ==
    /\ t.proofs = {t.anchor}
    /\ t.balance = (IF t.spending THEN Sum(t.ins) ELSE 0) - Sum(t.outputs)
    /\ Fee(t) >= 0
    /\ Len(t.sigs) = Len(t.ins)
    /\ \A i \in DOMAIN t.sigs : t.sigs[i] = Digest(t, i)
    /\ t.bound = Digest(t, 0)

\* A careful caller adds nothing after a build, takes all its witnesses at one
\* height, has the last sighashes signed, and handles inputs far below 2^63; of the
\* spending builders, whose outputs are added up unchecked, outputs as well.
Careful ==
    /\ ~reused
    /\ tx.sigs = asked
    /\ tx.proofs = {tx.anchor}
    /\ Sum(tx.ins) < Half
    /\ tx.spending => Sum(tx.outputs) < Half

\* What a careful caller gets from complete passes these checks: the totals kept
\* beside the parts, the balance, the library's digests that were signed and the bytes
\* that are serialised agree in all four builders.
CompletedIsAccepted == (tx # None /\ Careful) => Accepted(tx)

\* Whatever the caller does, a transaction of the spending builders that passes them
\* pays at most MAX_FEE_ZATOSHIS, also when parts were added after a build,
\* built again with the totals of both, or when the totals wrapped around; and a
\* careful caller's shielding transaction pays a fee.
FeeBounds ==
    (tx # None /\ Accepted(tx)) =>
        IF tx.spending THEN Fee(tx) <= MaxFee ELSE Careful => Fee(tx) > 0

\* A builder that was not refilled has one randomizer per spend that waits for a
\* signature, in the same order: signing alpha by alpha gives exactly the
\* signatures complete expects.
AlphaPerSpend ==
    (b # None /\ ~reused /\ Spending(b.kind) /\ b.finished # None) =>
        b.alphas = b.finished.inputs
=============================================================================
