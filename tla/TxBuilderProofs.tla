--------------------------- MODULE TxBuilderProofs ---------------------------
(***************************************************************************)
(* Proofs about the four transaction builders, for any amounts, heights    *)
(* and numbers of parts.                                                   *)
(*                                                                         *)
(* The builders keep running totals beside the parts, so the proofs first  *)
(* need what a sum is: Sum is a recursive function, and the facts about it *)
(* are proved by induction on the length, from the well-foundedness of <.  *)
(* The invariant says what a builder that was not refilled holds before    *)
(* its build (Open), after it (Closed), and which finished state its       *)
(* transaction is the serialisation of (Serialised).                       *)
(***************************************************************************)
EXTENDS TxBuilder, SequenceTheorems, WellFoundedInduction, TLAPS

-----------------------------------------------------------------------------
(***************************************************************************)
(* Induction and sums.                                                     *)
(***************************************************************************)
\* Every nonempty set of naturals has a least member.
LEMMA LeastMember ==
    ASSUME NEW S \in SUBSET Nat, S # {}
    PROVE  \E x \in S : \A y \in S : x <= y
<1>1. \E R : IsWellFoundedOn(R, Nat) /\ \A x, y \in Nat : <<y, x>> \in R <=> y < x
  <2> DEFINE R == {rr \in Nat \X Nat : rr[1] < rr[2]}
  <2>1. IsWellFoundedOn(R, Nat)
    BY NatLessThanWellFounded DEF OpToRel
  <2>2. \A x, y \in Nat : <<y, x>> \in R <=> y < x
    OBVIOUS
  <2> QED
    BY <2>1, <2>2
<1>2. PICK R : IsWellFoundedOn(R, Nat) /\ \A x, y \in Nat : <<y, x>> \in R <=> y < x
  BY <1>1
<1>3. PICK x \in S : \A y \in S : ~ (<<y, x>> \in R)
  BY <1>2, WFMin
<1>4. \A y \in S : x <= y
  <2> TAKE y \in S
  <2>1. ~ (y < x)
    BY <1>2, <1>3
  <2> QED
    BY <2>1
<1> QED
  BY <1>4

\* Induction over the naturals, for a set instead of a predicate.
LEMMA NatSetInduction ==
    ASSUME NEW S \in SUBSET Nat, 0 \in S, \A n \in S : n + 1 \in S
    PROVE  S = Nat
<1> SUFFICES ASSUME Nat \ S # {} PROVE FALSE
  OBVIOUS
<1>1. PICK x \in Nat \ S : \A y \in Nat \ S : x <= y
  BY LeastMember
<1>2. x - 1 \in Nat /\ x - 1 \in S
  BY <1>1
<1> QED
  BY <1>1, <1>2

\* f holds the sums of the first members of s.
Partial(s, f, n) == f = [k \in 0..n |-> IF k = 0 THEN 0 ELSE f[k - 1] + s[k]]

LEMMA PartialExists ==
    ASSUME NEW s
    PROVE  \A n \in Nat : \E f : Partial(s, f, n)
<1> DEFINE S == {n \in Nat : \E f : Partial(s, f, n)}
<1>1. 0 \in S
  <2> DEFINE f == [k \in 0..0 |-> 0]
  <2>1. Partial(s, f, 0)
    BY DEF Partial
  <2> QED
    BY <2>1
<1>2. ASSUME NEW n \in S PROVE n + 1 \in S
  <2>1. PICK f : Partial(s, f, n)
    OBVIOUS
  <2> DEFINE g == [k \in 0..(n+1) |-> IF k = n + 1 THEN f[n] + s[n+1] ELSE f[k]]
  <2>2. \A k \in 0..n : f[k] = IF k = 0 THEN 0 ELSE f[k - 1] + s[k]
    BY <2>1 DEF Partial
  <2>3. \A k \in 0..(n+1) : g[k] = IF k = 0 THEN 0 ELSE g[k - 1] + s[k]
    <3> TAKE k \in 0..(n+1)
    <3>1. CASE k = n + 1
      BY <3>1
    <3>2. CASE k # n + 1
      <4>1. k \in 0..n /\ (k # 0 => k - 1 \in 0..n)
        BY <3>2
      <4> QED
        BY <2>2, <4>1
    <3> QED
      BY <3>1, <3>2
  <2>4. Partial(s, g, n+1)
    BY <2>3 DEF Partial
  <2> QED
    BY <2>4
<1> HIDE DEF S
<1>3. S = Nat
  <2>1. S \in SUBSET Nat
    BY DEF S
  <2> QED
    BY <1>1, <1>2, <2>1, NatSetInduction
<1> QED
  BY <1>3 DEF S

\* The sums of two lists that agree up to n agree up to n, and are naturals.
LEMMA PartialAgree ==
    ASSUME NEW s, NEW t, NEW m \in Nat, NEW n \in 0..m, NEW f, NEW g,
           Partial(s, f, n), Partial(t, g, m),
           \A k \in 1..n : s[k] = t[k] /\ s[k] \in Nat
    PROVE  f[n] = g[n] /\ f[n] \in Nat
<1> DEFINE S == {k \in Nat : k <= n => f[k] = g[k] /\ f[k] \in Nat}
<1>1. /\ \A k \in 0..n : f[k] = IF k = 0 THEN 0 ELSE f[k - 1] + s[k]
      /\ \A k \in 0..m : g[k] = IF k = 0 THEN 0 ELSE g[k - 1] + t[k]
  BY DEF Partial
<1>2. 0 \in S
  BY <1>1
<1>3. ASSUME NEW k \in S PROVE k + 1 \in S
  <2> SUFFICES ASSUME k + 1 <= n PROVE f[k+1] = g[k+1] /\ f[k+1] \in Nat
    OBVIOUS
  <2>1. f[k] = g[k] /\ f[k] \in Nat
    OBVIOUS
  <2>2. k + 1 \in 0..n /\ k + 1 \in 0..m /\ k + 1 \in 1..n /\ (k + 1) - 1 = k /\ k + 1 # 0
    OBVIOUS
  <2>3. f[k+1] = f[k] + s[k+1] /\ g[k+1] = g[k] + t[k+1]
    BY <1>1, <2>2
  <2> QED
    BY <2>1, <2>2, <2>3
<1> HIDE DEF S
<1>4. S = Nat
  <2>1. S \in SUBSET Nat
    BY DEF S
  <2> QED
    BY <1>2, <1>3, <2>1, NatSetInduction
<1> QED
  BY <1>4 DEF S

\* What Sum computes is the last of the partial sums.
LEMMA SumIsPartial ==
    ASSUME NEW X, NEW s \in Seq(X)
    PROVE  \E f : Partial(s, f, Len(s)) /\ Sum(s) = f[Len(s)]
<1> DEFINE f == CHOOSE f : Partial(s, f, Len(s))
<1>1. Partial(s, f, Len(s))
  BY PartialExists
<1>2. Sum(s) = f[Len(s)]
  BY DEF Sum, Partial
<1> QED
  BY <1>1, <1>2

\* Nothing sums to zero.
LEMMA SumEmpty == Sum(<<>>) = 0
<1>1. <<>> \in Seq(Nat) /\ Len(<<>>) = 0
  OBVIOUS
<1>2. PICK f : Partial(<<>>, f, 0) /\ Sum(<<>>) = f[0]
  BY <1>1, SumIsPartial
<1> QED
  BY <1>2 DEF Partial

\* A sum of naturals is one.
LEMMA SumType ==
    ASSUME NEW s \in Seq(Nat)
    PROVE  Sum(s) \in Nat
<1>1. PICK f : Partial(s, f, Len(s)) /\ Sum(s) = f[Len(s)]
  BY SumIsPartial
<1>2. Len(s) \in Nat /\ Len(s) \in 0..Len(s) /\ \A k \in 1..Len(s) : s[k] \in Nat
  OBVIOUS
<1> QED
  BY <1>1, <1>2, PartialAgree

\* A part that is added adds its value.
LEMMA SumAppend ==
    ASSUME NEW s \in Seq(Nat), NEW v \in Nat
    PROVE  Sum(Append(s, v)) = Sum(s) + v
<1> DEFINE t == Append(s, v)
           n == Len(s)
<1>1. /\ t \in Seq(Nat) /\ Len(t) = n + 1 /\ t[n + 1] = v /\ n \in Nat
      /\ \A k \in 1..n : s[k] = t[k] /\ s[k] \in Nat
  BY AppendProperties
<1> HIDE DEF t, n
<1>2. PICK f : Partial(s, f, n) /\ Sum(s) = f[n]
  BY SumIsPartial DEF n
<1>3. PICK g : Partial(t, g, n + 1) /\ Sum(t) = g[n + 1]
  BY <1>1, SumIsPartial
<1>4. n + 1 \in Nat /\ n \in 0..(n + 1) /\ n + 1 \in 0..(n + 1) /\ n + 1 # 0 /\ (n + 1) - 1 = n
  BY <1>1
<1>5. f[n] = g[n] /\ f[n] \in Nat
  BY <1>1, <1>2, <1>3, <1>4, PartialAgree
<1>6. g[n + 1] = g[n] + t[n + 1]
  BY <1>3, <1>4 DEF Partial
<1>7. Sum(t) = Sum(s) + v
  BY <1>1, <1>2, <1>3, <1>5, <1>6
<1> QED
  BY <1>7 DEF t
-----------------------------------------------------------------------------
(***************************************************************************)
(* The invariant.  x stands for a builder, ask for the sighashes its last  *)
(* build gave, s for a finished state and t for a transaction.             *)
(***************************************************************************)
Spend == [value : Amount, anchor : Anchor]
Values(s) == [i \in DOMAIN s |-> s[i].value]

\* The parts of a builder.
ShapeOf(x) ==
    /\ DOMAIN x = {"kind", "height", "inputs", "outputs", "touts", "alphas", "total_input",
                   "total_output", "total_transparent", "finished"}
    /\ x.kind \in {"spend", "wasmSpend", "shield", "wasmShield"}
    /\ Spending(x.kind) => x.inputs \in Seq(Spend)
    /\ ~Spending(x.kind) => x.inputs \in Seq(Amount)
    /\ x.outputs \in Seq(Amount) /\ x.touts \in Seq(Amount)

\* What a spending builder has finished pays at most the largest fee, refilled or not.
FeesOf(x) ==
    Spending(x.kind) /\ x.finished # None =>
        /\ x.finished.inputs \in Seq(Spend) /\ x.finished.outputs \in Seq(Amount)
        /\ x.finished.balance <= MaxFee

\* A total is the sum of its parts, unless the sum does not fit.
Exact(s, total) == Sum(s) < 2 * Half => total = Sum(s)
SpendTotals(x) == Exact(Values(x.inputs), x.total_input) /\ Exact(x.outputs, x.total_output)
ShieldTotals(x) ==
    /\ x.total_input = Sum(x.inputs)
    /\ x.total_output = Sum(x.outputs)
    /\ x.total_transparent = Sum(x.touts)

\* A finished state whose balance and sighash are those of its parts.
SpendSighash(s) == compute_v5_sighash(s.inputs, s.outputs, s.balance, s.branch, s.expiry)
BuiltSpend(s) ==
    /\ s.inputs \in Seq(Spend) /\ s.inputs # <<>> /\ s.outputs \in Seq(Amount)
    /\ Sum(Values(s.inputs)) < 2 * Half /\ Sum(s.outputs) < 2 * Half =>
         s.balance = Sum(Values(s.inputs)) - Sum(s.outputs) /\ s.balance >= 0
    /\ s.sighash = SpendSighash(s)
SpendAsked(s) == [i \in DOMAIN s.inputs |-> s.sighash]

ShieldSighash(s, i) ==
    compute_shielding_sighash(s.inputs, s.touts, s.outputs, s.balance, s.branch, s.expiry, i)
BuiltShield(s) ==
    /\ s.inputs \in Seq(Amount) /\ s.inputs # <<>>
    /\ s.outputs \in Seq(Amount) /\ s.touts \in Seq(Amount)
    /\ Sum(s.inputs) > Sum(s.outputs) + Sum(s.touts)
    /\ s.balance = NegI64(AsI64(Sum(s.outputs)))
    /\ s.sighash = ShieldSighash(s, 0)
ShieldAsked(s) == [i \in DOMAIN s.inputs |-> ShieldSighash(s, i)]

\* What a shielding builder would finish.
StateOf(x) ==
    LET balance == NegI64(AsI64(x.total_output))
        branch == branch_id_for_height(x.height)
    IN  [inputs |-> x.inputs, outputs |-> x.outputs, touts |-> x.touts, balance |-> balance,
         branch |-> branch, expiry |-> x.height + 40,
         sighash |-> compute_shielding_sighash(x.inputs, x.touts, x.outputs, balance, branch,
                                               x.height + 40, 0)]

\* A builder before its first build.
Open(x) ==
    /\ x.finished = None
    /\ Spending(x.kind) => x.alphas = x.inputs /\ SpendTotals(x)
    /\ ~Spending(x.kind) => ShieldTotals(x)

\* A builder after its build.
Closed(x, ask) ==
    /\ Spending(x.kind) =>
         /\ x.inputs = <<>>
         /\ x.finished # None => /\ x.alphas = x.finished.inputs
                                 /\ BuiltSpend(x.finished) /\ ask = SpendAsked(x.finished)
    /\ x.kind = "shield" =>
         /\ x.inputs = <<>>
         /\ x.finished # None => BuiltShield(x.finished) /\ ask = ShieldAsked(x.finished)
    /\ x.kind = "wasmShield" =>
         /\ ShieldTotals(x) /\ BuiltShield(StateOf(x)) /\ ask = ShieldAsked(StateOf(x))
         /\ x.finished.sighash = StateOf(x).sighash

\* A spending transaction pays at most the largest fee.
PaysOf(t) ==
    /\ t.spending \in BOOLEAN
    /\ t.spending => /\ t.ins \in Seq(Amount) /\ t.outputs \in Seq(Amount) /\ t.touts = <<>>
                     /\ t.balance <= MaxFee

\* A transaction is the serialisation of a finished state.
Serialised(t, ask) ==
    IF t.spending
    THEN \E s : /\ BuiltSpend(s) /\ ask = SpendAsked(s)
                /\ t = serialize_v5_tx(s.inputs, s.outputs, s.balance, t.sigs, s.sighash,
                                       s.branch, s.expiry)
    ELSE \E s : /\ BuiltShield(s) /\ ask = ShieldAsked(s)
                /\ t = serialize_shielding_v5_tx(s.inputs, t.sigs, s.touts, s.outputs,
                                                 s.balance, s.sighash, s.branch, s.expiry)

BuilderOK ==
    b # None => /\ ShapeOf(b) /\ FeesOf(b)
                /\ ~reused => IF asked = <<>> THEN Open(b) ELSE Closed(b, asked)
TxOK ==
    tx # None => /\ PaysOf(tx)
                 /\ b # None => (tx.spending <=> Spending(b.kind))
                 /\ ~reused => asked # <<>> /\ Serialised(tx, asked)
Kept == reused \in BOOLEAN /\ BuilderOK /\ TxOK
-----------------------------------------------------------------------------
(***************************************************************************)
(* Adding parts.                                                           *)
(***************************************************************************)
\* Sums that fit do not wrap.
LEMMA WrapSmall ==
    ASSUME NEW n \in Nat, n < 2 * Half
    PROVE  Wrap(n) = n
<1>1. Half \in Nat \ {0}
  BY TxAssumption
<1> DEFINE m == 2 * Half
<1>2. m \in Nat \ {0} /\ n < m
  BY <1>1
<1> HIDE DEF m
<1>3. n % m = n
  BY <1>2
<1> QED
  BY <1>3 DEF Wrap, m

\* Amounts are naturals.
LEMMA AmountsNat == Amount \subseteq Nat /\ \A s \in Seq(Amount) : s \in Seq(Nat)
<1>1. Amount \subseteq Nat
  BY TxAssumption
<1>2. ASSUME NEW s \in Seq(Amount) PROVE s \in Seq(Nat)
  <2>1. s \in [1..Len(s) -> Amount] /\ Len(s) \in Nat
    OBVIOUS
  <2>2. s \in [1..Len(s) -> Nat]
    BY <1>1, <2>1
  <2> QED
    BY <2>1, <2>2, IsASeq
<1> QED
  BY <1>1, <1>2

\* The values of spends.
LEMMA ValuesProperties ==
    ASSUME NEW s \in Seq(Spend)
    PROVE  /\ Values(s) \in Seq(Amount) /\ Values(s) \in Seq(Nat) /\ Len(Values(s)) = Len(s)
           /\ DOMAIN Values(s) = DOMAIN s
           /\ \A v \in Amount, a \in Anchor :
                /\ make_spend(v, a) \in Spend
                /\ Values(Append(s, make_spend(v, a))) = Append(Values(s), v)
<1>1. /\ Len(s) \in Nat /\ DOMAIN s = 1..Len(s)
      /\ \A i \in 1..Len(s) : s[i] \in Spend /\ s[i].value \in Amount
  <2>1. \A i \in 1..Len(s) : s[i] \in Spend
    BY ElementOfSeq
  <2>2. \A r \in Spend : r.value \in Amount
    BY DEF Spend
  <2> QED
    BY <2>1, <2>2, LenProperties
<1>2. Values(s) \in [1..Len(s) -> Amount]
  BY <1>1 DEF Values
<1>3. Values(s) \in Seq(Amount) /\ Len(Values(s)) = Len(s) /\ DOMAIN Values(s) = 1..Len(s)
  BY <1>1, <1>2, IsASeq, LenProperties
<1>4. ASSUME NEW v \in Amount, NEW a \in Anchor
      PROVE  /\ make_spend(v, a) \in Spend
             /\ Values(Append(s, make_spend(v, a))) = Append(Values(s), v)
  <2> DEFINE r == make_spend(v, a)
             t == Append(s, r)
             u == Append(Values(s), v)
  <2>1. r \in Spend /\ r.value = v
    BY DEF make_spend, Spend
  <2> HIDE DEF r
  <2>2. /\ t \in Seq(Spend) /\ Len(t) = Len(s) + 1 /\ DOMAIN t = 1..(Len(s) + 1)
        /\ \A i \in 1..Len(s) : t[i] = s[i]
        /\ t[Len(s) + 1] = r
    BY <1>1, <2>1, AppendProperties
  <2>3. /\ u \in Seq(Amount) /\ Len(u) = Len(s) + 1 /\ DOMAIN u = 1..(Len(s) + 1)
        /\ \A i \in 1..Len(s) : u[i] = Values(s)[i]
        /\ u[Len(s) + 1] = v
    BY <1>1, <1>3, AppendProperties
  <2> HIDE DEF t, u
  <2>4. Values(t) = [i \in 1..(Len(s) + 1) |-> t[i].value]
    BY <2>2 DEF Values
  <2>5. u = [i \in 1..(Len(s) + 1) |-> u[i]]
    BY <2>3
  <2>6. \A i \in 1..(Len(s) + 1) : t[i].value = u[i]
    <3> TAKE i \in 1..(Len(s) + 1)
    <3>1. CASE i = Len(s) + 1
      BY <2>1, <2>2, <2>3, <3>1
    <3>2. CASE i # Len(s) + 1
      <4>1. i \in 1..Len(s)
        BY <1>1, <3>2
      <4> QED
        BY <1>1, <2>2, <2>3, <4>1 DEF Values
    <3> QED
      BY <3>1, <3>2
  <2>7. Values(t) = u
    BY <2>4, <2>5, <2>6
  <2> QED
    BY <2>1, <2>7 DEF r, t, u
<1> QED
  BY <1>1, <1>3, <1>4, AmountsNat

\* A total stays exact when it wraps only where the sum does not fit.
LEMMA ExactAppend ==
    ASSUME NEW s \in Seq(Nat), NEW v \in Nat, NEW total, Exact(s, total)
    PROVE  Exact(Append(s, v), Wrap(total + v))
<1>1. Sum(s) \in Nat /\ Sum(Append(s, v)) = Sum(s) + v /\ Half \in Nat
  BY SumType, SumAppend, TxAssumption
<1> SUFFICES ASSUME Sum(s) + v < 2 * Half PROVE Wrap(total + v) = Sum(s) + v
  BY <1>1 DEF Exact
<1>2. Sum(s) < 2 * Half
  BY <1>1
<1>3. total = Sum(s)
  BY <1>2 DEF Exact
<1>4. Sum(s) + v \in Nat
  BY <1>1
<1> QED
  BY <1>3, <1>4, WrapSmall

\* A builder with one more spend or one more output.
WithSpend(x, v, a) ==
    [x EXCEPT !.total_input = Wrap(@ + v),
              !.inputs = Append(@, make_spend(v, a)),
              !.alphas = Append(@, make_spend(v, a))]
WithOutput(x, v) == [x EXCEPT !.total_output = Wrap(@ + v), !.outputs = Append(@, v)]

\* make_spend and the totals of a spending builder.
LEMMA AddSpend ==
    ASSUME NEW x, ShapeOf(x), FeesOf(x), Spending(x.kind), NEW v \in Amount, NEW a \in Anchor,
           NEW y, y = WithSpend(x, v, a)
    PROVE  ShapeOf(y) /\ FeesOf(y) /\ (Open(x) => Open(y)) /\ y.kind = x.kind
<1> DEFINE r == make_spend(v, a)
<1>1. /\ DOMAIN y = DOMAIN x /\ y.kind = x.kind /\ y.outputs = x.outputs /\ y.touts = x.touts
      /\ y.finished = x.finished /\ y.total_output = x.total_output
      /\ y.total_input = Wrap(x.total_input + v)
      /\ y.inputs = Append(x.inputs, r) /\ y.alphas = Append(x.alphas, r)
  BY DEF ShapeOf, WithSpend
<1>2. x.inputs \in Seq(Spend) /\ r \in Spend
  BY ValuesProperties DEF ShapeOf
<1> HIDE DEF r
<1>3. y.inputs \in Seq(Spend)
  BY <1>1, <1>2, AppendProperties
<1>4. ShapeOf(y) /\ FeesOf(y)
  BY <1>1, <1>3 DEF ShapeOf, FeesOf
<1>5. ASSUME Open(x) PROVE Open(y)
  <2>1. x.alphas = x.inputs /\ SpendTotals(x) /\ x.finished = None
    BY <1>5 DEF Open
  <2>2. Values(x.inputs) \in Seq(Nat) /\ v \in Nat /\ Values(y.inputs) = Append(Values(x.inputs), v)
    BY <1>1, <1>2, ValuesProperties, AmountsNat DEF r
  <2>3. Exact(Values(y.inputs), y.total_input)
    BY <1>1, <2>1, <2>2, ExactAppend DEF SpendTotals
  <2> QED
    BY <1>1, <2>1, <2>3 DEF Open, SpendTotals
<1> QED
  BY <1>1, <1>4, <1>5

\* The outputs of a spending builder.
LEMMA AddOutput ==
    ASSUME NEW x, ShapeOf(x), FeesOf(x), Spending(x.kind), NEW v \in Amount,
           NEW y, y = WithOutput(x, v)
    PROVE  ShapeOf(y) /\ FeesOf(y) /\ (Open(x) => Open(y)) /\ y.kind = x.kind
<1>1. /\ DOMAIN y = DOMAIN x /\ y.kind = x.kind /\ y.inputs = x.inputs /\ y.touts = x.touts
      /\ y.finished = x.finished /\ y.total_input = x.total_input /\ y.alphas = x.alphas
      /\ y.total_output = Wrap(x.total_output + v)
      /\ y.outputs = Append(x.outputs, v)
  BY DEF ShapeOf, WithOutput
<1>2. x.outputs \in Seq(Amount) /\ x.outputs \in Seq(Nat) /\ v \in Nat
  BY AmountsNat DEF ShapeOf
<1>3. y.outputs \in Seq(Amount)
  BY <1>1, <1>2, AppendProperties
<1>4. ShapeOf(y) /\ FeesOf(y)
  BY <1>1, <1>3 DEF ShapeOf, FeesOf
<1>5. ASSUME Open(x) PROVE Open(y)
  <2>1. x.alphas = x.inputs /\ SpendTotals(x) /\ x.finished = None
    BY <1>5 DEF Open
  <2>2. Exact(y.outputs, y.total_output)
    BY <1>1, <1>2, <2>1, ExactAppend DEF SpendTotals
  <2> QED
    BY <1>1, <2>1, <2>2 DEF Open, SpendTotals
<1> QED
  BY <1>1, <1>4, <1>5

\* Where the sum was checked the total is exact.
LEMMA CheckedAppend ==
    ASSUME NEW s \in Seq(Amount), NEW v \in Amount, NEW total, FitsU64(total + v)
    PROVE  /\ Append(s, v) \in Seq(Amount)
           /\ total = Sum(s) => Wrap(total + v) = Sum(Append(s, v))
<1>1. s \in Seq(Nat) /\ v \in Nat
  BY AmountsNat
<1>2. Append(s, v) \in Seq(Amount)
  BY AppendProperties
<1>3. ASSUME total = Sum(s) PROVE Wrap(total + v) = Sum(Append(s, v))
  <2>1. Sum(s) \in Nat /\ Sum(Append(s, v)) = Sum(s) + v /\ Sum(s) + v < 2 * Half
    BY <1>1, <1>3, SumType, SumAppend DEF FitsU64
  <2>2. Sum(s) + v \in Nat
    BY <1>1, <2>1
  <2> QED
    BY <1>3, <2>1, <2>2, WrapSmall
<1> QED
  BY <1>2, <1>3

\* The three lists of a shielding builder.
LEMMA AddShield ==
    ASSUME NEW x, ShapeOf(x), FeesOf(x), ~Spending(x.kind), NEW v \in Amount, NEW y,
           \/ /\ FitsU64(x.total_input + v)
              /\ y = [x EXCEPT !.total_input = Wrap(@ + v), !.inputs = Append(@, v)]
           \/ /\ FitsU64(x.total_output + v)
              /\ y = [x EXCEPT !.total_output = Wrap(@ + v), !.outputs = Append(@, v)]
           \/ /\ FitsU64(x.total_transparent + v)
              /\ y = [x EXCEPT !.total_transparent = Wrap(@ + v), !.touts = Append(@, v)]
    PROVE  ShapeOf(y) /\ FeesOf(y) /\ (Open(x) => Open(y)) /\ y.kind = x.kind
<1>1. CASE /\ FitsU64(x.total_input + v)
           /\ y = [x EXCEPT !.total_input = Wrap(@ + v), !.inputs = Append(@, v)]
  <2>1. /\ DOMAIN y = DOMAIN x /\ y.kind = x.kind /\ y.outputs = x.outputs /\ y.touts = x.touts
        /\ y.finished = x.finished /\ y.total_output = x.total_output
        /\ y.total_transparent = x.total_transparent
        /\ y.total_input = Wrap(x.total_input + v) /\ y.inputs = Append(x.inputs, v)
    BY <1>1 DEF ShapeOf
  <2>2. x.inputs \in Seq(Amount)
    BY DEF ShapeOf
  <2>3. /\ y.inputs \in Seq(Amount)
        /\ x.total_input = Sum(x.inputs) => y.total_input = Sum(y.inputs)
    BY <1>1, <2>1, <2>2, CheckedAppend
  <2>4. ShapeOf(y) /\ FeesOf(y)
    BY <2>1, <2>3 DEF ShapeOf, FeesOf
  <2> QED
    BY <2>1, <2>3, <2>4 DEF Open, ShieldTotals
<1>2. CASE /\ FitsU64(x.total_output + v)
           /\ y = [x EXCEPT !.total_output = Wrap(@ + v), !.outputs = Append(@, v)]
  <2>1. /\ DOMAIN y = DOMAIN x /\ y.kind = x.kind /\ y.inputs = x.inputs /\ y.touts = x.touts
        /\ y.finished = x.finished /\ y.total_input = x.total_input
        /\ y.total_transparent = x.total_transparent
        /\ y.total_output = Wrap(x.total_output + v) /\ y.outputs = Append(x.outputs, v)
    BY <1>2 DEF ShapeOf
  <2>2. x.outputs \in Seq(Amount)
    BY DEF ShapeOf
  <2>3. /\ y.outputs \in Seq(Amount)
        /\ x.total_output = Sum(x.outputs) => y.total_output = Sum(y.outputs)
    BY <1>2, <2>1, <2>2, CheckedAppend
  <2>4. ShapeOf(y) /\ FeesOf(y)
    BY <2>1, <2>3 DEF ShapeOf, FeesOf
  <2> QED
    BY <2>1, <2>3, <2>4 DEF Open, ShieldTotals
<1>3. CASE /\ FitsU64(x.total_transparent + v)
           /\ y = [x EXCEPT !.total_transparent = Wrap(@ + v), !.touts = Append(@, v)]
  <2>1. /\ DOMAIN y = DOMAIN x /\ y.kind = x.kind /\ y.inputs = x.inputs /\ y.outputs = x.outputs
        /\ y.finished = x.finished /\ y.total_input = x.total_input
        /\ y.total_output = x.total_output
        /\ y.total_transparent = Wrap(x.total_transparent + v) /\ y.touts = Append(x.touts, v)
    BY <1>3 DEF ShapeOf
  <2>2. x.touts \in Seq(Amount)
    BY DEF ShapeOf
  <2>3. /\ y.touts \in Seq(Amount)
        /\ x.total_transparent = Sum(x.touts) => y.total_transparent = Sum(y.touts)
    BY <1>3, <2>1, <2>2, CheckedAppend
  <2>4. ShapeOf(y) /\ FeesOf(y)
    BY <2>1, <2>3 DEF ShapeOf, FeesOf
  <2> QED
    BY <2>1, <2>3, <2>4 DEF Open, ShieldTotals
<1> QED
  BY <1>1, <1>2, <1>3
-----------------------------------------------------------------------------
(***************************************************************************)
(* Building and completing.                                                *)
(***************************************************************************)
\* One sighash is asked per input: asking for none means there was none.
LEMMA AskedSomething ==
    ASSUME NEW X, NEW s \in Seq(X), s # <<>>, NEW f, DOMAIN f = DOMAIN s
    PROVE  f # <<>>
<1>1. DOMAIN s = 1..Len(s) /\ Len(s) \in Nat /\ Len(s) # 0
  BY EmptySeq, LenProperties
<1>2. 1 \in DOMAIN f
  BY <1>1
<1>3. DOMAIN <<>> = {}
  OBVIOUS
<1> QED
  BY <1>2, <1>3

\* frozt_tx_builder_build, native or not.
LEMMA SpendBuildKeeps ==
    ASSUME Kept, b # None, Spending(b.kind), CanBuild, Built(BuildState)
    PROVE  Kept'
<1> DEFINE s == BuildState
<1>1. ShapeOf(b) /\ FeesOf(b) /\ (~reused => IF asked = <<>> THEN Open(b) ELSE Closed(b, asked))
  BY DEF Kept, BuilderOK
<1>2. /\ s.inputs = b.inputs /\ s.outputs = b.outputs
      /\ s.balance = b.total_input - b.total_output /\ s.sighash = SpendSighash(s)
  BY DEF BuildState, SpendSighash
<1>3. /\ b' = [b EXCEPT !.inputs = <<>>, !.outputs = <<>>, !.finished = s]
      /\ asked' = SpendAsked(s) /\ UNCHANGED <<tx, reused>>
  BY DEF Built, Asked, SpendAsked
<1> HIDE DEF s
<1>4. /\ DOMAIN b' = DOMAIN b /\ b'.kind = b.kind /\ b'.inputs = <<>> /\ b'.outputs = <<>>
      /\ b'.touts = b.touts /\ b'.finished = s /\ b'.alphas = b.alphas
  BY <1>1, <1>3 DEF ShapeOf
<1>5. b.inputs \in Seq(Spend) /\ b.outputs \in Seq(Amount) /\ b.inputs # <<>>
  BY <1>1 DEF ShapeOf, CanBuild
<1>6. ShapeOf(b')
  <2>1. <<>> \in Seq(Spend) /\ <<>> \in Seq(Amount)
    OBVIOUS
  <2> QED
    BY <1>1, <1>4, <2>1 DEF ShapeOf
<1>7. FeesOf(b')
  BY <1>2, <1>4, <1>5 DEF FeesOf, CanBuild
<1>8. asked' # <<>>
  <2>1. DOMAIN asked' = DOMAIN b.inputs
    BY <1>2, <1>3 DEF SpendAsked
  <2> QED
    BY <1>5, <2>1, AskedSomething
<1>9. ~reused => asked = <<>> /\ Open(b)
  BY <1>1, <1>5 DEF Closed
<1>10. ~reused => BuiltSpend(s)
  <2> SUFFICES ASSUME ~reused PROVE BuiltSpend(s)
    OBVIOUS
  <2>1. SpendTotals(b)
    BY <1>9 DEF Open
  <2>2. Values(b.inputs) \in Seq(Nat) /\ b.outputs \in Seq(Nat)
    BY <1>5, ValuesProperties, AmountsNat
  <2>3. Sum(Values(b.inputs)) \in Nat /\ Sum(b.outputs) \in Nat
    BY <2>2, SumType
  <2>4. Sum(Values(b.inputs)) < 2 * Half /\ Sum(b.outputs) < 2 * Half =>
          s.balance = Sum(Values(b.inputs)) - Sum(b.outputs) /\ s.balance >= 0
    BY <1>2, <2>1, <2>3 DEF SpendTotals, Exact, CanBuild
  <2> QED
    BY <1>2, <1>5, <2>4 DEF BuiltSpend
<1>11. ~reused' => Closed(b', asked')
  BY <1>2, <1>3, <1>4, <1>9, <1>10 DEF Closed, Open, Spending
<1>12. BuilderOK'
  BY <1>6, <1>7, <1>8, <1>11 DEF BuilderOK
<1>13. TxOK'
  <2>1. ~reused => tx = None
    BY <1>9 DEF Kept, TxOK
  <2> QED
    BY <1>3, <1>4, <2>1 DEF Kept, TxOK
<1> QED
  BY <1>3, <1>12, <1>13 DEF Kept

\* The state a shielding builder that was not refilled would finish is balanced.
LEMMA ShieldStateBuilt ==
    ASSUME NEW x, ShapeOf(x), ~Spending(x.kind), ShieldTotals(x), x.inputs # <<>>,
           x.total_input > x.total_output + x.total_transparent
    PROVE  BuiltShield(StateOf(x))
BY DEF BuiltShield, StateOf, ShapeOf, ShieldTotals, ShieldSighash

\* frozt_shielding_tx_builder_build: the parts move into the finished state.
LEMMA ShieldBuildKeeps ==
    ASSUME Kept, shield_build
    PROVE  Kept'
<1> DEFINE s == StateOf(b)
<1>1. /\ b # None /\ ShapeOf(b) /\ FeesOf(b) /\ b.kind = "shield" /\ ~Spending(b.kind)
      /\ (~reused => IF asked = <<>> THEN Open(b) ELSE Closed(b, asked))
  BY DEF Kept, BuilderOK, shield_build, Spending
<1>2. s = ShieldingBuildState /\ s.inputs = b.inputs
  BY DEF StateOf, ShieldingBuildState, ShieldingSighash, ShieldBalance
<1>3. ShieldAsked(s) = [i \in DOMAIN b.inputs |-> ShieldingSighash(i)]
  BY DEF StateOf, ShieldAsked, ShieldSighash, ShieldingSighash, ShieldBalance
<1>4. /\ b' = [b EXCEPT !.inputs = <<>>, !.outputs = <<>>, !.touts = <<>>, !.finished = s]
      /\ asked' = ShieldAsked(s) /\ UNCHANGED <<tx, reused>>
  BY <1>2, <1>3 DEF shield_build, Asked
<1> HIDE DEF s
<1>5. /\ DOMAIN b' = DOMAIN b /\ b'.kind = b.kind /\ b'.inputs = <<>> /\ b'.outputs = <<>>
      /\ b'.touts = <<>> /\ b'.finished = s
  BY <1>1, <1>4 DEF ShapeOf
<1>6. b.inputs \in Seq(Amount) /\ b.inputs # <<>>
  BY <1>1 DEF ShapeOf, shield_build, CanShield
<1>7. ShapeOf(b') /\ FeesOf(b')
  <2>1. <<>> \in Seq(Spend) /\ <<>> \in Seq(Amount)
    OBVIOUS
  <2> QED
    BY <1>1, <1>5, <2>1 DEF ShapeOf, FeesOf
<1>8. asked' # <<>>
  <2>1. DOMAIN asked' = DOMAIN b.inputs
    BY <1>2, <1>4 DEF ShieldAsked
  <2> QED
    BY <1>6, <2>1, AskedSomething
<1>9. ~reused => asked = <<>> /\ ShieldTotals(b)
  BY <1>1, <1>6 DEF Closed, Open
<1>10. ~reused => BuiltShield(s)
  BY <1>1, <1>6, <1>9, ShieldStateBuilt DEF s, shield_build, CanShield
<1>11. ~reused' => Closed(b', asked')
  BY <1>1, <1>4, <1>5, <1>10 DEF Closed
<1>12. BuilderOK'
  BY <1>7, <1>8, <1>11 DEF BuilderOK
<1>13. TxOK'
  <2>1. ~reused => tx = None
    BY <1>9 DEF Kept, TxOK
  <2> QED
    BY <1>1, <1>4, <1>5, <2>1 DEF Kept, TxOK
<1> QED
  BY <1>4, <1>12, <1>13 DEF Kept

\* The browser's keeps its parts: a second build asks for the same sighashes.
LEMMA WasmShieldBuildKeeps ==
    ASSUME Kept, wasm_shield_build
    PROVE  Kept'
<1> DEFINE s == StateOf(b)
<1>1. /\ b # None /\ ShapeOf(b) /\ FeesOf(b) /\ b.kind = "wasmShield" /\ ~Spending(b.kind)
      /\ (~reused => IF asked = <<>> THEN Open(b) ELSE Closed(b, asked))
  BY DEF Kept, BuilderOK, wasm_shield_build, Spending
<1>2. s.inputs = b.inputs /\ s.sighash = ShieldingSighash(0)
  BY DEF StateOf, ShieldingSighash, ShieldBalance
<1>3. ShieldAsked(s) = [i \in DOMAIN b.inputs |-> ShieldingSighash(i)]
  BY DEF StateOf, ShieldAsked, ShieldSighash, ShieldingSighash, ShieldBalance
<1>4. PICK f : /\ b' = [b EXCEPT !.finished = f] /\ f.sighash = s.sighash
               /\ asked' = ShieldAsked(s) /\ UNCHANGED <<tx, reused>>
  <2> DEFINE f == [inputs |-> <<>>, outputs |-> <<>>, n |-> Len(b.inputs),
                   sighash |-> ShieldingSighash(0)]
  <2>1. b' = [b EXCEPT !.finished = f] /\ asked' = ShieldAsked(s) /\ UNCHANGED <<tx, reused>>
    BY <1>3 DEF wasm_shield_build, Asked
  <2>2. f.sighash = s.sighash
    BY <1>2
  <2> QED
    BY <2>1, <2>2
<1>5. /\ DOMAIN b' = DOMAIN b /\ b'.kind = b.kind /\ b'.height = b.height
      /\ b'.inputs = b.inputs /\ b'.outputs = b.outputs /\ b'.touts = b.touts
      /\ b'.total_input = b.total_input /\ b'.total_output = b.total_output
      /\ b'.total_transparent = b.total_transparent /\ b'.finished = f
  BY <1>1, <1>4 DEF ShapeOf
<1>6. StateOf(b') = s
  BY <1>5 DEF StateOf
<1>7. b.inputs \in Seq(Amount) /\ b.inputs # <<>>
  BY <1>1 DEF ShapeOf, wasm_shield_build, CanShield
<1>8. asked' # <<>>
  <2>1. DOMAIN asked' = DOMAIN b.inputs
    BY <1>2, <1>4 DEF ShieldAsked
  <2> QED
    BY <1>7, <2>1, AskedSomething
<1> HIDE DEF s
<1>9. ShapeOf(b') /\ FeesOf(b')
  BY <1>1, <1>5 DEF ShapeOf, FeesOf
<1>10. ~reused => ShieldTotals(b)
  BY <1>1 DEF Closed, Open
<1>11. ~reused => BuiltShield(s)
  BY <1>1, <1>7, <1>10, ShieldStateBuilt DEF s, wasm_shield_build, CanShield
<1>12. ~reused' => Closed(b', asked')
  <2>1. ~reused => ShieldTotals(b')
    BY <1>5, <1>10 DEF ShieldTotals
  <2> QED
    BY <1>1, <1>4, <1>5, <1>6, <1>11, <2>1 DEF Closed
<1>13. BuilderOK'
  BY <1>8, <1>9, <1>12 DEF BuilderOK
<1>14. TxOK'
  <2>1. ~reused /\ tx # None => asked' = asked
    BY <1>1, <1>4 DEF Kept, TxOK, Closed, s
  <2> QED
    BY <1>1, <1>4, <1>5, <2>1 DEF Kept, TxOK
<1> QED
  BY <1>4, <1>13, <1>14 DEF Kept

\* The builder is gone; a transaction, if there was one, stays.
LEMMA GoneKeeps ==
    ASSUME Kept, b' = None, UNCHANGED <<asked, reused>>, tx' = tx \/ tx' = None
    PROVE  Kept'
BY DEF Kept, BuilderOK, TxOK

\* What a spending builder serialises.
LEMMA SpendTx ==
    ASSUME NEW s, NEW sigs, NEW t,
           t = serialize_v5_tx(s.inputs, s.outputs, s.balance, sigs, s.sighash, s.branch,
                               s.expiry),
           s.inputs \in Seq(Spend), s.outputs \in Seq(Amount), s.balance <= MaxFee
    PROVE  /\ PaysOf(t) /\ t.spending
           /\ \A ask : BuiltSpend(s) /\ ask = SpendAsked(s) => Serialised(t, ask)
<1>1. /\ t.ins = Values(s.inputs) /\ t.outputs = s.outputs /\ t.touts = <<>>
      /\ t.balance = s.balance /\ t.sigs = sigs /\ t.spending = TRUE
  BY DEF serialize_v5_tx, Values
<1>2. PaysOf(t) /\ t.spending
  BY <1>1, ValuesProperties DEF PaysOf
<1> QED
  BY <1>1, <1>2 DEF Serialised

\* What a shielding builder serialises.
LEMMA ShieldTx ==
    ASSUME NEW s, NEW sigs, NEW t,
           t = serialize_shielding_v5_tx(s.inputs, sigs, s.touts, s.outputs, s.balance,
                                         s.sighash, s.branch, s.expiry)
    PROVE  /\ PaysOf(t) /\ ~t.spending
           /\ \A ask : BuiltShield(s) /\ ask = ShieldAsked(s) => Serialised(t, ask)
<1>1. t.sigs = sigs /\ t.spending = FALSE
  BY DEF serialize_shielding_v5_tx
<1> QED
  BY <1>1 DEF PaysOf, Serialised

\* A builder that was built has asked for signatures.
LEMMA ClosedAfterBuild ==
    ASSUME Kept, b # None, b.finished # None, ~reused
    PROVE  asked # <<>> /\ Closed(b, asked)
BY DEF Kept, BuilderOK, Open

\* frozt_tx_builder_complete.
LEMMA CompleteKeeps ==
    ASSUME Kept, NEW sigs, complete(sigs)
    PROVE  Kept'
<1>1. b # None /\ b.kind = "spend" /\ tx = None /\ b' = None /\ UNCHANGED <<asked, reused>>
  BY DEF complete, Returned
<1>2. CASE tx' = None
  BY <1>1, <1>2, GoneKeeps
<1>3. CASE tx' # None
  <2>1. PICK s : s = b.finished
    OBVIOUS
  <2>2. s # None /\ tx' = serialize_v5_tx(s.inputs, s.outputs, s.balance, sigs, s.sighash,
                                          s.branch, s.expiry)
    BY <1>3, <2>1 DEF complete, Returned
  <2>3. s.inputs \in Seq(Spend) /\ s.outputs \in Seq(Amount) /\ s.balance <= MaxFee
    BY <1>1, <2>1, <2>2 DEF Kept, BuilderOK, FeesOf, Spending
  <2>4. /\ PaysOf(tx') /\ \A ask : BuiltSpend(s) /\ ask = SpendAsked(s) => Serialised(tx', ask)
    BY <2>2, <2>3, SpendTx
  <2>5. ~reused => asked # <<>> /\ BuiltSpend(s) /\ asked = SpendAsked(s)
    BY <1>1, <2>1, <2>2, ClosedAfterBuild DEF Closed, Spending
  <2>6. TxOK'
    BY <1>1, <2>4, <2>5 DEF TxOK
  <2> QED
    BY <1>1, <2>6 DEF Kept, BuilderOK
<1> QED
  BY <1>2, <1>3

\* WasmTxBuilder.complete: the builder stays, without its finished state.
LEMMA WasmCompleteKeeps ==
    ASSUME Kept, NEW sigs, wasm_complete(sigs)
    PROVE  Kept'
<1>1. PICK s : s = b.finished
  OBVIOUS
<1>2. /\ b # None /\ b.kind = "wasmSpend" /\ Spending(b.kind) /\ tx = None /\ s # None
      /\ UNCHANGED <<asked, reused>> /\ b' = [b EXCEPT !.finished = None]
      /\ tx' # None => tx' = serialize_v5_tx(s.inputs, s.outputs, s.balance, sigs, s.sighash,
                                             s.branch, s.expiry)
  BY <1>1 DEF wasm_complete, Returned, Spending
<1>3. ShapeOf(b) /\ FeesOf(b)
  BY <1>2 DEF Kept, BuilderOK
<1>4. /\ DOMAIN b' = DOMAIN b /\ b'.kind = b.kind /\ b'.inputs = b.inputs
      /\ b'.outputs = b.outputs /\ b'.touts = b.touts /\ b'.finished = None
  BY <1>2, <1>3 DEF ShapeOf
<1>5. ShapeOf(b') /\ FeesOf(b')
  BY <1>3, <1>4 DEF ShapeOf, FeesOf
<1>6. ~reused => asked # <<>> /\ Closed(b, asked)
  BY <1>1, <1>2, ClosedAfterBuild
<1>7. ~reused => Closed(b', asked)
  BY <1>2, <1>4, <1>6 DEF Closed
<1>8. BuilderOK'
  BY <1>2, <1>5, <1>6, <1>7 DEF BuilderOK
<1>9. TxOK'
  <2> SUFFICES ASSUME tx' # None PROVE TxOK'
    BY DEF TxOK
  <2>1. s.inputs \in Seq(Spend) /\ s.outputs \in Seq(Amount) /\ s.balance <= MaxFee
    BY <1>1, <1>2, <1>3 DEF FeesOf
  <2>2. /\ PaysOf(tx') /\ tx'.spending
        /\ \A ask : BuiltSpend(s) /\ ask = SpendAsked(s) => Serialised(tx', ask)
    BY <1>2, <2>1, SpendTx
  <2>3. ~reused => BuiltSpend(s) /\ asked = SpendAsked(s)
    BY <1>1, <1>2, <1>6 DEF Closed
  <2> QED
    BY <1>2, <1>4, <1>6, <2>2, <2>3 DEF TxOK
<1> QED
  BY <1>2, <1>8, <1>9 DEF Kept

\* frozt_shielding_tx_builder_complete.
LEMMA ShieldCompleteKeeps ==
    ASSUME Kept, NEW sigs, shield_complete(sigs)
    PROVE  Kept'
<1>1. b # None /\ b.kind = "shield" /\ tx = None /\ b' = None /\ UNCHANGED <<asked, reused>>
  BY DEF shield_complete, Returned
<1>2. CASE tx' = None
  BY <1>1, <1>2, GoneKeeps
<1>3. CASE tx' # None
  <2>1. PICK s : s = b.finished
    OBVIOUS
  <2>2. s # None /\ tx' = serialize_shielding_v5_tx(s.inputs, sigs, s.touts, s.outputs,
                               s.balance, s.sighash, s.branch, s.expiry)
    BY <1>3, <2>1 DEF shield_complete, Returned
  <2>3. /\ PaysOf(tx') /\ \A ask : BuiltShield(s) /\ ask = ShieldAsked(s) => Serialised(tx', ask)
    BY <2>2, ShieldTx
  <2>4. ~reused => asked # <<>> /\ BuiltShield(s) /\ asked = ShieldAsked(s)
    BY <1>1, <2>1, <2>2, ClosedAfterBuild DEF Closed
  <2>5. TxOK'
    BY <1>1, <2>3, <2>4 DEF TxOK
  <2> QED
    BY <1>1, <2>5 DEF Kept, BuilderOK
<1> QED
  BY <1>2, <1>3

\* WasmShieldingTxBuilder.complete: the parts are those of now, the binding sighash
\* that of the last build.
LEMMA WasmShieldCompleteKeeps ==
    ASSUME Kept, NEW sigs, wasm_shield_complete(sigs)
    PROVE  Kept'
<1>1. /\ b # None /\ b.kind = "wasmShield" /\ ~Spending(b.kind) /\ b.finished # None
      /\ UNCHANGED <<b, asked, reused>>
      /\ tx' = serialize_shielding_v5_tx(b.inputs, sigs, b.touts, b.outputs, ShieldBalance,
                   b.finished.sighash, branch_id_for_height(b.height), b.height + 40)
  BY DEF wasm_shield_complete, Returned, Spending
<1>2. BuilderOK'
  BY <1>1 DEF Kept, BuilderOK
<1>3. ~reused => asked # <<>> /\ Closed(b, asked)
  BY <1>1, ClosedAfterBuild
<1>4. ~reused => LET s == StateOf(b) IN
        /\ BuiltShield(s) /\ asked = ShieldAsked(s)
        /\ b.finished.sighash = s.sighash
  BY <1>1, <1>3 DEF Closed
<1>5. PICK s : /\ s.inputs = b.inputs /\ s.touts = b.touts /\ s.outputs = b.outputs
               /\ s.balance = ShieldBalance /\ s.branch = branch_id_for_height(b.height)
               /\ s.expiry = b.height + 40 /\ s.sighash = b.finished.sighash
               /\ ~reused => s = StateOf(b)
  <2>1. CASE ~reused
    <3> DEFINE s == StateOf(b)
    <3>1. /\ s.inputs = b.inputs /\ s.touts = b.touts /\ s.outputs = b.outputs
          /\ s.balance = ShieldBalance /\ s.branch = branch_id_for_height(b.height)
          /\ s.expiry = b.height + 40
      BY DEF StateOf, ShieldBalance
    <3>2. s.sighash = b.finished.sighash
      BY <1>4, <2>1
    <3> QED
      BY <3>1, <3>2
  <2>2. CASE reused
    <3> DEFINE s == [inputs |-> b.inputs, touts |-> b.touts, outputs |-> b.outputs,
                     balance |-> ShieldBalance, branch |-> branch_id_for_height(b.height),
                     expiry |-> b.height + 40, sighash |-> b.finished.sighash]
    <3>1. /\ s.inputs = b.inputs /\ s.touts = b.touts /\ s.outputs = b.outputs
          /\ s.balance = ShieldBalance /\ s.branch = branch_id_for_height(b.height)
          /\ s.expiry = b.height + 40 /\ s.sighash = b.finished.sighash
      OBVIOUS
    <3> QED
      BY <2>2, <3>1
  <2> QED
    BY <2>1, <2>2 DEF Kept
<1>6. tx' = serialize_shielding_v5_tx(s.inputs, sigs, s.touts, s.outputs, s.balance,
                                      s.sighash, s.branch, s.expiry)
  BY <1>1, <1>5
<1>7. /\ PaysOf(tx') /\ ~tx'.spending
      /\ \A ask : BuiltShield(s) /\ ask = ShieldAsked(s) => Serialised(tx', ask)
  BY <1>6, ShieldTx
<1>8. ~reused => BuiltShield(s) /\ asked = ShieldAsked(s)
  BY <1>4, <1>5
<1>9. TxOK'
  BY <1>1, <1>3, <1>7, <1>8 DEF TxOK
<1> QED
  BY <1>1, <1>2, <1>9 DEF Kept

\* Adding a part keeps the invariant when it keeps an open builder open.
LEMMA AddedKeeps ==
    ASSUME Kept, CanAdd, NEW y, Added(y), ShapeOf(y), FeesOf(y), Open(b) => Open(y)
    PROVE  Kept'
<1>1. /\ b # None /\ tx = None /\ b' = y /\ UNCHANGED <<asked, tx>> /\ reused' \in BOOLEAN
      /\ ~reused' => ~reused /\ asked = <<>>
  BY DEF CanAdd, Added, Kept
<1>2. ~reused' => Open(y)
  BY <1>1 DEF Kept, BuilderOK
<1> QED
  BY <1>1, <1>2 DEF Kept, BuilderOK, TxOK

\* Every step keeps the invariant.
LEMMA NextKeeps == Kept /\ [Next]_vars => Kept'
<1> SUFFICES ASSUME Kept, [Next]_vars PROVE Kept'
  OBVIOUS
<1>1. CASE UNCHANGED vars
  BY <1>1 DEF vars, Kept, BuilderOK, TxOK
<1>2. b # None => ShapeOf(b) /\ FeesOf(b)
  BY DEF Kept, BuilderOK
<1>3. ASSUME NEW v \in Amount, NEW a \in Anchor, add_spend(v, a) \/ wasm_add_spend(v, a)
      PROVE  Kept'
  <2>0. PICK y : y = WithSpend(b, v, a)
    OBVIOUS
  <2>1. CanAdd /\ b # None /\ Spending(b.kind) /\ Added(y)
    BY <1>3, <2>0 DEF add_spend, wasm_add_spend, CanAdd, Spending, WithSpend
  <2>2. ShapeOf(y) /\ FeesOf(y) /\ (Open(b) => Open(y))
    BY <1>2, <2>0, <2>1, AddSpend
  <2> QED
    BY <2>1, <2>2, AddedKeeps
<1>4. ASSUME NEW v \in Amount, add_output(v) \/ wasm_add_output(v) PROVE Kept'
  <2>0. PICK y : y = WithOutput(b, v)
    OBVIOUS
  <2>1. CanAdd /\ b # None /\ Spending(b.kind) /\ Added(y)
    BY <1>4, <2>0 DEF add_output, wasm_add_output, CanAdd, Spending, WithOutput
  <2>2. ShapeOf(y) /\ FeesOf(y) /\ (Open(b) => Open(y))
    BY <1>2, <2>0, <2>1, AddOutput
  <2> QED
    BY <2>1, <2>2, AddedKeeps
<1>5. ASSUME NEW v \in Amount,
             \/ add_input(v) \/ wasm_add_input(v) \/ shield_add_output(v)
             \/ wasm_shield_add_output(v) \/ add_transparent_output(v)
             \/ wasm_add_transparent_output(v)
      PROVE  Kept'
  <2>1. CanAdd /\ b # None /\ ~Spending(b.kind)
    BY <1>5 DEF add_input, wasm_add_input, shield_add_output, wasm_shield_add_output,
       add_transparent_output, wasm_add_transparent_output, CanAdd, Spending
  <2>2. PICK y :
          /\ Added(y)
          /\ \/ /\ FitsU64(b.total_input + v)
                /\ y = [b EXCEPT !.total_input = Wrap(@ + v), !.inputs = Append(@, v)]
             \/ /\ FitsU64(b.total_output + v)
                /\ y = [b EXCEPT !.total_output = Wrap(@ + v), !.outputs = Append(@, v)]
             \/ /\ FitsU64(b.total_transparent + v)
                /\ y = [b EXCEPT !.total_transparent = Wrap(@ + v), !.touts = Append(@, v)]
    BY <1>5 DEF add_input, wasm_add_input, shield_add_output, wasm_shield_add_output,
       add_transparent_output, wasm_add_transparent_output
  <2>3. ShapeOf(y) /\ FeesOf(y) /\ (Open(b) => Open(y))
    BY <1>2, <2>1, <2>2, AddShield
  <2> QED
    BY <2>1, <2>2, <2>3, AddedKeeps
<1>6. ASSUME build \/ wasm_build PROVE Kept'
  BY <1>6, SpendBuildKeeps DEF build, wasm_build, Spending
<1>7. CASE Broadcast
  BY <1>7 DEF Broadcast, Returned, Kept, BuilderOK, TxOK
<1>8. CASE Free
  BY <1>8, GoneKeeps DEF Free, Returned
<1> QED
  BY <1>1, <1>3, <1>4, <1>5, <1>6, <1>7, <1>8, ShieldBuildKeeps, WasmShieldBuildKeeps,
     CompleteKeeps, WasmCompleteKeeps, ShieldCompleteKeeps, WasmShieldCompleteKeeps DEF Next
-----------------------------------------------------------------------------
(***************************************************************************)
(* What follows from the invariant.                                        *)
(***************************************************************************)
\* The initial states have it.
LEMMA InitKept == Init => Kept
<1> SUFFICES ASSUME Init PROVE Kept
  OBVIOUS
<1>1. PICK k \in {"spend", "wasmSpend", "shield", "wasmShield"} :
        \E h \in Height : b = NewBuilder(k, h)
  BY DEF Init, WasmTxBuilder, ShieldingTxBuilder, WasmShieldingTxBuilder
<1>2. /\ DOMAIN b = {"kind", "height", "inputs", "outputs", "touts", "alphas", "total_input",
                     "total_output", "total_transparent", "finished"}
      /\ b.kind = k /\ b.inputs = <<>> /\ b.outputs = <<>> /\ b.touts = <<>>
      /\ b.alphas = <<>> /\ b.total_input = 0 /\ b.total_output = 0
      /\ b.total_transparent = 0 /\ b.finished = None
  BY <1>1 DEF NewBuilder
<1>3. <<>> \in Seq(Spend) /\ <<>> \in Seq(Amount) /\ Values(<<>>) = <<>>
  BY DEF Values
<1>4. ShapeOf(b) /\ FeesOf(b)
  BY <1>2, <1>3 DEF ShapeOf, FeesOf
<1>5. Open(b)
  BY <1>2, <1>3, SumEmpty DEF Open, SpendTotals, ShieldTotals, Exact
<1> QED
  BY <1>4, <1>5 DEF Init, Kept, BuilderOK, TxOK

\* The invariant holds in every reachable state.
LEMMA KeptAlways == Spec => []Kept
BY InitKept, NextKeeps, PTL DEF Spec

\* Any builder, refilled or not: alphas and spends of one that was not are the same.
LEMMA KeptAlphas == Kept => AlphaPerSpend
BY ClosedAfterBuild DEF AlphaPerSpend, Closed

\* For any parts in any order, a builder that was not refilled has one randomizer per
\* spend that waits for a signature, in the same order.
THEOREM AlphaPerSpendAlways == Spec => []AlphaPerSpend
BY KeptAlways, KeptAlphas, PTL

\* A spending transaction of a careful caller is accepted.
LEMMA SpendAccepted ==
    ASSUME NEW t, NEW ask, t.spending, t.spending \in BOOLEAN, Serialised(t, ask), t.sigs = ask,
           t.proofs = {t.anchor}, Sum(t.ins) < Half, Sum(t.outputs) < Half
    PROVE  Accepted(t)
<1>1. PICK s : /\ BuiltSpend(s) /\ ask = SpendAsked(s)
               /\ t = serialize_v5_tx(s.inputs, s.outputs, s.balance, t.sigs, s.sighash,
                                      s.branch, s.expiry)
  BY DEF Serialised
<1>2. /\ t.ins = Values(s.inputs) /\ t.outputs = s.outputs /\ t.touts = <<>>
      /\ t.balance = s.balance /\ t.bound = s.sighash /\ t.branch = s.branch
      /\ t.expiry = s.expiry /\ t.proofs = {s.inputs[i].anchor : i \in DOMAIN s.inputs}
  <2> DEFINE r(sigs) == serialize_v5_tx(s.inputs, s.outputs, s.balance, sigs, s.sighash,
                                        s.branch, s.expiry)
  <2>1. \A sigs :
          /\ r(sigs).ins = Values(s.inputs) /\ r(sigs).outputs = s.outputs
          /\ r(sigs).touts = <<>> /\ r(sigs).balance = s.balance
          /\ r(sigs).bound = s.sighash /\ r(sigs).branch = s.branch
          /\ r(sigs).expiry = s.expiry
          /\ r(sigs).proofs = {s.inputs[i].anchor : i \in DOMAIN s.inputs}
    BY Zenon DEF serialize_v5_tx, Values
  <2> QED
    BY <1>1, <2>1, Zenon
<1>3. s.inputs \in Seq(Spend) /\ s.outputs \in Seq(Amount) /\ s.sighash = SpendSighash(s)
  BY <1>1 DEF BuiltSpend
<1>4. /\ t.ins \in Seq(Amount) /\ t.ins \in Seq(Nat) /\ t.outputs \in Seq(Nat)
      /\ DOMAIN t.ins = DOMAIN s.inputs /\ Len(t.ins) = Len(s.inputs)
  BY <1>2, <1>3, ValuesProperties, AmountsNat
<1>5. Sum(t.ins) \in Nat /\ Sum(t.outputs) \in Nat /\ Half \in Nat /\ Sum(t.touts) = 0
  BY <1>2, <1>4, SumType, SumEmpty, TxAssumption
<1>6. t.balance = Sum(t.ins) - Sum(t.outputs) /\ t.balance >= 0
  BY <1>1, <1>2, <1>5 DEF BuiltSpend
<1>7. Fee(t) >= 0
  BY <1>5, <1>6 DEF Fee
<1>8. ASSUME NEW i PROVE Digest(t, i) = s.sighash
  <2> DEFINE u == [j \in DOMAIN t.ins |-> make_spend(t.ins[j], t.anchor)]
  <2>1. ASSUME NEW j \in DOMAIN s.inputs
        PROVE  s.inputs[j] = make_spend(t.ins[j], t.anchor)
    <3>1. s.inputs[j] \in Spend
      BY <1>3, ElementOfSeq, LenProperties
    <3>2. s.inputs[j].anchor = t.anchor
      BY <1>2
    <3>3. t.ins[j] = s.inputs[j].value
      BY <1>2 DEF Values
    <3> QED
      BY <3>1, <3>2, <3>3 DEF Spend, make_spend
  <2>2. u = s.inputs
    <3>1. s.inputs = [j \in DOMAIN s.inputs |-> s.inputs[j]]
      BY <1>3
    <3> QED
      BY <1>4, <2>1, <3>1
  <2> HIDE DEF u
  <2>3. Digest(t, i) = compute_v5_sighash(u, t.outputs, t.balance, t.branch, t.expiry)
    BY DEF Digest, u
  <2> QED
    BY <1>2, <1>3, <2>2, <2>3 DEF SpendSighash
<1>9. /\ Len(t.sigs) = Len(t.ins)
      /\ \A i \in DOMAIN t.sigs : t.sigs[i] = s.sighash
  <2>1. t.sigs = [i \in 1..Len(s.inputs) |-> s.sighash] /\ Len(s.inputs) \in Nat
    BY <1>1, <1>3, LenProperties DEF SpendAsked
  <2>2. Len(t.sigs) = Len(s.inputs)
    BY <2>1
  <2> QED
    BY <1>4, <2>1, <2>2
<1> QED
  BY <1>2, <1>5, <1>6, <1>7, <1>8, <1>9 DEF Accepted

\* A shielding transaction of a careful caller is accepted, and pays a fee.
LEMMA ShieldAccepted ==
    ASSUME NEW t, NEW ask, ~t.spending, t.spending \in BOOLEAN, Serialised(t, ask),
           t.sigs = ask, Sum(t.ins) < Half
    PROVE  Accepted(t) /\ Fee(t) > 0
<1>1. PICK s : /\ BuiltShield(s) /\ ask = ShieldAsked(s)
               /\ t = serialize_shielding_v5_tx(s.inputs, t.sigs, s.touts, s.outputs,
                                                s.balance, s.sighash, s.branch, s.expiry)
  BY DEF Serialised
<1>2. /\ t.ins = s.inputs /\ t.outputs = s.outputs /\ t.touts = s.touts
      /\ t.balance = s.balance /\ t.bound = s.sighash /\ t.branch = s.branch
      /\ t.expiry = s.expiry /\ t.proofs = {None} /\ t.anchor = None
  BY <1>1 DEF serialize_shielding_v5_tx
<1>3. /\ s.inputs \in Seq(Amount) /\ s.outputs \in Seq(Amount) /\ s.touts \in Seq(Amount)
      /\ s.sighash = ShieldSighash(s, 0) /\ s.balance = NegI64(AsI64(Sum(s.outputs)))
      /\ Sum(s.inputs) > Sum(s.outputs) + Sum(s.touts)
  BY <1>1 DEF BuiltShield
<1>4. /\ Sum(s.inputs) \in Nat /\ Sum(s.outputs) \in Nat /\ Sum(s.touts) \in Nat
      /\ Half \in Nat \ {0}
  BY <1>3, AmountsNat, SumType, TxAssumption
<1>5. Sum(s.outputs) < Half
  BY <1>2, <1>3, <1>4
<1>6. t.balance = 0 - Sum(t.outputs)
  BY <1>2, <1>3, <1>4, <1>5 DEF NegI64, AsI64
<1>7. Fee(t) > 0
  BY <1>2, <1>3, <1>4 DEF Fee
<1>8. \A i : Digest(t, i) = ShieldSighash(s, i)
  BY <1>2 DEF Digest, ShieldSighash
<1>9. /\ Len(t.sigs) = Len(t.ins)
      /\ \A i \in DOMAIN t.sigs : t.sigs[i] = ShieldSighash(s, i)
  <2>1. t.sigs = [i \in 1..Len(s.inputs) |-> ShieldSighash(s, i)] /\ Len(s.inputs) \in Nat
    BY <1>1, <1>3, LenProperties DEF ShieldAsked
  <2>2. Len(t.sigs) = Len(s.inputs)
    BY <2>1
  <2> QED
    BY <1>2, <2>1, <2>2
<1>10. Fee(t) >= 0
  BY <1>2, <1>3, <1>4 DEF Fee
<1>11. t.proofs = {t.anchor} /\ t.bound = Digest(t, 0)
  BY <1>2, <1>3, <1>8
<1>12. \A i \in DOMAIN t.sigs : t.sigs[i] = Digest(t, i)
  BY <1>8, <1>9
<1> QED
  BY <1>6, <1>7, <1>9, <1>10, <1>11, <1>12 DEF Accepted

\* What a careful caller gets from complete is accepted.
LEMMA KeptAccepted == Kept => CompletedIsAccepted
<1> SUFFICES ASSUME Kept, tx # None, Careful PROVE Accepted(tx)
  BY DEF CompletedIsAccepted
<1>1. PICK t : t = tx
  OBVIOUS
<1>2. /\ Serialised(t, asked) /\ t.sigs = asked /\ t.proofs = {t.anchor} /\ Sum(t.ins) < Half
      /\ t.spending \in BOOLEAN /\ (t.spending => Sum(t.outputs) < Half)
  BY <1>1 DEF Kept, TxOK, PaysOf, Careful
<1>3. CASE t.spending
  BY <1>1, <1>2, <1>3, SpendAccepted
<1>4. CASE ~t.spending
  BY <1>1, <1>2, <1>4, ShieldAccepted
<1> QED
  BY <1>3, <1>4

\* For any amounts, numbers of parts and widths of the integers, the transaction a
\* careful caller gets from complete passes the checks of the network, with the
\* library's own digests in place of those of ZIP 244.
THEOREM CompletedIsAcceptedAlways == Spec => []CompletedIsAccepted
BY KeptAlways, KeptAccepted, PTL

\* The fees.
LEMMA KeptFees == Kept => FeeBounds
<1> SUFFICES ASSUME Kept, tx # None, Accepted(tx)
             PROVE  IF tx.spending THEN Fee(tx) <= MaxFee ELSE Careful => Fee(tx) > 0
  BY DEF FeeBounds
<1>1. PICK t : t = tx
  OBVIOUS
<1>2. PaysOf(t) /\ Accepted(t)
  BY <1>1 DEF Kept, TxOK
<1>3. CASE t.spending
  <2>1. /\ t.ins \in Seq(Nat) /\ t.outputs \in Seq(Nat) /\ t.touts = <<>>
        /\ t.balance <= MaxFee /\ t.balance = Sum(t.ins) - Sum(t.outputs)
    BY <1>2, <1>3, AmountsNat DEF PaysOf, Accepted
  <2>2. Sum(t.ins) \in Nat /\ Sum(t.outputs) \in Nat /\ Sum(t.touts) = 0
    BY <2>1, SumType, SumEmpty
  <2>3. Fee(t) = t.balance
    BY <2>1, <2>2 DEF Fee
  <2> QED
    BY <1>1, <1>3, <2>1, <2>3
<1>4. CASE ~t.spending
  <2> SUFFICES ASSUME Careful PROVE Fee(t) > 0
    BY <1>1, <1>4
  <2>1. /\ Serialised(t, asked) /\ t.sigs = asked /\ Sum(t.ins) < Half
        /\ t.spending \in BOOLEAN
    BY <1>1 DEF Kept, TxOK, PaysOf, Careful
  <2> QED
    BY <1>4, <2>1, ShieldAccepted
<1> QED
  BY <1>2, <1>3, <1>4 DEF PaysOf

\* Whatever the caller does, for any amounts and integers of any width, a spending
\* transaction that passes these checks pays at most MAX_FEE_ZATOSHIS; and a careful
\* caller's shielding transaction pays a fee.
THEOREM FeeBoundsAlways == Spec => []FeeBounds
BY KeptAlways, KeptFees, PTL
==============================================================================
