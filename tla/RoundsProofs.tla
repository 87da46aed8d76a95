---------------------------- MODULE RoundsProofs -----------------------------
(***************************************************************************)
(* Proofs about the ceremonies that run as explicit rounds, for any number *)
(* of parties, of inputs and of restarts.                                  *)
(*                                                                         *)
(* The scripts are first described by what all their steps have in common  *)
(* (GoodStep) and, for the key imports, by where the steps of the two      *)
(* rounds stand.  The invariants then relate the place of a party in its   *)
(* script to what is on the relay, at the barriers and in its view.  The   *)
(* last part gives every step of a ceremony a place in an order that all   *)
(* scripts follow, and says what the scripts owe each other (Supported).   *)
(***************************************************************************)
EXTENDS Rounds, FiniteSetTheorems, SequenceTheorems, TLAPS

-----------------------------------------------------------------------------
(***************************************************************************)
(* Least members and induction, for sets of naturals.                      *)
(***************************************************************************)
\* Every nonempty set of naturals has a least member.
LEMMA LeastMember ==
    ASSUME NEW S \in SUBSET Nat, S # {}
    PROVE  \E x \in S : \A y \in S : x <= y
<1>1. \E R : IsWellFoundedOn(R, Nat) /\ \A x, y \in Nat : <<y, x>> \in R <=> y < x
  <2> DEFINE R == {rr \in Nat \X Nat : rr[1] < rr[2]}
  <2>1. IsWellFoundedOn(R, Nat)
    BY NatLessThanWellFounded DEF OpToRel
  <2>2. \A x, y \in Nat : <<y, x>> \in R <=> y < x
    OBVIOUS
  <2> QED
    BY <2>1, <2>2
<1>2. PICK R : IsWellFoundedOn(R, Nat) /\ \A x, y \in Nat : <<y, x>> \in R <=> y < x
  BY <1>1
<1>3. PICK x \in S : \A y \in S : ~ (<<y, x>> \in R)
  BY <1>2, WFMin
<1>4. \A y \in S : x <= y
  <2> TAKE y \in S
  <2>1. ~ (y < x)
    BY <1>2, <1>3
  <2> QED
    BY <2>1
<1> QED
  BY <1>4

\* Induction over the naturals, for a set instead of a predicate.
LEMMA NatSetInduction ==
    ASSUME NEW S \in SUBSET Nat, 0 \in S, \A n \in S : n + 1 \in S
    PROVE  S = Nat
<1> SUFFICES ASSUME Nat \ S # {} PROVE FALSE
  OBVIOUS
<1>1. PICK x \in Nat \ S : \A y \in Nat \ S : x <= y
  BY LeastMember
<1>2. x - 1 \in Nat /\ x - 1 \in S
  BY <1>1
<1> QED
  BY <1>1, <1>2

\* The concatenation of lists over S is a list over S.
Flattened(ss, f, n) == f = [i \in 1..n |-> IF i = 1 THEN ss[i] ELSE f[i - 1] \o ss[i]]

LEMMA FlattenedExists ==
    ASSUME NEW ss
    PROVE  \A n \in Nat : \E f : Flattened(ss, f, n)
<1> DEFINE S == {n \in Nat : \E f : Flattened(ss, f, n)}
<1>1. 0 \in S
  <2> DEFINE f == [k \in 1..0 |-> 0]
  <2>1. Flattened(ss, f, 0)
    BY DEF Flattened
  <2> QED
    BY <2>1
<1>2. ASSUME NEW n \in S PROVE n + 1 \in S
  <2>1. PICK f : Flattened(ss, f, n)
    OBVIOUS
  <2> DEFINE g == [k \in 1..(n+1) |-> IF k = n + 1 THEN (IF k = 1 THEN ss[k] ELSE f[n] \o ss[k])
                                      ELSE f[k]]
  <2>2. \A k \in 1..n : f[k] = IF k = 1 THEN ss[k] ELSE f[k - 1] \o ss[k]
    BY <2>1 DEF Flattened
  <2>3. \A k \in 1..(n+1) : g[k] = IF k = 1 THEN ss[k] ELSE g[k - 1] \o ss[k]
    <3> TAKE k \in 1..(n+1)
    <3>1. CASE k = n + 1
      <4>1. k # 1 => k - 1 \in 1..(n+1) /\ k - 1 # n + 1 /\ k - 1 = n
        BY <3>1
      <4> QED
        BY <3>1, <4>1
    <3>2. CASE k # n + 1
      <4>1. k \in 1..n /\ (k # 1 => k - 1 \in 1..n)
        BY <3>2
      <4> QED
        BY <2>2, <4>1
    <3> QED
      BY <3>1, <3>2
  <2>4. Flattened(ss, g, n+1)
    BY <2>3 DEF Flattened
  <2> QED
    BY <2>4
<1> HIDE DEF S
<1>3. S = Nat
  <2>1. S \in SUBSET Nat
    BY DEF S
  <2> QED
    BY <1>1, <1>2, <2>1, NatSetInduction
<1> QED
  BY <1>3 DEF S

LEMMA FlattenType ==
    ASSUME NEW X, NEW ss \in Seq(Seq(X))
    PROVE  FlattenSeq(ss) \in Seq(X)
<1>1. CASE Len(ss) = 0
  BY <1>1 DEF FlattenSeq
<1>2. CASE Len(ss) # 0
  <2> DEFINE f == CHOOSE f : Flattened(ss, f, Len(ss))
  <2>1. Len(ss) \in Nat
    OBVIOUS
  <2>2. Flattened(ss, f, Len(ss))
    BY <2>1, FlattenedExists
  <2>3. FlattenSeq(ss) = f[Len(ss)]
    BY <1>2 DEF FlattenSeq, Flattened
  <2> HIDE DEF f
  <2>4. \A i \in 1..Len(ss) : f[i] = IF i = 1 THEN ss[i] ELSE f[i - 1] \o ss[i]
    BY <2>2 DEF Flattened
  <2> DEFINE S == {i \in Nat : i \in 1..Len(ss) => f[i] \in Seq(X)}
  <2>5. 0 \in S
    OBVIOUS
  <2>6. ASSUME NEW i \in S PROVE i + 1 \in S
    <3> SUFFICES ASSUME i + 1 \in 1..Len(ss) PROVE f[i + 1] \in Seq(X)
      OBVIOUS
    <3>1. ss[i + 1] \in Seq(X)
      BY ElementOfSeq
    <3>2. CASE i = 0
      BY <2>4, <3>1, <3>2
    <3>3. CASE i # 0
      <4>1. i \in 1..Len(ss) /\ (i + 1) - 1 = i /\ i + 1 # 1
        BY <2>1, <3>3
      <4>2. f[i + 1] = f[i] \o ss[i + 1] /\ f[i] \in Seq(X)
        BY <2>4, <4>1
      <4> QED
        BY <3>1, <4>2, ConcatProperties
    <3> QED
      BY <3>2, <3>3
  <2> HIDE DEF S
  <2>7. S = Nat
    <3>1. S \in SUBSET Nat
      BY DEF S
    <3> QED
      BY <2>5, <2>6, <3>1, NatSetInduction
  <2> QED
    BY <1>2, <2>1, <2>3, <2>7 DEF S
<1> QED
  BY <1>1, <1>2
-----------------------------------------------------------------------------
(***************************************************************************)
(* What the steps of all scripts have in common.                           *)
(***************************************************************************)
Kinds == {"froztImport", "fromtImport", "froztSign", "fromtSign", "froztSpend", "fromtSpend"}
Ops == {"send", "barrier", "collect", "wait", "part3", "hashes", "sign", "aggregate", "complete"}
Names == {"round1", "round2", "metadata", "metadata-hash", "expected-vk", "vk-exchanged",
          "commit", "package", "share", "result", "sign-done", "sighash", "broadcast-done",
          "signable-tx", "tx-exchanged", "preprocess", "offsets", "spend-done"}
Ids == Names \X Nat

\* The rounds in which one party, the leader, sends and the others collect.
OneSender(id) == id[1] \in {"expected-vk", "metadata"}

\* A party posts to others only, what one party sends is sent by the leader, and
\* the loops wait for the messages of all the others or for the leader's.
GoodStep(p) ==
    {s \in [op : Ops, id : Ids, to : SUBSET OtherParties(p), of : Ids, n : Nat] :
        /\ s.op = "send" /\ OneSender(s.id) => p = lead
        /\ s.op = "collect" => s.n = IF OneSender(s.id) THEN 1 ELSE Others}

LEMMA FiniteParty ==
    /\ IsFiniteSet(Party) /\ Party \subseteq Nat /\ Others \in Nat
    /\ Cardinality(Party) = Others + 1
    /\ \A p \in Party : IsFiniteSet(OtherParties(p)) /\ Cardinality(OtherParties(p)) = Others
<1>1. IsFiniteSet(Party) /\ Party \subseteq Nat /\ Party # {}
  BY RoundsAssumption
<1>2. Cardinality(Party) \in Nat /\ Cardinality(Party) # 0
  BY <1>1, FS_CardinalityType, FS_EmptySet
<1>3. Others \in Nat /\ Cardinality(Party) = Others + 1
  BY <1>2 DEF Others
<1>4. ASSUME NEW p \in Party
      PROVE  IsFiniteSet(OtherParties(p)) /\ Cardinality(OtherParties(p)) = Others
  BY <1>1, <1>4, FS_RemoveElement DEF OtherParties, Others
<1> QED
  BY <1>1, <1>3, <1>4

\* The ids of messages.
LEMMA IdType ==
    ASSUME NEW name \in Names, NEW i \in Nat
    PROVE  /\ <<name, i>> \in Ids /\ Id(name) \in Ids
           /\ OneSender(<<name, i>>) <=> name \in {"expected-vk", "metadata"}
           /\ OneSender(Id(name)) <=> name \in {"expected-vk", "metadata"}
BY DEF Ids, Id, OneSender

\* The steps the scripts are made of.
LEMMA OneStep ==
    ASSUME NEW p \in Party, NEW id \in Ids, NEW of \in Ids
    PROVE  /\ \A to \in SUBSET OtherParties(p) :
                (OneSender(id) => p = lead) => Send(id, to, of) \in GoodStep(p)
           /\ WaitForBarrier(id) \in GoodStep(p)
           /\ WaitForMessage(id) \in GoodStep(p)
           /\ OneSender(id) => CollectMessages(id, 1) \in GoodStep(p)
           /\ ~OneSender(id) => CollectMessages(id, Others) \in GoodStep(p)
           /\ \A what \in {"part3", "hashes", "sign", "aggregate", "complete"} :
                Verify(what, id) \in GoodStep(p)
<1> DEFINE R == [op : Ops, id : Ids, to : SUBSET OtherParties(p), of : Ids, n : Nat]
<1>1. ASSUME NEW to \in SUBSET OtherParties(p), OneSender(id) => p = lead
      PROVE  Send(id, to, of) \in GoodStep(p)
  <2>1. Send(id, to, of) \in R
    BY DEF Send, Ops
  <2>2. Send(id, to, of).op = "send" /\ Send(id, to, of).id = id
    BY DEF Send
  <2> HIDE DEF R
  <2> QED
    BY <1>1, <2>1, <2>2 DEF GoodStep, R
<1>2. WaitForBarrier(id) \in GoodStep(p)
  BY DEF GoodStep, WaitForBarrier, Ops
<1>3. WaitForMessage(id) \in GoodStep(p)
  BY DEF GoodStep, WaitForMessage, Ops
<1>4. ASSUME NEW n \in Nat, n = IF OneSender(id) THEN 1 ELSE Others
      PROVE  CollectMessages(id, n) \in GoodStep(p)
  <2>1. CollectMessages(id, n) \in R
    BY DEF CollectMessages, Ops
  <2>2. /\ CollectMessages(id, n).op = "collect" /\ CollectMessages(id, n).id = id
        /\ CollectMessages(id, n).n = n
    BY DEF CollectMessages
  <2> HIDE DEF R
  <2> QED
    BY <1>4, <2>1, <2>2 DEF GoodStep, R
<1>5. ASSUME NEW what \in {"part3", "hashes", "sign", "aggregate", "complete"}
      PROVE  Verify(what, id) \in GoodStep(p)
  <2>1. Verify(what, id) \in R
    BY DEF Verify, Ops
  <2>2. Verify(what, id).op \notin {"send", "collect"}
    BY DEF Verify
  <2> HIDE DEF R
  <2> QED
    BY <2>1, <2>2 DEF GoodStep, R
<1> QED
  BY <1>1, <1>2, <1>3, <1>4, <1>5, FiniteParty

\* Short lists.
LEMMA ShortLists ==
    ASSUME NEW X
    PROVE  /\ \A a \in X : <<a>> \in Seq(X)
           /\ \A a, b, c \in X : <<a, b, c>> \in Seq(X)
           /\ \A a, b \in X : <<a, b>> \in Seq(X)
           /\ \A a, b, c, d \in X : <<a, b, c, d>> \in Seq(X)
           /\ \A s, t \in Seq(X) : s \o t \in Seq(X)
BY ConcatProperties

\* The parts of the scripts.
LEMMA BroadcastsGood ==
    ASSUME NEW p \in Party, NEW id \in Ids, NEW of \in Ids, ~OneSender(id)
    PROVE  Broadcasts(p, id, of) \in Seq(GoodStep(p))
<1>1. /\ Send(id, OtherParties(p), of) \in GoodStep(p) /\ WaitForBarrier(id) \in GoodStep(p)
      /\ CollectMessages(id, Others) \in GoodStep(p)
  BY OneStep
<1> QED
  BY <1>1, ShortLists DEF Broadcasts

LEMMA AnnounceGood ==
    ASSUME NEW p \in Party, NEW id \in Ids
    PROVE  /\ Announce(p, id) \in Seq(GoodStep(p))
           /\ OneSender(id) => Exchange(p, id) \in Seq(GoodStep(p))
<1>1. /\ p = lead => Send(id, OtherParties(p), id) \in GoodStep(p)
      /\ WaitForMessage(id) \in GoodStep(p)
      /\ OneSender(id) => CollectMessages(id, 1) \in GoodStep(p)
  BY OneStep
<1> QED
  BY <1>1, ShortLists DEF Announce, Exchange

LEMMA PerRecipientGood ==
    ASSUME NEW p \in Party, NEW id \in Ids, NEW of \in Ids, ~OneSender(id)
    PROVE  /\ sendPerRecipient(p, id, of) \in Seq(GoodStep(p))
           /\ Len(sendPerRecipient(p, id, of)) = Others
<1> DEFINE s == sendPerRecipient(p, id, of)
<1>1. \A i \in 1..Others : Send(id, {q \in OtherParties(p) : Rank(p, q) = i}, of) \in GoodStep(p)
  BY OneStep
<1>2. s \in [1..Others -> GoodStep(p)]
  BY <1>1 DEF sendPerRecipient
<1>3. Others \in Nat
  BY FiniteParty
<1> HIDE DEF s
<1>4. s \in Seq(GoodStep(p)) /\ Len(s) = Others
  BY <1>2, <1>3, SeqDef
<1> QED
  BY <1>4 DEF s

LEMMA DkgGood ==
    ASSUME NEW p \in Party
    PROVE  DkgRounds(p) \in Seq(GoodStep(p))
<1>1. /\ Id("round1") \in Ids /\ Id("round2") \in Ids
      /\ ~OneSender(Id("round1")) /\ ~OneSender(Id("round2"))
  BY IdType DEF Names
<1>2. <<WaitForBarrier(Id("round2")), CollectMessages(Id("round2"), Others)>> \in Seq(GoodStep(p))
  BY <1>1, OneStep, ShortLists
<1> QED
  BY <1>1, <1>2, BroadcastsGood, PerRecipientGood, ShortLists DEF DkgRounds

LEMMA SignGood ==
    ASSUME NEW p \in Party, NEW i \in Nat, lead \in Party
    PROVE  SignRounds(p, i) \in Seq(GoodStep(p))
<1>1. /\ <<"commit", i>> \in Ids /\ <<"package", i>> \in Ids /\ <<"share", i>> \in Ids
      /\ <<"result", i>> \in Ids /\ ~OneSender(<<"commit", i>>) /\ ~OneSender(<<"package", i>>)
      /\ ~OneSender(<<"share", i>>) /\ ~OneSender(<<"result", i>>)
  BY IdType DEF Names
<1>2. Broadcasts(p, <<"commit", i>>, <<"commit", i>>) \in Seq(GoodStep(p))
  BY <1>1, BroadcastsGood
<1>3. CASE p = lead
  <2>1. /\ Send(<<"package", i>>, OtherParties(p), <<"commit", i>>) \in GoodStep(p)
        /\ CollectMessages(<<"share", i>>, Others) \in GoodStep(p)
        /\ Verify("aggregate", <<"share", i>>) \in GoodStep(p)
        /\ Send(<<"result", i>>, OtherParties(p), <<"share", i>>) \in GoodStep(p)
    BY <1>1, OneStep
  <2> QED
    BY <1>2, <1>3, <2>1, ShortLists DEF SignRounds
<1>4. CASE p # lead
  <2>0. {lead} \in SUBSET OtherParties(p)
    BY <1>4 DEF OtherParties
  <2>1. /\ WaitForMessage(<<"package", i>>) \in GoodStep(p)
        /\ Verify("sign", <<"package", i>>) \in GoodStep(p)
        /\ Send(<<"share", i>>, {lead}, <<"package", i>>) \in GoodStep(p)
        /\ WaitForMessage(<<"result", i>>) \in GoodStep(p)
    BY <1>1, <2>0, OneStep
  <2> QED
    BY <1>2, <1>4, <2>1, ShortLists DEF SignRounds
<1> QED
  BY <1>3, <1>4

\* Every script consists of good steps.
LEMMA ScriptGood ==
    ASSUME NEW p \in Party, lead \in Party, kind \in Kinds
    PROVE  Script(p) \in Seq(GoodStep(p))
<1> DEFINE G == Seq(GoodStep(p))
<1>1. \A s, t \in G : s \o t \in G
  BY ShortLists
<1>2. \A name \in Names : Id(name) \in Ids
  BY IdType
<1>3. \A name \in Names : <<WaitForBarrier(Id(name))>> \in G /\ Announce(p, Id(name)) \in G
  BY <1>2, OneStep, AnnounceGood, ShortLists
<1>4. \A name \in Names, what \in {"part3", "hashes", "sign", "aggregate", "complete"} :
        <<Verify(what, Id(name))>> \in G
  BY <1>2, OneStep, ShortLists
<1>5. Exchange(p, Id("metadata")) \in G /\ Exchange(p, Id("expected-vk")) \in G
  BY IdType, AnnounceGood DEF Names
<1>6. /\ Broadcasts(p, Id("metadata-hash"), Id("metadata")) \in G
      /\ Broadcasts(p, Id("preprocess"), Id("preprocess")) \in G
      /\ Broadcasts(p, Id("share"), Id("preprocess")) \in G
  BY IdType, BroadcastsGood DEF Names
<1>7. DkgRounds(p) \in G /\ SignRounds(p, 0) \in G
  BY DkgGood, SignGood
<1> HIDE DEF G
<1>8. ImportMetadata(p) \in G
  <2>1. <<Verify("hashes", Id("metadata-hash"))>> \in G
    BY <1>4 DEF Names
  <2> QED
    BY <1>1, <1>5, <1>6, <2>1 DEF ImportMetadata
<1>9. FroztImport(p) \in G
  <2>1. <<Verify("part3", Id("round2"))>> \in G
    BY <1>4 DEF Names
  <2> QED
    BY <1>1, <1>5, <1>7, <1>8, <2>1 DEF FroztImport
<1>10. FromtImport(p) \in G
  <2>1. /\ <<Verify("part3", Id("round2"))>> \in G /\ Announce(p, Id("expected-vk")) \in G
        /\ <<WaitForBarrier(Id("vk-exchanged"))>> \in G
    BY <1>3, <1>4 DEF Names
  <2> QED
    BY <1>1, <1>7, <2>1 DEF FromtImport
<1>11. FroztSign(p) \in G /\ FromtSign(p) \in G
  <2>1. <<WaitForBarrier(Id("sign-done"))>> \in G
    BY <1>3 DEF Names
  <2> QED
    BY <1>1, <1>7, <2>1 DEF FroztSign, FromtSign
<1>12. FroztSpend(p) \in G
  <2>1. Announce(p, Id("sighash")) \in G /\ Announce(p, Id("broadcast-done")) \in G
    BY <1>3 DEF Names
  <2> DEFINE ss == [i \in 1 .. Inputs |-> SignRounds(p, i)]
  <2>2. Inputs \in Nat
    BY RoundsAssumption
  <2>3. ss \in [1..Inputs -> Seq(GoodStep(p))]
    BY <2>2, SignGood
  <2> HIDE DEF ss
  <2>4. ss \in Seq(Seq(GoodStep(p)))
    BY <2>2, <2>3, SeqDef
  <2>5. FlattenSeq(ss) \in G
    BY <2>4, FlattenType DEF G
  <2> QED
    BY <1>1, <2>1, <2>5 DEF FroztSpend, ss
<1>13. FromtSpend(p) \in G
  <2>1. /\ Announce(p, Id("signable-tx")) \in G /\ Announce(p, Id("offsets")) \in G
        /\ <<WaitForBarrier(Id("tx-exchanged"))>> \in G
        /\ <<WaitForBarrier(Id("spend-done"))>> \in G
        /\ <<Verify("complete", Id("share"))>> \in G
    BY <1>3, <1>4 DEF Names
  <2> QED
    BY <1>1, <1>6, <2>1 DEF FromtSpend
<1> QED
  BY <1>9, <1>10, <1>11, <1>12, <1>13 DEF Script, Kinds, G

\* The scripts of a ceremony do not change.
LEMMA ScriptStable ==
    ASSUME UNCHANGED <<kind, lead>>
    PROVE  \A p : Script(p)' = Script(p) /\ GoodStep(p)' = GoodStep(p)
<1> USE DEF Exchange, Announce, Broadcasts
<1>1. \A p : SignRounds(p, 0)' = SignRounds(p, 0)
  BY DEF SignRounds
<1>2. \A p : [i \in 1 .. Inputs |-> SignRounds(p, i)]' = [i \in 1 .. Inputs |-> SignRounds(p, i)]
  BY DEF SignRounds
<1> QED
  BY <1>1, <1>2 DEF Script, FroztImport, FromtImport, FroztSign, FromtSign, FroztSpend,
     FromtSpend, DkgRounds, ImportMetadata, GoodStep
-----------------------------------------------------------------------------
(***************************************************************************)
(* What a loop that ended has collected.                                   *)
(***************************************************************************)
Message == [id : Ids, from : Party, to : SUBSET Party, seq : Nat, run : Nat,
            on : SUBSET (Party \X Nat)]
Item == [id : Ids, from : Party, run : Nat, on : SUBSET (Party \X Nat)]

\* The type of the state, and where a program can be in its script.
Shape ==
    /\ kind \in Kinds /\ lead \in Party
    /\ pc \in [Party -> Nat \ {0}] /\ \A p \in Party : pc[p] <= Len(Script(p)) + 1
    /\ why \in [Party -> {"none", "replay", "check", "stop"}]
    /\ run \in [Party -> Nat] /\ seq \in [Party -> Nat]
    /\ seen \in [Party -> SUBSET (Party \X Nat)]
    /\ view \in [Party -> SUBSET Item]
    /\ relay \subseteq Message
    /\ barrier \subseteq Ids \X Party

\* Nobody has a message of itself, and what one party sends is the leader's.
Senders ==
    /\ \A m \in relay : m.to \subseteq OtherParties(m.from) /\ (OneSender(m.id) => m.from = lead)
    /\ \A p \in Party : \A v \in view[p] :
         v.from \in OtherParties(p) /\ (OneSender(v.id) => v.from = lead)

\* A running program is at one of its steps.
LEMMA AtStep ==
    ASSUME Shape, NEW p \in Party
    PROVE  /\ Script(p) \in Seq(GoodStep(p)) /\ Len(Script(p)) \in Nat
           /\ pc[p] \in Nat \ {0}
           /\ \A i \in 1..Len(Script(p)) : Script(p)[i] \in GoodStep(p)
           /\ Running(p) => pc[p] \in 1..Len(Script(p)) /\ Step(p) \in GoodStep(p)
<1>1. Script(p) \in Seq(GoodStep(p))
  BY ScriptGood DEF Shape
<1>2. Len(Script(p)) \in Nat /\ \A i \in 1..Len(Script(p)) : Script(p)[i] \in GoodStep(p)
  BY <1>1, ElementOfSeq, LenProperties
<1>3. pc[p] \in Nat \ {0}
  BY DEF Shape
<1>4. ASSUME Running(p) PROVE pc[p] \in 1..Len(Script(p))
  BY <1>2, <1>3, <1>4 DEF Running, Done
<1> QED
  BY <1>1, <1>2, <1>3, <1>4 DEF Step

\* The fields of a step.
LEMMA StepFields ==
    ASSUME NEW p, NEW s \in GoodStep(p)
    PROVE  /\ s.id \in Ids /\ s.to \in SUBSET OtherParties(p) /\ s.n \in Nat
           /\ s.op = "send" /\ OneSender(s.id) => p = lead
           /\ s.op = "collect" => s.n = IF OneSender(s.id) THEN 1 ELSE Others
BY DEF GoodStep

\* What Accept takes of the listed messages: of every sender one of its first run.
LEMMA AcceptEffect ==
    ASSUME Shape, Senders, NEW p \in Party, NEW msgs, msgs \subseteq Listed(p), Accept(p, msgs)
    PROVE  /\ seen' \in [Party -> SUBSET (Party \X Nat)]
           /\ view' \in [Party -> SUBSET Item]
           /\ \A q \in Party \ {p} : view'[q] = view[q]
           /\ view[p] \subseteq view'[p]
           /\ \A m \in msgs : \E v \in view'[p] : v.id = m.id /\ v.from = m.from
           /\ \A v \in view'[p] \ view[p] : \E m \in msgs :
                /\ v = [id |-> m.id, from |-> m.from, run |-> m.run, on |-> m.on]
                /\ m \in relay /\ p \in m.to /\ m.id = Step(p).id
<1> DEFINE new == {[id |-> m.id, from |-> m.from, run |-> m.run, on |-> m.on] :
                     m \in {x \in msgs : ~\E y \in msgs : y.from = x.from /\ y.run < x.run}}
<1>1. \A m \in msgs : m \in relay /\ m.id = Step(p).id /\ p \in m.to /\ m \in Message
  BY DEF Listed, Shape
<1>2. view' = [view EXCEPT ![p] = @ \cup new]
  BY DEF Accept
<1>3. seen' \in [Party -> SUBSET (Party \X Nat)]
  <2>1. {<<m.from, m.seq>> : m \in msgs} \in SUBSET (Party \X Nat)
    BY <1>1 DEF Message
  <2> QED
    BY <2>1 DEF Accept, Shape
<1>4. new \in SUBSET Item
  BY <1>1 DEF Message, Item
<1>5. \A m \in msgs : \E v \in new : v.id = m.id /\ v.from = m.from
  <2> SUFFICES ASSUME NEW m \in msgs PROVE \E v \in new : v.id = m.id /\ v.from = m.from
    OBVIOUS
  <2> DEFINE S == {x.run : x \in {y \in msgs : y.from = m.from}}
  <2>1. S \in SUBSET Nat /\ S # {}
    BY <1>1 DEF Message
  <2> HIDE DEF S
  <2>2. PICK k \in S : \A j \in S : k <= j
    BY <2>1, LeastMember
  <2>3. PICK x \in msgs : x.from = m.from /\ x.run = k
    BY DEF S
  <2>4. ~\E y \in msgs : y.from = x.from /\ y.run < x.run
    <3> SUFFICES ASSUME NEW y \in msgs, y.from = x.from PROVE ~ (y.run < x.run)
      OBVIOUS
    <3>1. y.run \in S
      BY <2>3 DEF S
    <3>2. k <= y.run /\ y.run \in Nat /\ k \in Nat
      BY <2>1, <2>2, <3>1
    <3> QED
      BY <2>3, <3>2
  <2>5. x.id = m.id
    BY <1>1
  <2> DEFINE v == [id |-> x.id, from |-> x.from, run |-> x.run, on |-> x.on]
  <2>6. v \in new
    BY <2>4
  <2> QED
    BY <2>3, <2>5, <2>6
<1>6. \A v \in new : \E m \in msgs : v = [id |-> m.id, from |-> m.from, run |-> m.run, on |-> m.on]
  OBVIOUS
<1> HIDE DEF new
<1>7. view'[p] = view[p] \cup new /\ \A q \in Party \ {p} : view'[q] = view[q]
  BY <1>2 DEF Shape
<1>8. view' \in [Party -> SUBSET Item]
  BY <1>2, <1>4 DEF Shape
<1> QED
  BY <1>1, <1>3, <1>5, <1>6, <1>7, <1>8

\* A program advances to the next step, or stays.
LEMMA PlaceKeeps ==
    ASSUME Shape, NEW p \in Party, Running(p), Advance(p) \/ UNCHANGED pc, UNCHANGED <<kind, lead>>
    PROVE  /\ pc' \in [Party -> Nat \ {0}] /\ \A q \in Party : pc'[q] <= Len(Script(q)') + 1
           /\ \A q \in Party \ {p} : pc'[q] = pc[q]
           /\ pc'[p] = pc[p] \/ (Advance(p) /\ pc'[p] = pc[p] + 1)
<1>1. \A q : Script(q)' = Script(q)
  BY ScriptStable
<1>2. pc[p] \in 1..Len(Script(p)) /\ Len(Script(p)) \in Nat
  BY AtStep
<1>3. pc \in [Party -> Nat \ {0}] /\ \A q \in Party : pc[q] <= Len(Script(q)) + 1
  BY DEF Shape
<1>4. CASE UNCHANGED pc
  BY <1>1, <1>3, <1>4
<1>5. CASE Advance(p)
  <2>1. pc' = [pc EXCEPT ![p] = pc[p] + 1]
    BY <1>5 DEF Advance
  <2>2. pc'[p] = pc[p] + 1 /\ \A q \in Party \ {p} : pc'[q] = pc[q]
    BY <1>3, <2>1
  <2>3. pc' \in [Party -> Nat \ {0}]
    BY <1>2, <1>3, <2>1
  <2>4. ASSUME NEW q \in Party PROVE pc'[q] <= Len(Script(q)) + 1
    BY <1>2, <1>3, <2>2
  <2> QED
    BY <1>1, <1>5, <2>2, <2>3, <2>4
<1> QED
  BY <1>4, <1>5

\* The loop at step i, if it is one, has its messages.
Collected(p, i) ==
    Script(p)[i].op = "collect" =>
        {m.from : m \in Read(p, Script(p)[i].id)} =
            IF OneSender(Script(p)[i].id) THEN {lead} ELSE OtherParties(p)

LEMMA CollectedAll ==
    EveryPeerCollected <=> \A p \in Party : \A i \in 1 .. pc[p] - 1 : Collected(p, i)
BY DEF EveryPeerCollected, Collected, OneSender

\* What was collected stays, since messages of others than the expected senders
\* do not exist.
LEMMA CollectedKeeps ==
    ASSUME Senders', UNCHANGED <<kind, lead>>, NEW p \in Party, NEW i,
           view[p] \subseteq view'[p], Collected(p, i)
    PROVE  Collected(p, i)'
<1> DEFINE s == Script(p)[i]
<1> SUFFICES ASSUME s.op = "collect"
             PROVE  {m.from : m \in {v \in view'[p] : v.id = s.id}} =
                      IF OneSender(s.id) THEN {lead} ELSE OtherParties(p)
  <2>1. s' = s /\ lead' = lead
    BY ScriptStable
  <2> HIDE DEF s
  <2>2. Collected(p, i)' <=> (s.op = "collect" =>
            {m.from : m \in {v \in view'[p] : v.id = s.id}} =
                      IF OneSender(s.id) THEN {lead} ELSE OtherParties(p))
    BY <2>1 DEF Collected, s, Read, OneSender
  <2> QED
    BY <2>2
<1>1. {m.from : m \in {v \in view[p] : v.id = s.id}} =
                      IF OneSender(s.id) THEN {lead} ELSE OtherParties(p)
  BY DEF Collected, Read
<1>2. \A v \in view'[p] : v.from \in OtherParties(p) /\ (OneSender(v.id) => v.from = lead)
  BY DEF Senders, OneSender
<1> HIDE DEF s
<1> QED
  BY <1>1, <1>2

\* A step that leaves the relay alone keeps it well formed.
LEMMA AcceptKeeps ==
    ASSUME Shape, Senders, NEW p \in Party, NEW msgs, msgs \subseteq Listed(p), Accept(p, msgs),
           UNCHANGED <<kind, lead, relay>>
    PROVE  Senders'
<1>1. \A m \in relay : m \in Message /\ m.to \subseteq OtherParties(m.from)
                       /\ (OneSender(m.id) => m.from = lead)
  BY DEF Senders, Shape
<1>2. ASSUME NEW q \in Party, NEW v \in view'[q]
      PROVE  v.from \in OtherParties(q) /\ (OneSender(v.id) => v.from = lead)
  <2>1. CASE q # p \/ v \in view[p]
    <3>1. v \in view[q]
      BY <2>1, AcceptEffect
    <3> QED
      BY <3>1 DEF Senders
  <2>2. CASE q = p /\ v \notin view[p]
    <3>1. PICK m \in msgs : /\ v = [id |-> m.id, from |-> m.from, run |-> m.run, on |-> m.on]
                            /\ m \in relay /\ p \in m.to
      BY <2>2, AcceptEffect
    <3>2. v.from = m.from /\ v.id = m.id
      BY <3>1
    <3>3. m.from \in Party /\ m.from # p
      BY <1>1, <3>1 DEF Message, OtherParties
    <3> QED
      BY <1>1, <2>2, <3>1, <3>2, <3>3 DEF OtherParties
  <2> QED
    BY <2>1, <2>2
<1> QED
  BY <1>1, <1>2 DEF Senders, OneSender

\* The loop of this step ends with the messages it waited for.
LEMMA LoopEnds ==
    ASSUME Shape, Senders, NEW p \in Party, Running(p), Step(p).op = "collect",
           Listed(p) # {}, Accept(p, Listed(p)), Enough(p, Listed(p)),
           UNCHANGED <<kind, lead, relay>>, NEW CONSTANT n, n = pc[p]
    PROVE  Collected(p, n)'
<1> DEFINE s == Step(p)
           F == {m.from : m \in Listed(p)}
<1>1. s \in GoodStep(p) /\ s.op = "collect"
  BY AtStep
<1>2. s.id \in Ids /\ s.n = IF OneSender(s.id) THEN 1 ELSE Others
  BY <1>1, StepFields
<1>3. \A m \in Listed(p) : m \in relay /\ m.id = s.id /\ p \in m.to /\ m.from \in OtherParties(p)
                           /\ (OneSender(s.id) => m.from = lead)
  BY DEF Listed, Shape, Senders, Message, OtherParties
<1>4. F = IF OneSender(s.id) THEN {lead} ELSE OtherParties(p)
  <2>1. CASE OneSender(s.id)
    <3>1. F \subseteq {lead} /\ F # {}
      BY <1>3, <2>1
    <3> QED
      BY <2>1, <3>1
  <2>2. CASE ~OneSender(s.id)
    <3>1. F \subseteq OtherParties(p)
      BY <1>3
    <3>2. Cardinality(F) >= Others
      BY <1>2, <2>2 DEF Enough
    <3> HIDE DEF F
    <3>3. IsFiniteSet(OtherParties(p)) /\ Cardinality(OtherParties(p)) = Others /\ Others \in Nat
      BY FiniteParty
    <3>4. /\ IsFiniteSet(F) /\ Cardinality(F) <= Cardinality(OtherParties(p))
          /\ Cardinality(F) = Cardinality(OtherParties(p)) => F = OtherParties(p)
      BY <3>1, <3>3, FS_Subset
    <3>5. Cardinality(F) \in Nat
      BY <3>4, FS_CardinalityType
    <3> QED
      BY <2>2, <3>2, <3>3, <3>4, <3>5
  <2> QED
    BY <2>1, <2>2
<1>5. Senders'
  BY AcceptKeeps
<1>6. \A v \in view'[p] : v.from \in OtherParties(p) /\ (OneSender(v.id) => v.from = lead)
  BY <1>5 DEF Senders, OneSender
<1>7. \A m \in Listed(p) : \E v \in view'[p] : v.id = s.id /\ v.from = m.from
  BY <1>3, AcceptEffect
<1>8. {m.from : m \in {v \in view'[p] : v.id = s.id}} =
        IF OneSender(s.id) THEN {lead} ELSE OtherParties(p)
  <2>1. \A f \in F : f \in {m.from : m \in {v \in view'[p] : v.id = s.id}}
    BY <1>7
  <2> HIDE DEF s, F
  <2> QED
    BY <1>4, <1>6, <2>1
<1>9. Script(p)[n]' = s
  BY ScriptStable DEF Step
<1> HIDE DEF s
<1> QED
  BY <1>8, <1>9 DEF Collected, Read, OneSender

LEMMA CollectedInit ==
    ASSUME Init
    PROVE  Shape /\ Senders /\ EveryPeerCollected
<1>1. kind \in Kinds
  BY RoundsAssumption DEF Init, Kinds
<1>2. lead \in Party
  <2>1. Party \in SUBSET Nat /\ Party # {}
    BY RoundsAssumption
  <2>2. PICK x \in Party : \A y \in Party : x <= y
    BY <2>1, LeastMember
  <2>3. Min(Party) \in Party
    BY <2>2 DEF Min
  <2> QED
    BY <2>3 DEF Init
<1>3. /\ pc = [p \in Party |-> 1] /\ why = [p \in Party |-> "none"] /\ run = [p \in Party |-> 1]
      /\ seq = [p \in Party |-> 0] /\ seen = [p \in Party |-> {}] /\ view = [p \in Party |-> {}]
      /\ relay = {} /\ barrier = {}
  BY DEF Init
<1>4. \A p \in Party : pc[p] <= Len(Script(p)) + 1
  <2> TAKE p \in Party
  <2>1. Len(Script(p)) \in Nat
    BY <1>1, <1>2, ScriptGood, LenProperties
  <2> QED
    BY <1>3, <2>1
<1>5. Shape
  BY <1>1, <1>2, <1>3, <1>4 DEF Shape
<1>6. Senders
  BY <1>3 DEF Senders
<1>7. EveryPeerCollected
  BY <1>3 DEF EveryPeerCollected
<1> QED
  BY <1>5, <1>6, <1>7

\* A step that reads nothing and changes neither relay nor views.
LEMMA CollectedQuiet ==
    ASSUME Shape, Senders, EveryPeerCollected, NEW p \in Party, Running(p),
           Advance(p) \/ UNCHANGED pc,
           Advance(p) => Step(p).op # "collect",
           UNCHANGED <<kind, lead, run, seq, seen, view, relay>>,
           why' \in [Party -> {"none", "replay", "check", "stop"}],
           barrier' \subseteq Ids \X Party
    PROVE  Shape' /\ Senders' /\ EveryPeerCollected'
<1>1. Shape'
  BY PlaceKeeps DEF Shape
<1>2. Senders'
  BY DEF Senders, OneSender
<1>3. ASSUME NEW q \in Party, NEW i \in 1 .. pc'[q] - 1
      PROVE  Collected(q, i)'
  <2>1. CASE i \in 1 .. pc[q] - 1
    <3>1. Collected(q, i)
      BY <2>1, CollectedAll
    <3> QED
      BY <1>2, <3>1, CollectedKeeps
  <2>2. CASE i \notin 1 .. pc[q] - 1
    <3>1. q = p /\ i = pc[p] /\ Advance(p)
      <4>1. pc[q] \in Nat /\ pc'[q] \in Nat /\ i \in Nat
        BY <1>1 DEF Shape
      <4>2. pc'[q] # pc[q]
        BY <2>2
      <4>3. q = p /\ Advance(p) /\ pc'[p] = pc[p] + 1
        BY <4>2, PlaceKeeps
      <4> QED
        BY <2>2, <4>1, <4>3
    <3>2. Script(q)[i]' = Step(p)
      BY <3>1, ScriptStable DEF Step
    <3> QED
      BY <3>1, <3>2 DEF Collected
  <2> QED
    BY <2>1, <2>2
<1>4. EveryPeerCollected'
  BY <1>3 DEF EveryPeerCollected, Collected, OneSender
<1> QED
  BY <1>1, <1>2, <1>4

\* A step that reads messages.
LEMMA CollectedReads ==
    ASSUME Shape, Senders, EveryPeerCollected, NEW p \in Party, Running(p),
           NEW msgs, msgs \subseteq Listed(p), Accept(p, msgs), UNCHANGED why,
           UNCHANGED pc \/ (Advance(p) /\ (Step(p).op = "collect" =>
               msgs = Listed(p) /\ Listed(p) # {} /\ Enough(p, Listed(p)))),
           UNCHANGED <<kind, lead, run, seq, relay, barrier>>
    PROVE  Shape' /\ Senders' /\ EveryPeerCollected'
<1>1. Shape'
  BY PlaceKeeps, AcceptEffect DEF Shape
<1>2. Senders'
  BY AcceptKeeps
<1>3. ASSUME NEW q \in Party, NEW i \in 1 .. pc'[q] - 1
      PROVE  Collected(q, i)'
  <2>1. CASE i \in 1 .. pc[q] - 1
    <3>1. Collected(q, i)
      BY <2>1, CollectedAll
    <3>2. view[q] \subseteq view'[q]
      BY AcceptEffect
    <3> QED
      BY <1>2, <3>1, <3>2, CollectedKeeps
  <2>2. CASE i \notin 1 .. pc[q] - 1
    <3>1. q = p /\ i = pc[p] /\ Advance(p) /\ ~UNCHANGED pc
      <4>1. pc[q] \in Nat /\ pc'[q] \in Nat /\ i \in Nat
        BY <1>1 DEF Shape
      <4>2. pc'[q] # pc[q]
        BY <2>2
      <4>3. q = p /\ Advance(p) /\ pc'[p] = pc[p] + 1
        BY <4>2, PlaceKeeps
      <4> QED
        BY <2>2, <4>1, <4>2, <4>3
    <3>2. CASE Step(p).op = "collect"
      BY <3>1, <3>2, LoopEnds
    <3>3. CASE Step(p).op # "collect"
      <4>1. Script(q)[i]' = Step(p)
        BY <3>1, ScriptStable DEF Step
      <4> QED
        BY <3>3, <4>1 DEF Collected
    <3> QED
      BY <3>2, <3>3
  <2> QED
    BY <2>1, <2>2
<1>4. EveryPeerCollected'
  BY <1>3 DEF EveryPeerCollected, Collected, OneSender
<1> QED
  BY <1>1, <1>2, <1>4

\* SendMessage: the message goes to others, and the leader's is the leader's.
LEMMA CollectedSends ==
    ASSUME Shape, Senders, EveryPeerCollected, NEW p \in Party, SendMessage(p)
    PROVE  Shape' /\ Senders' /\ EveryPeerCollected'
<1> DEFINE new == [id |-> Step(p).id, from |-> p, to |-> Step(p).to, seq |-> seq[p] + 1,
                   run |-> run[p], on |-> Heads(p, Step(p).of) \cup {Self(p)}]
<1>1. Running(p) /\ Step(p).op = "send" /\ Advance(p)
      /\ UNCHANGED <<kind, lead, run, seen, view, barrier>>
      /\ relay' = relay \cup {new} /\ seq' = [seq EXCEPT ![p] = seq[p] + 1]
  BY DEF SendMessage
<1>2. Step(p) \in GoodStep(p)
  BY <1>1, AtStep
<1>3. /\ Step(p).id \in Ids /\ Step(p).to \in SUBSET OtherParties(p)
      /\ OneSender(Step(p).id) => p = lead
  BY <1>1, <1>2, StepFields
<1>4. Heads(p, Step(p).of) \cup {Self(p)} \in SUBSET (Party \X Nat)
  <2>1. Self(p) \in Party \X Nat
    BY DEF Shape, Self
  <2>2. \A m \in view[p] : <<m.from, m.run>> \in Party \X Nat
    BY DEF Shape, Item
  <2> QED
    BY <2>1, <2>2 DEF Heads, Read
<1>5. new \in Message
  <2>1. seq[p] + 1 \in Nat /\ run[p] \in Nat
    BY DEF Shape
  <2>2. Step(p).to \in SUBSET Party
    BY <1>3 DEF OtherParties
  <2> QED
    BY <1>3, <1>4, <2>1, <2>2 DEF Message
<1>6. new.id = Step(p).id /\ new.from = p /\ new.to = Step(p).to
  OBVIOUS
<1> HIDE DEF new
<1>7. Shape'
  <2>1. seq' \in [Party -> Nat] /\ relay' \subseteq Message /\ why' = why
    BY <1>1, <1>5 DEF Shape, Advance
  <2>2. pc' \in [Party -> Nat \ {0}] /\ \A q \in Party : pc'[q] <= Len(Script(q)') + 1
    BY <1>1, PlaceKeeps
  <2> QED
    BY <1>1, <2>1, <2>2 DEF Shape
<1>8. Senders'
  BY <1>1, <1>3, <1>6 DEF Senders, OneSender
<1>9. ASSUME NEW q \in Party, NEW i \in 1 .. pc'[q] - 1
      PROVE  Collected(q, i)'
  <2>1. CASE i \in 1 .. pc[q] - 1
    <3>1. Collected(q, i)
      BY <2>1, CollectedAll
    <3> QED
      BY <1>1, <1>8, <3>1, CollectedKeeps
  <2>2. CASE i \notin 1 .. pc[q] - 1
    <3>1. q = p /\ i = pc[p]
      <4>1. pc[q] \in Nat /\ pc'[q] \in Nat /\ i \in Nat
        BY <1>7 DEF Shape
      <4>2. pc'[q] # pc[q]
        BY <2>2
      <4>3. q = p /\ pc'[p] = pc[p] + 1
        BY <1>1, <4>2, PlaceKeeps
      <4> QED
        BY <2>2, <4>1, <4>3
    <3>2. Script(q)[i]' = Step(p)
      BY <1>1, <3>1, ScriptStable DEF Step
    <3> QED
      BY <1>1, <3>2 DEF Collected
  <2> QED
    BY <2>1, <2>2
<1>10. EveryPeerCollected'
  BY <1>9 DEF EveryPeerCollected, Collected, OneSender
<1> QED
  BY <1>7, <1>8, <1>10

\* Restart: the program has collected nothing, the others lose nothing.
LEMMA CollectedRestarts ==
    ASSUME Shape, Senders, EveryPeerCollected, NEW p \in Party, Restart(p)
    PROVE  Shape' /\ Senders' /\ EveryPeerCollected'
<1>1. /\ UNCHANGED <<kind, lead, relay, barrier>> /\ run' = [run EXCEPT ![p] = run[p] + 1]
      /\ pc' = [pc EXCEPT ![p] = 1] /\ why' = [why EXCEPT ![p] = "none"]
      /\ seq' = [seq EXCEPT ![p] = 0] /\ seen' = [seen EXCEPT ![p] = {}]
      /\ view' = [view EXCEPT ![p] = {}]
  BY DEF Restart
<1>2. pc'[p] = 1 /\ view'[p] = {} /\ \A q \in Party \ {p} : pc'[q] = pc[q] /\ view'[q] = view[q]
  BY <1>1 DEF Shape
<1>3. Shape'
  <2>1. run' \in [Party -> Nat] /\ pc' \in [Party -> Nat \ {0}] /\ seq' \in [Party -> Nat]
    BY <1>1 DEF Shape
  <2>3. why' \in [Party -> {"none", "replay", "check", "stop"}]
    BY <1>1 DEF Shape
  <2>4. seen' \in [Party -> SUBSET (Party \X Nat)] /\ view' \in [Party -> SUBSET Item]
    BY <1>1 DEF Shape
  <2>2. ASSUME NEW q \in Party PROVE pc'[q] <= Len(Script(q)') + 1
    <3>1. Script(q)' = Script(q) /\ Len(Script(q)) \in Nat
      BY <1>1, ScriptStable, AtStep
    <3>2. pc[q] <= Len(Script(q)) + 1
      BY DEF Shape
    <3> QED
      BY <1>2, <3>1, <3>2
  <2> QED
    BY <1>1, <2>1, <2>2, <2>3, <2>4 DEF Shape
<1>4. Senders'
  BY <1>1, <1>2 DEF Senders, OneSender
<1>5. ASSUME NEW q \in Party, NEW i \in 1 .. pc'[q] - 1
      PROVE  Collected(q, i)'
  <2>1. q # p
    BY <1>2
  <2>2. Collected(q, i)
    BY <1>2, <2>1, CollectedAll
  <2> QED
    BY <1>1, <1>2, <1>4, <2>1, <2>2, CollectedKeeps
<1>6. EveryPeerCollected'
  BY <1>5 DEF EveryPeerCollected, Collected, OneSender
<1> QED
  BY <1>3, <1>4, <1>6

LEMMA CollectedNext ==
    ASSUME Shape, Senders, EveryPeerCollected, [Next]_vars
    PROVE  Shape' /\ Senders' /\ EveryPeerCollected'
<1> DEFINE Goal == Shape' /\ Senders' /\ EveryPeerCollected'
<1>1. ASSUME NEW p \in Party, SendMessage(p) PROVE Goal
  BY <1>1, CollectedSends
<1>2. ASSUME NEW p \in Party, PostBarrier(p) PROVE Goal
  <2>1. Running(p) /\ UNCHANGED pc /\ UNCHANGED <<kind, lead, why, run, seq, seen, view, relay>>
        /\ barrier' = barrier \cup {<<Step(p).id, p>>}
    BY <1>2 DEF PostBarrier
  <2>2. Step(p).id \in Ids
    BY <2>1, AtStep, StepFields
  <2>3. barrier' \subseteq Ids \X Party /\ why' \in [Party -> {"none", "replay", "check", "stop"}]
    BY <2>1, <2>2 DEF Shape
  <2>4. Advance(p) => Step(p).op # "collect"
    BY <1>2 DEF PostBarrier
  <2> HIDE DEF Goal
  <2> QED
    BY <2>1, <2>3, <2>4, CollectedQuiet DEF Goal
<1>3. ASSUME NEW p \in Party, GetBarrier(p) PROVE Goal
  <2>1. Running(p) /\ Advance(p) /\ UNCHANGED <<kind, lead, run, seq, seen, view, relay>>
        /\ UNCHANGED barrier /\ Step(p).op # "collect"
    BY <1>3 DEF GetBarrier
  <2>2. barrier' \subseteq Ids \X Party /\ why' \in [Party -> {"none", "replay", "check", "stop"}]
    BY <2>1 DEF Shape, Advance
  <2> QED
    BY <2>1, <2>2, CollectedQuiet
<1>4. ASSUME NEW p \in Party, NEW error \in {"replay", "check", "stop"}, Running(p),
             Return(p, error), UNCHANGED <<kind, lead, run, seq, seen, view, relay, barrier>>
      PROVE  Goal
  <2>1. barrier' \subseteq Ids \X Party /\ why' \in [Party -> {"none", "replay", "check", "stop"}]
        /\ UNCHANGED pc
    BY <1>4 DEF Shape, Return
  <2>2. Advance(p) => Step(p).op # "collect"
    <3>1. pc[p] \in Nat /\ pc \in [Party -> Nat \ {0}]
      BY DEF Shape
    <3> QED
      BY <2>1, <3>1 DEF Advance
  <2> QED
    BY <1>4, <2>1, <2>2, CollectedQuiet
<1>5. ASSUME NEW p \in Party, Collect(p) PROVE Goal
  <2>1. Running(p) /\ Listed(p) # {} /\ UNCHANGED <<kind, lead, run, seq, relay, barrier>>
    BY <1>5 DEF Collect
  <2>2. CASE Replayed(p, Listed(p))
    <3>1. Return(p, "replay") /\ UNCHANGED <<seen, view>>
      BY <1>5, <2>2 DEF Collect
    <3> QED
      BY <1>4, <2>1, <3>1
  <2>3. CASE ~Replayed(p, Listed(p))
    <3>1. Accept(p, Listed(p)) /\ IF Enough(p, Listed(p)) THEN Advance(p) ELSE UNCHANGED <<pc, why>>
      BY <1>5, <2>3 DEF Collect
    <3>2. UNCHANGED why /\ (UNCHANGED pc \/ (Advance(p) /\ Enough(p, Listed(p))))
      BY <3>1 DEF Advance
    <3> QED
      BY <2>1, <3>1, <3>2, CollectedReads
  <2> QED
    BY <2>2, <2>3
<1>6. ASSUME NEW p \in Party, TakeFirst(p) PROVE Goal
  <2>1. Running(p) /\ Step(p).op # "collect" /\ UNCHANGED <<kind, lead, run, seq, relay, barrier>>
    BY <1>6 DEF TakeFirst
  <2>2. PICK m \in Listed(p) : IF Replayed(p, {m})
            THEN Return(p, "replay") /\ UNCHANGED <<seen, view>>
            ELSE Accept(p, {m}) /\ Advance(p)
    BY <1>6 DEF TakeFirst
  <2>3. CASE Replayed(p, {m})
    BY <1>4, <2>1, <2>2, <2>3
  <2>4. CASE ~Replayed(p, {m})
    <3>1. Accept(p, {m}) /\ Advance(p) /\ {m} \subseteq Listed(p)
      BY <2>2, <2>4
    <3>2. UNCHANGED why
      BY <3>1 DEF Advance
    <3> QED
      BY <2>1, <3>1, <3>2, CollectedReads
  <2> QED
    BY <2>3, <2>4
<1>7. ASSUME NEW p \in Party, Check(p) PROVE Goal
  <2>1. Running(p) /\ Step(p).op # "collect"
        /\ UNCHANGED <<kind, lead, run, seq, seen, view, relay>> /\ UNCHANGED barrier
        /\ (Advance(p) \/ Return(p, "check"))
    BY <1>7 DEF Check
  <2>2. CASE Advance(p)
    <3>1. barrier' \subseteq Ids \X Party /\ why' \in [Party -> {"none", "replay", "check", "stop"}]
      BY <2>1, <2>2 DEF Shape, Advance
    <3> QED
      BY <2>1, <2>2, <3>1, CollectedQuiet
  <2>3. CASE Return(p, "check")
    BY <1>4, <2>1, <2>3
  <2> QED
    BY <2>1, <2>2, <2>3
<1>8. ASSUME NEW p \in Party, Stop(p) PROVE Goal
  <2>1. Running(p) /\ Return(p, "stop")
        /\ UNCHANGED <<kind, lead, run, seq, seen, view, relay, barrier>>
    BY <1>8 DEF Stop
  <2> QED
    BY <1>4, <2>1
<1>9. ASSUME NEW p \in Party, Restart(p) PROVE Goal
  BY <1>9, CollectedRestarts
<1>10. ASSUME UNCHANGED vars PROVE Goal
  <2>1. UNCHANGED <<kind, lead, pc, why, run, seq, seen, view, relay, barrier>>
    BY <1>10 DEF vars
  <2>2. \A p : Script(p)' = Script(p)
    BY <2>1, ScriptStable
  <2>3. Shape'
    BY <2>1, <2>2 DEF Shape
  <2>4. Senders'
    BY <2>1 DEF Senders, OneSender
  <2>5. EveryPeerCollected'
    BY <2>1, <2>2 DEF EveryPeerCollected, Read
  <2> QED
    BY <2>3, <2>4, <2>5
<1> HIDE DEF Goal
<1>11. ASSUME Next PROVE Goal
  <2>1. PICK p \in Party :
          \/ SendMessage(p) \/ PostBarrier(p) \/ GetBarrier(p)
          \/ Collect(p) \/ TakeFirst(p) \/ Check(p)
          \/ Stop(p) \/ Restart(p)
    BY <1>11 DEF Next
  <2> QED
    BY <2>1, <1>1, <1>2, <1>3, <1>5, <1>6, <1>7, <1>8, <1>9
<1> QED
  BY <1>10, <1>11 DEF Goal

\* A collection that ended, ended with a message of every other party, or with
\* the leader's where the leader alone sends: for any number of parties, of
\* inputs, and of stops and restarts.
THEOREM EveryPeerCollectedAlways == Spec => []EveryPeerCollected
<1>1. Init => Shape /\ Senders /\ EveryPeerCollected
  BY CollectedInit
<1>2. Shape /\ Senders /\ EveryPeerCollected /\ [Next]_vars
        => (Shape /\ Senders /\ EveryPeerCollected)'
  BY CollectedNext
<1> QED
  BY <1>1, <1>2, PTL DEF Spec
-----------------------------------------------------------------------------
(***************************************************************************)
(* Where the steps of a key import stand.                                  *)
(***************************************************************************)
R1 == Id("round1")
R2 == Id("round2")

Sends(s, i) == s[i].op = "send" /\ s[i].id = R2
Reads(s, i, id) == s[i].op \in {"collect", "wait"} /\ s[i].id = id

\* In the script s of party p, the shares of round 2 are collected at c and checked
\* at d.  All shares are sent before the barrier ahead of c, each party's in a message
\* of its own, and nothing of either round is read later.
Layout(p, s, c, d) ==
    /\ c \in 2 .. Len(s) /\ d \in c + 1 .. Len(s)
    /\ s[c - 1].op = "barrier" /\ s[c - 1].id = R2
    /\ s[c].op = "collect" /\ s[c].id = R2 /\ s[d].op = "part3"
    /\ \A i \in 1 .. Len(s) :
         /\ Sends(s, i) => i < c - 1
         /\ s[i].op = "barrier" /\ s[i].id = R2 => i = c - 1
         /\ Reads(s, i, R2) => i = c
         /\ Reads(s, i, R1) => i < c
    /\ \A q \in OtherParties(p) : \E i \in 1 .. Len(s) : Sends(s, i) /\ q \in s[i].to
    /\ \A q \in Party : \A i, j \in 1 .. Len(s) :
         Sends(s, i) /\ Sends(s, j) /\ q \in s[i].to /\ q \in s[j].to => i = j

\* The steps before the shares are sent, and those after they were collected.
Early(p) == {s \in GoodStep(p) : s.id # R2}
After(p) == {s \in GoodStep(p) : s.op = "part3" \/ s.id \notin {R1, R2}}

\* Every other party has a place in the order of their names.
LEMMA RankType ==
    ASSUME NEW p \in Party, NEW q \in OtherParties(p)
    PROVE  Rank(p, q) \in 1 .. Others
<1> DEFINE S == {r \in OtherParties(p) : r <= q}
<1>1. IsFiniteSet(OtherParties(p)) /\ Cardinality(OtherParties(p)) = Others /\ Others \in Nat
  BY FiniteParty
<1>2. IsFiniteSet(S) /\ Cardinality(S) <= Others
  BY <1>1, FS_Subset
<1>3. q \in S
  BY FiniteParty DEF OtherParties
<1>4. Cardinality(S) \in Nat /\ Cardinality(S) # 0
  BY <1>2, <1>3, FS_CardinalityType, FS_EmptySet
<1> QED
  BY <1>1, <1>2, <1>4 DEF Rank

\* The shares, one message for each of the other parties.
LEMMA PerRecipientSteps ==
    ASSUME NEW p \in Party
    PROVE  LET s == sendPerRecipient(p, R2, R1)
           IN  /\ s \in Seq(GoodStep(p)) /\ Len(s) = Others
               /\ \A i \in 1..Others :
                    /\ s[i].op = "send" /\ s[i].id = R2
                    /\ s[i].to = {q \in OtherParties(p) : Rank(p, q) = i}
<1>1. R1 \in Ids /\ R2 \in Ids /\ ~OneSender(R2)
  BY IdType DEF Names, R1, R2
<1>2. \A i \in 1..Others : sendPerRecipient(p, R2, R1)[i] =
         Send(R2, {q \in OtherParties(p) : Rank(p, q) = i}, R1)
  BY DEF sendPerRecipient
<1>3. \A to : Send(R2, to, R1).op = "send" /\ Send(R2, to, R1).id = R2 /\ Send(R2, to, R1).to = to
  BY DEF Send
<1>4. sendPerRecipient(p, R2, R1) \in Seq(GoodStep(p)) /\ Len(sendPerRecipient(p, R2, R1)) = Others
  BY <1>1, PerRecipientGood
<1> QED
  BY <1>2, <1>3, <1>4

\* The concatenation, as an operator that the provers do not look into.
Cat(s, t) == s \o t

LEMMA CatProperties ==
    ASSUME NEW G, NEW a \in Seq(G), NEW b \in Seq(G), NEW c \in Seq(G)
    PROVE  Cat(a, b) \in Seq(G) /\ Cat(Cat(a, b), c) = Cat(a, Cat(b, c))
BY ConcatAssociative, ConcatProperties DEF Cat

\* t is X and then S, element by element.
Joined(G, X, S, t) ==
    /\ t \in Seq(G) /\ Len(t) = Len(X) + Len(S)
    /\ \A i \in 1 .. Len(X) : t[i] = X[i]
    /\ \A i \in 1 .. Len(S) : t[Len(X) + i] = S[i]

LEMMA TwoParts ==
    ASSUME NEW G, NEW X \in Seq(G), NEW S \in Seq(G)
    PROVE  Joined(G, X, S, Cat(X, S))
<1> DEFINE t == X \o S
<1>1. /\ t \in Seq(G) /\ Len(t) = Len(X) + Len(S)
      /\ \A i \in 1 .. Len(X) + Len(S) : t[i] = IF i <= Len(X) THEN X[i] ELSE S[i - Len(X)]
  BY ConcatProperties
<1>2. Len(X) \in Nat /\ Len(S) \in Nat
  OBVIOUS
<1> HIDE DEF t
<1>3. ASSUME NEW i \in 1 .. Len(X) PROVE t[i] = X[i]
  BY <1>1, <1>2
<1>4. ASSUME NEW i \in 1 .. Len(S) PROVE t[Len(X) + i] = S[i]
  <2>1. Len(X) + i \in 1 .. Len(X) + Len(S) /\ ~ (Len(X) + i <= Len(X)) /\ (Len(X) + i) - Len(X) = i
    BY <1>2
  <2> QED
    BY <1>1, <2>1
<1>5. Joined(G, X, S, t)
  BY <1>1, <1>3, <1>4 DEF Joined
<1> QED
  BY <1>5 DEF t, Cat

\* The steps of a script that is put together from four parts.
Parts(X, S, Y, Z, s, x, o, z, c) ==
    /\ x = Len(X) /\ o = Len(S) /\ z = Len(Z) /\ c = x + o + 2
    /\ x \in Nat /\ o \in Nat /\ z \in Nat /\ c \in Nat
    /\ Len(s) = c + z
    /\ \A i \in 1 .. x : s[i] = X[i]
    /\ \A i \in 1 .. o : s[x + i] = S[i]
    /\ s[c - 1] = Y[1] /\ s[c] = Y[2]
    /\ \A i \in 1 .. z : s[c + i] = Z[i]

LEMMA FourParts ==
    ASSUME NEW G, NEW X \in Seq(G), NEW S \in Seq(G), NEW Y \in Seq(G), NEW Z \in Seq(G),
           NEW t, NEW u, NEW s, Joined(G, X, S, t), Joined(G, t, Y, u), Joined(G, u, Z, s),
           Len(Y) = 2
    PROVE  \E x, o, z, c : Parts(X, S, Y, Z, s, x, o, z, c)
<1>0. PICK x, o, z, c : x = Len(X) /\ o = Len(S) /\ z = Len(Z) /\ c = x + o + 2
  OBVIOUS
<1>1. x \in Nat /\ o \in Nat /\ z \in Nat /\ c \in Nat
  BY <1>0
<1>3. /\ Len(t) = x + o
      /\ \A i \in 1 .. x : t[i] = X[i]
      /\ \A i \in 1 .. o : t[x + i] = S[i]
  BY <1>0 DEF Joined
<1>4. /\ Len(u) = c
      /\ \A i \in 1 .. x + o : u[i] = t[i]
      /\ u[x + o + 1] = Y[1] /\ u[x + o + 2] = Y[2]
  <2>1. Len(u) = x + o + 2 /\ 1 \in 1 .. Len(Y) /\ 2 \in 1 .. Len(Y)
    BY <1>3 DEF Joined
  <2>2. \A i \in 1 .. x + o : u[i] = t[i]
    BY <1>3 DEF Joined
  <2>3. u[x + o + 1] = Y[1] /\ u[x + o + 2] = Y[2]
    BY <1>3, <2>1 DEF Joined
  <2> QED
    BY <1>0, <2>1, <2>2, <2>3
<1>5. /\ Len(s) = c + z
      /\ \A i \in 1 .. c : s[i] = u[i]
      /\ \A i \in 1 .. z : s[c + i] = Z[i]
  BY <1>0, <1>4 DEF Joined
<1>7. ASSUME NEW i \in 1 .. x PROVE s[i] = X[i]
  <2>1. i \in 1 .. x + o /\ i \in 1 .. c
    BY <1>0, <1>1
  <2> QED
    BY <1>3, <1>4, <1>5, <2>1
<1>8. ASSUME NEW i \in 1 .. o PROVE s[x + i] = S[i]
  <2>1. x + i \in 1 .. x + o /\ x + i \in 1 .. c
    BY <1>0, <1>1
  <2> QED
    BY <1>3, <1>4, <1>5, <2>1
<1>9. s[c - 1] = Y[1] /\ s[c] = Y[2]
  <2>1. x + o + 1 = c - 1 /\ x + o + 2 = c /\ c - 1 \in 1 .. c /\ c \in 1 .. c
    BY <1>0, <1>1
  <2> QED
    BY <1>4, <1>5, <2>1
<1>10. Parts(X, S, Y, Z, s, x, o, z, c)
  BY <1>0, <1>1, <1>5, <1>7, <1>8, <1>9 DEF Parts
<1> QED
  BY <1>10

LEMMA Shift ==
    ASSUME NEW x \in Nat, NEW o \in Nat, NEW k \in x + 1 .. x + o
    PROVE  \E j \in 1 .. o : k = x + j
<1>1. k - x \in 1 .. o /\ k = x + (k - x)
  OBVIOUS
<1> QED
  BY <1>1

\* Where the parts of a script stand: x steps, the shares, a barrier and the
\* collection at c, and z steps more, of which the one at e is the check.
Placed(p, s, x, o, z, c, e) ==
    /\ x \in Nat /\ o \in Nat /\ z \in Nat /\ c \in Nat /\ e \in 1 .. z
    /\ o = Others /\ c = x + o + 2 /\ Len(s) = c + z
    /\ \A i \in 1 .. x : s[i].id # R2
    /\ \A i \in 1 .. o : s[x + i].op = "send" /\ s[x + i].id = R2
                          /\ s[x + i].to = {q \in OtherParties(p) : Rank(p, q) = i}
    /\ s[c - 1].op = "barrier" /\ s[c - 1].id = R2 /\ s[c].op = "collect" /\ s[c].id = R2
    /\ \A i \in 1 .. z : s[c + i].op = "part3" \/ s[c + i].id \notin {R1, R2}
    /\ s[c + e].op = "part3"

LEMMA LayoutSteps ==
    ASSUME NEW p \in Party, NEW s, NEW x, NEW o, NEW z, NEW c, NEW e, Placed(p, s, x, o, z, c, e)
    PROVE  Layout(p, s, c, c + e)
<1>0. /\ x \in Nat /\ o \in Nat /\ z \in Nat /\ c \in Nat /\ e \in 1 .. z
      /\ o = Others /\ c = x + o + 2 /\ Len(s) = c + z
      /\ \A i \in 1 .. x : s[i].id # R2
      /\ \A i \in 1 .. o : s[x + i].op = "send" /\ s[x + i].id = R2
                            /\ s[x + i].to = {q \in OtherParties(p) : Rank(p, q) = i}
      /\ s[c - 1].op = "barrier" /\ s[c - 1].id = R2 /\ s[c].op = "collect" /\ s[c].id = R2
      /\ \A i \in 1 .. z : s[c + i].op = "part3" \/ s[c + i].id \notin {R1, R2}
      /\ s[c + e].op = "part3"
  BY DEF Placed
<1>n. /\ x \in Nat /\ o \in Nat /\ z \in Nat /\ c \in Nat /\ e \in 1 .. z
      /\ c = x + o + 2 /\ Len(s) = c + z
  BY <1>0
<1>1. R1 # R2
  BY <1>0 DEF R1, R2, Id
<1>2. ASSUME NEW i \in 1 .. Len(s)
      PROVE  /\ Sends(s, i) => i \in x + 1 .. x + o
             /\ s[i].op = "barrier" /\ s[i].id = R2 => i = c - 1
             /\ Reads(s, i, R2) => i = c
             /\ Reads(s, i, R1) => i < c
  <2>1. CASE i \in 1 .. x
    BY <1>0, <2>1 DEF Sends, Reads
  <2>2. CASE i \in x + 1 .. x + o
    <3>1. i - x \in 1 .. o /\ x + (i - x) = i
      BY <1>0, <2>2
    <3>2. s[i].op = "send"
      BY <1>0, <3>1
    <3> QED
      BY <1>0, <2>2, <3>2 DEF Reads
  <2>3. CASE i = c - 1
    BY <1>0, <2>3 DEF Sends, Reads
  <2>4. CASE i = c
    BY <1>0, <1>1, <2>4 DEF Sends, Reads
  <2>5. CASE i \in c + 1 .. c + z
    <3>1. i - c \in 1 .. z /\ c + (i - c) = i
      BY <1>0, <2>5
    <3>2. s[i].op = "part3" \/ s[i].id \notin {R1, R2}
      BY <1>0, <3>1
    <3> QED
      BY <1>0, <3>2 DEF Sends, Reads
  <2>6. \/ i \in 1 .. x \/ i \in x + 1 .. x + o \/ i = c - 1 \/ i = c \/ i \in c + 1 .. c + z
    BY <1>0
  <2> QED
    BY <2>1, <2>2, <2>3, <2>4, <2>5, <2>6
<1>3. ASSUME NEW q \in OtherParties(p)
      PROVE  \E i \in 1 .. Len(s) : Sends(s, i) /\ q \in s[i].to
  <2>1. Rank(p, q) \in 1 .. o
    BY <1>0, RankType
  <2>2. x + Rank(p, q) \in 1 .. Len(s)
    BY <1>n, <2>1
  <2>3. Sends(s, x + Rank(p, q)) /\ q \in s[x + Rank(p, q)].to
    BY <1>0, <2>1 DEF Sends
  <2> QED
    BY <2>2, <2>3
<1>4. ASSUME NEW q \in Party, NEW k \in 1 .. Len(s), Sends(s, k), q \in s[k].to
      PROVE  Rank(p, q) = k - x
  <2>1. k \in x + 1 .. x + o
    BY <1>2, <1>4, Zenon
  <2>2. PICK j \in 1 .. o : k = x + j
    BY <1>n, <2>1, Shift
  <2>3. q \in s[x + j].to /\ s[x + j].to = {r \in OtherParties(p) : Rank(p, r) = j}
    BY <1>0, <1>4, <2>2
  <2>4. Rank(p, q) = j
    BY <2>3
  <2> QED
    BY <1>n, <2>2, <2>4
<1>5. ASSUME NEW q \in Party, NEW i \in 1 .. Len(s), NEW j \in 1 .. Len(s),
             Sends(s, i), Sends(s, j), q \in s[i].to, q \in s[j].to
      PROVE  i = j
  <2>1. Rank(p, q) = i - x /\ Rank(p, q) = j - x
    BY <1>4, <1>5
  <2> QED
    BY <1>n, <2>1
<1>6. /\ c \in 2 .. Len(s) /\ c + e \in c + 1 .. Len(s)
      /\ \A i \in x + 1 .. x + o : i < c - 1
  BY <1>n
<1>7. \A i \in 1 .. Len(s) : /\ Sends(s, i) => i < c - 1
                             /\ s[i].op = "barrier" /\ s[i].id = R2 => i = c - 1
                             /\ Reads(s, i, R2) => i = c
                             /\ Reads(s, i, R1) => i < c
  BY <1>0, <1>2, <1>6
<1>8. \A q \in Party : \A i, j \in 1 .. Len(s) :
         Sends(s, i) /\ Sends(s, j) /\ q \in s[i].to /\ q \in s[j].to => i = j
  BY <1>0, <1>5
<1> QED
  BY <1>0, <1>3, <1>6, <1>7, <1>8 DEF Layout

Shares(p) == sendPerRecipient(p, R2, R1)
Closing == <<WaitForBarrier(R2), CollectMessages(R2, Others)>>

\* A script that is put together like this has the layout.
LEMMA LayoutOf ==
    ASSUME NEW p \in Party, NEW X \in Seq(Early(p)), NEW Z \in Seq(After(p)),
           \E e \in 1 .. Len(Z) : Z[e].op = "part3"
    PROVE  \E c, d \in Nat : Layout(p, Cat(Cat(Cat(X, Shares(p)), Closing), Z), c, d)
<1> DEFINE G == GoodStep(p)
           S == Shares(p)
           Y == Closing
<1>1. X \in Seq(G) /\ Z \in Seq(G)
  <2>1. Early(p) \subseteq G /\ After(p) \subseteq G
    BY DEF Early, After
  <2> QED
    BY <2>1
<1>2. S \in Seq(G) /\ Len(S) = Others
  BY PerRecipientSteps DEF Shares
<1>3. Y \in Seq(G) /\ Len(Y) = 2
  <2>1. R2 \in Ids /\ ~OneSender(R2)
    BY IdType DEF Names, R2
  <2>2. WaitForBarrier(R2) \in G /\ CollectMessages(R2, Others) \in G
    BY <2>1, OneStep
  <2> QED
    BY <2>2, ShortLists DEF Closing
<1>4. Y[1].op = "barrier" /\ Y[1].id = R2 /\ Y[2].op = "collect" /\ Y[2].id = R2
  BY DEF WaitForBarrier, CollectMessages, Closing
<1>5. \A i \in 1 .. Len(X) : X[i].id # R2
  BY ElementOfSeq DEF Early
<1>6. \A i \in 1 .. Len(Z) : Z[i].op = "part3" \/ Z[i].id \notin {R1, R2}
  BY ElementOfSeq DEF After
<1>7. \A i \in 1 .. Others : S[i].op = "send" /\ S[i].id = R2
                             /\ S[i].to = {q \in OtherParties(p) : Rank(p, q) = i}
  BY PerRecipientSteps DEF Shares
<1>8. PICK e \in 1 .. Len(Z) : Z[e].op = "part3"
  OBVIOUS
<1> HIDE DEF G, S, Y
<1>9. PICK t, u, s : /\ s = Cat(Cat(Cat(X, S), Y), Z)
                     /\ Joined(G, X, S, t) /\ Joined(G, t, Y, u) /\ Joined(G, u, Z, s)
  <2>1. Cat(X, S) \in Seq(G) /\ Joined(G, X, S, Cat(X, S))
    BY <1>1, <1>2, CatProperties, TwoParts
  <2>2. Cat(Cat(X, S), Y) \in Seq(G) /\ Joined(G, Cat(X, S), Y, Cat(Cat(X, S), Y))
    BY <1>3, <2>1, CatProperties, TwoParts
  <2>3. Joined(G, Cat(Cat(X, S), Y), Z, Cat(Cat(Cat(X, S), Y), Z))
    BY <1>1, <2>2, TwoParts
  <2> QED
    BY <2>1, <2>2, <2>3
<1>16. PICK x, o, z, c : Parts(X, S, Y, Z, s, x, o, z, c)
  BY <1>1, <1>2, <1>3, <1>9, FourParts
<1>10. /\ x = Len(X) /\ o = Len(S) /\ z = Len(Z) /\ c = x + o + 2
       /\ x \in Nat /\ o \in Nat /\ z \in Nat /\ c \in Nat
       /\ Len(s) = c + z
       /\ \A i \in 1 .. x : s[i] = X[i]
       /\ \A i \in 1 .. o : s[x + i] = S[i]
       /\ s[c - 1] = Y[1] /\ s[c] = Y[2]
       /\ \A i \in 1 .. z : s[c + i] = Z[i]
  BY <1>16 DEF Parts
<1>11. e \in 1 .. z /\ s[c + e].op = "part3" /\ e \in Nat
  <2>1. e \in 1 .. z /\ e \in Nat
    BY <1>10
  <2> QED
    BY <1>8, <1>10, <2>1, Zenon
<1>12. /\ \A i \in 1 .. x : s[i].id # R2
       /\ \A i \in 1 .. o : s[x + i].op = "send" /\ s[x + i].id = R2
                             /\ s[x + i].to = {q \in OtherParties(p) : Rank(p, q) = i}
       /\ s[c - 1].op = "barrier" /\ s[c - 1].id = R2 /\ s[c].op = "collect" /\ s[c].id = R2
       /\ \A i \in 1 .. z : s[c + i].op = "part3" \/ s[c + i].id \notin {R1, R2}
  <2>1. \A i \in 1 .. x : s[i].id # R2
    BY <1>5, <1>10, Zenon
  <2>2. o = Others
    BY <1>2, <1>10, Zenon
  <2>3. ASSUME NEW i \in 1 .. o
        PROVE  s[x + i].op = "send" /\ s[x + i].id = R2
               /\ s[x + i].to = {q \in OtherParties(p) : Rank(p, q) = i}
    <3>1. s[x + i] = S[i] /\ i \in 1 .. Others
      BY <1>10, <2>2, Zenon
    <3> QED
      BY <1>7, <3>1, Zenon
  <2>4. s[c - 1].op = "barrier" /\ s[c - 1].id = R2 /\ s[c].op = "collect" /\ s[c].id = R2
    BY <1>4, <1>10, Zenon
  <2>5. \A i \in 1 .. z : s[c + i].op = "part3" \/ s[c + i].id \notin {R1, R2}
    <3> SUFFICES ASSUME NEW i \in 1 .. z
                 PROVE  s[c + i].op = "part3" \/ s[c + i].id \notin {R1, R2}
      OBVIOUS
    <3>1. s[c + i] = Z[i] /\ i \in 1 .. Len(Z)
      BY <1>10, Zenon
    <3>2. Z[i].op = "part3" \/ Z[i].id \notin {R1, R2}
      BY <1>6, <3>1, Zenon
    <3> QED
      BY <3>1, <3>2, Zenon
  <2> QED
    BY <2>1, <2>3, <2>4, <2>5, Zenon
<1>13. Placed(p, s, x, o, z, c, e)
  BY <1>2, <1>10, <1>11, <1>12, Zenon DEF Placed
<1>14. Layout(p, s, c, c + e)
  BY <1>13, LayoutSteps
<1>15. c \in Nat /\ c + e \in Nat
  BY <1>10, <1>11
<1> QED
  BY <1>9, <1>14, <1>15 DEF S, Y

\* The scripts of the two key imports.
LEMMA ImportLayout ==
    ASSUME NEW p \in Party, lead \in Party, kind \in {"froztImport", "fromtImport"}
    PROVE  \E c, d \in Nat : Layout(p, Script(p), c, d)
<1> DEFINE G == GoodStep(p)
           S == Shares(p)
           Y == Closing
           B == Broadcasts(p, R1, R1)
           V == <<Verify("part3", R2)>>
<1>1. \A name \in Names : Id(name) \in Ids
  BY IdType
<1>2. \A name \in Names : (name # "round2" => Id(name) # R2) /\ (name # "round1" => Id(name) # R1)
  BY DEF Id, R1, R2
<1>3. R1 \in Ids /\ R2 \in Ids /\ ~OneSender(R1) /\ ~OneSender(R2) /\ R1 # R2
  BY IdType DEF Names, R1, R2, Id
<1>4. S \in Seq(G) /\ Y \in Seq(G)
  BY <1>3, PerRecipientGood, OneStep, ShortLists DEF Shares, Closing
<1>5. B \in Seq(Early(p))
  <2>1. /\ Send(R1, OtherParties(p), R1) \in G /\ WaitForBarrier(R1) \in G
        /\ CollectMessages(R1, Others) \in G
    BY <1>3, OneStep
  <2>2. /\ Send(R1, OtherParties(p), R1) \in Early(p) /\ WaitForBarrier(R1) \in Early(p)
        /\ CollectMessages(R1, Others) \in Early(p)
    BY <1>3, <2>1 DEF Early, Send, WaitForBarrier, CollectMessages
  <2> QED
    BY <2>2, ShortLists DEF Broadcasts
<1>6. V \in Seq(After(p)) /\ Len(V) = 1 /\ V[1].op = "part3"
  <2>1. Verify("part3", R2) \in G /\ Verify("part3", R2).op = "part3"
    BY <1>3, OneStep DEF Verify
  <2>2. Verify("part3", R2) \in After(p)
    BY <2>1 DEF After
  <2> QED
    BY <2>1, <2>2, ShortLists
<1>7. DkgRounds(p) = Cat(Cat(B, S), Y)
  BY DEF DkgRounds, R1, R2, Cat, Shares, Closing
<1>8. CASE kind = "froztImport"
  <2> DEFINE E == Exchange(p, Id("expected-vk"))
             I == ImportMetadata(p)
             Z == Cat(Cat(E, V), I)
  <2>1. \A name \in Names \ {"round1", "round2"} : \A g \in G : g.id = Id(name) => g \in After(p)
    BY <1>2 DEF After
  <2>2. ASSUME NEW name \in {"expected-vk", "metadata"}
        PROVE  Exchange(p, Id(name)) \in Seq(After(p)) /\ Len(Exchange(p, Id(name))) = 1
    <3>1. name \in Names \ {"round1", "round2"} /\ Id(name) \in Ids /\ OneSender(Id(name))
      BY IdType DEF Names
    <3>2. /\ p = lead => Send(Id(name), OtherParties(p), Id(name)) \in G
          /\ CollectMessages(Id(name), 1) \in G
      BY <3>1, OneStep
    <3>3. /\ Send(Id(name), OtherParties(p), Id(name)).id = Id(name)
          /\ CollectMessages(Id(name), 1).id = Id(name)
      BY DEF Send, CollectMessages
    <3>4. /\ p = lead => Send(Id(name), OtherParties(p), Id(name)) \in After(p)
          /\ CollectMessages(Id(name), 1) \in After(p)
      BY <2>1, <3>1, <3>2, <3>3
    <3> QED
      BY <3>4, ShortLists DEF Exchange
  <2>3. I \in Seq(After(p))
    <3> DEFINE h == Id("metadata-hash")
               m == Id("metadata")
    <3>1. h \in Ids /\ m \in Ids /\ ~OneSender(h)
      BY IdType DEF Names
    <3>2. /\ Send(h, OtherParties(p), m) \in G /\ WaitForBarrier(h) \in G
          /\ CollectMessages(h, Others) \in G /\ Verify("hashes", h) \in G
      BY <3>1, OneStep
    <3>3. /\ Send(h, OtherParties(p), m).id = h /\ WaitForBarrier(h).id = h
          /\ CollectMessages(h, Others).id = h /\ Verify("hashes", h).id = h
      BY DEF Send, WaitForBarrier, CollectMessages, Verify
    <3>4. "metadata-hash" \in Names \ {"round1", "round2"}
      BY DEF Names
    <3>5. /\ Send(h, OtherParties(p), m) \in After(p) /\ WaitForBarrier(h) \in After(p)
          /\ CollectMessages(h, Others) \in After(p) /\ Verify("hashes", h) \in After(p)
      BY <2>1, <3>2, <3>3, <3>4
    <3>6. Broadcasts(p, h, m) \in Seq(After(p)) /\ <<Verify("hashes", h)>> \in Seq(After(p))
      BY <3>5, ShortLists DEF Broadcasts
    <3>7. Exchange(p, m) \in Seq(After(p))
      BY <2>2
    <3> HIDE DEF h, m
    <3> QED
      BY <3>6, <3>7, ShortLists DEF ImportMetadata, h, m
  <2>4. E \in Seq(After(p)) /\ Len(E) = 1
    BY <2>2
  <2> HIDE DEF E, I, V, Y
  <2>5. Cat(E, V) \in Seq(After(p)) /\ Len(Cat(E, V)) = 2 /\ Cat(E, V)[2] = V[1]
    <3>1. Joined(After(p), E, V, Cat(E, V))
      BY <1>6, <2>4, TwoParts
    <3>2. 1 \in 1 .. Len(V)
      BY <1>6
    <3> QED
      BY <1>6, <2>4, <3>1, <3>2 DEF Joined
  <2>6. Z \in Seq(After(p)) /\ Len(Z) = 2 + Len(I) /\ Z[2] = Cat(E, V)[2] /\ Len(I) \in Nat
    <3>1. Joined(After(p), Cat(E, V), I, Z)
      BY <2>3, <2>5, TwoParts
    <3>2. 2 \in 1 .. Len(Cat(E, V))
      BY <2>5
    <3> HIDE DEF Z
    <3> QED
      BY <2>3, <2>5, <3>1, <3>2 DEF Joined
  <2>7. Script(p) = Cat(Cat(Cat(Cat(Cat(B, S), Y), E), V), I)
    BY <1>7, <1>8 DEF Script, FroztImport, E, I, V, R2, Cat
  <2>8. Script(p) = Cat(Cat(Cat(B, S), Y), Z)
    <3> DEFINE D == Cat(Cat(B, S), Y)
    <3>1. After(p) \subseteq G /\ Early(p) \subseteq G
      BY DEF After, Early
    <3>2. E \in Seq(G) /\ V \in Seq(G) /\ I \in Seq(G) /\ B \in Seq(G)
      BY <1>5, <1>6, <2>3, <2>4, <3>1
    <3> HIDE DEF G, S, Y, B
    <3>3. D \in Seq(G) /\ Cat(E, V) \in Seq(G)
      BY <1>4, <3>2, CatProperties
    <3> HIDE DEF D
    <3>4. Cat(Cat(D, E), V) = Cat(D, Cat(E, V)) /\ Cat(Cat(D, Cat(E, V)), I) = Cat(D, Z)
      BY <3>2, <3>3, CatProperties
    <3> QED
      BY <2>7, <3>4 DEF D
  <2>9. 2 \in 1 .. Len(Z) /\ Z[2].op = "part3"
    BY <1>6, <2>5, <2>6
  <2> HIDE DEF Z, B
  <2> QED
    BY <1>5, <2>6, <2>8, <2>9, LayoutOf DEF S, Y
<1>9. CASE kind = "fromtImport"
  <2> DEFINE A == Announce(p, Id("expected-vk"))
             W == <<WaitForBarrier(Id("vk-exchanged"))>>
             X == Cat(Cat(A, W), B)
  <2>1. \A name \in Names \ {"round2"} : \A g \in G : g.id = Id(name) => g \in Early(p)
    BY <1>2 DEF Early
  <2>2. A \in Seq(Early(p)) /\ W \in Seq(Early(p))
    <3> DEFINE k == Id("expected-vk")
               v == Id("vk-exchanged")
    <3>1. k \in Ids /\ v \in Ids
      BY IdType DEF Names
    <3>2. "expected-vk" \in Names \ {"round2"} /\ "vk-exchanged" \in Names \ {"round2"}
      BY DEF Names
    <3>3. /\ p = lead => Send(k, OtherParties(p), k) \in G
          /\ WaitForMessage(k) \in G /\ WaitForBarrier(v) \in G
      BY <3>1, OneStep
    <3>4. /\ Send(k, OtherParties(p), k).id = k /\ WaitForMessage(k).id = k
          /\ WaitForBarrier(v).id = v
      BY DEF Send, WaitForMessage, WaitForBarrier
    <3>5. /\ p = lead => Send(k, OtherParties(p), k) \in Early(p)
          /\ WaitForMessage(k) \in Early(p) /\ WaitForBarrier(v) \in Early(p)
      BY <2>1, <3>2, <3>3, <3>4
    <3> QED
      BY <3>5, ShortLists DEF Announce
  <2>3. X \in Seq(Early(p))
    <3>1. Cat(A, W) \in Seq(Early(p))
      BY <2>2, CatProperties
    <3> QED
      BY <1>5, <3>1, CatProperties
  <2> HIDE DEF A, W, V, Y
  <2>4. Script(p) = Cat(Cat(Cat(A, W), Cat(Cat(B, S), Y)), V)
    BY <1>7, <1>9 DEF Script, FromtImport, A, W, V, R2, Cat
  <2>5. Script(p) = Cat(Cat(Cat(X, S), Y), V)
    <3> DEFINE D == Cat(A, W)
    <3>1. Early(p) \subseteq G
      BY DEF Early
    <3>2. B \in Seq(G) /\ A \in Seq(G) /\ W \in Seq(G)
      BY <1>5, <2>2, <3>1
    <3> HIDE DEF G, S, Y, B
    <3>3. D \in Seq(G) /\ Cat(B, S) \in Seq(G)
      BY <1>4, <3>2, CatProperties
    <3> HIDE DEF D
    <3>4. Cat(Cat(D, Cat(B, S)), Y) = Cat(D, Cat(Cat(B, S), Y))
          /\ Cat(Cat(D, B), S) = Cat(D, Cat(B, S))
      BY <1>4, <3>2, <3>3, CatProperties
    <3> QED
      BY <2>4, <3>4 DEF D
  <2>6. 1 \in 1 .. Len(V)
    BY <1>6
  <2> HIDE DEF X, B
  <2> QED
    BY <1>6, <2>3, <2>5, <2>6, LayoutOf DEF S, Y
<1> QED
  BY <1>8, <1>9
-----------------------------------------------------------------------------
(***************************************************************************)
(* That the shares of an import agree: where the parties are, what they    *)
(* have sent with which numbers, and which runs they have heard of.        *)
(***************************************************************************)
Importing == kind \in {"froztImport", "fromtImport"}

\* The collection and the check of the shares in the script of p.
At(p, c, d) == Layout(p, Script(p), c, d)

\* The messages p has sent before step i, in one run.
SendsBefore(p, i) == Cardinality({j \in 1 .. i - 1 : Script(p)[j].op = "send"})

\* The number of a message is its place among the sends of the script, so that two
\* runs of a party give the same message the same number.
Numbers == \A p \in Party : seq[p] = SendsBefore(p, pc[p])
SentAt(m, i) ==
    /\ Script(m.from)[i].op = "send" /\ Script(m.from)[i].id = m.id
    /\ Script(m.from)[i].to = m.to /\ m.seq = SendsBefore(m.from, i) + 1
Sourced == \A m \in relay : \E i \in 1 .. Len(Script(m.from)) : SentAt(m, i)

\* What a program has sent in its present run is on the relay.
Sent(q, i) ==
    Script(q)[i].op = "send" =>
        \E m \in relay : /\ m.from = q /\ m.run = run[q]
                         /\ m.id = Script(q)[i].id /\ m.to = Script(q)[i].to
SentAll == \A q \in Party : \A i \in 1 .. pc[q] - 1 : Sent(q, i)

\* A barrier that was passed has everybody.
Full(p, i) == Script(p)[i].op = "barrier" => \A q \in Party : <<Script(p)[i].id, q>> \in barrier
Passed == \A p \in Party : \A i \in 1 .. pc[p] - 1 : Full(p, i)

\* Whoever is ready for round 2 is still there.
Waiting ==
    ~late => \A q \in Party : \A c, d \in Nat :
        At(q, c, d) /\ <<R2, q>> \in barrier => pc[q] >= c - 1

\* The shares that were collected are of the present runs of the others.
Runs(S) == {<<q, run[q]>> : q \in S}
Present(p, c) == Heads(p, R2) = IF pc[p] <= c THEN {} ELSE Runs(OtherParties(p))
SharesRead ==
    ~late /\ Importing => \A p \in Party : \A c, d \in Nat : At(p, c, d) => Present(p, c)

\* Whoever is past the check has packages of the same runs.
PackagesFit ==
    \A p \in Party : \A c, d \in Nat : At(p, c, d) /\ pc[p] > d => Heads(p, R1) = Heads(p, R2)

Agreed == Numbers /\ Sourced /\ SentAll /\ Passed /\ Waiting /\ SharesRead /\ PackagesFit

\* What one step of a running program does.
Effect(p) ==
    /\ Running(p) /\ UNCHANGED <<kind, lead, run, late>>
    /\ UNCHANGED pc \/ Advance(p)
    /\ SendMessage(p) \/ (UNCHANGED <<relay, seq>> /\ (Advance(p) => Step(p).op # "send"))
    /\ \/ UNCHANGED barrier
       \/ barrier' = barrier \cup {<<Step(p).id, p>>} /\ Step(p).op = "barrier" /\ UNCHANGED pc
    /\ Advance(p) /\ Step(p).op = "barrier" => \A q \in Party : <<Step(p).id, q>> \in barrier
    /\ \/ UNCHANGED view /\ (Advance(p) => Step(p).op # "collect")
       \/ Step(p).op = "wait" /\ \E msgs \in SUBSET Listed(p) : Accept(p, msgs)
       \/ /\ Step(p).op = "collect" /\ Accept(p, Listed(p)) /\ ~Replayed(p, Listed(p))
          /\ Enough(p, Listed(p)) => Advance(p)
    /\ Advance(p) /\ Step(p).op = "part3" => Fits(p)

LEMMA Effects ==
    ASSUME Shape, Next
    PROVE  \E p \in Party : Effect(p) \/ Restart(p)
<1>0. PICK p \in Party :
          \/ SendMessage(p) \/ PostBarrier(p) \/ GetBarrier(p)
          \/ Collect(p) \/ TakeFirst(p) \/ Check(p)
          \/ Stop(p) \/ Restart(p)
  BY DEF Next
<1>1. ASSUME UNCHANGED pc PROVE ~Advance(p)
  <2>1. pc \in [Party -> Nat \ {0}] /\ pc[p] \in Nat
    BY DEF Shape
  <2> QED
    BY <1>1, <2>1 DEF Advance
<1>2. CASE SendMessage(p)
  <2>1. /\ Running(p) /\ Step(p).op = "send" /\ Advance(p)
        /\ UNCHANGED <<kind, lead, run, late, barrier, view>>
    BY <1>2 DEF SendMessage
  <2> QED
    BY <1>2, <2>1 DEF Effect
<1>3. CASE PostBarrier(p)
  <2>1. /\ Running(p) /\ Step(p).op = "barrier" /\ barrier' = barrier \cup {<<Step(p).id, p>>}
        /\ UNCHANGED <<kind, lead, run, late, relay, seq, view, pc>>
    BY <1>3 DEF PostBarrier
  <2> QED
    BY <1>1, <2>1 DEF Effect
<1>4. CASE GetBarrier(p)
  <2>1. /\ Running(p) /\ Step(p).op = "barrier" /\ Advance(p)
        /\ Cardinality(Ready(Step(p).id)) >= Cardinality(Party)
        /\ UNCHANGED <<kind, lead, run, late, relay, seq, view, barrier>>
    BY <1>4 DEF GetBarrier
  <2>2. Ready(Step(p).id) = Party
    <3> DEFINE S == Ready(Step(p).id)
    <3>1. S \subseteq Party /\ IsFiniteSet(Party) /\ Cardinality(Party) \in Nat
      BY FiniteParty, FS_CardinalityType DEF Ready
    <3> HIDE DEF S
    <3>2. /\ IsFiniteSet(S) /\ Cardinality(S) <= Cardinality(Party)
          /\ Cardinality(S) = Cardinality(Party) => S = Party
      BY <3>1, FS_Subset
    <3>3. Cardinality(S) \in Nat /\ Cardinality(S) >= Cardinality(Party)
      BY <2>1, <3>2, FS_CardinalityType DEF S
    <3>4. S = Party
      BY <3>1, <3>2, <3>3
    <3> QED
      BY <3>4 DEF S
  <2>3. \A q \in Party : <<Step(p).id, q>> \in barrier
    BY <2>2 DEF Ready
  <2> QED
    BY <2>1, <2>3 DEF Effect
<1>5. ASSUME Running(p), UNCHANGED pc,
             UNCHANGED <<kind, lead, run, seq, view, relay, barrier, late>>
      PROVE  Effect(p)
  BY <1>1, <1>5 DEF Effect
<1>6. CASE Collect(p)
  <2>1. /\ Running(p) /\ Step(p).op = "collect"
        /\ UNCHANGED <<kind, lead, run, seq, relay, barrier, late>>
    BY <1>6 DEF Collect
  <2>2. CASE Replayed(p, Listed(p))
    <3>1. UNCHANGED pc /\ UNCHANGED view
      BY <1>6, <2>2 DEF Collect, Return
    <3> QED
      BY <1>5, <2>1, <3>1
  <2>3. CASE ~Replayed(p, Listed(p))
    <3>1. Accept(p, Listed(p)) /\ IF Enough(p, Listed(p)) THEN Advance(p) ELSE UNCHANGED <<pc, why>>
      BY <1>6, <2>3 DEF Collect
    <3> QED
      BY <2>1, <2>3, <3>1 DEF Effect
  <2> QED
    BY <2>2, <2>3
<1>7. CASE TakeFirst(p)
  <2>1. /\ Running(p) /\ Step(p).op = "wait"
        /\ UNCHANGED <<kind, lead, run, seq, relay, barrier, late>>
    BY <1>7 DEF TakeFirst
  <2>2. PICK m \in Listed(p) : IF Replayed(p, {m})
            THEN Return(p, "replay") /\ UNCHANGED <<seen, view>>
            ELSE Accept(p, {m}) /\ Advance(p)
    BY <1>7 DEF TakeFirst
  <2>3. CASE Replayed(p, {m})
    <3>1. UNCHANGED pc /\ UNCHANGED view
      BY <2>2, <2>3 DEF Return
    <3> QED
      BY <1>5, <2>1, <3>1
  <2>4. CASE ~Replayed(p, {m})
    <3>1. Accept(p, {m}) /\ Advance(p) /\ {m} \in SUBSET Listed(p)
      BY <2>2, <2>4
    <3> QED
      BY <2>1, <3>1 DEF Effect
  <2> QED
    BY <2>3, <2>4
<1>8. CASE Check(p)
  <2>1. /\ Running(p) /\ Step(p).op \in {"part3", "hashes", "sign", "aggregate", "complete"}
        /\ UNCHANGED <<kind, lead, run, seq, view, relay, barrier, late>>
        /\ IF Fits(p) THEN Advance(p) ELSE Return(p, "check")
    BY <1>8 DEF Check
  <2>2. CASE Fits(p)
    BY <2>1, <2>2 DEF Effect
  <2>3. CASE ~Fits(p)
    <3>1. UNCHANGED pc
      BY <2>1, <2>3 DEF Return
    <3> QED
      BY <1>5, <2>1, <3>1
  <2> QED
    BY <2>2, <2>3
<1>9. CASE Stop(p)
  <2>1. Running(p) /\ UNCHANGED pc /\ UNCHANGED <<kind, lead, run, seq, view, relay, barrier, late>>
    BY <1>9 DEF Stop, Return
  <2> QED
    BY <1>5, <2>1
<1> QED
  BY <1>0, <1>2, <1>3, <1>4, <1>6, <1>7, <1>8, <1>9

LEMMA LayoutStable ==
    ASSUME UNCHANGED <<kind, lead>>
    PROVE  /\ \A p, c, d : At(p, c, d)' <=> At(p, c, d)
           /\ \A p, i : SendsBefore(p, i)' = SendsBefore(p, i)
           /\ Importing' <=> Importing
<1>1. \A p : Script(p)' = Script(p)
  BY ScriptStable
<1>2. ASSUME NEW CONSTANT p, NEW CONSTANT c, NEW CONSTANT d
      PROVE  At(p, c, d)' <=> At(p, c, d)
  <2>1. PICK s : s = Script(p)
    OBVIOUS
  <2>2. Script(p)' = s
    BY <1>1, <2>1
  <2>3. At(p, c, d)' <=> Layout(p, s, c, d)
    BY <2>2 DEF At
  <2>4. At(p, c, d) <=> Layout(p, s, c, d)
    BY <2>1 DEF At
  <2> QED
    BY <2>3, <2>4
<1>3. \A p, i : SendsBefore(p, i)' = SendsBefore(p, i)
  BY <1>1 DEF SendsBefore
<1> QED
  BY <1>2, <1>3 DEF Importing

\* The next number.
LEMMA CountSends ==
    ASSUME NEW p, NEW i \in Nat \ {0}
    PROVE  /\ SendsBefore(p, 1) = 0
           /\ SendsBefore(p, i) \in Nat
           /\ SendsBefore(p, i + 1) =
                IF Script(p)[i].op = "send" THEN SendsBefore(p, i) + 1 ELSE SendsBefore(p, i)
<1> DEFINE S(n) == {j \in 1 .. n - 1 : Script(p)[j].op = "send"}
<1>1. S(1) = {} /\ S(i + 1) = IF Script(p)[i].op = "send" THEN S(i) \cup {i} ELSE S(i)
  OBVIOUS
<1>2. i \notin S(i) /\ IsFiniteSet(S(i))
  <2>1. IsFiniteSet(1 .. i - 1)
    BY FS_Interval
  <2>2. S(i) \in SUBSET (1 .. i - 1)
    OBVIOUS
  <2>3. IsFiniteSet(S(i))
    BY <2>1, <2>2, FS_Subset
  <2> QED
    BY <2>3
<1> HIDE DEF S
<1>3. /\ Cardinality(S(1)) = 0 /\ Cardinality(S(i)) \in Nat
      /\ Cardinality(S(i) \cup {i}) = Cardinality(S(i)) + 1
  BY <1>1, <1>2, FS_EmptySet, FS_AddElement, FS_CardinalityType
<1> QED
  BY <1>1, <1>3 DEF S, SendsBefore

\* Where the parties are after a step of p.
LEMMA EffectPlaces ==
    ASSUME Shape, NEW p \in Party, Effect(p)
    PROVE  /\ \A q \in Party : pc[q] \in Nat /\ pc'[q] \in Nat /\ pc[q] # 0
           /\ \A q \in Party \ {p} : pc'[q] = pc[q] /\ view'[q] = view[q]
           /\ pc'[p] = pc[p] \/ (Advance(p) /\ pc'[p] = pc[p] + 1)
           /\ pc[p] \in 1 .. Len(Script(p)) /\ Step(p) = Script(p)[pc[p]]
<1>1. Running(p) /\ (UNCHANGED pc \/ Advance(p)) /\ UNCHANGED <<kind, lead>>
  BY DEF Effect
<1>2. /\ pc' \in [Party -> Nat \ {0}] /\ \A q \in Party \ {p} : pc'[q] = pc[q]
      /\ pc'[p] = pc[p] \/ (Advance(p) /\ pc'[p] = pc[p] + 1)
  BY <1>1, PlaceKeeps
<1>3. pc \in [Party -> Nat \ {0}]
  BY DEF Shape
<1>4. pc[p] \in 1 .. Len(Script(p)) /\ Step(p) = Script(p)[pc[p]]
  BY <1>1, AtStep DEF Step
<1>5. ASSUME NEW q \in Party \ {p} PROVE view'[q] = view[q]
  <2>1. view \in [Party -> SUBSET Item]
    BY DEF Shape
  <2>2. CASE UNCHANGED view
    BY <2>2
  <2>3. ASSUME NEW msgs, Accept(p, msgs) PROVE view'[q] = view[q]
    BY <2>1, <2>3 DEF Accept
  <2> QED
    BY <2>2, <2>3 DEF Effect
<1> QED
  BY <1>2, <1>3, <1>4, <1>5

LEMMA NumbersNext ==
    ASSUME Shape, Numbers, Sourced, NEW p \in Party, Effect(p)
    PROVE  Numbers' /\ Sourced'
<1>1. UNCHANGED <<kind, lead>>
  BY DEF Effect
<1>2. \A q, i : SendsBefore(q, i)' = SendsBefore(q, i)
  BY <1>1, LayoutStable
<1>3. \A q : Script(q)' = Script(q)
  BY <1>1, ScriptStable
<1>4. seq \in [Party -> Nat] /\ relay \subseteq Message
  BY DEF Shape
<1>5. CASE SendMessage(p)
  <2>1. /\ Step(p).op = "send" /\ Advance(p) /\ seq' = [seq EXCEPT ![p] = seq[p] + 1]
        /\ relay' = relay \cup {[id |-> Step(p).id, from |-> p, to |-> Step(p).to,
                             seq |-> seq[p] + 1, run |-> run[p],
                             on |-> Heads(p, Step(p).of) \cup {Self(p)}]}
    BY <1>5 DEF SendMessage
  <2>2. pc'[p] = pc[p] + 1
    <3>1. pc \in [Party -> Nat \ {0}]
      BY DEF Shape
    <3> QED
      BY <2>1, <3>1 DEF Advance
  <2>3. ASSUME NEW q \in Party, NEW n, n = pc'[q] PROVE seq'[q] = SendsBefore(q, n)
    <3>1. CASE q = p
      <4>1. seq[p] = SendsBefore(p, pc[p])
        BY DEF Numbers
      <4>2. SendsBefore(p, pc[p] + 1) = SendsBefore(p, pc[p]) + 1
        <5>1. pc[p] \in Nat \ {0} /\ Script(p)[pc[p]].op = "send"
          BY <2>1, EffectPlaces
        <5> QED
          BY <5>1, CountSends
      <4> QED
        BY <1>4, <2>1, <2>2, <2>3, <3>1, <4>1, <4>2
    <3>2. CASE q # p
      <4>1. pc'[q] = pc[q] /\ seq'[q] = seq[q]
        BY <1>4, <2>1, <3>2, EffectPlaces
      <4> QED
        BY <2>3, <4>1 DEF Numbers
    <3> QED
      BY <3>1, <3>2
  <2>4. Numbers'
    BY <1>2, <2>3 DEF Numbers
  <2>5. ASSUME NEW m \in relay' PROVE \E i \in 1 .. Len(Script(m.from)) : SentAt(m, i)
    <3>1. CASE m \in relay
      BY <3>1 DEF Sourced
    <3>2. CASE m \notin relay
      <4>1. m.id = Step(p).id /\ m.from = p /\ m.to = Step(p).to /\ m.seq = seq[p] + 1
        BY <2>1, <3>2
      <4>2. Step(p) = Script(p)[pc[p]] /\ pc[p] \in 1 .. Len(Script(p))
        BY EffectPlaces
      <4>3. seq[p] = SendsBefore(p, pc[p])
        BY DEF Numbers
      <4>4. SentAt(m, pc[p])
        BY <2>1, <4>1, <4>2, <4>3 DEF SentAt
      <4> QED
        BY <4>1, <4>2, <4>4
    <3> QED
      BY <3>1, <3>2
  <2>6. Sourced'
    BY <1>2, <1>3, <2>5 DEF Sourced, SentAt
  <2> QED
    BY <2>4, <2>6
<1>6. CASE UNCHANGED <<relay, seq>> /\ (Advance(p) => Step(p).op # "send")
  <2>1. ASSUME NEW q \in Party, NEW n, n = pc'[q] PROVE seq'[q] = SendsBefore(q, n)
    <3>1. CASE pc'[q] = pc[q]
      BY <1>6, <2>1, <3>1 DEF Numbers
    <3>2. CASE pc'[q] # pc[q]
      <4>1. q = p /\ Advance(p) /\ pc'[p] = pc[p] + 1
        BY <3>2, EffectPlaces
      <4>2. SendsBefore(p, pc[p] + 1) = SendsBefore(p, pc[p])
        <5>1. pc[p] \in Nat \ {0} /\ Script(p)[pc[p]].op # "send"
          BY <1>6, <4>1, EffectPlaces
        <5> QED
          BY <5>1, CountSends
      <4> QED
        BY <1>6, <2>1, <4>1, <4>2 DEF Numbers
    <3> QED
      BY <3>1, <3>2
  <2>2. Numbers'
    BY <1>2, <2>1 DEF Numbers
  <2>3. Sourced'
    BY <1>2, <1>3, <1>6 DEF Sourced, SentAt
  <2> QED
    BY <2>2, <2>3
<1> QED
  BY <1>5, <1>6 DEF Effect

LEMMA SentNext ==
    ASSUME Shape, SentAll, NEW p \in Party, Effect(p)
    PROVE  SentAll'
<1>1. UNCHANGED <<kind, lead>> /\ run' = run
  BY DEF Effect
<1>2. \A q : Script(q)' = Script(q)
  BY <1>1, ScriptStable
<1>3. relay \subseteq relay'
  BY DEF Effect, SendMessage
<1>4. ASSUME NEW q \in Party, NEW i \in 1 .. pc'[q] - 1 PROVE Sent(q, i)'
  <2>1. CASE i \in 1 .. pc[q] - 1
    <3>1. Sent(q, i)
      BY <2>1 DEF SentAll
    <3> QED
      BY <1>1, <1>2, <1>3, <3>1 DEF Sent
  <2>2. CASE i \notin 1 .. pc[q] - 1
    <3>1. q = p /\ Advance(p) /\ i = pc[p]
      BY <2>2, EffectPlaces
    <3>2. Script(q)[i] = Step(p)
      BY <3>1 DEF Step
    <3>3. CASE SendMessage(p)
      <4> DEFINE m == [id |-> Step(p).id, from |-> p, to |-> Step(p).to,
                       seq |-> seq[p] + 1, run |-> run[p],
                       on |-> Heads(p, Step(p).of) \cup {Self(p)}]
      <4>1. m \in relay'
        BY <3>3 DEF SendMessage
      <4>2. m.from = q /\ m.run = run'[q] /\ m.id = Script(q)[i].id /\ m.to = Script(q)[i].to
        BY <1>1, <3>1, <3>2
      <4> HIDE DEF m
      <4> QED
        BY <1>2, <4>1, <4>2 DEF Sent
    <3>4. CASE Step(p).op # "send"
      BY <1>2, <3>2, <3>4 DEF Sent
    <3> QED
      BY <3>1, <3>3, <3>4 DEF Effect
  <2> QED
    BY <2>1, <2>2
<1> QED
  BY <1>4 DEF SentAll

LEMMA PassedNext ==
    ASSUME Shape, Passed, NEW p \in Party, Effect(p)
    PROVE  Passed'
<1>1. UNCHANGED <<kind, lead>> /\ barrier \subseteq barrier'
  BY DEF Effect
<1>2. \A q : Script(q)' = Script(q)
  BY <1>1, ScriptStable
<1>3. ASSUME NEW q \in Party, NEW i \in 1 .. pc'[q] - 1 PROVE Full(q, i)'
  <2>1. CASE i \in 1 .. pc[q] - 1
    <3>1. Full(q, i)
      BY <2>1 DEF Passed
    <3> QED
      BY <1>1, <1>2, <3>1 DEF Full
  <2>2. CASE i \notin 1 .. pc[q] - 1
    <3>1. q = p /\ Advance(p) /\ i = pc[p]
      BY <2>2, EffectPlaces
    <3>2. Script(q)[i] = Step(p)
      BY <3>1 DEF Step
    <3>3. Step(p).op = "barrier" => \A r \in Party : <<Step(p).id, r>> \in barrier
      BY <3>1 DEF Effect
    <3> QED
      BY <1>1, <1>2, <3>2, <3>3 DEF Full
  <2> QED
    BY <2>1, <2>2
<1> QED
  BY <1>3 DEF Passed

LEMMA WaitingNext ==
    ASSUME Shape, Waiting, NEW p \in Party, Effect(p)
    PROVE  Waiting'
<1>1. UNCHANGED <<kind, lead>> /\ late' = late
  BY DEF Effect
<1>2. \A q, c, d : At(q, c, d)' <=> At(q, c, d)
  BY <1>1, LayoutStable
<1>3. R2' = R2
  BY DEF R2, Id
<1>4. ASSUME ~late, NEW q \in Party, NEW c \in Nat, NEW d \in Nat, At(q, c, d),
             <<R2, q>> \in barrier'
      PROVE  pc'[q] >= c - 1
  <2>1. pc'[q] >= pc[q] /\ pc[q] \in Nat /\ pc'[q] \in Nat
    BY EffectPlaces
  <2>2. CASE <<R2, q>> \in barrier
    <3>1. pc[q] >= c - 1
      BY <1>4, <2>2 DEF Waiting
    <3> QED
      BY <2>1, <3>1
  <2>3. CASE <<R2, q>> \notin barrier
    <3>1. q = p /\ Step(p).id = R2 /\ Step(p).op = "barrier"
      BY <1>4, <2>3 DEF Effect
    <3>2. pc[p] = c - 1
      BY <1>4, <3>1, EffectPlaces DEF At, Layout
    <3> QED
      BY <2>1, <3>1, <3>2
  <2> QED
    BY <2>2, <2>3
<1> QED
  BY <1>1, <1>2, <1>3, <1>4 DEF Waiting

\* A step that reads nothing under an id leaves what was read under it.
LEMMA HeadsKeep ==
    ASSUME Shape, Senders, NEW p \in Party, Effect(p), NEW CONSTANT id, NEW q \in Party,
           q = p /\ Step(p).op \in {"collect", "wait"} => Step(p).id # id
    PROVE  Heads(q, id)' = Heads(q, id)
<1> DEFINE V(w) == {m \in w : m.id = id}
<1>1. V(view'[q]) = V(view[q])
  <2>1. CASE q # p
    <3>1. view'[q] = view[q]
      BY <2>1, EffectPlaces
    <3> QED
      BY <3>1
  <2>2. CASE UNCHANGED view
    BY <2>2
  <2>3. ASSUME q = p, Step(p).id # id, NEW msgs \in SUBSET Listed(p), Accept(p, msgs)
        PROVE  V(view'[q]) = V(view[q])
    <3>1. view[p] \subseteq view'[p]
      BY <2>3, AcceptEffect
    <3>2. ASSUME NEW v \in view'[p] \ view[p] PROVE v.id # id
      <4>1. PICK m \in msgs : /\ v = [id |-> m.id, from |-> m.from, run |-> m.run, on |-> m.on]
                              /\ m.id = Step(p).id
        BY <2>3, AcceptEffect
      <4> QED
        BY <2>3, <4>1
    <3> QED
      BY <2>3, <3>1, <3>2
  <2>4. Listed(p) \in SUBSET Listed(p)
    OBVIOUS
  <2> HIDE DEF V
  <2> QED
    BY <2>1, <2>2, <2>3, <2>4 DEF Effect
<1> QED
  BY <1>1 DEF Heads, Read

\* Behind the barrier of round 2 every share is there, and those of one run only: an
\* earlier run of the sender would have used the same number.
LEMMA SharesListed ==
    ASSUME Shape, Senders, Importing, ~late, Sourced, SentAll, Passed, Waiting,
           NEW p \in Party, NEW c \in Nat, NEW d \in Nat, At(p, c, d), pc[p] = c,
           ~Replayed(p, Listed(p))
    PROVE  /\ Step(p).op = "collect" /\ Step(p).id = R2
           /\ \A q \in OtherParties(p) : \E m \in Listed(p) : m.from = q
           /\ \A m \in Listed(p) : m.from \in OtherParties(p) /\ m.run = run[m.from]
<1>1. /\ Step(p).op = "collect" /\ Step(p).id = R2 /\ c \in 2 .. Len(Script(p))
      /\ Script(p)[c - 1].op = "barrier" /\ Script(p)[c - 1].id = R2
  BY DEF At, Layout, Step
<1>2. \A q \in Party : <<R2, q>> \in barrier
  <2>1. c - 1 \in 1 .. pc[p] - 1
    BY <1>1
  <2>2. Full(p, c - 1)
    BY <2>1 DEF Passed
  <2> QED
    BY <1>1, <2>2 DEF Full
<1>3. ASSUME NEW q \in Party PROVE \E x, y \in Nat : Layout(q, Script(q), x, y)
  BY ImportLayout DEF Shape, Importing
<1>4. ASSUME NEW q \in OtherParties(p)
      PROVE  \E m \in relay : m.from = q /\ m.run = run[q] /\ m.id = R2 /\ p \in m.to
  <2>1. q \in Party /\ p \in OtherParties(q)
    BY DEF OtherParties
  <2>2. PICK x \in Nat, y \in Nat : Layout(q, Script(q), x, y)
    BY <1>3, <2>1
  <2>3. PICK i \in 1 .. Len(Script(q)) : Sends(Script(q), i) /\ p \in Script(q)[i].to
    BY <2>1, <2>2 DEF Layout
  <2>4. i < x - 1
    BY <2>2, <2>3 DEF Layout
  <2>5. pc[q] >= x - 1
    BY <1>2, <2>1, <2>2 DEF Waiting, At
  <2>6. pc[q] \in Nat
    BY <2>1 DEF Shape
  <2>7. i \in 1 .. pc[q] - 1
    BY <2>4, <2>5, <2>6
  <2>8. Sent(q, i)
    BY <2>1, <2>7 DEF SentAll
  <2> QED
    BY <2>3, <2>8 DEF Sent, Sends
<1>5. \A m \in Listed(p) : m \in relay /\ m.id = R2 /\ p \in m.to /\ m.from \in OtherParties(p)
  BY <1>1 DEF Listed, Shape, Senders, Message, OtherParties
<1>6. ASSUME NEW m \in Listed(p), NEW n \in Listed(p), m.from = n.from PROVE m = n
  <2>1. m.from \in Party
    BY <1>5 DEF OtherParties
  <2>2. PICK x \in Nat, y \in Nat : Layout(m.from, Script(m.from), x, y)
    BY <1>3, <2>1
  <2>3. PICK i \in 1 .. Len(Script(m.from)) : SentAt(m, i)
    BY <1>5 DEF Sourced
  <2>4. PICK j \in 1 .. Len(Script(m.from)) : SentAt(n, j)
    BY <1>5, <1>6 DEF Sourced
  <2>5. Sends(Script(m.from), i) /\ p \in Script(m.from)[i].to
    BY <1>5, <2>3 DEF SentAt, Sends
  <2>6. Sends(Script(m.from), j) /\ p \in Script(m.from)[j].to
    BY <1>5, <1>6, <2>4 DEF SentAt, Sends
  <2>7. i = j
    BY <2>2, <2>5, <2>6 DEF Layout
  <2>8. m.seq = n.seq
    BY <1>6, <2>3, <2>4, <2>7 DEF SentAt
  <2> QED
    BY <1>6, <2>8 DEF Replayed
<1>7. ASSUME NEW q \in OtherParties(p)
      PROVE  \E m \in Listed(p) : m.from = q /\ m.run = run[q]
  BY <1>1, <1>4 DEF Listed
<1>8. ASSUME NEW m \in Listed(p) PROVE m.run = run[m.from]
  <2>1. PICK n \in Listed(p) : n.from = m.from /\ n.run = run[m.from]
    BY <1>5, <1>7
  <2> QED
    BY <1>6, <2>1
<1> QED
  BY <1>1, <1>5, <1>7, <1>8

\* The collection of the shares ends with those of the present runs.
LEMMA SharesHeard ==
    ASSUME Shape, Senders, Importing, ~late, Sourced, SentAll, Passed, Waiting, SharesRead,
           NEW p \in Party, Effect(p), NEW c \in Nat, NEW d \in Nat, At(p, c, d), pc[p] = c
    PROVE  IF Advance(p) THEN Heads(p, R2)' = Runs(OtherParties(p))
                         ELSE Heads(p, R2)' = Heads(p, R2)
<1>1. Step(p).op = "collect" /\ Step(p).id = R2
  BY DEF At, Layout, Step
<1>2. CASE UNCHANGED view /\ (Advance(p) => Step(p).op # "collect")
  BY <1>1, <1>2 DEF Heads, Read
<1>3. ASSUME Accept(p, Listed(p)), ~Replayed(p, Listed(p)), Enough(p, Listed(p)) => Advance(p)
      PROVE  Advance(p) /\ Heads(p, R2)' = Runs(OtherParties(p))
  <2>1. /\ \A q \in OtherParties(p) : \E m \in Listed(p) : m.from = q
        /\ \A m \in Listed(p) : m.from \in OtherParties(p) /\ m.run = run[m.from]
    BY <1>3, SharesListed
  <2>2. {m.from : m \in Listed(p)} = OtherParties(p)
    BY <2>1
  <2>3. Step(p).n = Others
    <3>1. Step(p) \in GoodStep(p)
      BY AtStep DEF Effect
    <3>2. ~OneSender(R2)
      BY DEF OneSender, R2, Id
    <3> QED
      BY <1>1, <3>1, <3>2, StepFields
  <2>4. Enough(p, Listed(p))
    <3>1. Cardinality(OtherParties(p)) = Others /\ Others \in Nat
      BY FiniteParty
    <3> DEFINE F == {m.from : m \in Listed(p)}
    <3>2. F = OtherParties(p)
      BY <2>2
    <3>3. Enough(p, Listed(p)) <=> Cardinality(F) >= Step(p).n
      BY DEF Enough
    <3> HIDE DEF F
    <3> QED
      BY <2>3, <3>1, <3>2, <3>3
  <2>5. Heads(p, R2) = {}
    <3>1. Present(p, c)
      BY DEF SharesRead
    <3> QED
      BY <3>1 DEF Present
  <2>6. \A v \in view[p] : v.id # R2
    BY <2>5 DEF Heads, Read
  <2>7. Listed(p) \subseteq Listed(p)
    OBVIOUS
  <2>8. ASSUME NEW v \in view'[p], v.id = R2
        PROVE  v.from \in OtherParties(p) /\ v.run = run[v.from]
    <3>1. v \in view'[p] \ view[p]
      BY <2>6, <2>8
    <3>2. PICK m \in Listed(p) : v = [id |-> m.id, from |-> m.from, run |-> m.run, on |-> m.on]
      BY <1>3, <2>7, <3>1, AcceptEffect
    <3>3. v.from = m.from /\ v.run = m.run
      BY <3>2
    <3> QED
      BY <2>1, <3>3
  <2>9. ASSUME NEW q \in OtherParties(p) PROVE \E v \in view'[p] : v.id = R2 /\ v.from = q
    <3>1. PICK m \in Listed(p) : m.from = q
      BY <2>1
    <3>2. m.id = R2
      BY <1>1 DEF Listed
    <3> QED
      BY <1>3, <2>7, <3>1, <3>2, AcceptEffect
  <2>10. {<<v.from, v.run>> : v \in {m \in view'[p] : m.id = R2}} = Runs(OtherParties(p))
    BY <2>8, <2>9 DEF Runs
  <2>11. Heads(p, R2)' = {<<v.from, v.run>> : v \in {m \in view'[p] : m.id = R2}}
    BY DEF Heads, Read
  <2> QED
    BY <1>3, <2>4, <2>10, <2>11
<1> QED
  BY <1>1, <1>2, <1>3 DEF Effect

LEMMA SharesReadNext ==
    ASSUME Shape, Senders, Sourced, SentAll, Passed, Waiting, SharesRead,
           NEW p \in Party, Effect(p)
    PROVE  SharesRead'
<1>1. UNCHANGED <<kind, lead>> /\ late' = late /\ run' = run
  BY DEF Effect
<1>2. (\A q, c, d : At(q, c, d)' <=> At(q, c, d)) /\ (Importing' <=> Importing)
  BY <1>1, LayoutStable
<1>3. ASSUME ~late, Importing, NEW q \in Party, NEW c \in Nat, NEW d \in Nat, At(q, c, d)
      PROVE  Heads(q, R2)' = IF pc'[q] <= c THEN {} ELSE Runs(OtherParties(q))
  <2>1. Heads(q, R2) = IF pc[q] <= c THEN {} ELSE Runs(OtherParties(q))
    BY <1>3 DEF SharesRead, Present
  <2>2. CASE q # p
    <3>1. Heads(q, R2)' = Heads(q, R2)
      BY <2>2, HeadsKeep
    <3>2. pc'[q] = pc[q]
      BY <2>2, EffectPlaces
    <3> QED
      BY <2>1, <3>1, <3>2
  <2>3. CASE q = p /\ pc[p] = c
    <3>1. IF Advance(p) THEN Heads(p, R2)' = Runs(OtherParties(p))
                        ELSE Heads(p, R2)' = Heads(p, R2)
      BY <1>3, <2>3, SharesHeard
    <3>2. /\ Advance(p) => pc'[p] = pc[p] + 1
          /\ ~Advance(p) => pc'[p] = pc[p]
      <4>1. pc \in [Party -> Nat \ {0}]
        BY DEF Shape
      <4> QED
        BY <4>1, EffectPlaces DEF Advance
    <3> QED
      BY <2>1, <2>3, <3>1, <3>2
  <2>4. CASE q = p /\ pc[p] # c
    <3>1. Step(p).op \in {"collect", "wait"} => Step(p).id # R2
      <4>1. /\ Layout(p, Script(p), c, d) /\ pc[p] \in 1 .. Len(Script(p))
            /\ Step(p) = Script(p)[pc[p]]
        BY <1>3, <2>4, EffectPlaces DEF At
      <4> QED
        BY <2>4, <4>1 DEF Layout, Reads
    <3>2. Heads(p, R2)' = Heads(p, R2)
      BY <3>1, HeadsKeep
    <3>3. pc'[p] <= c <=> pc[p] <= c
      BY <2>4, EffectPlaces
    <3> QED
      BY <2>1, <2>4, <3>2, <3>3
  <2> QED
    BY <2>2, <2>3, <2>4
<1>4. \A q : Runs(OtherParties(q))' = Runs(OtherParties(q))
  BY <1>1 DEF Runs
<1> QED
  BY <1>1, <1>2, <1>3, <1>4 DEF SharesRead, Present

LEMMA PackagesFitNext ==
    ASSUME Shape, Senders, PackagesFit, NEW p \in Party, Effect(p)
    PROVE  PackagesFit'
<1>1. UNCHANGED <<kind, lead>>
  BY DEF Effect
<1>2. \A q, c, d : At(q, c, d)' <=> At(q, c, d)
  BY <1>1, LayoutStable
<1>3. ASSUME NEW q \in Party, NEW c \in Nat, NEW d \in Nat, At(q, c, d), pc'[q] > d
      PROVE  Heads(q, R1)' = Heads(q, R2)'
  <2>1. CASE q # p
    <3>1. Heads(q, R1)' = Heads(q, R1) /\ Heads(q, R2)' = Heads(q, R2) /\ pc'[q] = pc[q]
      BY <2>1, HeadsKeep, EffectPlaces
    <3> QED
      BY <1>3, <3>1 DEF PackagesFit
  <2>2. CASE q = p
    <3>1. /\ Layout(p, Script(p), c, d) /\ pc[p] \in 1 .. Len(Script(p))
          /\ Step(p) = Script(p)[pc[p]] /\ pc[p] \in Nat /\ pc'[p] \in Nat
      BY <1>3, <2>2, EffectPlaces DEF At
    <3>2. d \in Nat /\ c < d /\ Script(p)[d].op = "part3"
      BY <3>1 DEF Layout
    <3>3. pc[p] > d \/ (pc[p] = d /\ Advance(p))
      BY <1>3, <2>2, <3>1, <3>2, EffectPlaces
    <3>4. pc[p] > c
      BY <3>1, <3>2, <3>3
    <3>5. Step(p).op \in {"collect", "wait"} => Step(p).id # R1 /\ Step(p).id # R2
      <4>1. (Reads(Script(p), pc[p], R2) => pc[p] = c) /\ (Reads(Script(p), pc[p], R1) => pc[p] < c)
        BY <3>1 DEF Layout
      <4> QED
        BY <3>1, <3>4, <4>1 DEF Reads
    <3>6. Heads(p, R1)' = Heads(p, R1) /\ Heads(p, R2)' = Heads(p, R2)
      BY <3>5, HeadsKeep
    <3>7. Heads(p, R1) = Heads(p, R2)
      <4>1. CASE pc[p] > d
        BY <1>3, <2>2, <4>1 DEF PackagesFit
      <4>2. CASE pc[p] = d /\ Advance(p)
        <5>1. Step(p).op = "part3"
          BY <3>1, <3>2, <4>2
        <5>2. Fits(p)
          BY <4>2, <5>1 DEF Effect
        <5> QED
          BY <5>1, <5>2 DEF Fits, R1, R2
      <4> QED
        BY <3>3, <4>1, <4>2
    <3> QED
      BY <2>2, <3>6, <3>7
  <2> QED
    BY <2>1, <2>2
<1> QED
  BY <1>2, <1>3 DEF PackagesFit

\* A program that is started again.
LEMMA AgreedRestart ==
    ASSUME Shape, Agreed, NEW p \in Party, Restart(p)
    PROVE  Agreed'
<1>1. /\ UNCHANGED <<kind, lead>> /\ relay' = relay /\ barrier' = barrier
      /\ late' = (late \/ <<R2, p>> \in barrier)
  BY DEF Restart, Ready, R2
<1>2. /\ pc \in [Party -> Nat \ {0}] /\ run \in [Party -> Nat] /\ seq \in [Party -> Nat]
      /\ view \in [Party -> SUBSET Item]
  BY DEF Shape
<1>3. pc'[p] = 1 /\ seq'[p] = 0 /\ view'[p] = {}
  BY <1>2 DEF Restart
<1>4. \A q \in Party \ {p} : /\ pc'[q] = pc[q] /\ seq'[q] = seq[q]
                            /\ view'[q] = view[q] /\ run'[q] = run[q]
  BY <1>2 DEF Restart
<1>5. \A q : Script(q)' = Script(q)
  BY <1>1, ScriptStable
<1>6. /\ \A q, c, d : At(q, c, d)' <=> At(q, c, d)
      /\ \A q, i : SendsBefore(q, i)' = SendsBefore(q, i)
      /\ Importing' <=> Importing
  BY <1>1, LayoutStable
<1>7. /\ \A q \in Party \ {p} : \A id : Heads(q, id)' = Heads(q, id)
      /\ \A id : Heads(p, id)' = {}
  BY <1>3, <1>4 DEF Heads, Read
<1>8. Numbers'
  <2>1. ASSUME NEW q \in Party, NEW n, n = pc'[q] PROVE seq'[q] = SendsBefore(q, n)
    <3>1. CASE q = p
      BY <1>3, <2>1, <3>1, CountSends
    <3>2. CASE q # p
      BY <1>4, <2>1, <3>2 DEF Agreed, Numbers
    <3> QED
      BY <3>1, <3>2
  <2> QED
    BY <1>6, <2>1 DEF Numbers
<1>9. Sourced'
  BY <1>1, <1>5, <1>6 DEF Agreed, Sourced, SentAt
<1>10. SentAll'
  <2>1. ASSUME NEW q \in Party, NEW i \in 1 .. pc'[q] - 1 PROVE Sent(q, i)'
    <3>1. q # p
      BY <1>3, <2>1
    <3>2. Sent(q, i) /\ run'[q] = run[q]
      BY <1>4, <3>1 DEF Agreed, SentAll
    <3> QED
      BY <1>1, <1>5, <3>2 DEF Sent
  <2> QED
    BY <2>1 DEF SentAll
<1>11. Passed'
  <2>1. ASSUME NEW q \in Party, NEW i \in 1 .. pc'[q] - 1 PROVE Full(q, i)'
    <3>1. q # p
      BY <1>3, <2>1
    <3>2. Full(q, i)
      BY <1>4, <3>1 DEF Agreed, Passed
    <3> QED
      BY <1>1, <1>5, <3>2 DEF Full
  <2> QED
    BY <2>1 DEF Passed
<1>12. Waiting'
  <2>1. ASSUME ~late', NEW q \in Party, NEW c \in Nat, NEW d \in Nat, At(q, c, d),
               <<R2, q>> \in barrier
        PROVE  pc'[q] >= c - 1
    <3>1. ~late /\ q # p
      BY <1>1, <2>1
    <3>2. pc[q] >= c - 1
      BY <2>1, <3>1 DEF Agreed, Waiting
    <3> QED
      BY <1>4, <3>1, <3>2
  <2>2. R2' = R2
    BY DEF R2, Id
  <2> QED
    BY <1>1, <1>6, <2>1, <2>2 DEF Waiting
<1>13. SharesRead'
  <2>1. ASSUME ~late', Importing, NEW q \in Party, NEW c \in Nat, NEW d \in Nat, At(q, c, d)
        PROVE  Present(q, c)'
    <3>1. ~late /\ <<R2, p>> \notin barrier
      BY <1>1, <2>1
    <3>2. c \in 2 .. Len(Script(q)) /\ Script(q)[c - 1].op = "barrier" /\ Script(q)[c - 1].id = R2
      BY <2>1 DEF At, Layout
    <3>3. CASE q = p
      <4>1. pc'[q] <= c
        BY <1>3, <3>2, <3>3
      <4> QED
        BY <1>7, <3>3, <4>1 DEF Present
    <3>4. CASE q # p
      <4>1. pc[q] <= c
        <5> SUFFICES ASSUME pc[q] > c PROVE FALSE
          BY <1>2
        <5>1. c - 1 \in 1 .. pc[q] - 1
          BY <1>2, <3>2
        <5>2. Full(q, c - 1)
          BY <5>1 DEF Agreed, Passed
        <5> QED
          BY <3>1, <3>2, <5>2 DEF Full
      <4>2. Heads(q, R2) = {}
        BY <2>1, <3>1, <4>1 DEF Agreed, SharesRead, Present
      <4>3. pc'[q] <= c /\ Heads(q, R2)' = {}
        BY <1>4, <1>7, <3>4, <4>1, <4>2
      <4> QED
        BY <4>3 DEF Present
    <3> QED
      BY <3>3, <3>4
  <2> QED
    BY <1>6, <2>1 DEF SharesRead
<1>14. PackagesFit'
  <2>1. ASSUME NEW q \in Party, NEW c \in Nat, NEW d \in Nat, At(q, c, d), pc'[q] > d
        PROVE  Heads(q, R1)' = Heads(q, R2)'
    <3>1. d \in Nat /\ d > 1
      BY <2>1 DEF At, Layout
    <3>2. q # p
      BY <1>3, <2>1, <3>1
    <3> QED
      BY <1>4, <1>7, <2>1, <3>2 DEF Agreed, PackagesFit
  <2> QED
    BY <1>6, <2>1 DEF PackagesFit
<1> QED
  BY <1>8, <1>9, <1>10, <1>11, <1>12, <1>13, <1>14 DEF Agreed

LEMMA AgreedInit ==
    ASSUME Init
    PROVE  Agreed
<1>1. /\ pc = [p \in Party |-> 1] /\ seq = [p \in Party |-> 0] /\ view = [p \in Party |-> {}]
      /\ relay = {} /\ barrier = {}
  BY DEF Init
<1>2. \A p \in Party : pc[p] = 1 /\ seq[p] = 0 /\ view[p] = {}
  BY <1>1
<1>3. \A p \in Party : \A id : Heads(p, id) = {}
  BY <1>2 DEF Heads, Read
<1>4. Numbers
  BY <1>2, CountSends DEF Numbers
<1>5. Sourced /\ Waiting
  BY <1>1 DEF Sourced, Waiting
<1>6. SentAll /\ Passed
  BY <1>2 DEF SentAll, Passed
<1>7. \A p \in Party : \A c, d \in Nat : At(p, c, d) => pc[p] <= c
  BY <1>2 DEF At, Layout
<1>8. SharesRead
  BY <1>3, <1>7 DEF SharesRead, Present
<1>9. PackagesFit
  BY <1>3 DEF PackagesFit
<1> QED
  BY <1>4, <1>5, <1>6, <1>8, <1>9 DEF Agreed

LEMMA AgreedStutter ==
    ASSUME Agreed, UNCHANGED vars
    PROVE  Agreed'
<1>1. UNCHANGED <<kind, lead, pc, run, seq, view, relay, barrier, late>>
  BY DEF vars
<1>2. \A p : Script(p)' = Script(p)
  BY <1>1, ScriptStable
<1>3. /\ \A q, c, d : At(q, c, d)' <=> At(q, c, d)
      /\ \A q, i : SendsBefore(q, i)' = SendsBefore(q, i)
      /\ Importing' <=> Importing
  BY <1>1, LayoutStable
<1>4. \A q, id : Heads(q, id)' = Heads(q, id)
  BY <1>1 DEF Heads, Read
<1>5. Numbers' /\ Sourced'
  BY <1>1, <1>2, <1>3 DEF Agreed, Numbers, Sourced, SentAt
<1>6. SentAll' /\ Passed'
  BY <1>1, <1>2 DEF Agreed, SentAll, Sent, Passed, Full
<1>7. Waiting' /\ SharesRead' /\ PackagesFit'
  BY <1>1, <1>3, <1>4 DEF Agreed, Waiting, SharesRead, PackagesFit, Present, Runs
<1> QED
  BY <1>5, <1>6, <1>7 DEF Agreed

LEMMA AgreedNext ==
    ASSUME Shape, Senders, Agreed, [Next]_vars
    PROVE  Agreed'
<1>1. ASSUME NEW p \in Party, Effect(p) PROVE Agreed'
  <2>1. Numbers /\ Sourced /\ SentAll /\ Passed /\ Waiting /\ SharesRead /\ PackagesFit
    BY DEF Agreed
  <2>2. Numbers' /\ Sourced' /\ SentAll' /\ Passed' /\ Waiting'
    BY <1>1, <2>1, NumbersNext, SentNext, PassedNext, WaitingNext
  <2>3. SharesRead' /\ PackagesFit'
    BY <1>1, <2>1, SharesReadNext, PackagesFitNext
  <2> QED
    BY <2>2, <2>3 DEF Agreed
<1> QED
  BY <1>1, Effects, AgreedRestart, AgreedStutter

\* Where everybody has the present runs of the others, all have the same runs.
LEMMA AgreedShares ==
    ASSUME Shape, Agreed
    PROVE  SharesAgree
<1> SUFFICES ASSUME Importing, ~late, NEW p \in Party, Done(p)
             PROVE  Heads(p, R1) \cup {Self(p)} = Runs(Party)
  BY DEF SharesAgree, Importing, R1
<1>1. PICK c \in Nat, d \in Nat : At(p, c, d)
  BY ImportLayout DEF Shape, Importing, At
<1>2. pc[p] > d /\ ~(pc[p] <= c)
  <2>1. c \in Nat /\ d \in c + 1 .. Len(Script(p))
    BY <1>1 DEF At, Layout
  <2>2. pc[p] \in Nat /\ Len(Script(p)) \in Nat /\ pc[p] > Len(Script(p))
    BY AtStep DEF Done
  <2> QED
    BY <2>1, <2>2
<1>3. Heads(p, R1) = Heads(p, R2)
  BY <1>1, <1>2 DEF Agreed, PackagesFit
<1>4. Heads(p, R2) = Runs(OtherParties(p))
  BY <1>1, <1>2 DEF Agreed, SharesRead, Present
<1> QED
  BY <1>3, <1>4 DEF Runs, OtherParties, Self

\* Two parties that complete a key import have built their shares from the same
\* round-1 packages, for any number of parties and of stops and restarts, as long as
\* no party is restarted that was ready for round 2: a collector that finds shares of
\* two runs of a sender finds one number twice and refuses them, and the check of the
\* shares ties the packages to the runs the shares are of.
THEOREM SharesAgreeAlways == Spec => []SharesAgree
<1> DEFINE Inv == Shape /\ Senders /\ EveryPeerCollected /\ Agreed
<1>1. Init => Inv
  BY CollectedInit, AgreedInit
<1>2. Inv /\ [Next]_vars => Inv'
  BY CollectedNext, AgreedNext
<1>3. Inv => SharesAgree
  BY AgreedShares
<1> QED
  BY <1>1, <1>2, <1>3, PTL DEF Spec
-----------------------------------------------------------------------------
(***************************************************************************)
(* The order of the steps.  Every step of a ceremony has a place in it, the *)
(* same for all parties, and every script is in the order of the places.    *)
(***************************************************************************)
\* The phases of the ceremonies.
Phase(id) ==
    CASE id[1] = "expected-vk" -> IF kind = "froztImport" THEN 4 ELSE 0
      [] id[1] \in {"sighash", "signable-tx"} -> 0
      [] id[1] \in {"vk-exchanged", "tx-exchanged"} -> 1
      [] id[1] \in {"round1", "preprocess"} -> 2
      [] id[1] = "round2" -> 3
      [] id[1] \in {"offsets"} -> 4
      [] id[1] \in {"spend-done", "sign-done"} -> 5
      [] id[1] = "metadata" -> 6
      [] id[1] = "metadata-hash" -> 7
      [] id[1] = "commit" -> 4 * id[2] + 1
      [] id[1] = "package" -> 4 * id[2] + 2
      [] id[1] = "share" -> IF kind = "fromtSpend" THEN 3 ELSE 4 * id[2] + 3
      [] id[1] = "result" -> 4 * id[2] + 4
      [] id[1] = "broadcast-done" -> 4 * Inputs + 5

\* Within a phase the parties send, meet, read and check.
Level(op) ==
    CASE op = "send" -> 0
      [] op = "barrier" -> 1
      [] op \in {"collect", "wait"} -> 2
      [] op \in {"part3", "hashes", "sign", "aggregate", "complete"} -> 3

\* The shares of a key import are checked after the expected key was exchanged.
Place(s) == IF s.op = "part3" THEN 20 ELSE 4 * Phase(s.id) + Level(s.op)

Before(u, v) == Place(u) < Place(v) \/ (Place(u) = Place(v) /\ u.op = "send" /\ v.op = "send")

Sorted(s, a, b) ==
    /\ \A i \in 1 .. Len(s) : Place(s[i]) \in a .. b - 1
    /\ \A i, j \in 1 .. Len(s) : i < j => Before(s[i], s[j])

\* The places of the steps the scripts are made of.
LEMMA Places ==
    ASSUME NEW id
    PROVE  /\ \A to, of : /\ Place(Send(id, to, of)) = 4 * Phase(id) + 0
                          /\ Send(id, to, of).op = "send"
           /\ Place(WaitForBarrier(id)) = 4 * Phase(id) + 1
           /\ \A n : Place(CollectMessages(id, n)) = 4 * Phase(id) + 2
           /\ Place(WaitForMessage(id)) = 4 * Phase(id) + 2
           /\ \A what \in {"hashes", "sign", "aggregate", "complete"} :
                Place(Verify(what, id)) = 4 * Phase(id) + 3
           /\ Place(Verify("part3", id)) = 20
<1>1. \A to, of : Send(id, to, of).op = "send" /\ Send(id, to, of).id = id
  BY DEF Send
<1>2. WaitForBarrier(id).op = "barrier" /\ WaitForBarrier(id).id = id
  BY DEF WaitForBarrier
<1>3. \A n : CollectMessages(id, n).op = "collect" /\ CollectMessages(id, n).id = id
  BY DEF CollectMessages
<1>4. WaitForMessage(id).op = "wait" /\ WaitForMessage(id).id = id
  BY DEF WaitForMessage
<1>5. \A what : Verify(what, id).op = what /\ Verify(what, id).id = id
  BY DEF Verify
<1>6. /\ Level("send") = 0 /\ Level("barrier") = 1 /\ Level("collect") = 2 /\ Level("wait") = 2
      /\ \A what \in {"part3", "hashes", "sign", "aggregate", "complete"} : Level(what) = 3
  BY DEF Level
<1> QED
  BY <1>1, <1>2, <1>3, <1>4, <1>5, <1>6 DEF Place

\* The phase of every id that is used.
LEMMA Phases ==
    /\ Phase(Id("sighash")) = 0 /\ Phase(Id("signable-tx")) = 0
    /\ Phase(Id("vk-exchanged")) = 1 /\ Phase(Id("tx-exchanged")) = 1
    /\ Phase(Id("round1")) = 2 /\ Phase(Id("preprocess")) = 2
    /\ Phase(Id("round2")) = 3 /\ Phase(Id("offsets")) = 4
    /\ Phase(Id("spend-done")) = 5 /\ Phase(Id("sign-done")) = 5
    /\ Phase(Id("metadata")) = 6 /\ Phase(Id("metadata-hash")) = 7
    /\ Phase(Id("broadcast-done")) = 4 * Inputs + 5
    /\ Phase(Id("expected-vk")) = IF kind = "froztImport" THEN 4 ELSE 0
    /\ kind = "fromtSpend" => Phase(Id("share")) = 3
    /\ \A i : /\ Phase(<<"commit", i>>) = 4 * i + 1 /\ Phase(<<"package", i>>) = 4 * i + 2
              /\ kind # "fromtSpend" => Phase(<<"share", i>>) = 4 * i + 3
              /\ Phase(<<"result", i>>) = 4 * i + 4
BY DEF Phase, Id

\* Two lists one after the other.
LEMMA SortedCat ==
    ASSUME NEW G, NEW s \in Seq(G), NEW t \in Seq(G), NEW a \in Nat, NEW b \in Nat, NEW c \in Nat,
           NEW d \in Nat, a <= b, b <= c, c <= d, Sorted(s, a, b), Sorted(t, c, d)
    PROVE  Cat(s, t) \in Seq(G) /\ Sorted(Cat(s, t), a, d)
<1> DEFINE u == Cat(s, t)
           m == Len(s)
           n == Len(t)
<1>1. Joined(G, s, t, u)
  BY TwoParts
<1>2. m \in Nat /\ n \in Nat
  BY LenProperties
<1>3. /\ u \in Seq(G) /\ Len(u) = m + n
      /\ \A i \in 1 .. m : u[i] = s[i]
      /\ \A i \in 1 .. n : u[m + i] = t[i]
  BY <1>1 DEF Joined
<1>4. /\ \A i \in 1 .. m : Place(s[i]) \in a .. b - 1
      /\ \A i, j \in 1 .. m : i < j => Before(s[i], s[j])
      /\ \A i \in 1 .. n : Place(t[i]) \in c .. d - 1
      /\ \A i, j \in 1 .. n : i < j => Before(t[i], t[j])
  BY DEF Sorted
<1> HIDE DEF u, m, n
<1>5. \A i \in 1 .. m + n : i \notin 1 .. m => i - m \in 1 .. n /\ m + (i - m) = i
  BY <1>2
<1>6. ASSUME NEW i \in 1 .. m + n PROVE Place(u[i]) \in a .. d - 1
  <2>1. CASE i \in 1 .. m
    <3>1. Place(u[i]) \in a .. b - 1
      BY <1>3, <1>4, <2>1
    <3> QED
      BY <3>1
  <2>2. CASE i \notin 1 .. m
    <3>1. Place(u[i]) \in c .. d - 1
      BY <1>3, <1>4, <1>5, <2>2
    <3> QED
      BY <3>1
  <2> QED
    BY <2>1, <2>2
<1>7. ASSUME NEW i \in 1 .. m + n, NEW j \in 1 .. m + n, i < j PROVE Before(u[i], u[j])
  <2>1. CASE j \in 1 .. m
    <3>1. i \in 1 .. m
      BY <1>2, <1>7, <2>1
    <3> QED
      BY <1>3, <1>4, <1>7, <2>1, <3>1
  <2>2. CASE i \in 1 .. m /\ j \notin 1 .. m
    <3>1. Place(u[i]) \in a .. b - 1 /\ Place(u[j]) \in c .. d - 1
      BY <1>3, <1>4, <1>5, <2>2
    <3>2. Place(u[i]) < Place(u[j])
      BY <3>1
    <3> QED
      BY <3>2 DEF Before
  <2>3. CASE i \notin 1 .. m
    <3>1. j \notin 1 .. m
      BY <1>2, <1>7, <2>3
    <3>2. i - m \in 1 .. n /\ j - m \in 1 .. n /\ i - m < j - m
      BY <1>2, <1>5, <1>7, <2>3, <3>1
    <3>3. u[i] = t[i - m] /\ u[j] = t[j - m]
      BY <1>3, <1>5, <2>3, <3>1
    <3> QED
      BY <1>4, <3>2, <3>3
  <2> QED
    BY <2>1, <2>2, <2>3
<1>8. Sorted(u, a, d)
  BY <1>3, <1>6, <1>7 DEF Sorted
<1> QED
  BY <1>3, <1>8 DEF u

\* Short lists.
LEMMA SortedLists ==
    ASSUME NEW a \in Nat, NEW b \in Nat
    PROVE  /\ \A u : Place(u) \in a .. b - 1 => Sorted(<<u>>, a, b)
           /\ \A u, v : /\ Place(u) \in a .. b - 1 /\ Place(v) \in a .. b - 1
                        /\ Place(u) < Place(v)
                        => Sorted(<<u, v>>, a, b)
           /\ \A u, v, w : /\ Place(u) \in a .. b - 1 /\ Place(v) \in a .. b - 1
                           /\ Place(w) \in a .. b - 1
                           /\ Place(u) < Place(v) /\ Place(v) < Place(w)
                           => Sorted(<<u, v, w>>, a, b)
<1>1. ASSUME NEW u, Place(u) \in a .. b - 1 PROVE Sorted(<<u>>, a, b)
  <2>1. Len(<<u>>) = 1 /\ <<u>>[1] = u
    OBVIOUS
  <2>2. \A i, j \in 1 .. 1 : ~ (i < j)
    OBVIOUS
  <2> QED
    BY <1>1, <2>1, <2>2 DEF Sorted
<1>2. ASSUME NEW u, NEW v, Place(u) \in a .. b - 1, Place(v) \in a .. b - 1, Place(u) < Place(v)
      PROVE  Sorted(<<u, v>>, a, b)
  <2> DEFINE t == <<u, v>>
  <2>1. Len(t) = 2 /\ t[1] = u /\ t[2] = v
    OBVIOUS
  <2> HIDE DEF t
  <2>2. \A i, j \in 1 .. 2 : i < j => i = 1 /\ j = 2
    OBVIOUS
  <2>3. \A i \in 1 .. 2 : i = 1 \/ i = 2
    OBVIOUS
  <2>4. \A i \in 1 .. 2 : Place(t[i]) \in a .. b - 1
    BY <1>2, <2>1, <2>3
  <2>5. \A i, j \in 1 .. 2 : i < j => Before(t[i], t[j])
    BY <1>2, <2>1, <2>2 DEF Before
  <2>6. Sorted(t, a, b)
    BY <2>1, <2>4, <2>5 DEF Sorted
  <2> QED
    BY <2>6 DEF t
<1>3. ASSUME NEW u, NEW v, NEW w, Place(u) \in a .. b - 1, Place(v) \in a .. b - 1,
             Place(w) \in a .. b - 1, Place(u) < Place(v), Place(v) < Place(w)
      PROVE  Sorted(<<u, v, w>>, a, b)
  <2> DEFINE t == <<u, v, w>>
  <2>1. Len(t) = 3 /\ t[1] = u /\ t[2] = v /\ t[3] = w
    OBVIOUS
  <2> HIDE DEF t
  <2>2. \A i, j \in 1 .. 3 : i < j => (i = 1 /\ j = 2) \/ (i = 1 /\ j = 3) \/ (i = 2 /\ j = 3)
    OBVIOUS
  <2>3. \A i \in 1 .. 3 : i = 1 \/ i = 2 \/ i = 3
    OBVIOUS
  <2>4. \A i \in 1 .. 3 : Place(t[i]) \in a .. b - 1
    BY <1>3, <2>1, <2>3
  <2>7. Place(u) < Place(w)
    BY <1>3
  <2>5. \A i, j \in 1 .. 3 : i < j => Before(t[i], t[j])
    BY <1>3, <2>1, <2>2, <2>7 DEF Before
  <2>6. Sorted(t, a, b)
    BY <2>1, <2>4, <2>5 DEF Sorted
  <2> QED
    BY <2>6 DEF t
<1> QED
  BY <1>1, <1>2, <1>3

\* The parts of the scripts, each in its phase k.
LEMMA SortedParts ==
    ASSUME NEW p \in Party, NEW id, NEW of, Phase(id) \in Nat
    PROVE  /\ Sorted(Broadcasts(p, id, of), 4 * Phase(id), 4 * Phase(id) + 3)
           /\ Sorted(Announce(p, id), 4 * Phase(id), 4 * Phase(id) + 3)
           /\ Sorted(Exchange(p, id), 4 * Phase(id), 4 * Phase(id) + 3)
           /\ Sorted(<<WaitForBarrier(id)>>, 4 * Phase(id), 4 * Phase(id) + 3)
           /\ \A what \in {"hashes", "sign", "aggregate", "complete"} :
                Sorted(<<Verify(what, id)>>, 4 * Phase(id) + 3, 4 * Phase(id) + 4)
           /\ Sorted(<<Verify("part3", id)>>, 20, 21)
<1>0. PICK k \in Nat : k = 4 * Phase(id)
  OBVIOUS
<1> DEFINE snd == Send(id, OtherParties(p), of)
           sn2 == Send(id, OtherParties(p), id)
           bar == WaitForBarrier(id)
           col == CollectMessages(id, Others)
           co1 == CollectMessages(id, 1)
           wai == WaitForMessage(id)
<1>1. /\ Place(snd) = k /\ Place(sn2) = k /\ Place(bar) = k + 1 /\ Place(col) = k + 2
      /\ Place(co1) = k + 2 /\ Place(wai) = k + 2
      /\ \A what \in {"hashes", "sign", "aggregate", "complete"} : Place(Verify(what, id)) = k + 3
      /\ Place(Verify("part3", id)) = 20
  BY <1>0, Places
<1> HIDE DEF snd, sn2, bar, col, co1, wai
<1>2. /\ Broadcasts(p, id, of) = <<snd, bar, col>>
      /\ Announce(p, id) \in {<<sn2>>, <<wai>>}
      /\ Exchange(p, id) \in {<<sn2>>, <<co1>>}
  BY DEF Broadcasts, Announce, Exchange, snd, sn2, bar, col, co1, wai
<1>3. \A x \in {k, k + 1, k + 2} : x \in k .. (k + 3) - 1
  OBVIOUS
<1>4. k + 3 \in (k + 3) .. (k + 4) - 1 /\ 20 \in 20 .. 21 - 1 /\ k < k + 1 /\ k + 1 < k + 2
      /\ k + 3 \in Nat /\ k + 4 \in Nat
  OBVIOUS
<1>5. Sorted(<<snd, bar, col>>, k, k + 3)
  <2>1. /\ Place(snd) \in k .. (k + 3) - 1 /\ Place(bar) \in k .. (k + 3) - 1
        /\ Place(col) \in k .. (k + 3) - 1 /\ Place(snd) < Place(bar) /\ Place(bar) < Place(col)
    BY <1>1, <1>3, <1>4
  <2> QED
    BY <1>4, <2>1, SortedLists
<1>6. Sorted(<<sn2>>, k, k + 3) /\ Sorted(<<wai>>, k, k + 3) /\ Sorted(<<co1>>, k, k + 3)
      /\ Sorted(<<bar>>, k, k + 3)
  <2>1. /\ Place(sn2) \in k .. (k + 3) - 1 /\ Place(wai) \in k .. (k + 3) - 1
        /\ Place(co1) \in k .. (k + 3) - 1 /\ Place(bar) \in k .. (k + 3) - 1
    BY <1>1, <1>3
  <2> QED
    BY <1>4, <2>1, SortedLists
<1>7. ASSUME NEW what \in {"hashes", "sign", "aggregate", "complete"}
      PROVE  Sorted(<<Verify(what, id)>>, k + 3, k + 4)
  <2>1. Place(Verify(what, id)) \in (k + 3) .. (k + 4) - 1
    BY <1>1, <1>4
  <2> QED
    BY <1>4, <2>1, SortedLists
<1>8. Sorted(<<Verify("part3", id)>>, 20, 21)
  <2>1. Place(Verify("part3", id)) \in 20 .. 21 - 1
    BY <1>1, <1>4
  <2> QED
    BY <2>1, SortedLists
<1> QED
  BY <1>0, <1>2, <1>5, <1>6, <1>7, <1>8 DEF bar

\* The shares of round 2 are sent one after the other in the same phase.
LEMMA SortedShares ==
    ASSUME NEW p \in Party
    PROVE  Sorted(Shares(p), 12, 13) /\ Sorted(Closing, 13, 15)
<1>1. /\ Shares(p) \in Seq(GoodStep(p)) /\ Len(Shares(p)) = Others
      /\ \A i \in 1 .. Others : Shares(p)[i].op = "send" /\ Shares(p)[i].id = R2
  BY PerRecipientSteps DEF Shares
<1>2. Phase(R2) = 3
  BY Phases DEF R2
<1>3. \A i \in 1 .. Others : Place(Shares(p)[i]) = 12
  BY <1>1, <1>2 DEF Place, Level
<1>4. 12 \in 12 .. 13 - 1
  OBVIOUS
<1>5. Sorted(Shares(p), 12, 13)
  <2>1. \A i \in 1 .. Others : Place(Shares(p)[i]) \in 12 .. 13 - 1
    BY <1>3, <1>4
  <2>2. \A i, j \in 1 .. Others : Before(Shares(p)[i], Shares(p)[j])
    BY <1>1, <1>3 DEF Before
  <2> QED
    BY <1>1, <2>1, <2>2 DEF Sorted
<1>6. Sorted(Closing, 13, 15)
  <2>1. Place(WaitForBarrier(R2)) = 13 /\ Place(CollectMessages(R2, Others)) = 14
    BY <1>2, Places
  <2>2. 13 \in 13 .. 15 - 1 /\ 14 \in 13 .. 15 - 1
    OBVIOUS
  <2> QED
    BY <2>1, <2>2, SortedLists DEF Closing
<1> QED
  BY <1>5, <1>6

LEMMA SortedFour ==
    ASSUME NEW a \in Nat, NEW b \in Nat, NEW u, NEW v, NEW w, NEW x,
           Place(u) \in a .. b - 1, Place(v) \in a .. b - 1, Place(w) \in a .. b - 1,
           Place(x) \in a .. b - 1,
           Place(u) < Place(v), Place(v) < Place(w), Place(w) < Place(x)
    PROVE  Sorted(<<u, v, w, x>>, a, b)
<1> DEFINE t == <<u, v, w, x>>
<1>1. Len(t) = 4 /\ t[1] = u /\ t[2] = v /\ t[3] = w /\ t[4] = x
  OBVIOUS
<1> HIDE DEF t
<1>2. \A i, j \in 1 .. 4 : i < j => \/ (i = 1 /\ j = 2) \/ (i = 1 /\ j = 3) \/ (i = 1 /\ j = 4)
                                    \/ (i = 2 /\ j = 3) \/ (i = 2 /\ j = 4) \/ (i = 3 /\ j = 4)
  OBVIOUS
<1>3. \A i \in 1 .. 4 : i = 1 \/ i = 2 \/ i = 3 \/ i = 4
  OBVIOUS
<1>4. \A i \in 1 .. 4 : Place(t[i]) \in a .. b - 1
  BY <1>1, <1>3
<1>5. Place(u) < Place(w) /\ Place(u) < Place(x) /\ Place(v) < Place(x)
  OBVIOUS
<1>6. \A i, j \in 1 .. 4 : i < j => Before(t[i], t[j])
  BY <1>1, <1>2, <1>5 DEF Before
<1>7. Sorted(t, a, b)
  BY <1>1, <1>4, <1>6 DEF Sorted
<1> QED
  BY <1>7 DEF t

\* What follows the commitments: the coordinator's part and the signers'.
SignTail(p, i) ==
    IF p = lead
    THEN <<Send(<<"package", i>>, OtherParties(p), <<"commit", i>>),
           CollectMessages(<<"share", i>>, Others),
           Verify("aggregate", <<"share", i>>),
           Send(<<"result", i>>, OtherParties(p), <<"share", i>>)>>
    ELSE <<WaitForMessage(<<"package", i>>),
           Verify("sign", <<"package", i>>),
           Send(<<"share", i>>, {lead}, <<"package", i>>),
           WaitForMessage(<<"result", i>>)>>

LEMMA SignParts ==
    ASSUME NEW p \in Party, NEW i \in Nat, lead \in Party
    PROVE  /\ SignRounds(p, i) = Cat(Broadcasts(p, <<"commit", i>>, <<"commit", i>>), SignTail(p, i))
           /\ Broadcasts(p, <<"commit", i>>, <<"commit", i>>) \in Seq(GoodStep(p))
           /\ SignTail(p, i) \in Seq(GoodStep(p))
<1>1. /\ <<"commit", i>> \in Ids /\ <<"package", i>> \in Ids /\ <<"share", i>> \in Ids
      /\ <<"result", i>> \in Ids /\ ~OneSender(<<"commit", i>>) /\ ~OneSender(<<"package", i>>)
      /\ ~OneSender(<<"share", i>>) /\ ~OneSender(<<"result", i>>)
  BY IdType DEF Names
<1>2. Broadcasts(p, <<"commit", i>>, <<"commit", i>>) \in Seq(GoodStep(p))
  BY <1>1, BroadcastsGood
<1>3. CASE p = lead
  <2>1. /\ Send(<<"package", i>>, OtherParties(p), <<"commit", i>>) \in GoodStep(p)
        /\ CollectMessages(<<"share", i>>, Others) \in GoodStep(p)
        /\ Verify("aggregate", <<"share", i>>) \in GoodStep(p)
        /\ Send(<<"result", i>>, OtherParties(p), <<"share", i>>) \in GoodStep(p)
    BY <1>1, OneStep
  <2> QED
    BY <1>2, <1>3, <2>1, ShortLists DEF SignRounds, SignTail, Cat
<1>4. CASE p # lead
  <2>0. {lead} \in SUBSET OtherParties(p)
    BY <1>4 DEF OtherParties
  <2>1. /\ WaitForMessage(<<"package", i>>) \in GoodStep(p)
        /\ Verify("sign", <<"package", i>>) \in GoodStep(p)
        /\ Send(<<"share", i>>, {lead}, <<"package", i>>) \in GoodStep(p)
        /\ WaitForMessage(<<"result", i>>) \in GoodStep(p)
    BY <1>1, <2>0, OneStep
  <2> QED
    BY <1>2, <1>4, <2>1, ShortLists DEF SignRounds, SignTail, Cat
<1> QED
  BY <1>3, <1>4

LEMMA SortedSign ==
    ASSUME NEW p \in Party, NEW i \in Nat, lead \in Party, kind # "fromtSpend"
    PROVE  Sorted(SignRounds(p, i), 16 * i + 4, 16 * i + 20)
<1>0. PICK k \in Nat : k = 16 * i
  OBVIOUS
<1>1. /\ 4 * Phase(<<"commit", i>>) = k + 4 /\ 4 * Phase(<<"package", i>>) = k + 8
      /\ 4 * Phase(<<"share", i>>) = k + 12 /\ 4 * Phase(<<"result", i>>) = k + 16
      /\ Phase(<<"commit", i>>) \in Nat
  <2>1. /\ Phase(<<"commit", i>>) = 4 * i + 1 /\ Phase(<<"package", i>>) = 4 * i + 2
        /\ Phase(<<"share", i>>) = 4 * i + 3 /\ Phase(<<"result", i>>) = 4 * i + 4
    BY Phases
  <2> QED
    BY <1>0, <2>1
<1>2. Sorted(Broadcasts(p, <<"commit", i>>, <<"commit", i>>), k + 4, k + 7)
  <2>1. k + 4 + 3 = k + 7
    OBVIOUS
  <2>2. Sorted(Broadcasts(p, <<"commit", i>>, <<"commit", i>>), k + 4, k + 4 + 3)
    BY <1>1, SortedParts
  <2> QED
    BY <2>1, <2>2
<1>3. /\ \A to, of : Place(Send(<<"package", i>>, to, of)) = k + 8
      /\ \A n : Place(CollectMessages(<<"share", i>>, n)) = k + 14
      /\ Place(Verify("aggregate", <<"share", i>>)) = k + 15
      /\ \A to, of : Place(Send(<<"result", i>>, to, of)) = k + 16
      /\ Place(WaitForMessage(<<"package", i>>)) = k + 10
      /\ Place(Verify("sign", <<"package", i>>)) = k + 11
      /\ \A to, of : Place(Send(<<"share", i>>, to, of)) = k + 12
      /\ Place(WaitForMessage(<<"result", i>>)) = k + 18
  <2>1. k + 8 + 0 = k + 8 /\ k + 12 + 2 = k + 14 /\ k + 12 + 3 = k + 15 /\ k + 16 + 0 = k + 16
        /\ k + 8 + 2 = k + 10 /\ k + 8 + 3 = k + 11 /\ k + 12 + 0 = k + 12 /\ k + 16 + 2 = k + 18
    OBVIOUS
  <2> QED
    BY <1>1, <2>1, Places
<1>4. /\ \A x \in {k + 8, k + 10, k + 11, k + 12, k + 14, k + 15, k + 16, k + 18} :
           x \in k + 8 .. (k + 20) - 1
      /\ k + 8 < k + 14 /\ k + 14 < k + 15 /\ k + 15 < k + 16
      /\ k + 10 < k + 11 /\ k + 11 < k + 12 /\ k + 12 < k + 18
      /\ k + 8 \in Nat /\ k + 20 \in Nat
  OBVIOUS
<1>5. Sorted(SignTail(p, i), k + 8, k + 20)
  <2>1. CASE p = lead
    BY <1>3, <1>4, <2>1, SortedFour DEF SignTail
  <2>2. CASE p # lead
    BY <1>3, <1>4, <2>2, SortedFour DEF SignTail
  <2> QED
    BY <2>1, <2>2
<1>6. k + 4 \in Nat /\ k + 7 \in Nat /\ k + 4 <= k + 7 /\ k + 7 <= k + 8 /\ k + 8 <= k + 20
  OBVIOUS
<1>7. Sorted(SignRounds(p, i), k + 4, k + 20)
  BY <1>2, <1>4, <1>5, <1>6, SignParts, SortedCat
<1> QED
  BY <1>0, <1>7

\* The steps of a list.
Elems(s) == {s[i] : i \in 1 .. Len(s)}

LEMMA ElemsCat ==
    ASSUME NEW G, NEW s \in Seq(G), NEW t \in Seq(G)
    PROVE  Elems(Cat(s, t)) = Elems(s) \cup Elems(t)
<1> DEFINE u == Cat(s, t)
           m == Len(s)
           n == Len(t)
<1>1. m \in Nat /\ n \in Nat
  BY LenProperties
<1>2. /\ Len(u) = m + n
      /\ \A i \in 1 .. m : u[i] = s[i]
      /\ \A i \in 1 .. n : u[m + i] = t[i]
  <2>1. Joined(G, s, t, u)
    BY TwoParts
  <2> QED
    BY <2>1 DEF Joined
<1> HIDE DEF u, m, n
<1>3. ASSUME NEW i \in 1 .. m + n PROVE u[i] \in {s[j] : j \in 1 .. m} \cup {t[j] : j \in 1 .. n}
  <2>1. CASE i \in 1 .. m
    BY <1>2, <2>1
  <2>2. CASE i \notin 1 .. m
    <3>1. i - m \in 1 .. n /\ m + (i - m) = i
      BY <1>1, <2>2
    <3>2. u[i] = t[i - m]
      BY <1>2, <3>1
    <3> QED
      BY <3>1, <3>2
  <2> QED
    BY <2>1, <2>2
<1>4. ASSUME NEW i \in 1 .. m PROVE s[i] \in {u[j] : j \in 1 .. m + n}
  <2>1. i \in 1 .. m + n
    BY <1>1
  <2> QED
    BY <1>2, <2>1
<1>5. ASSUME NEW i \in 1 .. n PROVE t[i] \in {u[j] : j \in 1 .. m + n}
  <2>1. m + i \in 1 .. m + n
    BY <1>1
  <2> QED
    BY <1>2, <2>1
<1>6. {u[j] : j \in 1 .. m + n} = {s[j] : j \in 1 .. m} \cup {t[j] : j \in 1 .. n}
  BY <1>3, <1>4, <1>5
<1> QED
  BY <1>2, <1>6 DEF Elems, u, m, n

LEMMA ElemsLists ==
    /\ \A a : Elems(<<a>>) = {a}
    /\ \A a, b : Elems(<<a, b>>) = {a, b}
    /\ \A a, b, c : Elems(<<a, b, c>>) = {a, b, c}
    /\ \A a, b, c, d : Elems(<<a, b, c, d>>) = {a, b, c, d}
<1>1. 1 .. 1 = {1} /\ 1 .. 2 = {1, 2} /\ 1 .. 3 = {1, 2, 3} /\ 1 .. 4 = {1, 2, 3, 4}
  OBVIOUS
<1>2. ASSUME NEW a PROVE Elems(<<a>>) = {a}
  BY <1>1 DEF Elems
<1>3. ASSUME NEW a, NEW b PROVE Elems(<<a, b>>) = {a, b}
  BY <1>1 DEF Elems
<1>4. ASSUME NEW a, NEW b, NEW c PROVE Elems(<<a, b, c>>) = {a, b, c}
  BY <1>1 DEF Elems
<1>5. ASSUME NEW a, NEW b, NEW c, NEW d PROVE Elems(<<a, b, c, d>>) = {a, b, c, d}
  BY <1>1 DEF Elems
<1> QED
  BY <1>2, <1>3, <1>4, <1>5

\* The signatures of a Zcash spend.
Signatures(p) == FlattenSeq([i \in 1 .. Inputs |-> SignRounds(p, i)])

LEMMA SortedSignatures ==
    ASSUME NEW p \in Party, lead \in Party, kind # "fromtSpend"
    PROVE  /\ Signatures(p) \in Seq(GoodStep(p))
           /\ Sorted(Signatures(p), 20, 16 * Inputs + 20)
           /\ Elems(Signatures(p)) = UNION {Elems(SignRounds(p, i)) : i \in 1 .. Inputs}
<1> DEFINE G == GoodStep(p)
           ss == [i \in 1 .. Inputs |-> SignRounds(p, i)]
<1>1. Inputs \in Nat
  BY RoundsAssumption
<1>2. Len(ss) = Inputs /\ \A i \in 1 .. Inputs : ss[i] = SignRounds(p, i)
  BY <1>1
<1>3. \A i \in 1 .. Inputs : ss[i] \in Seq(G) /\ Sorted(ss[i], 16 * i + 4, 16 * i + 20)
  <2> TAKE i \in 1 .. Inputs
  <2>1. i \in Nat
    BY <1>1
  <2> QED
    BY <1>2, <2>1, SignGood, SortedSign
<1> HIDE DEF ss
<1>4. CASE Inputs = 0
  <2>1. Signatures(p) = <<>>
    BY <1>2, <1>4 DEF Signatures, FlattenSeq, ss
  <2>2. Sorted(<<>>, 20, 16 * Inputs + 20) /\ <<>> \in Seq(G) /\ Elems(<<>>) = {}
    BY DEF Sorted, Elems
  <2>3. 1 .. Inputs = {}
    BY <1>4
  <2> QED
    BY <2>1, <2>2, <2>3
<1>5. CASE Inputs # 0
  <2> DEFINE f == CHOOSE f : Flattened(ss, f, Len(ss))
             E(i) == UNION {Elems(SignRounds(p, j)) : j \in 1 .. i}
             Goal(i) == f[i] \in Seq(G) /\ Sorted(f[i], 20, 16 * i + 20) /\ Elems(f[i]) = E(i)
             S == {i \in Nat : i \in 1 .. Inputs => Goal(i)}
  <2>1. Flattened(ss, f, Inputs)
    BY <1>1, <1>2, FlattenedExists
  <2>2. Signatures(p) = f[Inputs]
    BY <1>2, <1>5 DEF Signatures, ss, FlattenSeq, Flattened
  <2> HIDE DEF f
  <2>3. \A i \in 1 .. Inputs : f[i] = IF i = 1 THEN ss[i] ELSE f[i - 1] \o ss[i]
    BY <2>1 DEF Flattened
  <2>4. 0 \in S
    OBVIOUS
  <2>5. ASSUME NEW i \in S, i + 1 \in 1 .. Inputs PROVE Goal(i + 1)
    <3>1. ss[i + 1] \in Seq(G) /\ Sorted(ss[i + 1], 16 * (i + 1) + 4, 16 * (i + 1) + 20)
          /\ ss[i + 1] = SignRounds(p, i + 1)
      BY <1>2, <1>3, <2>5
    <3>2. CASE i = 0
      <4>1. f[1] = ss[1] /\ i + 1 = 1 /\ 16 * 1 + 4 = 20
        BY <2>3, <2>5, <3>2
      <4>2. E(1) = Elems(SignRounds(p, 1))
        <5>1. 1 .. 1 = {1}
          OBVIOUS
        <5> QED
          BY <5>1
      <4> HIDE DEF E
      <4> QED
        BY <3>1, <4>1, <4>2
    <3>3. CASE i # 0
      <4>1. i \in 1 .. Inputs /\ (i + 1) - 1 = i /\ i + 1 # 1 /\ i \in Nat
        BY <1>1, <2>5, <3>3
      <4>2. f[i + 1] = Cat(f[i], ss[i + 1]) /\ Goal(i)
        BY <2>3, <2>5, <4>1 DEF Cat
      <4>3. /\ 20 \in Nat /\ 16 * i + 20 \in Nat /\ 16 * (i + 1) + 4 \in Nat /\ 16 * (i + 1) + 20 \in Nat
            /\ 20 <= 16 * i + 20 /\ 16 * i + 20 <= 16 * (i + 1) + 4
            /\ 16 * (i + 1) + 4 <= 16 * (i + 1) + 20
        BY <4>1
      <4>4. 1 .. i + 1 = (1 .. i) \cup {i + 1}
        BY <4>1
      <4>5. E(i + 1) = E(i) \cup Elems(SignRounds(p, i + 1))
        BY <4>4
      <4> HIDE DEF E
      <4>6. f[i + 1] \in Seq(G) /\ Sorted(f[i + 1], 20, 16 * (i + 1) + 20)
        BY <3>1, <4>2, <4>3, SortedCat
      <4>7. Elems(f[i + 1]) = E(i + 1)
        <5>1. f[i] \in Seq(G) /\ Elems(f[i]) = E(i)
          BY <4>2
        <5>2. Elems(Cat(f[i], ss[i + 1])) = Elems(f[i]) \cup Elems(ss[i + 1])
          BY <3>1, <5>1, ElemsCat
        <5> QED
          BY <3>1, <4>2, <4>5, <5>1, <5>2
      <4> QED
        BY <4>6, <4>7
    <3> QED
      BY <3>2, <3>3
  <2> HIDE DEF Goal
  <2>6. ASSUME NEW i \in S PROVE i + 1 \in S
    <3>1. i + 1 \in Nat
      OBVIOUS
    <3> QED
      BY <2>5, <3>1
  <2> HIDE DEF S
  <2>7. S = Nat
    <3>1. S \in SUBSET Nat
      BY DEF S
    <3> QED
      BY <2>4, <2>6, <3>1, NatSetInduction
  <2>8. Goal(Inputs)
    BY <1>1, <1>5, <2>7 DEF S
  <2> QED
    BY <2>2, <2>8 DEF Goal
<1> QED
  BY <1>4, <1>5

\* A script of p, the places it covers and the steps it has.
Listing(p, s, a, b, S) == s \in Seq(GoodStep(p)) /\ Sorted(s, a, b) /\ Elems(s) = S

LEMMA ListingCat ==
    ASSUME NEW p, NEW s, NEW t, NEW a \in Nat, NEW b \in Nat, NEW c \in Nat, NEW d \in Nat,
           NEW S, NEW T, a <= b, b <= c, c <= d, Listing(p, s, a, b, S), Listing(p, t, c, d, T)
    PROVE  Listing(p, Cat(s, t), a, d, S \cup T)
<1> DEFINE G == GoodStep(p)
<1>1. s \in Seq(G) /\ t \in Seq(G) /\ Sorted(s, a, b) /\ Sorted(t, c, d)
      /\ Elems(s) = S /\ Elems(t) = T
  BY DEF Listing
<1> HIDE DEF G
<1>2. Cat(s, t) \in Seq(G) /\ Sorted(Cat(s, t), a, d)
  BY <1>1, SortedCat
<1>3. Elems(Cat(s, t)) = Elems(s) \cup Elems(t)
  BY <1>1, ElemsCat
<1> QED
  BY <1>1, <1>2, <1>3 DEF Listing, G

\* The parts of the scripts in the phase k.
LEMMA ListedParts ==
    ASSUME NEW p \in Party, NEW name \in Names, NEW of \in Ids, NEW k \in Nat,
           Phase(Id(name)) = k, NEW a \in Nat, NEW b \in Nat, a = 4 * k, b = a + 3
    PROVE  /\ ~OneSender(Id(name)) =>
                Listing(p, Broadcasts(p, Id(name), of), a, b, Elems(Broadcasts(p, Id(name), of)))
           /\ Listing(p, Announce(p, Id(name)), a, b, Elems(Announce(p, Id(name))))
           /\ OneSender(Id(name)) =>
                Listing(p, Exchange(p, Id(name)), a, b, Elems(Exchange(p, Id(name))))
           /\ Listing(p, <<WaitForBarrier(Id(name))>>, a, b, {WaitForBarrier(Id(name))})
<1>1. Id(name) \in Ids
  BY IdType
<1> DEFINE id == Id(name)
<1> HIDE DEF id
<1>2. id \in Ids
  BY <1>1 DEF id
<1>3. /\ ~OneSender(id) => Broadcasts(p, id, of) \in Seq(GoodStep(p))
      /\ Announce(p, id) \in Seq(GoodStep(p))
      /\ OneSender(id) => Exchange(p, id) \in Seq(GoodStep(p))
  BY <1>2, BroadcastsGood, AnnounceGood
<1>4. <<WaitForBarrier(id)>> \in Seq(GoodStep(p))
  BY <1>2, OneStep, ShortLists
<1>5. /\ Sorted(Broadcasts(p, id, of), a, b) /\ Sorted(Announce(p, id), a, b)
      /\ Sorted(Exchange(p, id), a, b) /\ Sorted(<<WaitForBarrier(id)>>, a, b)
  <2>1. 4 * Phase(id) = a /\ 4 * Phase(id) + 3 = b /\ Phase(id) \in Nat
    BY DEF id
  <2> QED
    BY <2>1, SortedParts
<1>6. Elems(<<WaitForBarrier(id)>>) = {WaitForBarrier(id)}
  BY ElemsLists
<1>7. /\ ~OneSender(id) => Listing(p, Broadcasts(p, id, of), a, b, Elems(Broadcasts(p, id, of)))
      /\ Listing(p, Announce(p, id), a, b, Elems(Announce(p, id)))
      /\ OneSender(id) => Listing(p, Exchange(p, id), a, b, Elems(Exchange(p, id)))
      /\ Listing(p, <<WaitForBarrier(id)>>, a, b, {WaitForBarrier(id)})
  BY <1>3, <1>4, <1>5, <1>6 DEF Listing
<1> QED
  BY <1>7 DEF id

LEMMA ListedChecks ==
    ASSUME NEW p \in Party
    PROVE  /\ Listing(p, <<Verify("part3", R2)>>, 20, 21, {Verify("part3", R2)})
           /\ Listing(p, <<Verify("hashes", Id("metadata-hash"))>>, 31, 32,
                      {Verify("hashes", Id("metadata-hash"))})
           /\ kind = "fromtSpend" => Listing(p, <<Verify("complete", Id("share"))>>, 15, 16,
                                             {Verify("complete", Id("share"))})
<1>1. R2 \in Ids /\ Id("metadata-hash") \in Ids /\ Id("share") \in Ids
  BY IdType DEF Names, R2
<1>2. /\ Verify("part3", R2) \in GoodStep(p) /\ Verify("hashes", Id("metadata-hash")) \in GoodStep(p)
      /\ Verify("complete", Id("share")) \in GoodStep(p)
  BY <1>1, OneStep
<1>3. /\ Place(Verify("part3", R2)) = 20 /\ Place(Verify("hashes", Id("metadata-hash"))) = 31
      /\ kind = "fromtSpend" => Place(Verify("complete", Id("share"))) = 15
  BY Phases, Places
<1>4. 20 \in 20 .. 21 - 1 /\ 31 \in 31 .. 32 - 1 /\ 15 \in 15 .. 16 - 1
  OBVIOUS
<1>5. /\ Sorted(<<Verify("part3", R2)>>, 20, 21)
      /\ Sorted(<<Verify("hashes", Id("metadata-hash"))>>, 31, 32)
      /\ kind = "fromtSpend" => Sorted(<<Verify("complete", Id("share"))>>, 15, 16)
  BY <1>3, <1>4, SortedLists
<1> QED
  BY <1>2, <1>5, ShortLists, ElemsLists DEF Listing

DkgSteps(p) == Elems(Broadcasts(p, R1, R1)) \cup Elems(Shares(p)) \cup Elems(Closing)

LEMMA ListedDkg ==
    ASSUME NEW p \in Party
    PROVE  Listing(p, DkgRounds(p), 8, 15, DkgSteps(p))
<1>1. R1 \in Ids /\ R2 \in Ids /\ ~OneSender(R1) /\ ~OneSender(R2)
  BY IdType DEF Names, R1, R2
<1>2. Listing(p, Broadcasts(p, R1, R1), 8, 11, Elems(Broadcasts(p, R1, R1)))
  <2>1. Phase(Id("round1")) = 2 /\ "round1" \in Names
    BY Phases DEF Names
  <2>2. 8 = 4 * 2 /\ 11 = 8 + 3
    OBVIOUS
  <2> QED
    BY <1>1, <2>1, <2>2, ListedParts DEF R1
<1>3. Listing(p, Shares(p), 12, 13, Elems(Shares(p)))
  BY SortedShares, PerRecipientSteps DEF Listing, Shares
<1>4. Listing(p, Closing, 13, 15, Elems(Closing))
  <2>1. Closing \in Seq(GoodStep(p))
    BY <1>1, OneStep, ShortLists DEF Closing
  <2> QED
    BY <2>1, SortedShares DEF Listing
<1>5. Listing(p, Cat(Broadcasts(p, R1, R1), Shares(p)), 8, 13,
                 Elems(Broadcasts(p, R1, R1)) \cup Elems(Shares(p)))
  BY <1>2, <1>3, ListingCat
<1>6. Listing(p, Cat(Cat(Broadcasts(p, R1, R1), Shares(p)), Closing), 8, 15, DkgSteps(p))
  BY <1>4, <1>5, ListingCat DEF DkgSteps
<1> QED
  BY <1>6 DEF DkgRounds, Cat, Shares, Closing, R1, R2

LEMMA ListedFroztImport ==
    ASSUME NEW p \in Party, kind = "froztImport"
    PROVE  Listing(p, FroztImport(p), 8, 32,
             ((DkgSteps(p) \cup Elems(Exchange(p, Id("expected-vk")))) \cup {Verify("part3", R2)})
             \cup ((Elems(Exchange(p, Id("metadata")))
                    \cup Elems(Broadcasts(p, Id("metadata-hash"), Id("metadata"))))
                   \cup {Verify("hashes", Id("metadata-hash"))}))
<1> DEFINE D == DkgRounds(p)
           X == Exchange(p, Id("expected-vk"))
           V == <<Verify("part3", R2)>>
           M == Exchange(p, Id("metadata"))
           H == Broadcasts(p, Id("metadata-hash"), Id("metadata"))
           W == <<Verify("hashes", Id("metadata-hash"))>>
<1>1. /\ "expected-vk" \in Names /\ "metadata" \in Names /\ "metadata-hash" \in Names
      /\ Id("metadata") \in Ids
      /\ OneSender(Id("expected-vk")) /\ OneSender(Id("metadata")) /\ ~OneSender(Id("metadata-hash"))
  BY IdType DEF Names
<1>2. /\ Phase(Id("expected-vk")) = 4 /\ Phase(Id("metadata")) = 6 /\ Phase(Id("metadata-hash")) = 7
  BY Phases
<1>3. /\ 16 = 4 * 4 /\ 19 = 16 + 3 /\ 24 = 4 * 6 /\ 27 = 24 + 3 /\ 28 = 4 * 7 /\ 31 = 28 + 3
  OBVIOUS
<1>4. Listing(p, D, 8, 15, DkgSteps(p))
  BY ListedDkg
<1>5. Listing(p, X, 16, 19, Elems(X))
  BY <1>1, <1>2, <1>3, ListedParts
<1>6. Listing(p, V, 20, 21, {Verify("part3", R2)})
  BY ListedChecks
<1>7. Listing(p, M, 24, 27, Elems(M))
  BY <1>1, <1>2, <1>3, ListedParts
<1>8. Listing(p, H, 28, 31, Elems(H)) /\ Listing(p, W, 31, 32, {Verify("hashes", Id("metadata-hash"))})
  BY <1>1, <1>2, <1>3, ListedParts, ListedChecks
<1>9. FroztImport(p) = Cat(Cat(Cat(D, X), V), Cat(Cat(M, H), W))
  BY DEF FroztImport, ImportMetadata, Cat, R2
<1> HIDE DEF D, X, V, M, H, W
<1>10. Listing(p, Cat(D, X), 8, 19, DkgSteps(p) \cup Elems(X))
  BY <1>4, <1>5, ListingCat
<1>11. Listing(p, Cat(Cat(D, X), V), 8, 21, (DkgSteps(p) \cup Elems(X)) \cup {Verify("part3", R2)})
  BY <1>6, <1>10, ListingCat
<1>12. Listing(p, Cat(M, H), 24, 31, Elems(M) \cup Elems(H))
  BY <1>7, <1>8, ListingCat
<1>13. Listing(p, Cat(Cat(M, H), W), 24, 32,
               (Elems(M) \cup Elems(H)) \cup {Verify("hashes", Id("metadata-hash"))})
  BY <1>8, <1>12, ListingCat
<1>14. Listing(p, Cat(Cat(Cat(D, X), V), Cat(Cat(M, H), W)), 8, 32,
               ((DkgSteps(p) \cup Elems(X)) \cup {Verify("part3", R2)})
               \cup ((Elems(M) \cup Elems(H)) \cup {Verify("hashes", Id("metadata-hash"))}))
  BY <1>11, <1>13, ListingCat
<1> QED
  BY <1>9, <1>14 DEF X, M, H

LEMMA ListedFirst ==
    ASSUME NEW p \in Party, NEW name \in Names, Phase(Id(name)) = 0
    PROVE  Listing(p, Announce(p, Id(name)), 0, 3, Elems(Announce(p, Id(name))))
<1>1. PICK k \in Nat, a \in Nat, b \in Nat : k = 0 /\ a = 0 /\ b = 3
  OBVIOUS
<1>2. Phase(Id(name)) = k /\ a = 4 * k /\ b = a + 3
  BY <1>1
<1>3. Id(name) \in Ids
  BY IdType
<1>4. Listing(p, Announce(p, Id(name)), a, b, Elems(Announce(p, Id(name))))
  BY <1>2, <1>3, ListedParts
<1> QED
  BY <1>1, <1>4

LEMMA ListedFromtImport ==
    ASSUME NEW p \in Party, kind = "fromtImport"
    PROVE  Listing(p, FromtImport(p), 0, 21,
             ((Elems(Announce(p, Id("expected-vk"))) \cup {WaitForBarrier(Id("vk-exchanged"))})
              \cup DkgSteps(p)) \cup {Verify("part3", R2)})
<1> DEFINE A == Announce(p, Id("expected-vk"))
           B == <<WaitForBarrier(Id("vk-exchanged"))>>
           D == DkgRounds(p)
           V == <<Verify("part3", R2)>>
<1>1. "expected-vk" \in Names /\ "vk-exchanged" \in Names /\ Id("metadata") \in Ids
  BY IdType DEF Names
<1>2. Phase(Id("expected-vk")) = 0 /\ Phase(Id("vk-exchanged")) = 1
  BY Phases
<1>3. 4 = 4 * 1 /\ 7 = 4 + 3
  OBVIOUS
<1>4. Listing(p, A, 0, 3, Elems(A))
  BY <1>1, <1>2, ListedFirst
<1>5. Listing(p, B, 4, 7, {WaitForBarrier(Id("vk-exchanged"))})
  BY <1>1, <1>2, <1>3, ListedParts
<1>6. Listing(p, D, 8, 15, DkgSteps(p)) /\ Listing(p, V, 20, 21, {Verify("part3", R2)})
  BY ListedDkg, ListedChecks
<1>7. FromtImport(p) = Cat(Cat(Cat(A, B), D), V)
  BY DEF FromtImport, Cat, R2
<1> HIDE DEF A, B, D, V
<1>8. Listing(p, Cat(A, B), 0, 7, Elems(A) \cup {WaitForBarrier(Id("vk-exchanged"))})
  BY <1>4, <1>5, ListingCat
<1>9. Listing(p, Cat(Cat(A, B), D), 0, 15,
              (Elems(A) \cup {WaitForBarrier(Id("vk-exchanged"))}) \cup DkgSteps(p))
  BY <1>6, <1>8, ListingCat
<1>10. Listing(p, Cat(Cat(Cat(A, B), D), V), 0, 21,
               ((Elems(A) \cup {WaitForBarrier(Id("vk-exchanged"))}) \cup DkgSteps(p))
               \cup {Verify("part3", R2)})
  BY <1>6, <1>9, ListingCat
<1> QED
  BY <1>7, <1>10 DEF A

LEMMA ListedSign ==
    ASSUME NEW p \in Party, lead \in Party, kind # "fromtSpend"
    PROVE  /\ Listing(p, FroztSign(p), 4, 20, Elems(SignRounds(p, 0)))
           /\ Listing(p, FromtSign(p), 4, 23,
                      Elems(SignRounds(p, 0)) \cup {WaitForBarrier(Id("sign-done"))})
<1> DEFINE S == SignRounds(p, 0)
           B == <<WaitForBarrier(Id("sign-done"))>>
<1>1. Listing(p, S, 4, 20, Elems(S))
  <2>1. 16 * 0 + 4 = 4 /\ 16 * 0 + 20 = 20 /\ 0 \in Nat
    OBVIOUS
  <2>2. Sorted(S, 16 * 0 + 4, 16 * 0 + 20) /\ S \in Seq(GoodStep(p))
    BY <2>1, SortedSign, SignGood
  <2> HIDE DEF S
  <2> QED
    BY <2>1, <2>2 DEF Listing
<1>2. Listing(p, B, 20, 23, {WaitForBarrier(Id("sign-done"))})
  <2>1. "sign-done" \in Names /\ Id("metadata") \in Ids /\ Phase(Id("sign-done")) = 5
    BY IdType, Phases DEF Names
  <2>2. 20 = 4 * 5 /\ 23 = 20 + 3
    OBVIOUS
  <2> QED
    BY <2>1, <2>2, ListedParts
<1>3. FroztSign(p) = S /\ FromtSign(p) = Cat(S, B)
  BY DEF FroztSign, FromtSign, Cat
<1> HIDE DEF S, B
<1>4. Listing(p, Cat(S, B), 4, 23, Elems(S) \cup {WaitForBarrier(Id("sign-done"))})
  BY <1>1, <1>2, ListingCat
<1> QED
  BY <1>1, <1>3, <1>4 DEF S

LEMMA ListedFroztSpend ==
    ASSUME NEW p \in Party, lead \in Party, kind = "froztSpend"
    PROVE  Listing(p, FroztSpend(p), 0, 16 * Inputs + 23,
             (Elems(Announce(p, Id("sighash")))
              \cup UNION {Elems(SignRounds(p, i)) : i \in 1 .. Inputs})
             \cup Elems(Announce(p, Id("broadcast-done"))))
<1> DEFINE A == Announce(p, Id("sighash"))
           S == Signatures(p)
           Z == Announce(p, Id("broadcast-done"))
           E == UNION {Elems(SignRounds(p, i)) : i \in 1 .. Inputs}
<1>0. Inputs \in Nat
  BY RoundsAssumption
<1>1. "sighash" \in Names /\ "broadcast-done" \in Names /\ Id("metadata") \in Ids
  BY IdType DEF Names
<1>2. Phase(Id("sighash")) = 0 /\ Phase(Id("broadcast-done")) = 4 * Inputs + 5
  BY Phases
<1>3. Listing(p, A, 0, 3, Elems(A))
  BY <1>1, <1>2, ListedFirst
<1>4. PICK n \in Nat : n = 16 * Inputs + 20
  BY <1>0
<1>5. Listing(p, Z, n, n + 3, Elems(Z))
  <2>1. n = 4 * (4 * Inputs + 5) /\ 4 * Inputs + 5 \in Nat /\ n + 3 \in Nat
    BY <1>0, <1>4
  <2> QED
    BY <1>1, <1>2, <2>1, ListedParts
<1>6. Listing(p, S, 20, n, E)
  BY <1>4, SortedSignatures DEF Listing
<1>7. FroztSpend(p) = Cat(Cat(A, S), Z)
  BY DEF FroztSpend, Cat, Signatures
<1> HIDE DEF A, S, Z, E
<1>8. 20 <= n /\ n <= n + 3 /\ n + 3 = 16 * Inputs + 23 /\ n + 3 \in Nat
  BY <1>0, <1>4
<1>9. Listing(p, Cat(A, S), 0, n, Elems(A) \cup E)
  BY <1>3, <1>6, <1>8, ListingCat
<1>10. Listing(p, Cat(Cat(A, S), Z), 0, n + 3, (Elems(A) \cup E) \cup Elems(Z))
  BY <1>5, <1>8, <1>9, ListingCat
<1> QED
  BY <1>7, <1>8, <1>10 DEF A, Z, E

LEMMA ListedFromtSpend ==
    ASSUME NEW p \in Party, kind = "fromtSpend"
    PROVE  Listing(p, FromtSpend(p), 0, 23,
             (((((Elems(Announce(p, Id("signable-tx"))) \cup {WaitForBarrier(Id("tx-exchanged"))})
                 \cup Elems(Broadcasts(p, Id("preprocess"), Id("preprocess"))))
                \cup Elems(Broadcasts(p, Id("share"), Id("preprocess"))))
               \cup {Verify("complete", Id("share"))})
              \cup Elems(Announce(p, Id("offsets"))))
             \cup {WaitForBarrier(Id("spend-done"))})
<1> DEFINE A == Announce(p, Id("signable-tx"))
           B == <<WaitForBarrier(Id("tx-exchanged"))>>
           P == Broadcasts(p, Id("preprocess"), Id("preprocess"))
           S == Broadcasts(p, Id("share"), Id("preprocess"))
           V == <<Verify("complete", Id("share"))>>
           O == Announce(p, Id("offsets"))
           Z == <<WaitForBarrier(Id("spend-done"))>>
<1>1. /\ "signable-tx" \in Names /\ "tx-exchanged" \in Names /\ "preprocess" \in Names
      /\ "share" \in Names /\ "offsets" \in Names /\ "spend-done" \in Names
      /\ Id("preprocess") \in Ids /\ ~OneSender(Id("preprocess")) /\ ~OneSender(Id("share"))
  BY IdType DEF Names
<1>2. /\ Phase(Id("signable-tx")) = 0 /\ Phase(Id("tx-exchanged")) = 1
      /\ Phase(Id("preprocess")) = 2 /\ Phase(Id("share")) = 3 /\ Phase(Id("offsets")) = 4
      /\ Phase(Id("spend-done")) = 5
  BY Phases
<1>3. /\ 4 = 4 * 1 /\ 7 = 4 + 3 /\ 8 = 4 * 2 /\ 11 = 8 + 3
      /\ 12 = 4 * 3 /\ 15 = 12 + 3 /\ 16 = 4 * 4 /\ 19 = 16 + 3 /\ 20 = 4 * 5 /\ 23 = 20 + 3
  OBVIOUS
<1>4. Listing(p, A, 0, 3, Elems(A))
  BY <1>1, <1>2, ListedFirst
<1>5. Listing(p, B, 4, 7, {WaitForBarrier(Id("tx-exchanged"))})
  BY <1>1, <1>2, <1>3, ListedParts
<1>6. Listing(p, P, 8, 11, Elems(P))
  BY <1>1, <1>2, <1>3, ListedParts
<1>7. Listing(p, S, 12, 15, Elems(S))
  BY <1>1, <1>2, <1>3, ListedParts
<1>8. Listing(p, V, 15, 16, {Verify("complete", Id("share"))})
  BY ListedChecks
<1>9. Listing(p, O, 16, 19, Elems(O))
  BY <1>1, <1>2, <1>3, ListedParts
<1>10. Listing(p, Z, 20, 23, {WaitForBarrier(Id("spend-done"))})
  BY <1>1, <1>2, <1>3, ListedParts
<1>11. FromtSpend(p) = Cat(Cat(Cat(Cat(Cat(Cat(A, B), P), S), V), O), Z)
  BY DEF FromtSpend, Cat
<1> DEFINE T1 == Elems(A) \cup {WaitForBarrier(Id("tx-exchanged"))}
           T2 == T1 \cup Elems(P)
           T3 == T2 \cup Elems(S)
           T4 == T3 \cup {Verify("complete", Id("share"))}
           T5 == T4 \cup Elems(O)
           T6 == T5 \cup {WaitForBarrier(Id("spend-done"))}
<1> HIDE DEF A, B, P, S, V, O, Z
<1>12. Listing(p, Cat(A, B), 0, 7, T1)
  BY <1>4, <1>5, ListingCat
<1> HIDE DEF T1
<1>13. Listing(p, Cat(Cat(A, B), P), 0, 11, T2)
  BY <1>6, <1>12, ListingCat
<1> HIDE DEF T2
<1>14. Listing(p, Cat(Cat(Cat(A, B), P), S), 0, 15, T3)
  BY <1>7, <1>13, ListingCat
<1> HIDE DEF T3
<1>15. Listing(p, Cat(Cat(Cat(Cat(A, B), P), S), V), 0, 16, T4)
  BY <1>8, <1>14, ListingCat
<1> HIDE DEF T4
<1>16. Listing(p, Cat(Cat(Cat(Cat(Cat(A, B), P), S), V), O), 0, 19, T5)
  BY <1>9, <1>15, ListingCat
<1> HIDE DEF T5
<1>17. Listing(p, Cat(Cat(Cat(Cat(Cat(Cat(A, B), P), S), V), O), Z), 0, 23, T6)
  BY <1>10, <1>16, ListingCat
<1> QED
  BY <1>11, <1>17 DEF T1, T2, T3, T4, T5, A, P, S, O

Steps(p) == Elems(Script(p))

\* The steps of every script are in the order of their places; two steps have the
\* same place only where both are sends.
LEMMA Ordered ==
    ASSUME NEW p \in Party, lead \in Party, kind \in Kinds
    PROVE  \E a, b \in Nat : Sorted(Script(p), a, b)
<1>0. Inputs \in Nat
  BY RoundsAssumption
<1>1. CASE kind = "froztImport"
  BY <1>1, ListedFroztImport DEF Listing, Script
<1>2. CASE kind = "fromtImport"
  BY <1>2, ListedFromtImport DEF Listing, Script
<1>3. CASE kind = "froztSign" \/ kind = "fromtSign"
  BY <1>3, ListedSign DEF Listing, Script
<1>4. CASE kind = "froztSpend"
  <2>1. 16 * Inputs + 23 \in Nat
    BY <1>0
  <2>2. Sorted(Script(p), 0, 16 * Inputs + 23)
    BY <1>4, ListedFroztSpend DEF Listing, Script
  <2> QED
    BY <2>1, <2>2
<1>5. CASE kind = "fromtSpend"
  BY <1>5, ListedFromtSpend DEF Listing, Script
<1> QED
  BY <1>1, <1>2, <1>3, <1>4, <1>5 DEF Kinds

LEMMA InOrder ==
    ASSUME NEW p \in Party, lead \in Party, kind \in Kinds,
           NEW i \in 1 .. Len(Script(p)), NEW j \in 1 .. Len(Script(p))
    PROVE  /\ Place(Script(p)[i]) \in Nat /\ Place(Script(p)[j]) \in Nat
           /\ i <= j => Place(Script(p)[i]) <= Place(Script(p)[j])
           /\ Place(Script(p)[i]) < Place(Script(p)[j]) => i < j
           /\ Place(Script(p)[i]) = Place(Script(p)[j]) /\ Script(p)[i].op # "send" => i = j
<1> DEFINE s == Script(p)
<1>1. PICK a \in Nat, b \in Nat : Sorted(s, a, b)
  BY Ordered
<1>2. Len(s) \in Nat
  BY ScriptGood, LenProperties
<1> HIDE DEF s
<1>3. \A k \in 1 .. Len(s) : Place(s[k]) \in Nat
  <2> TAKE k \in 1 .. Len(s)
  <2>1. Place(s[k]) \in a .. b - 1
    BY <1>1 DEF Sorted
  <2> QED
    BY <2>1
<1>4. \A k, l \in 1 .. Len(s) : k < l =>
        Place(s[k]) <= Place(s[l]) /\ (Place(s[k]) = Place(s[l]) => s[k].op = "send" /\ s[l].op = "send")
  <2> TAKE k, l \in 1 .. Len(s)
  <2> HAVE k < l
  <2>1. Before(s[k], s[l])
    BY <1>1 DEF Sorted
  <2>2. Place(s[k]) \in Nat /\ Place(s[l]) \in Nat
    BY <1>3
  <2> QED
    BY <2>1, <2>2 DEF Before
<1>5. i \in 1 .. Len(s) /\ j \in 1 .. Len(s)
  BY DEF s
<1>6. Place(s[i]) \in Nat /\ Place(s[j]) \in Nat
  BY <1>3, <1>5
<1>7. /\ i < j => Place(s[i]) <= Place(s[j])
               /\ (Place(s[i]) = Place(s[j]) => s[i].op = "send" /\ s[j].op = "send")
      /\ j < i => Place(s[j]) <= Place(s[i])
               /\ (Place(s[j]) = Place(s[i]) => s[j].op = "send" /\ s[i].op = "send")
  BY <1>4, <1>5
<1>8. i < j \/ i = j \/ j < i
  BY <1>2, <1>5
<1>9. /\ i <= j => Place(s[i]) <= Place(s[j])
      /\ Place(s[i]) < Place(s[j]) => i < j
      /\ Place(s[i]) = Place(s[j]) /\ s[i].op # "send" => i = j
  <2>1. CASE i < j
    BY <1>5, <1>6, <1>7, <2>1
  <2>2. CASE i = j
    BY <1>5, <1>6, <2>2
  <2>3. CASE j < i
    <3>1. i \in Nat /\ j \in Nat
      BY <1>2, <1>5
    <3> QED
      BY <1>6, <1>7, <2>3, <3>1
  <2> QED
    BY <1>8, <2>1, <2>2, <2>3
<1> QED
  BY <1>6, <1>9 DEF s
-----------------------------------------------------------------------------
(***************************************************************************)
(* What the scripts of the parties owe each other.                         *)
(***************************************************************************)
\* A step of q sends a message of this id to p.
Posts(q, id, p) == \E u \in Steps(q) : u.op = "send" /\ u.id = id /\ p \in u.to

\* The shares that the coordinator of a signature collects without a barrier.
Lone(id) == id[1] = "share" /\ kind # "fromtSpend"

\* A step of p with an earlier place.
Earlier(p, s, op, id) ==
    \E u \in Steps(p) : u.op = op /\ u.id = id /\ Place(u) < Place(s)

\* A barrier is a barrier of all, what is read is sent by somebody, what is collected
\* from all is sent by all and, but for signature shares, stands behind a barrier.
Met(s) ==
    s.op = "barrier" => \A q \in Party : \E u \in Steps(q) : u.op = "barrier" /\ u.id = s.id
Fed(p, s) == s.op \in {"collect", "wait"} => \E q \in Party : Posts(q, s.id, p)
Gathered(p, s) ==
    s.op = "collect" /\ ~OneSender(s.id) /\ ~Lone(s.id) =>
        /\ \E u \in Steps(p) : u.op = "barrier" /\ u.id = s.id
        /\ \A q \in OtherParties(p) : Posts(q, s.id, p)

\* What a message is computed from has been read before.
Computed(p, s) ==
    s.op = "send" =>
        /\ s.id[1] = "package" => p = lead /\ ~OneSender(s.of) /\ Earlier(p, s, "collect", s.of)
        /\ s.id[1] = "share" =>
             IF kind = "fromtSpend" THEN ~OneSender(s.of) /\ Earlier(p, s, "collect", s.of)
             ELSE s.of[1] = "package" /\ Earlier(p, s, "wait", s.of)
        /\ s.id[1] = "metadata-hash" =>
             p = lead \/ (OneSender(s.of) /\ Earlier(p, s, "collect", s.of))

\* What is checked has been read before.
Checkable(p, s) ==
    /\ s.op = "part3" => Earlier(p, s, "collect", R1) /\ Earlier(p, s, "collect", R2)
    /\ s.op = "sign" => s.id[1] = "package"
    /\ s.op = "aggregate" => p = lead /\ Lone(s.id)
    /\ s.op = "hashes" => s.id[1] = "metadata-hash"
    /\ s.op = "complete" =>
         kind = "fromtSpend" /\ s.id[1] = "share" /\ Earlier(p, s, "collect", Id("preprocess"))

Supported(p, s) == Met(s) /\ Fed(p, s) /\ Gathered(p, s) /\ Computed(p, s) /\ Checkable(p, s)

\* Names of messages that are not computed from what was read.
Plain(id) == id[1] \notin {"package", "share", "metadata-hash"}

\* The fields of the steps.
LEMMA Fields ==
    ASSUME NEW id
    PROVE  /\ \A to, of : /\ Send(id, to, of).op = "send" /\ Send(id, to, of).id = id
                          /\ Send(id, to, of).to = to /\ Send(id, to, of).of = of
           /\ WaitForBarrier(id).op = "barrier" /\ WaitForBarrier(id).id = id
           /\ \A n : CollectMessages(id, n).op = "collect" /\ CollectMessages(id, n).id = id
           /\ WaitForMessage(id).op = "wait" /\ WaitForMessage(id).id = id
           /\ \A what : Verify(what, id).op = what /\ Verify(what, id).id = id
BY DEF Send, WaitForBarrier, CollectMessages, WaitForMessage, Verify

\* A kind of step at a time.
LEMMA SupportedSteps ==
    ASSUME NEW p, NEW s
    PROVE  /\ s.op = "send" /\ Computed(p, s) => Supported(p, s)
           /\ s.op = "barrier" /\ Met(s) => Supported(p, s)
           /\ s.op = "collect" /\ Fed(p, s) /\ Gathered(p, s) => Supported(p, s)
           /\ s.op = "wait" /\ Fed(p, s) => Supported(p, s)
           /\ s.op \in {"part3", "hashes", "sign", "aggregate", "complete"} /\ Checkable(p, s)
                => Supported(p, s)
BY DEF Supported, Met, Fed, Gathered, Computed, Checkable

\* There is another party.
LEMMA Another ==
    ASSUME NEW p \in Party
    PROVE  \E q \in Party : q # p /\ p \in OtherParties(q)
BY RoundsAssumption DEF OtherParties

LEMMA BroadcastsSupported ==
    ASSUME NEW id \in Ids, NEW of,
           \A q \in Party : Elems(Broadcasts(q, id, of)) \subseteq Steps(q),
           \A q \in Party : Computed(q, Send(id, OtherParties(q), of)),
           NEW p \in Party, NEW s \in Elems(Broadcasts(p, id, of))
    PROVE  Supported(p, s)
<1> DEFINE snd(q) == Send(id, OtherParties(q), of)
           bar == WaitForBarrier(id)
           col == CollectMessages(id, Others)
<1>1. \A q : Elems(Broadcasts(q, id, of)) = {snd(q), bar, col}
  BY ElemsLists DEF Broadcasts
<1>2. /\ \A q : snd(q).op = "send" /\ snd(q).id = id /\ snd(q).to = OtherParties(q)
      /\ bar.op = "barrier" /\ bar.id = id /\ col.op = "collect" /\ col.id = id
  BY Fields
<1>3. \A q \in Party : snd(q) \in Steps(q) /\ bar \in Steps(q)
  BY <1>1
<1>4. \A q \in Party : Computed(q, snd(q))
  OBVIOUS
<1>5. s \in {snd(p), bar, col}
  BY <1>1
<1> HIDE DEF snd, bar, col
<1>6. \A q \in OtherParties(p) : Posts(q, id, p)
  BY <1>2, <1>3 DEF Posts, OtherParties
<1>7. \E q \in Party : Posts(q, id, p)
  BY <1>6, Another DEF OtherParties
<1>8. Met(bar)
  BY <1>2, <1>3 DEF Met
<1>9. Fed(p, col) /\ Gathered(p, col)
  BY <1>2, <1>3, <1>6, <1>7 DEF Fed, Gathered
<1>10. Supported(p, snd(p)) /\ Supported(p, bar) /\ Supported(p, col)
  BY <1>2, <1>4, <1>8, <1>9, SupportedSteps
<1> QED
  BY <1>5, <1>10

LEMMA AnnounceSupported ==
    ASSUME NEW id, Plain(id), lead \in Party,
           NEW p \in Party, NEW s,
           \/ /\ \A q \in Party : Elems(Announce(q, id)) \subseteq Steps(q)
              /\ s \in Elems(Announce(p, id))
           \/ /\ \A q \in Party : Elems(Exchange(q, id)) \subseteq Steps(q)
              /\ s \in Elems(Exchange(p, id)) /\ OneSender(id)
    PROVE  Supported(p, s)
<1> DEFINE snd == Send(id, OtherParties(lead), id)
           wai == WaitForMessage(id)
           col == CollectMessages(id, 1)
<1>1. /\ \A q : Elems(Announce(q, id)) = {IF q = lead THEN snd ELSE wai}
      /\ \A q : Elems(Exchange(q, id)) = {IF q = lead THEN snd ELSE col}
  BY ElemsLists DEF Announce, Exchange
<1>2. /\ snd.op = "send" /\ snd.id = id /\ snd.to = OtherParties(lead)
      /\ wai.op = "wait" /\ wai.id = id /\ col.op = "collect" /\ col.id = id
  BY Fields
<1> HIDE DEF snd, wai, col
<1>3. snd \in Steps(lead)
  BY <1>1
<1>4. Computed(p, snd)
  BY <1>2 DEF Computed, Plain
<1>5. \/ s = snd
      \/ s = wai /\ p # lead
      \/ s = col /\ p # lead /\ OneSender(id)
  BY <1>1
<1>6. p # lead => Posts(lead, id, p)
  BY <1>2, <1>3 DEF Posts, OtherParties
<1>7. /\ p # lead => Fed(p, wai) /\ Fed(p, col)
      /\ OneSender(id) => Gathered(p, col)
  BY <1>2, <1>6 DEF Fed, Gathered
<1> QED
  BY <1>2, <1>4, <1>5, <1>7, SupportedSteps

LEMMA BarrierSupported ==
    ASSUME NEW id, \A q \in Party : WaitForBarrier(id) \in Steps(q), NEW p
    PROVE  Supported(p, WaitForBarrier(id))
BY Fields, SupportedSteps DEF Met

LEMMA DkgSupported ==
    ASSUME \A q \in Party : DkgSteps(q) \subseteq Steps(q), NEW p \in Party, NEW s \in DkgSteps(p)
    PROVE  Supported(p, s)
<1>1. R1 \in Ids /\ R2 \in Ids /\ R1[1] = "round1" /\ R2[1] = "round2"
  BY IdType DEF Names, R1, R2, Id
<1>2. \A q \in Party : Elems(Broadcasts(q, R1, R1)) \subseteq Steps(q)
  BY DEF DkgSteps
<1>3. CASE s \in Elems(Broadcasts(p, R1, R1))
  <2>1. \A q \in Party : Computed(q, Send(R1, OtherParties(q), R1))
    BY <1>1, Fields DEF Computed
  <2> QED
    BY <1>1, <1>2, <1>3, <2>1, BroadcastsSupported
<1>4. \A q \in Party : \A u \in Elems(Shares(q)) : u.op = "send" /\ u.id = R2
  BY PerRecipientSteps DEF Elems, Shares
<1>5. CASE s \in Elems(Shares(p))
  <2>1. Computed(p, s)
    BY <1>1, <1>4, <1>5 DEF Computed
  <2> QED
    BY <1>4, <1>5, <2>1, SupportedSteps
<1> DEFINE bar == WaitForBarrier(R2)
           col == CollectMessages(R2, Others)
<1>6. Elems(Closing) = {bar, col}
  BY ElemsLists DEF Closing
<1>7. \A q \in Party : bar \in Steps(q)
  BY <1>6 DEF DkgSteps
<1>8. bar.op = "barrier" /\ bar.id = R2 /\ col.op = "collect" /\ col.id = R2
  BY Fields
<1> HIDE DEF bar, col
<1>9. ASSUME NEW q \in Party, p \in OtherParties(q) PROVE Posts(q, R2, p)
  <2>1. PICK n \in 1 .. Others : n = Rank(q, p)
    BY <1>9, RankType
  <2>2. Len(Shares(q)) = Others /\ Shares(q)[n].op = "send" /\ Shares(q)[n].id = R2
        /\ Shares(q)[n].to = {r \in OtherParties(q) : Rank(q, r) = n}
    BY PerRecipientSteps DEF Shares
  <2>3. p \in Shares(q)[n].to
    BY <1>9, <2>1, <2>2
  <2>4. Shares(q)[n] \in Steps(q)
    <3>1. Shares(q)[n] \in Elems(Shares(q))
      BY <2>2 DEF Elems
    <3> QED
      BY <3>1 DEF DkgSteps
  <2> QED
    BY <2>2, <2>3, <2>4 DEF Posts
<1>10. CASE s = bar
  BY <1>7, <1>8, <1>10, SupportedSteps DEF Met
<1>11. CASE s = col
  <2>1. \A q \in OtherParties(p) : Posts(q, R2, p)
    BY <1>9 DEF OtherParties
  <2>2. \E q \in Party : Posts(q, R2, p)
    BY <1>9, Another
  <2>3. Fed(p, col) /\ Gathered(p, col)
    BY <1>7, <1>8, <2>1, <2>2 DEF Fed, Gathered
  <2> QED
    BY <1>8, <1>11, <2>3, SupportedSteps
<1> QED
  BY <1>3, <1>5, <1>6, <1>10, <1>11 DEF DkgSteps

\* The shares of a key import are checked once both rounds are collected.
LEMMA Part3Supported ==
    ASSUME NEW p \in Party, DkgSteps(p) \subseteq Steps(p)
    PROVE  Supported(p, Verify("part3", R2))
<1> DEFINE v == Verify("part3", R2)
           c1 == CollectMessages(R1, Others)
           c2 == CollectMessages(R2, Others)
<1>1. c1 \in Steps(p) /\ c2 \in Steps(p)
  BY ElemsLists DEF DkgSteps, Broadcasts, Closing
<1>2. /\ v.op = "part3" /\ c1.op = "collect" /\ c1.id = R1 /\ c2.op = "collect" /\ c2.id = R2
  BY Fields
<1>3. Place(v) = 20 /\ Place(c1) = 10 /\ Place(c2) = 14
  BY Places, Phases DEF R1, R2
<1> HIDE DEF v, c1, c2
<1>4. Earlier(p, v, "collect", R1) /\ Earlier(p, v, "collect", R2)
  BY <1>1, <1>2, <1>3 DEF Earlier
<1>5. Checkable(p, v)
  BY <1>2, <1>4 DEF Checkable
<1>6. Supported(p, v)
  BY <1>2, <1>5, SupportedSteps
<1> QED
  BY <1>6 DEF v

LEMMA SignSupported ==
    ASSUME NEW i \in Nat, lead \in Party, kind # "fromtSpend",
           \A q \in Party : Elems(SignRounds(q, i)) \subseteq Steps(q),
           NEW p \in Party, NEW s \in Elems(SignRounds(p, i))
    PROVE  Supported(p, s)
<1> DEFINE C == <<"commit", i>>
           P == <<"package", i>>
           S == <<"share", i>>
           R == <<"result", i>>
           B(q) == Broadcasts(q, C, C)
<1>1. \A q \in Party : Elems(SignRounds(q, i)) = Elems(B(q)) \cup Elems(SignTail(q, i))
  <2> TAKE q \in Party
  <2>1. SignRounds(q, i) = Cat(B(q), SignTail(q, i)) /\ B(q) \in Seq(GoodStep(q))
        /\ SignTail(q, i) \in Seq(GoodStep(q))
    BY SignParts
  <2> QED
    BY <2>1, ElemsCat
<1>2. C \in Ids /\ C[1] = "commit" /\ P[1] = "package" /\ S[1] = "share" /\ R[1] = "result"
      /\ ~OneSender(C)
  BY IdType DEF Names
<1>3. CASE s \in Elems(B(p))
  <2>1. \A q \in Party : Computed(q, Send(C, OtherParties(q), C))
    BY <1>2, Fields DEF Computed
  <2>2. \A q \in Party : Elems(B(q)) \subseteq Steps(q)
    BY <1>1
  <2> QED
    BY <1>2, <1>3, <2>1, <2>2, BroadcastsSupported
<1> DEFINE snp == Send(P, OtherParties(lead), C)
           col == CollectMessages(S, Others)
           agg == Verify("aggregate", S)
           snr == Send(R, OtherParties(lead), S)
           wap == WaitForMessage(P)
           sig == Verify("sign", P)
           sns == Send(S, {lead}, P)
           war == WaitForMessage(R)
           coc == CollectMessages(C, Others)
<1>4. /\ Elems(SignTail(lead, i)) = {snp, col, agg, snr}
      /\ \A q : q # lead => Elems(SignTail(q, i)) = {wap, sig, sns, war}
  BY ElemsLists DEF SignTail
<1>5. \A q \in Party : coc \in Steps(q)
  <2>1. \A q : coc \in Elems(B(q))
    BY ElemsLists DEF Broadcasts
  <2> QED
    BY <1>1, <2>1
<1>6. /\ snp \in Steps(lead) /\ snr \in Steps(lead)
      /\ \A q \in Party : q # lead => sns \in Steps(q) /\ wap \in Steps(q)
  BY <1>1, <1>4
<1> HIDE DEF C, P, S, R
<1>7. /\ snp.op = "send" /\ snp.id = P /\ snp.to = OtherParties(lead) /\ snp.of = C
      /\ col.op = "collect" /\ col.id = S /\ agg.op = "aggregate" /\ agg.id = S
      /\ snr.op = "send" /\ snr.id = R /\ snr.to = OtherParties(lead)
      /\ wap.op = "wait" /\ wap.id = P /\ sig.op = "sign" /\ sig.id = P
      /\ sns.op = "send" /\ sns.id = S /\ sns.to = {lead} /\ sns.of = P
      /\ war.op = "wait" /\ war.id = R /\ coc.op = "collect" /\ coc.id = C
  <2>1. /\ snp.op = "send" /\ snp.id = P /\ snp.to = OtherParties(lead) /\ snp.of = C
        /\ snr.op = "send" /\ snr.id = R /\ snr.to = OtherParties(lead)
        /\ sns.op = "send" /\ sns.id = S /\ sns.to = {lead} /\ sns.of = P
    BY DEF Send
  <2>2. /\ col.op = "collect" /\ col.id = S /\ wap.op = "wait" /\ wap.id = P
        /\ war.op = "wait" /\ war.id = R /\ coc.op = "collect" /\ coc.id = C
    BY DEF CollectMessages, WaitForMessage
  <2>3. agg.op = "aggregate" /\ agg.id = S /\ sig.op = "sign" /\ sig.id = P
    BY DEF Verify
  <2> HIDE DEF snp, col, agg, snr, wap, sig, sns, war, coc
  <2> QED
    BY <2>1, <2>2, <2>3
<1>8. Place(coc) < Place(snp) /\ Place(wap) < Place(sns)
  <2>1. /\ Phase(C) = 4 * i + 1 /\ Phase(P) = 4 * i + 2 /\ Phase(S) = 4 * i + 3
    BY Phases DEF C, P, S
  <2>2. /\ Place(coc) = 4 * Phase(C) + 2 /\ Place(snp) = 4 * Phase(P) + 0
        /\ Place(wap) = 4 * Phase(P) + 2 /\ Place(sns) = 4 * Phase(S) + 0
    BY Places
  <2> QED
    BY <2>1, <2>2
<1>9. s \in Elems(B(p)) \/ (p = lead /\ s \in {snp, col, agg, snr}) \/ (p # lead /\ s \in {wap, sig, sns, war})
  BY <1>1, <1>4
<1> HIDE DEF snp, col, agg, snr, wap, sig, sns, war, coc
<1>10. p # lead => Posts(lead, P, p) /\ Posts(lead, R, p)
  BY <1>6, <1>7 DEF Posts, OtherParties
<1>11. p = lead => \E q \in Party : Posts(q, S, p)
  BY <1>6, <1>7, Another DEF Posts
<1>12. ASSUME p = lead PROVE Supported(p, snp) /\ Supported(p, col) /\ Supported(p, agg) /\ Supported(p, snr)
  <2>1. Computed(p, snp)
    BY <1>2, <1>5, <1>7, <1>8, <1>12 DEF Computed, Earlier
  <2>2. Computed(p, snr)
    BY <1>2, <1>7 DEF Computed
  <2>3. Fed(p, col) /\ Gathered(p, col)
    BY <1>2, <1>7, <1>11, <1>12 DEF Fed, Gathered, Lone
  <2>4. Checkable(p, agg)
    BY <1>2, <1>7, <1>12 DEF Checkable, Lone
  <2> QED
    BY <1>7, <2>1, <2>2, <2>3, <2>4, SupportedSteps
<1>13. ASSUME p # lead PROVE Supported(p, wap) /\ Supported(p, sig) /\ Supported(p, sns) /\ Supported(p, war)
  <2>1. Computed(p, sns)
    BY <1>2, <1>6, <1>7, <1>8, <1>13 DEF Computed, Earlier
  <2>2. Fed(p, wap) /\ Fed(p, war)
    BY <1>7, <1>10, <1>13 DEF Fed
  <2>3. Checkable(p, sig)
    BY <1>2, <1>7 DEF Checkable
  <2> QED
    BY <1>7, <2>1, <2>2, <2>3, SupportedSteps
<1> QED
  BY <1>3, <1>9, <1>12, <1>13

LEMMA FroztImportSupported ==
    ASSUME kind = "froztImport", lead \in Party, NEW p \in Party, NEW s \in Steps(p)
    PROVE  Supported(p, s)
<1> DEFINE X(q) == Elems(Exchange(q, Id("expected-vk")))
           M(q) == Elems(Exchange(q, Id("metadata")))
           H(q) == Elems(Broadcasts(q, Id("metadata-hash"), Id("metadata")))
           w == Verify("hashes", Id("metadata-hash"))
<1>1. \A q \in Party : Steps(q) = ((DkgSteps(q) \cup X(q)) \cup {Verify("part3", R2)})
                                  \cup ((M(q) \cup H(q)) \cup {w})
  BY ListedFroztImport DEF Listing, Steps, Script
<1>2. /\ Id("metadata-hash") \in Ids /\ Id("metadata-hash")[1] = "metadata-hash"
      /\ OneSender(Id("metadata")) /\ OneSender(Id("expected-vk"))
      /\ Plain(Id("metadata")) /\ Plain(Id("expected-vk"))
  BY IdType DEF Names, Plain, Id
<1>3. \A q \in Party : DkgSteps(q) \subseteq Steps(q) /\ X(q) \subseteq Steps(q)
                       /\ M(q) \subseteq Steps(q) /\ H(q) \subseteq Steps(q)
  BY <1>1
<1>4. ASSUME NEW q \in Party PROVE Computed(q, Send(Id("metadata-hash"), OtherParties(q), Id("metadata")))
  <2> DEFINE u == Send(Id("metadata-hash"), OtherParties(q), Id("metadata"))
             c == CollectMessages(Id("metadata"), 1)
  <2>1. u.id[1] = "metadata-hash" /\ u.of = Id("metadata")
    BY <1>2, Fields
  <2>2. q = lead \/ c \in M(q)
    BY ElemsLists DEF Exchange
  <2>3. c.op = "collect" /\ c.id = Id("metadata")
    BY Fields
  <2>4. Place(c) = 26 /\ Place(u) = 28
    BY Places, Phases
  <2> HIDE DEF u, c
  <2>5. q = lead \/ Earlier(q, u, "collect", Id("metadata"))
    BY <1>3, <2>2, <2>3, <2>4 DEF Earlier
  <2>6. Computed(q, u)
    BY <1>2, <2>1, <2>5 DEF Computed
  <2> QED
    BY <2>6 DEF u
<1>5. CASE s \in DkgSteps(p)
  BY <1>3, <1>5, DkgSupported
<1>6. CASE s \in X(p)
  BY <1>2, <1>3, <1>6, AnnounceSupported
<1>7. CASE s \in M(p)
  BY <1>2, <1>3, <1>7, AnnounceSupported
<1>8. CASE s \in H(p)
  BY <1>2, <1>3, <1>4, <1>8, BroadcastsSupported
<1>9. CASE s = Verify("part3", R2)
  BY <1>3, <1>9, Part3Supported
<1>10. CASE s = w
  <2>1. w.op = "hashes" /\ w.id[1] = "metadata-hash"
    BY <1>2 DEF Verify
  <2> HIDE DEF w
  <2> QED
    BY <1>10, <2>1, SupportedSteps DEF Checkable
<1> HIDE DEF X, M, H, w
<1> QED
  BY <1>1, <1>5, <1>6, <1>7, <1>8, <1>9, <1>10

LEMMA FromtImportSupported ==
    ASSUME kind = "fromtImport", lead \in Party, NEW p \in Party, NEW s \in Steps(p)
    PROVE  Supported(p, s)
<1> DEFINE A(q) == Elems(Announce(q, Id("expected-vk")))
           b == WaitForBarrier(Id("vk-exchanged"))
<1>1. \A q \in Party : Steps(q) = ((A(q) \cup {b}) \cup DkgSteps(q)) \cup {Verify("part3", R2)}
  BY ListedFromtImport DEF Listing, Steps, Script
<1>2. Plain(Id("expected-vk"))
  BY DEF Plain, Id
<1>3. \A q \in Party : DkgSteps(q) \subseteq Steps(q) /\ A(q) \subseteq Steps(q) /\ b \in Steps(q)
  BY <1>1
<1>4. CASE s \in A(p)
  BY <1>2, <1>3, <1>4, AnnounceSupported
<1>5. CASE s = b
  BY <1>3, <1>5, BarrierSupported
<1>6. CASE s \in DkgSteps(p)
  BY <1>3, <1>6, DkgSupported
<1>7. CASE s = Verify("part3", R2)
  BY <1>3, <1>7, Part3Supported
<1> HIDE DEF A, b
<1> QED
  BY <1>1, <1>4, <1>5, <1>6, <1>7

LEMMA SigningSupported ==
    ASSUME kind \in {"froztSign", "fromtSign"}, lead \in Party, NEW p \in Party, NEW s \in Steps(p)
    PROVE  Supported(p, s)
<1> DEFINE b == WaitForBarrier(Id("sign-done"))
<1>1. \A q \in Party : Steps(q) = IF kind = "froztSign" THEN Elems(SignRounds(q, 0))
                                  ELSE Elems(SignRounds(q, 0)) \cup {b}
  BY ListedSign DEF Listing, Steps, Script
<1>2. \A q \in Party : Elems(SignRounds(q, 0)) \subseteq Steps(q)
  BY <1>1
<1>3. CASE s \in Elems(SignRounds(p, 0))
  BY <1>2, <1>3, SignSupported
<1>4. CASE kind # "froztSign" /\ s = b
  BY <1>1, <1>4, BarrierSupported
<1> HIDE DEF b
<1> QED
  BY <1>1, <1>3, <1>4

LEMMA FroztSpendSupported ==
    ASSUME kind = "froztSpend", lead \in Party, NEW p \in Party, NEW s \in Steps(p)
    PROVE  Supported(p, s)
<1> DEFINE A(q) == Elems(Announce(q, Id("sighash")))
           Z(q) == Elems(Announce(q, Id("broadcast-done")))
           E(q) == UNION {Elems(SignRounds(q, i)) : i \in 1 .. Inputs}
<1>0. Inputs \in Nat
  BY RoundsAssumption
<1>1. \A q \in Party : Steps(q) = (A(q) \cup E(q)) \cup Z(q)
  BY ListedFroztSpend DEF Listing, Steps, Script
<1>2. Plain(Id("sighash")) /\ Plain(Id("broadcast-done"))
  BY DEF Plain, Id
<1>3. \A q \in Party : A(q) \subseteq Steps(q) /\ Z(q) \subseteq Steps(q)
                       /\ \A i \in 1 .. Inputs : Elems(SignRounds(q, i)) \subseteq Steps(q)
  BY <1>1
<1>4. CASE s \in A(p)
  BY <1>2, <1>3, <1>4, AnnounceSupported
<1>5. CASE s \in Z(p)
  BY <1>2, <1>3, <1>5, AnnounceSupported
<1>6. CASE s \in E(p)
  <2>1. PICK i \in 1 .. Inputs : s \in Elems(SignRounds(p, i))
    BY <1>6
  <2>2. i \in Nat
    BY <1>0
  <2> QED
    BY <1>3, <2>1, <2>2, SignSupported
<1> HIDE DEF A, Z, E
<1> QED
  BY <1>1, <1>4, <1>5, <1>6

LEMMA FromtSpendSupported ==
    ASSUME kind = "fromtSpend", lead \in Party, NEW p \in Party, NEW s \in Steps(p)
    PROVE  Supported(p, s)
<1> DEFINE A(q) == Elems(Announce(q, Id("signable-tx")))
           b == WaitForBarrier(Id("tx-exchanged"))
           P(q) == Elems(Broadcasts(q, Id("preprocess"), Id("preprocess")))
           S(q) == Elems(Broadcasts(q, Id("share"), Id("preprocess")))
           v == Verify("complete", Id("share"))
           O(q) == Elems(Announce(q, Id("offsets")))
           z == WaitForBarrier(Id("spend-done"))
           c == CollectMessages(Id("preprocess"), Others)
<1>1. \A q \in Party : Steps(q) = (((((A(q) \cup {b}) \cup P(q)) \cup S(q)) \cup {v}) \cup O(q)) \cup {z}
  BY ListedFromtSpend DEF Listing, Steps, Script
<1>2. /\ Plain(Id("signable-tx")) /\ Plain(Id("offsets"))
      /\ Id("preprocess") \in Ids /\ Id("share") \in Ids
      /\ Id("preprocess")[1] = "preprocess" /\ Id("share")[1] = "share" /\ ~OneSender(Id("preprocess"))
  BY IdType DEF Names, Plain, Id
<1>3. \A q \in Party : A(q) \subseteq Steps(q) /\ P(q) \subseteq Steps(q) /\ S(q) \subseteq Steps(q)
                       /\ O(q) \subseteq Steps(q) /\ b \in Steps(q) /\ z \in Steps(q)
  BY <1>1
<1>4. \A q \in Party : c \in Steps(q)
  <2>1. \A q \in Party : c \in P(q)
    BY ElemsLists DEF Broadcasts
  <2> QED
    BY <1>3, <2>1
<1>5. c.op = "collect" /\ c.id = Id("preprocess") /\ Place(c) = 10
  BY Fields, Places, Phases
<1>6. ASSUME NEW q \in Party PROVE Computed(q, Send(Id("preprocess"), OtherParties(q), Id("preprocess")))
  BY <1>2, Fields DEF Computed
<1>7. ASSUME NEW q \in Party PROVE Computed(q, Send(Id("share"), OtherParties(q), Id("preprocess")))
  <2> DEFINE u == Send(Id("share"), OtherParties(q), Id("preprocess"))
  <2>1. u.id[1] = "share" /\ u.of = Id("preprocess")
    BY <1>2 DEF Send
  <2>2. Place(u) = 12
    BY Places, Phases
  <2> HIDE DEF u, c
  <2>3. Earlier(q, u, "collect", Id("preprocess"))
    BY <1>4, <1>5, <2>2 DEF Earlier
  <2>4. Computed(q, u)
    BY <1>2, <2>1, <2>3 DEF Computed
  <2> QED
    BY <2>4 DEF u
<1>8. CASE s \in A(p)
  BY <1>2, <1>3, <1>8, AnnounceSupported
<1>9. CASE s \in O(p)
  BY <1>2, <1>3, <1>9, AnnounceSupported
<1>10. CASE s = b \/ s = z
  BY <1>3, <1>10, BarrierSupported
<1>11. CASE s \in P(p)
  BY <1>2, <1>3, <1>6, <1>11, BroadcastsSupported
<1>12. CASE s \in S(p)
  BY <1>2, <1>3, <1>7, <1>12, BroadcastsSupported
<1>13. CASE s = v
  <2>1. v.op = "complete" /\ v.id = Id("share")
    BY DEF Verify
  <2>4. Place(v) = 15
    BY Places, Phases
  <2> HIDE DEF v, c
  <2>2. Earlier(p, v, "collect", Id("preprocess"))
    BY <1>4, <1>5, <2>4 DEF Earlier
  <2>3. Checkable(p, v)
    BY <1>2, <2>1, <2>2 DEF Checkable
  <2> QED
    BY <1>13, <2>1, <2>3, SupportedSteps
<1> HIDE DEF A, b, P, S, v, O, z, c
<1> QED
  BY <1>1, <1>8, <1>9, <1>10, <1>11, <1>12, <1>13

LEMMA AllSupported ==
    ASSUME lead \in Party, kind \in Kinds, NEW p \in Party, NEW i \in 1 .. Len(Script(p))
    PROVE  Supported(p, Script(p)[i])
<1>1. Script(p)[i] \in Steps(p)
  BY DEF Steps, Elems
<1> QED
  BY <1>1, FroztImportSupported, FromtImportSupported, SigningSupported, FroztSpendSupported,
     FromtSpendSupported DEF Kinds

-----------------------------------------------------------------------------
(***************************************************************************)
(* Why the scripts match: the party at the earliest place can always go on. *)
(***************************************************************************)
\* What the scripts owe to the step a party is at.
LEMMA StepSupported ==
    ASSUME Shape, NEW p \in Party, ~Done(p)
    PROVE  /\ pc[p] \in 1 .. Len(Script(p)) /\ Step(p) = Script(p)[pc[p]]
           /\ Supported(p, Step(p)) /\ Place(Step(p)) \in Nat /\ Step(p) \in GoodStep(p)
<1>1. pc[p] \in 1 .. Len(Script(p)) /\ Script(p)[pc[p]] \in GoodStep(p)
  <2>1. Len(Script(p)) \in Nat /\ pc[p] \in Nat \ {0}
        /\ \A i \in 1 .. Len(Script(p)) : Script(p)[i] \in GoodStep(p)
    BY AtStep
  <2> QED
    BY <2>1 DEF Done
<1>2. lead \in Party /\ kind \in Kinds
  BY DEF Shape
<1> QED
  BY <1>1, <1>2, AllSupported, InOrder DEF Step

LEMMA PhaseType ==
    ASSUME NEW id \in Ids
    PROVE  Phase(id) \in Nat
<1>1. id[1] \in Names /\ id[2] \in Nat /\ Inputs \in Nat
  BY RoundsAssumption DEF Ids
<1>2. 4 * id[2] + 1 \in Nat /\ 4 * id[2] + 2 \in Nat /\ 4 * id[2] + 3 \in Nat /\ 4 * id[2] + 4 \in Nat
      /\ 4 * Inputs + 5 \in Nat
  BY <1>1
<1> QED
  BY <1>1, <1>2 DEF Phase, Names

\* Places of steps of one id.
LEMMA SamePhase ==
    ASSUME NEW u, NEW v, u.id = v.id, v.id \in Ids
    PROVE  /\ u.op = "barrier" /\ v.op = "barrier" => Place(u) = Place(v)
           /\ u.op \in {"collect", "wait"} /\ v.op \in {"collect", "wait"} => Place(u) = Place(v)
           /\ u.op = "send" /\ v.op = "barrier" => Place(u) < Place(v)
           /\ u.op = "send" /\ v.op \in {"collect", "wait"} => Place(u) < Place(v)
           /\ u.op = "barrier" /\ v.op \in {"collect", "wait"} => Place(u) < Place(v)
<1>1. Level("send") = 0 /\ Level("barrier") = 1 /\ Level("collect") = 2 /\ Level("wait") = 2
  BY DEF Level
<1>2. \A s : s.op # "part3" => Place(s) = 4 * Phase(s.id) + Level(s.op)
  BY DEF Place
<1>3. PICK k \in Nat : k = 4 * Phase(u.id)
  BY PhaseType
<1>4. /\ u.op = "send" => Place(u) = k + 0
      /\ u.op = "barrier" => Place(u) = k + 1
      /\ u.op \in {"collect", "wait"} => Place(u) = k + 2
      /\ v.op = "barrier" => Place(v) = k + 1
      /\ v.op \in {"collect", "wait"} => Place(v) = k + 2
  BY <1>1, <1>2, <1>3
<1> QED
  BY <1>4

LEMMA EarliestGoesOn ==
    ASSUME Shape, SentAll, Passed, \A q \in Party : why[q] = "none",
           NEW p \in Party, ~Done(p),
           \A q \in Party : ~Done(q) => Place(Step(p)) <= Place(Step(q))
    PROVE  \E q \in Party : CanGoOn(q)
<1> DEFINE s == Step(p)
<1>1. Supported(p, s) /\ Place(s) \in Nat /\ s.id \in Ids
  BY StepSupported, StepFields
<1>2. \A q \in Party : ~Done(q) => Running(q)
  BY DEF Running
<1>3. lead \in Party /\ kind \in Kinds
  BY DEF Shape
<1>4. \A q \in Party : pc[q] \in Nat /\ pc[q] # 0 /\ Len(Script(q)) \in Nat
  BY AtStep
<1>5. CASE s.op \notin {"barrier", "collect", "wait"}
  BY <1>2, <1>5 DEF CanGoOn
<1>6. ASSUME NEW q \in Party, NEW j \in 1 .. Len(Script(q)), ~ (j < pc[q])
      PROVE  /\ ~Done(q) /\ Place(Script(q)[j]) \in Nat
             /\ Place(s) <= Place(Step(q)) /\ Place(Step(q)) <= Place(Script(q)[j])
             /\ Place(Script(q)[j]) = Place(Step(q)) /\ Script(q)[j].op # "send" => j = pc[q]
  <2>1. ~Done(q)
    BY <1>4, <1>6 DEF Done
  <2>2. pc[q] \in 1 .. Len(Script(q)) /\ Step(q) = Script(q)[pc[q]] /\ pc[q] <= j
    BY <1>4, <1>6, <2>1, StepSupported
  <2>3. /\ Place(Script(q)[j]) \in Nat /\ Place(Script(q)[pc[q]]) <= Place(Script(q)[j])
        /\ Place(Script(q)[j]) = Place(Script(q)[pc[q]]) /\ Script(q)[j].op # "send" => j = pc[q]
    BY <1>3, <2>2, InOrder
  <2> QED
    BY <2>1, <2>2, <2>3
<1>7. CASE s.op = "barrier"
  <2>1. CASE p \notin Ready(s.id) \/ Ready(s.id) = Party
    BY <1>2, <1>7, <2>1 DEF CanGoOn
  <2>2. CASE Ready(s.id) # Party
    <3>1. PICK q \in Party : <<s.id, q>> \notin barrier
      BY <2>2 DEF Ready
    <3>2. PICK u \in Steps(q) : u.op = "barrier" /\ u.id = s.id
      BY <1>1, <1>7 DEF Supported, Met
    <3>3. PICK j \in 1 .. Len(Script(q)) : Script(q)[j] = u
      BY DEF Steps, Elems
    <3>4. ~ (j < pc[q])
      <4> SUFFICES ASSUME j < pc[q] PROVE FALSE
        OBVIOUS
      <4>1. j \in 1 .. pc[q] - 1
        BY <1>4
      <4>2. Full(q, j)
        BY <4>1 DEF Passed
      <4> QED
        BY <3>1, <3>2, <3>3, <4>2 DEF Full
    <3>5. /\ ~Done(q) /\ Place(u) \in Nat
          /\ Place(s) <= Place(Step(q)) /\ Place(Step(q)) <= Place(u)
          /\ Place(u) = Place(Step(q)) /\ u.op # "send" => j = pc[q]
      BY <1>6, <3>3, <3>4
    <3>6. Place(u) = Place(s)
      BY <1>1, <1>7, <3>2, SamePhase
    <3>7. Place(Step(q)) \in Nat
      BY <3>5, StepSupported
    <3>8. Place(u) = Place(Step(q))
      BY <1>1, <3>5, <3>6, <3>7
    <3>9. Step(q) = u
      BY <3>2, <3>3, <3>5, <3>8 DEF Step
    <3>10. q \notin Ready(Step(q).id)
      BY <3>1, <3>2, <3>9 DEF Ready
    <3> QED
      BY <1>2, <3>2, <3>5, <3>9, <3>10 DEF CanGoOn
  <2> QED
    BY <2>1, <2>2
<1>8. CASE s.op \in {"collect", "wait"}
  <2>0. PICK q \in Party : Posts(q, s.id, p)
    BY <1>1, <1>8 DEF Supported, Fed
  <2>1. PICK u \in Steps(q) : u.op = "send" /\ u.id = s.id /\ p \in u.to
    BY <2>0 DEF Posts
  <2>2. PICK j \in 1 .. Len(Script(q)) : Script(q)[j] = u
    BY DEF Steps, Elems
  <2>3. CASE j < pc[q]
    <3>1. j \in 1 .. pc[q] - 1
      BY <1>4, <2>3
    <3>2. Sent(q, j)
      BY <3>1 DEF SentAll
    <3>3. PICK m \in relay : m.id = u.id /\ m.to = u.to
      BY <2>1, <2>2, <3>2 DEF Sent
    <3>4. m \in Listed(p)
      BY <2>1, <3>3 DEF Listed
    <3> QED
      BY <1>2, <1>8, <3>4 DEF CanGoOn
  <2>4. CASE ~ (j < pc[q])
    <3>1. /\ ~Done(q) /\ Place(u) \in Nat
          /\ Place(s) <= Place(Step(q)) /\ Place(Step(q)) <= Place(u)
      BY <1>6, <2>2, <2>4
    <3>2. Place(Step(q)) \in Nat
      BY <3>1, StepSupported
    <3>3. Place(u) < Place(s)
      BY <1>1, <1>8, <2>1, SamePhase
    <3> QED
      BY <1>1, <3>1, <3>2, <3>3
  <2> QED
    BY <2>3, <2>4
<1> QED
  BY <1>5, <1>7, <1>8

LEMMA AgreedMatch ==
    ASSUME Shape, Agreed
    PROVE  ScriptsMatch
<1> SUFFICES ASSUME \A q \in Party : why[q] = "none", NEW r \in Party, ~Done(r)
             PROVE  \E q \in Party : CanGoOn(q)
  BY DEF ScriptsMatch
<1> DEFINE S == {Place(Step(q)) : q \in {x \in Party : ~Done(x)}}
<1>1. S \in SUBSET Nat /\ S # {}
  BY StepSupported
<1> HIDE DEF S
<1>2. PICK k \in S : \A l \in S : k <= l
  BY <1>1, LeastMember
<1>3. PICK p \in Party : ~Done(p) /\ k = Place(Step(p))
  BY <1>2 DEF S
<1>4. \A q \in Party : ~Done(q) => Place(Step(p)) <= Place(Step(q))
  BY <1>2, <1>3 DEF S
<1>5. SentAll /\ Passed
  BY DEF Agreed
<1> QED
  BY <1>3, <1>4, <1>5, EarliestGoesOn

\* While no program stops or fails, some program can go on until all are done, for
\* any number of parties and of inputs: the party at the earliest place of the
\* ceremony waits for nobody, since what it reads was sent at an earlier place and
\* its barrier misses only parties that are at the same place.
THEOREM ScriptsMatchAlways == Spec => []ScriptsMatch
<1> DEFINE Inv == Shape /\ Senders /\ EveryPeerCollected /\ Agreed
<1>1. Init => Inv
  BY CollectedInit, AgreedInit
<1>2. Inv /\ [Next]_vars => Inv'
  BY CollectedNext, AgreedNext
<1>3. Inv => ScriptsMatch
  BY AgreedMatch
<1> QED
  BY <1>1, <1>2, <1>3, PTL DEF Spec
-----------------------------------------------------------------------------
(***************************************************************************)
(* Why nothing fails while no program stops: every number is used once, a  *)
(* round behind a barrier is complete at the first poll, and a message is  *)
(* computed from what everybody has sent.                                  *)
(***************************************************************************)
Everyone == Party \X {1}

\* What the messages that are checked later are computed from.
Based(m) ==
    /\ m.id[1] = "package" => m.from = lead /\ m.on = Everyone
    /\ m.id[1] = "share" => IF kind = "fromtSpend" THEN m.on = Everyone ELSE <<lead, 1>> \in m.on
    /\ m.id[1] = "metadata-hash" => <<lead, 1>> \in m.on

FirstRuns == \A p \in Party : run[p] = 1
Posted == \A m \in relay : m.run = 1 /\ m.seq <= seq[m.from] /\ Based(m)
Unique == \A m, n \in relay : m.from = n.from /\ m.seq = n.seq => m = n

\* What a party has read is on the relay.
Quoted ==
    \A p \in Party : \A v \in view[p] :
        v.run = 1 /\ \E m \in relay : m.id = v.id /\ m.from = v.from /\ m.on = v.on

\* A loop for signature shares may find a part of them if there are two to come.
Overtaken(id) == Lone(id) /\ Others > 1

\* A number was accepted by a loop that is over, or by one that may find a part.
Over(p, i, id) == i < pc[p] \/ (i = pc[p] /\ Script(p)[i].op = "collect" /\ Overtaken(id))
Remembered ==
    \A p \in Party : \A k \in seen[p] : \E m \in relay :
        /\ k = <<m.from, m.seq>>
        /\ \E i \in 1 .. Len(Script(p)) : Reads(Script(p), i, m.id) /\ Over(p, i, m.id)

\* Whoever is ready has come to the barrier.
Entered ==
    \A b \in barrier : \E i \in 1 .. Len(Script(b[2])) :
        i <= pc[b[2]] /\ Script(b[2])[i].op = "barrier" /\ Script(b[2])[i].id = b[1]

\* Whoever waited for a message has one.
Heard(p, i) == Script(p)[i].op = "wait" => Read(p, Script(p)[i].id) # {}
Waited == \A p \in Party : \A i \in 1 .. pc[p] - 1 : Heard(p, i)

Unhurt == \A p \in Party : why[p] = "none" \/ (why[p] = "replay" /\ Overtaken(Step(p).id))

Undisturbed ==
    FirstRuns /\ Posted /\ Unique /\ Quoted /\ Remembered /\ Entered /\ Waited /\ Unhurt
Clean == stops \in Nat /\ (stops = 0 => Undisturbed)

\* A step with an earlier place is over.
LEMMA EarlierIsOver ==
    ASSUME Shape, NEW p \in Party, ~Done(p), NEW u \in Steps(p), Place(u) < Place(Step(p))
    PROVE  \E i \in 1 .. pc[p] - 1 : i \in 1 .. Len(Script(p)) /\ Script(p)[i] = u
<1>1. PICK i \in 1 .. Len(Script(p)) : Script(p)[i] = u
  BY DEF Steps, Elems
<1>2. pc[p] \in 1 .. Len(Script(p)) /\ Step(p) = Script(p)[pc[p]]
  BY StepSupported
<1>3. i < pc[p]
  BY <1>1, <1>2, InOrder DEF Shape
<1>4. i \in 1 .. pc[p] - 1
  <2>1. Len(Script(p)) \in Nat /\ pc[p] \in Nat
    BY AtStep
  <2> QED
    BY <1>3, <2>1
<1> QED
  BY <1>1, <1>4

\* What a loop that is over has left in the view, while nobody was restarted.
LEMMA HeadsOfLoop ==
    ASSUME Shape, Senders, EveryPeerCollected, FirstRuns, Quoted,
           NEW p \in Party, NEW i \in 1 .. pc[p] - 1, Script(p)[i].op = "collect",
           NEW id, id = Script(p)[i].id
    PROVE  /\ ~OneSender(id) => Heads(p, id) \cup {Self(p)} = Everyone
           /\ ~OneSender(id) => Heads(p, id) = OtherParties(p) \X {1}
           /\ OneSender(id) => <<lead, 1>> \in Heads(p, id)
<1>1. {m.from : m \in Read(p, id)} = IF OneSender(id) THEN {lead} ELSE OtherParties(p)
  BY CollectedAll DEF Collected
<1>2. \A m \in Read(p, id) : m.run = 1
  BY DEF Quoted, Read
<1>3. Heads(p, id) = {<<m.from, 1>> : m \in Read(p, id)}
  BY <1>2 DEF Heads
<1>4. Heads(p, id) = {m.from : m \in Read(p, id)} \X {1}
  BY <1>3
<1>5. Self(p) = <<p, 1>>
  BY DEF Self, FirstRuns
<1>6. {m.from : m \in Read(p, id)} \cup {p} = Party \/ OneSender(id)
  BY <1>1 DEF OtherParties
<1>7. ~OneSender(id) => Heads(p, id) = OtherParties(p) \X {1}
  BY <1>1, <1>4
<1>8. ~OneSender(id) => Heads(p, id) \cup {Self(p)} = Everyone
  BY <1>5, <1>7 DEF Everyone, OtherParties
<1>9. OneSender(id) => <<lead, 1>> \in Heads(p, id)
  BY <1>1, <1>4
<1> QED
  BY <1>7, <1>8, <1>9

\* A signer that waited for the package has the coordinator's.
LEMMA PackageHeard ==
    ASSUME Shape, Posted, Quoted, Waited,
           NEW p \in Party, NEW i \in 1 .. pc[p] - 1, Script(p)[i].op = "wait",
           NEW id, id = Script(p)[i].id, id[1] = "package"
    PROVE  <<lead, 1>> \in Heads(p, id)
<1>1. PICK v \in view[p] : v.id = id
  BY DEF Waited, Heard, Read
<1>2. PICK m \in relay : m.id = v.id /\ m.from = v.from /\ v.run = 1
  BY DEF Quoted
<1>3. m.from = lead
  BY <1>1, <1>2 DEF Posted, Based
<1>4. v \in Read(p, id)
  BY <1>1 DEF Read
<1>5. <<v.from, v.run>> \in Heads(p, id)
  BY <1>4 DEF Heads
<1> QED
  BY <1>2, <1>3, <1>5

\* What is sent has the basis that is checked later.
LEMMA SentIsBased ==
    ASSUME Shape, Senders, EveryPeerCollected, FirstRuns, Posted, Quoted, Waited,
           NEW p \in Party, Running(p), Step(p).op = "send",
           NEW m, m.id = Step(p).id, m.from = p, m.on = Heads(p, Step(p).of) \cup {Self(p)}
    PROVE  Based(m)
<1> DEFINE s == Step(p)
<1>0. ~Done(p)
  BY DEF Running
<1>1. Computed(p, s)
  BY <1>0, StepSupported DEF Supported
<1>2. Self(p) = <<p, 1>>
  BY DEF Self, FirstRuns
<1>3. ASSUME Earlier(p, s, "collect", s.of)
      PROVE  \E i \in 1 .. pc[p] - 1 : Script(p)[i].op = "collect" /\ Script(p)[i].id = s.of
  BY <1>0, <1>3, EarlierIsOver DEF Earlier
<1>4. ASSUME Earlier(p, s, "wait", s.of)
      PROVE  \E i \in 1 .. pc[p] - 1 : Script(p)[i].op = "wait" /\ Script(p)[i].id = s.of
  BY <1>0, <1>4, EarlierIsOver DEF Earlier
<1>5. Earlier(p, s, "collect", s.of) /\ ~OneSender(s.of) => m.on = Everyone
  BY <1>3, HeadsOfLoop
<1>6. Earlier(p, s, "collect", s.of) /\ OneSender(s.of) => <<lead, 1>> \in m.on
  BY <1>3, HeadsOfLoop
<1>7. Earlier(p, s, "wait", s.of) /\ s.of[1] = "package" => <<lead, 1>> \in m.on
  BY <1>4, PackageHeard
<1>8. p = lead => <<lead, 1>> \in m.on
  BY <1>2
<1>9. s.op = "send" /\ m.id = s.id
  OBVIOUS
<1> HIDE DEF s
<1> QED
  BY <1>1, <1>5, <1>6, <1>7, <1>8, <1>9 DEF Computed, Based

\* The checks of the library find what they look for.
LEMMA ChecksFit ==
    ASSUME Shape, Senders, EveryPeerCollected, FirstRuns, Posted, Quoted,
           NEW p \in Party, Running(p),
           Step(p).op \in {"part3", "hashes", "sign", "aggregate", "complete"}
    PROVE  Fits(p)
<1> DEFINE s == Step(p)
<1>0. ~Done(p)
  BY DEF Running
<1>1. Checkable(p, s)
  BY <1>0, StepSupported DEF Supported
<1>2. Self(p) = <<p, 1>> /\ <<p, 1>> \in Everyone
  BY DEF Self, FirstRuns, Everyone
<1>3. ASSUME NEW id, Earlier(p, s, "collect", id), ~OneSender(id)
      PROVE  Heads(p, id) = OtherParties(p) \X {1} /\ Heads(p, id) \cup {Self(p)} = Everyone
  <2>1. PICK i \in 1 .. pc[p] - 1 : Script(p)[i].op = "collect" /\ Script(p)[i].id = id
    BY <1>0, <1>3, EarlierIsOver DEF Earlier
  <2> QED
    BY <1>3, <2>1, HeadsOfLoop
<1>4. \A v \in Read(p, s.id) : v.id = s.id /\ \E m \in relay : m.id = v.id /\ m.on = v.on /\ Based(m)
  BY DEF Read, Quoted, Posted
<1>5. CASE s.op = "part3"
  <2>1. ~OneSender(R1) /\ ~OneSender(R2)
    BY IdType DEF Names, R1, R2
  <2>2. Heads(p, R1) = Heads(p, R2)
    BY <1>1, <1>3, <1>5, <2>1 DEF Checkable
  <2> QED
    BY <1>5, <2>2 DEF Fits, R1, R2
<1>6. CASE s.op = "sign"
  <2>1. s.id[1] = "package"
    BY <1>1, <1>6 DEF Checkable
  <2>2. \A v \in Read(p, s.id) : Self(p) \in v.on
    BY <1>2, <1>4, <2>1 DEF Based
  <2> QED
    BY <1>6, <2>2 DEF Fits
<1>7. CASE s.op = "aggregate"
  <2>1. p = lead /\ s.id[1] = "share" /\ kind # "fromtSpend"
    BY <1>1, <1>7 DEF Checkable, Lone
  <2>2. \A v \in Read(p, s.id) : Self(p) \in v.on
    BY <1>2, <1>4, <2>1 DEF Based
  <2> QED
    BY <1>7, <2>2 DEF Fits
<1>8. CASE s.op = "hashes"
  <2>1. s.id[1] = "metadata-hash"
    BY <1>1, <1>8 DEF Checkable
  <2>2. \A v \in Read(p, s.id) : <<lead, 1>> \in v.on
    BY <1>4, <2>1 DEF Based
  <2>3. \A v \in Read(p, s.id) : lead \in {h[1] : h \in v.on}
    BY <2>2
  <2> QED
    BY <1>8, <2>3 DEF Fits
<1>9. CASE s.op = "complete"
  <2>1. kind = "fromtSpend" /\ s.id[1] = "share" /\ Earlier(p, s, "collect", Id("preprocess"))
    BY <1>1, <1>9 DEF Checkable
  <2>2. ~OneSender(Id("preprocess"))
    BY IdType DEF Names
  <2>3. Heads(p, Id("preprocess")) \cup {Self(p)} = Everyone
    BY <1>3, <2>1, <2>2
  <2>4. \A v \in Read(p, s.id) : v.on = Everyone
    BY <1>4, <2>1 DEF Based
  <2> QED
    BY <1>9, <2>3, <2>4 DEF Fits
<1> QED
  BY <1>5, <1>6, <1>7, <1>8, <1>9

\* What is listed was not accepted before, since every id is read at one step only.
LEMMA NothingReplayed ==
    ASSUME Shape, Unique, Remembered, NEW p \in Party, Running(p),
           Step(p).op = "wait" \/ (Step(p).op = "collect" /\ ~Overtaken(Step(p).id)),
           NEW msgs \in SUBSET Listed(p)
    PROVE  ~Replayed(p, msgs)
<1>0. ~Done(p)
  BY DEF Running
<1>1. pc[p] \in 1 .. Len(Script(p)) /\ Step(p) = Script(p)[pc[p]] /\ Step(p).id \in Ids
  BY <1>0, StepSupported, StepFields
<1>2. \A m \in msgs : m \in relay /\ m.id = Step(p).id
  BY DEF Listed
<1>3. ASSUME NEW m \in msgs, <<m.from, m.seq>> \in seen[p] PROVE FALSE
  <2>1. PICK n \in relay : /\ <<m.from, m.seq>> = <<n.from, n.seq>>
                           /\ \E i \in 1 .. Len(Script(p)) :
                                Reads(Script(p), i, n.id) /\ Over(p, i, n.id)
    BY <1>3 DEF Remembered
  <2>2. n = m
    <3>1. m.from = n.from /\ m.seq = n.seq
      BY <2>1
    <3> QED
      BY <1>2, <3>1 DEF Unique
  <2>3. PICK i \in 1 .. Len(Script(p)) :
          /\ Script(p)[i].op \in {"collect", "wait"} /\ Script(p)[i].id = Step(p).id
          /\ i < pc[p] \/ (i = pc[p] /\ Script(p)[i].op = "collect" /\ Overtaken(Step(p).id))
    BY <1>2, <2>1, <2>2 DEF Reads, Over
  <2>4. i < pc[p]
    BY <1>1, <2>3
  <2>5. Place(Script(p)[i]) = Place(Script(p)[pc[p]])
    BY <1>1, <2>3, SamePhase
  <2>6. i = pc[p]
    BY <1>1, <2>3, <2>5, InOrder DEF Shape
  <2> QED
    BY <1>1, <2>4, <2>6
<1>4. \A m, n \in msgs : m.from = n.from /\ m.seq = n.seq => m = n
  BY <1>2 DEF Unique
<1> QED
  BY <1>3, <1>4 DEF Replayed

\* Behind a barrier the first poll finds the messages of all.
LEMMA FirstPollIsEnough ==
    ASSUME Shape, Senders, SentAll, Passed, Entered, NEW p \in Party, Running(p),
           Step(p).op = "collect", ~Overtaken(Step(p).id), Listed(p) # {}
    PROVE  Enough(p, Listed(p))
<1> DEFINE s == Step(p)
           F == {m.from : m \in Listed(p)}
<1>0. ~Done(p)
  BY DEF Running
<1>1. /\ Supported(p, s) /\ s.id \in Ids /\ s.op = "collect" /\ ~Overtaken(s.id)
      /\ s.n = IF OneSender(s.id) THEN 1 ELSE Others
  BY <1>0, StepSupported, StepFields
<1>2. \A m \in Listed(p) : m.from \in OtherParties(p)
  BY DEF Listed, Shape, Senders, Message, OtherParties
<1>3. /\ IsFiniteSet(OtherParties(p)) /\ Cardinality(OtherParties(p)) = Others /\ Others \in Nat
  BY FiniteParty
<1>4. F \subseteq OtherParties(p) /\ F # {}
  BY <1>2
<1>5. lead \in Party /\ kind \in Kinds
  BY DEF Shape
<1> HIDE DEF s
<1>6. ASSUME ~OneSender(s.id), ~Lone(s.id), NEW q \in OtherParties(p) PROVE q \in F
  <2>0. q \in Party
    BY DEF OtherParties
  <2>1. PICK u \in Steps(p) : u.op = "barrier" /\ u.id = s.id
    BY <1>1, <1>6 DEF Supported, Gathered
  <2>2. PICK w \in Steps(q) : w.op = "send" /\ w.id = s.id /\ p \in w.to
    BY <1>1, <1>6 DEF Supported, Gathered, Posts
  <2>3. Place(u) < Place(s)
    BY <1>1, <2>1, SamePhase
  <2>4. PICK i \in 1 .. pc[p] - 1 : Script(p)[i] = u
    BY <1>0, <2>3, EarlierIsOver DEF s
  <2>5. <<s.id, q>> \in barrier
    BY <2>0, <2>1, <2>4 DEF Passed, Full
  <2>6. PICK j \in 1 .. Len(Script(q)) :
          j <= pc[q] /\ Script(q)[j].op = "barrier" /\ Script(q)[j].id = s.id
    <3>1. <<s.id, q>>[1] = s.id /\ <<s.id, q>>[2] = q
      OBVIOUS
    <3> QED
      BY <2>5, <3>1 DEF Entered
  <2>7. PICK l \in 1 .. Len(Script(q)) : Script(q)[l] = w
    BY DEF Steps, Elems
  <2>8. Place(Script(q)[l]) < Place(Script(q)[j])
    BY <1>1, <2>2, <2>6, <2>7, SamePhase
  <2>9. l < j
    BY <1>5, <2>0, <2>8, InOrder
  <2>10. l \in 1 .. pc[q] - 1
    <3>1. pc[q] \in Nat /\ Len(Script(q)) \in Nat
      BY <2>0, AtStep
    <3> QED
      BY <2>6, <2>9, <3>1
  <2>11. Sent(q, l)
    BY <2>0, <2>10 DEF SentAll
  <2>12. PICK m \in relay : m.from = q /\ m.id = w.id /\ m.to = w.to
    BY <2>2, <2>7, <2>11 DEF Sent
  <2>13. m \in Listed(p)
    BY <2>2, <2>12 DEF Listed, s
  <2> QED
    BY <2>12, <2>13
<1> HIDE DEF F
<1>7. IsFiniteSet(F) /\ Cardinality(F) \in Nat
  BY <1>3, <1>4, FS_Subset, FS_CardinalityType
<1>8. Cardinality(F) >= s.n
  <2>1. CASE OneSender(s.id)
    <3>1. Cardinality(F) # 0
      BY <1>4, <1>7, FS_EmptySet
    <3> QED
      BY <1>1, <1>7, <2>1, <3>1
  <2>2. CASE ~OneSender(s.id) /\ ~Lone(s.id)
    <3>1. F = OtherParties(p)
      BY <1>4, <1>6, <2>2
    <3> QED
      BY <1>1, <1>3, <2>2, <3>1
  <2>3. CASE ~OneSender(s.id) /\ Lone(s.id)
    <3>1. s.n = Others /\ ~(Others > 1)
      BY <1>1, <2>3 DEF Overtaken
    <3>2. Cardinality(F) # 0
      BY <1>4, <1>7, FS_EmptySet
    <3> QED
      BY <1>3, <1>7, <3>1, <3>2
  <2> QED
    BY <2>1, <2>2, <2>3
<1> QED
  BY <1>8 DEF Enough, F, s

\* The acceptance of messages, in the terms of the invariant.
LEMMA Accepted ==
    ASSUME Shape, Senders, Undisturbed, NEW p \in Party, Running(p),
           Step(p).op \in {"collect", "wait"},
           NEW msgs \in SUBSET Listed(p), Accept(p, msgs), UNCHANGED <<kind, lead, relay>>,
           Advance(p) \/ (UNCHANGED pc /\ Step(p).op = "collect" /\ Overtaken(Step(p).id))
    PROVE  Quoted' /\ Remembered'
<1>1. /\ \A q : Script(q)' = Script(q)
      /\ \A id : Overtaken(id)' <=> Overtaken(id)
  BY ScriptStable DEF Lone, Overtaken
<1>2. pc[p] \in 1 .. Len(Script(p)) /\ Step(p) = Script(p)[pc[p]]
  BY StepSupported DEF Running
<1>3. \A m \in msgs : m \in relay /\ m.id = Step(p).id /\ m \in Message /\ m.run = 1
  BY DEF Listed, Shape, Undisturbed, Posted
<1>4. /\ \A q \in Party \ {p} : view'[q] = view[q]
      /\ \A v \in view'[p] \ view[p] : \E m \in msgs :
           v = [id |-> m.id, from |-> m.from, run |-> m.run, on |-> m.on]
  BY AcceptEffect
<1>5. ASSUME NEW q \in Party, NEW v \in view'[q]
      PROVE  v.run = 1 /\ \E m \in relay : m.id = v.id /\ m.from = v.from /\ m.on = v.on
  <2>1. CASE v \in view[q]
    BY <2>1 DEF Undisturbed, Quoted
  <2>2. CASE v \notin view[q]
    <3>1. PICK m \in msgs : v = [id |-> m.id, from |-> m.from, run |-> m.run, on |-> m.on]
      BY <1>4, <2>2
    <3>2. v.id = m.id /\ v.from = m.from /\ v.run = m.run /\ v.on = m.on
      BY <3>1
    <3> QED
      BY <1>3, <3>2
  <2> QED
    BY <2>1, <2>2
<1>6. Quoted'
  BY <1>5 DEF Quoted
<1>7. /\ \A q \in Party \ {p} : pc'[q] = pc[q] /\ seen'[q] = seen[q]
      /\ pc'[p] = pc[p] + 1 \/ (pc'[p] = pc[p] /\ Step(p).op = "collect" /\ Overtaken(Step(p).id))
      /\ seen'[p] = seen[p] \cup {<<m.from, m.seq>> : m \in msgs}
      /\ \A q \in Party : pc[q] \in Nat
  BY DEF Advance, Accept, Shape
<1>8. ASSUME NEW q \in Party, NEW i \in 1 .. Len(Script(q)), NEW id, Over(q, i, id)
      PROVE  i < pc'[q] \/ (i = pc'[q] /\ Script(q)[i].op = "collect" /\ Overtaken(id))
  <2>1. pc[q] \in Nat /\ i \in Nat /\ (pc'[q] = pc[q] \/ pc'[q] = pc[q] + 1)
    <3>1. Len(Script(q)) \in Nat
      BY AtStep
    <3> QED
      BY <1>7, <3>1
  <2> QED
    BY <1>8, <2>1 DEF Over
<1>9. ASSUME NEW q \in Party, NEW k \in seen'[q]
      PROVE  \E m \in relay : /\ k = <<m.from, m.seq>>
                              /\ \E i \in 1 .. Len(Script(q)) : Reads(Script(q), i, m.id) /\
                                   (i < pc'[q] \/ (i = pc'[q] /\ Script(q)[i].op = "collect" /\ Overtaken(m.id)))
  <2>1. CASE k \in seen[q]
    <3>1. PICK m \in relay : /\ k = <<m.from, m.seq>>
                             /\ \E i \in 1 .. Len(Script(q)) : Reads(Script(q), i, m.id) /\ Over(q, i, m.id)
      BY <2>1 DEF Undisturbed, Remembered
    <3> QED
      BY <1>8, <3>1
  <2>2. CASE k \notin seen[q]
    <3>1. q = p /\ \E m \in msgs : k = <<m.from, m.seq>>
      BY <1>7, <2>2
    <3>2. PICK m \in msgs : k = <<m.from, m.seq>>
      BY <3>1
    <3>3. Reads(Script(p), pc[p], m.id)
      BY <1>2, <1>3 DEF Reads
    <3>4. pc[p] < pc'[p] \/ (pc[p] = pc'[p] /\ Script(p)[pc[p]].op = "collect" /\ Overtaken(m.id))
      BY <1>2, <1>3, <1>7
    <3> QED
      BY <1>2, <1>3, <3>1, <3>2, <3>3, <3>4
  <2> QED
    BY <2>1, <2>2
<1>10. Remembered'
  BY <1>1, <1>9 DEF Remembered, Over
<1> QED
  BY <1>6, <1>10

\* What a step of p keeps, whatever it is.
LEMMA MoveKeeps ==
    ASSUME Shape, Undisturbed, NEW p \in Party, Running(p), Advance(p) \/ UNCHANGED pc,
           UNCHANGED <<kind, lead, run>>,
           \/ barrier' = barrier
           \/ barrier' = barrier \cup {<<Step(p).id, p>>} /\ Step(p).op = "barrier",
           \A q \in Party : view[q] \subseteq view'[q],
           Advance(p) /\ Step(p).op = "wait" => \E v \in view'[p] : v.id = Step(p).id
    PROVE  FirstRuns' /\ Entered' /\ Waited' /\ (UNCHANGED why => Unhurt')
<1>1. \A q : Script(q)' = Script(q)
  BY ScriptStable
<1>2. /\ \A q \in Party \ {p} : pc'[q] = pc[q]
      /\ pc'[p] = pc[p] \/ (Advance(p) /\ pc'[p] = pc[p] + 1)
      /\ pc' \in [Party -> Nat \ {0}] /\ pc \in [Party -> Nat \ {0}]
  BY PlaceKeeps DEF Shape
<1>3. pc[p] \in 1 .. Len(Script(p)) /\ Step(p) = Script(p)[pc[p]]
  BY AtStep DEF Step
<1>4. \A q \in Party : pc[q] \in Nat /\ pc'[q] \in Nat /\ pc[q] <= pc'[q] /\ Len(Script(q)) \in Nat
  BY <1>2, AtStep
<1>5. FirstRuns'
  BY DEF Undisturbed, FirstRuns
<1>6. ASSUME NEW b \in barrier'
      PROVE  \E i \in 1 .. Len(Script(b[2])) :
               i <= pc'[b[2]] /\ Script(b[2])[i].op = "barrier" /\ Script(b[2])[i].id = b[1]
  <2>1. CASE b \in barrier
    <3>1. PICK i \in 1 .. Len(Script(b[2])) :
            i <= pc[b[2]] /\ Script(b[2])[i].op = "barrier" /\ Script(b[2])[i].id = b[1]
      BY <2>1 DEF Undisturbed, Entered
    <3>2. b[2] \in Party
      BY <2>1 DEF Shape
    <3>3. i <= pc'[b[2]]
      BY <1>4, <3>1, <3>2
    <3> QED
      BY <3>1, <3>3
  <2>2. CASE b \notin barrier
    <3>1. b[1] = Step(p).id /\ b[2] = p /\ Step(p).op = "barrier"
      BY <2>2
    <3> QED
      BY <1>3, <1>4, <3>1
  <2> QED
    BY <2>1, <2>2
<1>7. Entered'
  BY <1>1, <1>6 DEF Entered
<1>8. ASSUME NEW q \in Party, NEW i \in 1 .. pc'[q] - 1 PROVE Heard(q, i)'
  <2>1. CASE i \in 1 .. pc[q] - 1
    <3>1. Heard(q, i)
      BY <2>1 DEF Undisturbed, Waited
    <3>2. view[q] \subseteq view'[q]
      OBVIOUS
    <3> QED
      BY <1>1, <3>1, <3>2 DEF Heard, Read
  <2>2. CASE i \notin 1 .. pc[q] - 1
    <3>1. q = p /\ Advance(p) /\ i = pc[p]
      BY <1>2, <2>2
    <3>2. Script(q)[i] = Step(p)
      BY <1>3, <3>1
    <3> QED
      BY <1>1, <3>1, <3>2 DEF Heard, Read
  <2> QED
    BY <2>1, <2>2
<1>9. Waited'
  BY <1>8 DEF Waited
<1>10. ASSUME UNCHANGED why PROVE Unhurt'
  <2>1. why[p] = "none"
    BY DEF Running
  <2>2. \A q \in Party \ {p} : Step(q)' = Step(q)
    BY <1>1, <1>2 DEF Step
  <2> QED
    BY <1>10, <2>1, <2>2 DEF Undisturbed, Unhurt, Lone, Overtaken
<1> QED
  BY <1>5, <1>7, <1>9, <1>10

\* A step that neither sends nor reads.
LEMMA QuietKeeps ==
    ASSUME Shape, Undisturbed, NEW p \in Party, Running(p), Advance(p) \/ UNCHANGED pc,
           UNCHANGED <<kind, lead, relay, seq, seen, view>>
    PROVE  Posted' /\ Unique' /\ Quoted' /\ Remembered'
<1>1. /\ \A q : Script(q)' = Script(q)
      /\ \A id : Overtaken(id)' <=> Overtaken(id)
  BY ScriptStable DEF Lone, Overtaken
<1>2. Posted' /\ Unique' /\ Quoted'
  BY DEF Undisturbed, Posted, Unique, Quoted, Based
<1>3. /\ \A q \in Party \ {p} : pc'[q] = pc[q]
      /\ pc'[p] = pc[p] \/ (Advance(p) /\ pc'[p] = pc[p] + 1)
      /\ pc \in [Party -> Nat \ {0}]
  BY PlaceKeeps DEF Shape
<1>4. ASSUME NEW q \in Party, NEW i \in 1 .. Len(Script(q)), NEW id, Over(q, i, id)
      PROVE  Over(q, i, id)'
  <2>1. pc[q] \in Nat /\ i \in Nat /\ (pc'[q] = pc[q] \/ pc'[q] = pc[q] + 1)
    <3>1. Len(Script(q)) \in Nat
      BY AtStep
    <3> QED
      BY <1>3, <3>1
  <2> QED
    BY <1>1, <1>4, <2>1 DEF Over
<1>5. Remembered'
  BY <1>1, <1>4 DEF Undisturbed, Remembered
<1> QED
  BY <1>2, <1>5

\* SendMessage: the number is new, and the message has its basis.
LEMMA SendKeeps ==
    ASSUME Shape, Senders, EveryPeerCollected, Undisturbed, NEW p \in Party, SendMessage(p)
    PROVE  Posted' /\ Unique' /\ Quoted' /\ Remembered'
<1> DEFINE new == [id |-> Step(p).id, from |-> p, to |-> Step(p).to, seq |-> seq[p] + 1,
                   run |-> run[p], on |-> Heads(p, Step(p).of) \cup {Self(p)}]
<1>1. /\ Running(p) /\ Step(p).op = "send" /\ Advance(p) /\ UNCHANGED <<kind, lead, seen, view>>
      /\ relay' = relay \cup {new} /\ seq' = [seq EXCEPT ![p] = seq[p] + 1]
  BY DEF SendMessage
<1>2. /\ new.id = Step(p).id /\ new.from = p /\ new.seq = seq[p] + 1 /\ new.run = run[p]
      /\ new.on = Heads(p, Step(p).of) \cup {Self(p)}
  OBVIOUS
<1> HIDE DEF new
<1>3. FirstRuns /\ Posted /\ Unique /\ Quoted /\ Waited
  BY DEF Undisturbed
<1>4. Based(new) /\ new.run = 1
  BY <1>1, <1>2, <1>3, SentIsBased DEF FirstRuns
<1>5. /\ seq'[p] = seq[p] + 1 /\ \A q \in Party \ {p} : seq'[q] = seq[q]
      /\ \A q \in Party : seq[q] \in Nat
  BY <1>1 DEF Shape
<1>6. \A m \in relay : m.seq \in Nat /\ m.from \in Party /\ m.seq <= seq[m.from]
  BY <1>3 DEF Shape, Message, Posted
<1>7. \A m \in relay : m.seq <= seq'[m.from]
  BY <1>5, <1>6
<1>8. Posted'
  <2>1. new.seq <= seq'[new.from]
    BY <1>2, <1>5
  <2>2. \A m \in relay' : m.run = 1 /\ m.seq <= seq'[m.from] /\ Based(m)
    BY <1>1, <1>3, <1>4, <1>7, <2>1 DEF Posted
  <2> QED
    BY <1>1, <2>2 DEF Posted, Based
<1>9. Unique'
  <2>1. \A m \in relay : ~ (m.from = new.from /\ m.seq = new.seq)
    BY <1>2, <1>5, <1>6
  <2> QED
    BY <1>1, <1>3, <2>1 DEF Unique
<1>10. Quoted'
  BY <1>1, <1>3 DEF Quoted
<1>11. /\ \A q : Script(q)' = Script(q)
       /\ \A id : Overtaken(id)' <=> Overtaken(id)
  BY <1>1, ScriptStable DEF Lone, Overtaken
<1>12. /\ \A q \in Party \ {p} : pc'[q] = pc[q]
       /\ pc'[p] = pc[p] + 1
       /\ pc \in [Party -> Nat \ {0}]
  BY <1>1 DEF Shape, Advance
<1>13. ASSUME NEW q \in Party, NEW i \in 1 .. Len(Script(q)), NEW id, Over(q, i, id)
       PROVE  Over(q, i, id)'
  <2>1. pc[q] \in Nat /\ i \in Nat /\ (pc'[q] = pc[q] \/ pc'[q] = pc[q] + 1)
    <3>1. Len(Script(q)) \in Nat
      BY AtStep
    <3> QED
      BY <1>12, <3>1
  <2> QED
    BY <1>11, <1>13, <2>1 DEF Over
<1>14. Remembered'
  BY <1>1, <1>11, <1>13 DEF Undisturbed, Remembered
<1> QED
  BY <1>8, <1>9, <1>10, <1>14

\* Collect and TakeFirst: only the collection of signature shares can take a message
\* for a replay, and every other loop is over after the poll.
LEMMA ReadKeeps ==
    ASSUME Shape, Senders, SentAll, Passed, Undisturbed, NEW p \in Party,
           Collect(p) \/ TakeFirst(p)
    PROVE  Undisturbed'
<1>0. /\ Running(p) /\ UNCHANGED <<kind, lead, run, seq, relay>> /\ barrier' = barrier
      /\ Step(p).op \in {"collect", "wait"}
  BY DEF Collect, TakeFirst
<1>1. Unique /\ Remembered /\ Entered /\ Posted
  BY DEF Undisturbed
<1>2. Posted' /\ Unique'
  BY <1>0, <1>1 DEF Posted, Unique, Based
<1>3. ASSUME NEW msgs \in SUBSET Listed(p), Accept(p, msgs), UNCHANGED why, msgs # {},
             Advance(p) \/ (UNCHANGED pc /\ Step(p).op = "collect" /\ Overtaken(Step(p).id))
      PROVE  Undisturbed'
  <2>1. Quoted' /\ Remembered'
    BY <1>0, <1>3, Accepted
  <2>2. /\ \A q \in Party : view[q] \subseteq view'[q]
        /\ \A m \in msgs : \E v \in view'[p] : v.id = m.id
    BY <1>3, AcceptEffect
  <2>3. \A m \in msgs : m.id = Step(p).id
    BY <1>3 DEF Listed
  <2>4. \E v \in view'[p] : v.id = Step(p).id
    BY <1>3, <2>2, <2>3
  <2>5. FirstRuns' /\ Entered' /\ Waited' /\ Unhurt'
    BY <1>0, <1>3, <2>2, <2>4, MoveKeeps
  <2> QED
    BY <1>2, <2>1, <2>5 DEF Undisturbed
<1>4. CASE Collect(p)
  <2>1. Step(p).op = "collect" /\ Listed(p) # {}
    BY <1>4 DEF Collect
  <2>2. CASE Replayed(p, Listed(p))
    <3>1. Return(p, "replay") /\ UNCHANGED <<seen, view>>
      BY <1>4, <2>2 DEF Collect
    <3>2. Overtaken(Step(p).id)
      BY <1>0, <1>1, <2>1, <2>2, NothingReplayed
    <3>3. why' = [why EXCEPT ![p] = "replay"] /\ UNCHANGED pc
      BY <3>1 DEF Return
    <3>4. Quoted' /\ Remembered'
      BY <1>0, <3>1, <3>3, QuietKeeps
    <3>5. FirstRuns' /\ Entered' /\ Waited'
      BY <1>0, <2>1, <3>1, <3>3, MoveKeeps
    <3>6. Unhurt'
      <4>1. \A q \in Party : Step(q)' = Step(q)
        BY <1>0, <3>3, ScriptStable DEF Step
      <4>2. \A id : Overtaken(id)' <=> Overtaken(id)
        BY <1>0 DEF Lone, Overtaken
      <4>3. \A q \in Party : why'[q] = IF q = p THEN "replay" ELSE why[q]
        BY <3>3 DEF Shape
      <4> QED
        BY <3>2, <4>1, <4>2, <4>3 DEF Undisturbed, Unhurt
    <3> QED
      BY <1>2, <3>4, <3>5, <3>6 DEF Undisturbed
  <2>3. CASE ~Replayed(p, Listed(p))
    <3>1. /\ Accept(p, Listed(p))
          /\ IF Enough(p, Listed(p)) THEN Advance(p) ELSE UNCHANGED <<pc, why>>
      BY <1>4, <2>3 DEF Collect
    <3>2. ~Enough(p, Listed(p)) => Overtaken(Step(p).id)
      BY <1>0, <1>1, <2>1, FirstPollIsEnough
    <3>3. UNCHANGED why
      BY <3>1 DEF Advance
    <3> QED
      BY <1>3, <2>1, <3>1, <3>2, <3>3
  <2> QED
    BY <2>2, <2>3
<1>5. CASE TakeFirst(p)
  <2>1. Step(p).op = "wait"
    BY <1>5 DEF TakeFirst
  <2>2. PICK m \in Listed(p) : IF Replayed(p, {m})
            THEN Return(p, "replay") /\ UNCHANGED <<seen, view>>
            ELSE Accept(p, {m}) /\ Advance(p)
    BY <1>5 DEF TakeFirst
  <2>3. {m} \in SUBSET Listed(p)
    BY <2>2
  <2>4. ~Replayed(p, {m})
    BY <1>0, <1>1, <2>1, <2>3, NothingReplayed
  <2>5. Accept(p, {m}) /\ Advance(p)
    BY <2>2, <2>4
  <2>6. UNCHANGED why
    BY <2>5 DEF Advance
  <2> QED
    BY <1>3, <2>3, <2>5, <2>6
<1> QED
  BY <1>4, <1>5

LEMMA UndisturbedNext ==
    ASSUME Shape, Senders, EveryPeerCollected, Agreed, Undisturbed, NEW p \in Party,
           \/ SendMessage(p) \/ PostBarrier(p) \/ GetBarrier(p)
           \/ Collect(p) \/ TakeFirst(p) \/ Check(p)
    PROVE  Undisturbed'
<1>0. SentAll /\ Passed /\ FirstRuns /\ Posted /\ Quoted
  BY DEF Agreed, Undisturbed
<1>1. CASE SendMessage(p)
  <2>1. /\ Running(p) /\ Step(p).op = "send" /\ Advance(p) /\ barrier' = barrier
        /\ UNCHANGED <<kind, lead, run>> /\ view' = view /\ UNCHANGED why
    BY <1>1 DEF SendMessage, Advance
  <2>2. FirstRuns' /\ Entered' /\ Waited' /\ Unhurt'
    BY <2>1, MoveKeeps
  <2>3. Posted' /\ Unique' /\ Quoted' /\ Remembered'
    BY <1>1, SendKeeps
  <2> QED
    BY <2>2, <2>3 DEF Undisturbed
<1>2. ASSUME Running(p), Step(p).op # "wait", Advance(p) \/ UNCHANGED pc, UNCHANGED why,
             UNCHANGED <<kind, lead, run, relay, seq, seen, view>>,
             \/ barrier' = barrier
             \/ barrier' = barrier \cup {<<Step(p).id, p>>} /\ Step(p).op = "barrier"
      PROVE  Undisturbed'
  <2>1. FirstRuns' /\ Entered' /\ Waited' /\ Unhurt'
    BY <1>2, MoveKeeps
  <2>2. Posted' /\ Unique' /\ Quoted' /\ Remembered'
    BY <1>2, QuietKeeps
  <2> QED
    BY <2>1, <2>2 DEF Undisturbed
<1>3. CASE PostBarrier(p)
  BY <1>2, <1>3 DEF PostBarrier
<1>4. CASE GetBarrier(p)
  BY <1>2, <1>4 DEF GetBarrier, Advance
<1>5. CASE Check(p)
  <2>1. /\ Running(p) /\ Step(p).op \in {"part3", "hashes", "sign", "aggregate", "complete"}
        /\ UNCHANGED <<kind, lead, run, relay, seq, seen, view>> /\ barrier' = barrier
        /\ IF Fits(p) THEN Advance(p) ELSE Return(p, "check")
    BY <1>5 DEF Check
  <2>2. Advance(p)
    BY <1>0, <2>1, ChecksFit
  <2>3. UNCHANGED why
    BY <2>2 DEF Advance
  <2> QED
    BY <1>2, <2>1, <2>2, <2>3
<1>6. CASE Collect(p) \/ TakeFirst(p)
  BY <1>0, <1>6, ReadKeeps
<1> QED
  BY <1>1, <1>3, <1>4, <1>5, <1>6

LEMMA CleanInit ==
    ASSUME Init
    PROVE  Clean
<1>1. /\ pc = [p \in Party |-> 1] /\ why = [p \in Party |-> "none"] /\ run = [p \in Party |-> 1]
      /\ seen = [p \in Party |-> {}] /\ view = [p \in Party |-> {}]
      /\ relay = {} /\ barrier = {} /\ stops = 0
  BY DEF Init
<1>2. \A p \in Party : pc[p] = 1 /\ why[p] = "none" /\ run[p] = 1 /\ seen[p] = {} /\ view[p] = {}
  BY <1>1
<1>3. FirstRuns /\ Posted /\ Unique /\ Quoted
  BY <1>1, <1>2 DEF FirstRuns, Posted, Unique, Quoted
<1>4. Remembered /\ Entered /\ Waited /\ Unhurt
  BY <1>1, <1>2 DEF Remembered, Entered, Waited, Unhurt
<1> QED
  BY <1>1, <1>3, <1>4 DEF Clean, Undisturbed

LEMMA CleanNext ==
    ASSUME Shape, Senders, EveryPeerCollected, Agreed, Clean, [Next]_vars
    PROVE  Clean'
<1>1. CASE UNCHANGED vars
  <2>1. UNCHANGED <<kind, lead, pc, why, run, seq, seen, view, relay, barrier, stops>>
    BY <1>1 DEF vars
  <2>2. \A p : Script(p)' = Script(p)
    BY <2>1, ScriptStable
  <2>3. FirstRuns' <=> FirstRuns
    BY <2>1 DEF FirstRuns
  <2>4. Posted' <=> Posted
    BY <2>1 DEF Posted, Based
  <2>5. (Unique' <=> Unique) /\ (Quoted' <=> Quoted)
    BY <2>1 DEF Unique, Quoted
  <2>6. Remembered' <=> Remembered
    BY <2>1, <2>2 DEF Remembered, Over, Lone, Overtaken
  <2>7. (Entered' <=> Entered) /\ (Waited' <=> Waited)
    BY <2>1, <2>2 DEF Entered, Waited, Heard, Read
  <2>8. Unhurt' <=> Unhurt
    BY <2>1, <2>2 DEF Unhurt, Lone, Overtaken, Step
  <2> QED
    BY <2>1, <2>3, <2>4, <2>5, <2>6, <2>7, <2>8 DEF Clean, Undisturbed
<1>2. ASSUME NEW p \in Party,
             \/ SendMessage(p) \/ PostBarrier(p) \/ GetBarrier(p)
             \/ Collect(p) \/ TakeFirst(p) \/ Check(p)
      PROVE  Clean'
  <2>1. stops' = stops
    BY <1>2 DEF SendMessage, PostBarrier, GetBarrier, Collect, TakeFirst, Check
  <2>2. Undisturbed => Undisturbed'
    BY <1>2, UndisturbedNext
  <2> QED
    BY <2>1, <2>2 DEF Clean
<1>3. ASSUME NEW p \in Party, Stop(p) \/ Restart(p) PROVE Clean'
  <2>1. stops' = stops + 1 /\ stops \in Nat
    BY <1>3 DEF Stop, Restart, Clean
  <2>2. stops' \in Nat /\ stops' # 0
    BY <2>1
  <2> QED
    BY <2>2 DEF Clean
<1> QED
  BY <1>1, <1>2, <1>3 DEF Next

\* While no program stops or is restarted, the replay check and the checks of the
\* library fail nobody, for any number of parties and of inputs, and whatever the
\* order in which the programs run.  This leaves out the coordinator that collects
\* two signature shares or more, which no barrier precedes: it may take a share that
\* it has read for a replay, and the run rounds_shares shows it does.  With two
\* signers nobody fails at all.
THEOREM BarriersPreventReplaysAlways == Spec => []BarriersPreventReplays
<1> DEFINE Inv == Shape /\ Senders /\ EveryPeerCollected /\ Agreed /\ Clean
<1>1. Init => Inv
  BY CollectedInit, AgreedInit, CleanInit
<1>2. Inv /\ [Next]_vars => Inv'
  BY CollectedNext, AgreedNext, CleanNext
<1>3. Inv => BarriersPreventReplays
  BY DEF Clean, Undisturbed, Unhurt, BarriersPreventReplays, Lone, Overtaken
<1> QED
  BY <1>1, <1>2, <1>3, PTL DEF Spec

\* Two signers produce their signature, and two parties complete every other
\* ceremony of explicit rounds without an error, as long as no program stops: the
\* coordinator has one share to collect and no second poll to fear.
THEOREM TwoSignersSucceed ==
    ASSUME Others = 1
    PROVE  Spec => []SignersSucceed
<1> DEFINE Inv == Shape /\ Senders /\ EveryPeerCollected /\ Agreed /\ Clean
<1>1. Init => Inv
  BY CollectedInit, AgreedInit, CleanInit
<1>2. Inv /\ [Next]_vars => Inv'
  BY CollectedNext, AgreedNext, CleanNext
<1>3. Inv => SignersSucceed
  BY DEF Clean, Undisturbed, Unhurt, SignersSucceed, Overtaken
<1> QED
  BY <1>1, <1>2, <1>3, PTL DEF Spec
==============================================================================
