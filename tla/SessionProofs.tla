---------------------------- MODULE SessionProofs ----------------------------
(***************************************************************************)
(* Proofs about sessions for any number of parties, any set of ceremonies  *)
(* and any behaviour of faulty parties and of the relay.                   *)
(***************************************************************************)
EXTENDS Session, SequenceTheorems, WellFoundedInduction, TLAPS

\* The rounds of a script that wait for messages, and a whole script: it ends with
\* the one round that waits for nothing.
Waiting == {r \in RoundRecord : r.need # 0 /\ r.err \in Error}
Ending == {r \in RoundRecord : r.need = 0}
WellFormed(s) ==
    /\ s \in Seq(RoundRecord)
    /\ Len(s) >= 1
    /\ \A i \in 1..(Len(s) - 1) : s[i] \in Waiting
    /\ s[Len(s)] \in Ending

\* A runner that is in the middle of a batch has a message left to feed.
FeedPending == \A p \in Party : pc[p] = "feed" => Unseen(p, batch[p]) # {}

Shape == TypeOK /\ FeedPending
-----------------------------------------------------------------------------
\* Parties are numbered from 1, the coordinator is one of them.
LEMMA PartyType == Coordinator \in Party /\ N - 1 \in Nat /\ Party \subseteq Nat
BY CeremonyAssumption DEF Coordinator, Party

\* A round that awaits one message or one per peer is a waiting round.
LEMMA RoundType ==
    ASSUME NEW send \in Seq(Kind), NEW recv \in Kind, NEW need \in {1, N - 1},
           NEW err \in Error
    PROVE  Round(send, recv, need, err) \in Waiting
<1>1. need \in 0..(N - 1) /\ need # 0
  BY CeremonyAssumption
<1> QED
  BY <1>1 DEF Round, Waiting, RoundRecord

\* The sends before a function returns Ok make an ending round.
LEMMA FinishType ==
    ASSUME NEW send \in Seq(Kind)
    PROVE  Finish(send) \in Ending
<1>1. 0 \in 0..(N - 1)
  BY CeremonyAssumption
<1> QED
  BY <1>1 DEF Finish, Round, Ending, RoundRecord

\* A script is made of waiting rounds followed by an ending one.
LEMMA ScriptShape ==
    ASSUME NEW s \in Seq(Waiting), NEW t, WellFormed(t)
    PROVE  WellFormed(s \o t)
<1>1. s \in Seq(RoundRecord) /\ t \in Seq(RoundRecord)
  BY SeqMonotonic DEF Waiting, WellFormed
<1>2. /\ s \o t \in Seq(RoundRecord)
      /\ Len(s \o t) = Len(s) + Len(t)
      /\ \A i \in 1..(Len(s) + Len(t)) :
            (s \o t)[i] = IF i <= Len(s) THEN s[i] ELSE t[i - Len(s)]
  BY <1>1, ConcatProperties
<1>3. /\ Len(s) \in Nat /\ Len(t) \in Nat /\ Len(t) >= 1
      /\ \A i \in 1..Len(s) : s[i] \in Waiting
  BY <1>1, ElementOfSeq, LenProperties DEF WellFormed
<1>4. ASSUME NEW i \in 1..(Len(s) + Len(t) - 1) PROVE (s \o t)[i] \in Waiting
  <2>1. CASE i <= Len(s)
    BY <1>2, <1>3, <2>1
  <2>2. CASE ~(i <= Len(s))
    <3>1. (s \o t)[i] = t[i - Len(s)] /\ i - Len(s) \in 1..(Len(t) - 1)
      BY <1>2, <1>3, <2>2
    <3> QED
      BY <3>1 DEF WellFormed
  <2> QED
    BY <2>1, <2>2
<1>5. (s \o t)[Len(s) + Len(t)] = t[Len(t)]
  BY <1>2, <1>3
<1> QED
  BY <1>2, <1>3, <1>4, <1>5 DEF WellFormed

\* The two shapes in which every script ends.
LEMMA ScriptEnd ==
    ASSUME NEW e \in Ending
    PROVE  WellFormed(<<e>>) /\ \A r \in Waiting : WellFormed(<<r, e>>)
BY DEF WellFormed, Ending, Waiting

\* The rounds of dkg_run, reshare_run and key_import_run are waiting rounds.
LEMMA DkgRoundsType == DkgRounds \in Seq(Waiting)
<1>1. <<"r1">> \in Seq(Kind) /\ <<"r2">> \in Seq(Kind)
  BY DEF Kind
<1>2. /\ Round(<<"r1">>, "r1", N - 1, "LIB_SERIALIZATION_ERROR") \in Waiting
      /\ Round(<<"r2">>, "r2", N - 1, "LIB_SERIALIZATION_ERROR") \in Waiting
  BY <1>1, RoundType DEF Kind, Error
<1> QED
  BY <1>2 DEF DkgRounds

\* So are those of the metadata exchange, of its creator and of the others.
LEMMA MetadataRoundsType ==
    ASSUME NEW c \in BOOLEAN, NEW err \in Error
    PROVE  MetadataRounds(c, err) \in Seq(Waiting)
<1>1. /\ <<"meta", "hash">> \in Seq(Kind) /\ <<"hash">> \in Seq(Kind)
      /\ <<>> \in Seq(Kind)
  BY DEF Kind
<1>2. /\ Round(<<"meta", "hash">>, "hash", N - 1, err) \in Waiting
      /\ Round(<<>>, "meta", 1, "LIB_INVALID_BUFFER_SIZE") \in Waiting
      /\ Round(<<"hash">>, "hash", N - 1, err) \in Waiting
  BY <1>1, RoundType DEF Kind, Error
<1> QED
  BY <1>2 DEF MetadataRounds

\* Every *_run function is a well-formed script for every party.
LEMMA ScriptsWellFormed ==
    ASSUME NEW c \in CeremonyName, NEW p \in Party
    PROVE  WellFormed(Scripts[c][p])
<1>1. Scripts[c][p] = Script(c, p)
  <2>1. WasmScript(c, p) = Script(c, p)
    BY DEF WasmScript, Script, WasmFroztDkg, WasmFroztKeyImport, WasmFroztSign,
           WasmFromtDkg, WasmFromtKeyImport, WasmKeyImage, CeremonyName
  <2> QED
    BY <2>1 DEF Scripts
<1>2. /\ <<>> \in Seq(Kind) /\ <<"vk">> \in Seq(Kind) /\ <<"commit">> \in Seq(Kind)
      /\ <<"share">> \in Seq(Kind) /\ <<"package", "share">> \in Seq(Kind)
      /\ <<"partials">> \in Seq(Kind)
  BY DEF Kind
<1>3. Finish(<<>>) \in Ending /\ Finish(<<"vk">>) \in Ending
  BY <1>2, FinishType
<1>4. DkgRounds \in Seq(Waiting)
  BY DkgRoundsType
<1>5. WellFormed(<<Finish(<<>>)>>)
  BY <1>3, ScriptEnd
<1>6. ASSUME NEW b \in BOOLEAN, NEW err \in Error
      PROVE  DkgRounds \o MetadataRounds(b, err) \in Seq(Waiting)
  BY <1>4, MetadataRoundsType, ConcatProperties
<1>7. ASSUME NEW b \in BOOLEAN PROVE WellFormed(VkRounds(b))
  <2>1. Round(<<>>, "vk", 1, "LIB_KEY_IMPORT_ERROR") \in Waiting
    BY <1>2, RoundType DEF Kind, Error
  <2> QED
    BY <1>3, <2>1, ScriptEnd DEF VkRounds
<1>8. (p = Coordinator) \in BOOLEAN /\ SeedHolder(p) \in BOOLEAN
  BY DEF SeedHolder
<1>9. CASE c \in {"FroztDkg", "FromtDkg", "Reshare"}
  <2>1. WellFormed(FroztDkg(p))
    <3>1. "LIB_DKG_ERROR" \in Error
      BY DEF Error
    <3> QED
      BY <1>5, <1>6, <1>8, <3>1, ScriptShape DEF FroztDkg
  <2>2. WellFormed(FromtDkg(p)) /\ WellFormed(Reshare(p))
    BY <1>4, <1>5, ScriptShape DEF FromtDkg, Reshare
  <2> QED
    BY <1>1, <1>9, <2>1, <2>2 DEF Script
<1>10. CASE c \in {"FroztKeyImport", "FromtKeyImport"}
  <2>1. WellFormed(FroztKeyImport(p))
    <3>1. "LIB_KEY_IMPORT_ERROR" \in Error
      BY DEF Error
    <3> QED
      BY <1>6, <1>7, <1>8, <3>1, ScriptShape DEF FroztKeyImport
  <2>2. WellFormed(FromtKeyImport(p))
    BY <1>4, <1>7, <1>8, ScriptShape DEF FromtKeyImport
  <2> QED
    BY <1>1, <1>10, <2>1, <2>2 DEF Script
<1>11. CASE c \in {"FroztSign", "FromtSign", "KeyImage"}
  <2>1. /\ Round(<<"commit">>, "commit", N - 1, "LIB_SERIALIZATION_ERROR") \in Waiting
        /\ Round(<<"share">>, "share", N - 1, "LIB_SERIALIZATION_ERROR") \in Waiting
        /\ Round(<<"package", "share">>, "share", N - 1, "LIB_SERIALIZATION_ERROR")
             \in Waiting
        /\ Round(<<>>, "package", 1, "LIB_SERIALIZATION_ERROR") \in Waiting
        /\ Round(<<"partials">>, "partials", N - 1, "LIB_SERIALIZATION_ERROR")
             \in Waiting
    BY <1>2, RoundType DEF Kind, Error
  <2>2. ASSUME NEW r1 \in Waiting, NEW r2 \in Waiting, NEW r3 \in Waiting, NEW e \in Ending
        PROVE  /\ WellFormed(<<r1, e>>)
               /\ WellFormed(<<r1, r2, e>>)
               /\ WellFormed(<<r1>> \o <<r2>> \o <<e>>)
               /\ WellFormed(<<r1>> \o <<r2, r3>> \o <<e>>)
    <3>1. <<r1>> \o <<r2>> \in Seq(Waiting) /\ <<r1>> \o <<r2, r3>> \in Seq(Waiting)
      OBVIOUS
    <3>2. WellFormed(<<r1, r2, e>>)
      BY DEF WellFormed, Waiting, Ending
    <3> QED
      BY <3>1, <3>2, ScriptShape, ScriptEnd
  <2>3. WellFormed(FroztSign(p))
    BY <1>3, <2>1, <2>2 DEF FroztSign
  <2>4. WellFormed(FromtSign(p)) /\ WellFormed(KeyImage(p))
    BY <1>3, <2>1, <2>2 DEF FromtSign, KeyImage
  <2> QED
    BY <1>1, <1>11, <2>3, <2>4 DEF Script
<1> QED
  BY <1>9, <1>10, <1>11 DEF CeremonyName
-----------------------------------------------------------------------------
(***************************************************************************)
(* Types of the operators.                                                 *)
(***************************************************************************)
\* The least member, which First chooses, exists.
LEMMA FirstExists ==
    ASSUME NEW S \in SUBSET Nat, S # {}
    PROVE  First(S) \in S /\ \A l \in S : First(S) <= l
<1> DEFINE R == OpToRel(<, Nat)
<1>1. \E x \in S : \A y \in S : ~(<<y, x>> \in R)
  <2>1. IsWellFoundedOn(R, Nat)
    BY NatLessThanWellFounded
  <2> HIDE DEF R
  <2> QED
    BY <2>1, WFMin
<1>2. \A x, y \in Nat : y < x => <<y, x>> \in R
  BY DEF OpToRel
<1> HIDE DEF R
<1>3. PICK x \in S : \A y \in S : ~(<<y, x>> \in R)
  BY <1>1
<1>4. ASSUME NEW y \in S PROVE x <= y
  <2>1. x \in Nat /\ y \in Nat /\ ~(y < x)
    BY <1>2, <1>3
  <2> QED
    BY <2>1
<1> QED
  BY <1>4 DEF First

\* Splitting the index of a POST into a message and a recipient.
LEMMA DivRange ==
    ASSUME NEW L \in Nat, NEW M \in Nat \ {0}, NEW j \in 1..(L * M)
    PROVE  (j - 1) \div M \in 0..(L - 1) /\ (j - 1) % M \in 0..(M - 1)
<1> DEFINE q == (j - 1) \div M
           r == (j - 1) % M
<1>1. q \in Int /\ r \in 0..(M - 1) /\ j - 1 = M * q + r
  OBVIOUS
<1> HIDE DEF q, r
<1>2. q < L
  <2> SUFFICES ASSUME q >= L PROVE FALSE
    BY <1>1
  <2>1. M * q >= M * L
    BY <1>1
  <2>2. M * L = L * M
    OBVIOUS
  <2> QED
    BY <1>1, <2>1, <2>2
<1>3. q >= 0
  <2> SUFFICES ASSUME q <= -1 PROVE FALSE
    BY <1>1
  <2>1. M * q <= M * (-1)
    BY <1>1
  <2> QED
    BY <1>1, <2>1
<1> QED
  BY <1>1, <1>2, <1>3 DEF q, r

\* other_party_ids never lists the party itself.
LEMMA RecipientType ==
    ASSUME NEW p \in Party, NEW k \in 1..(N - 1)
    PROVE  Recipient(p, k) \in Party /\ Recipient(p, k) # p
BY CeremonyAssumption DEF Recipient, Party

\* What a task sends is a value a message may have.
LEMMA PayloadType ==
    ASSUME NEW p, NEW k \in Kind, NEW h, NEW b \in Val
    PROVE  Payload(p, k, h, b) \in Val
BY DEF Payload, Term, Val

\* A broadcast carries only values its payloads have.
LEMMA EnvelopesIn ==
    ASSUME NEW p \in Party, NEW ks \in Seq(Kind), NEW h, NEW b, NEW V,
           \A k \in Kind : Payload(p, k, h, b) \in V
    PROVE  Envelopes(p, ks, h, b) \in Seq([to : Party, kind : Kind, val : V])
<1> DEFINE M == N - 1
           n == Len(ks) * M
           E == [to : Party, kind : Kind, val : V]
           env(j) == LET k == ks[((j - 1) \div M) + 1]
                     IN [to |-> Recipient(p, ((j - 1) % M) + 1), kind |-> k,
                         val |-> Payload(p, k, h, b)]
<1>1. M \in Nat \ {0} /\ Len(ks) \in Nat
  BY CeremonyAssumption, LenProperties
<1>2. n \in Nat
  BY <1>1
<1>3. ASSUME NEW j \in 1..n PROVE env(j) \in E
  <2>1. (j - 1) \div M \in 0..(Len(ks) - 1) /\ (j - 1) % M \in 0..(M - 1)
    BY <1>1, DivRange
  <2> DEFINE i == ((j - 1) \div M) + 1
             a == ((j - 1) % M) + 1
  <2>2. i \in 1..Len(ks) /\ a \in 1..M
    BY <1>1, <2>1
  <2> HIDE DEF i, a
  <2>3. ks[i] \in Kind
    BY <2>2, ElementOfSeq
  <2>4. Recipient(p, a) \in Party
    BY <2>2, RecipientType
  <2>5. Payload(p, ks[i], h, b) \in V
    BY <2>3
  <2> QED
    BY <2>3, <2>4, <2>5 DEF i, a
<1>4. Envelopes(p, ks, h, b) = [j \in 1..n |-> env(j)]
  BY DEF Envelopes
<1> HIDE DEF n, env, E
<1>5. [j \in 1..n |-> env(j)] \in [1..n -> E]
  BY <1>3
<1>6. [j \in 1..n |-> env(j)] \in Seq(E)
  BY <1>2, <1>5, SeqDef
<1> QED
  BY <1>4, <1>6 DEF E

\* A broadcast turns into POSTs to parties.
LEMMA EnvelopesType ==
    ASSUME NEW p \in Party, NEW ks \in Seq(Kind), NEW h, NEW b \in Val
    PROVE  Envelopes(p, ks, h, b) \in Seq(Envelope)
BY PayloadType, EnvelopesIn DEF Envelope
-----------------------------------------------------------------------------
(***************************************************************************)
(* Shape is inductive.                                                     *)
(***************************************************************************)
\* Where a task stands in its script.
LEMMA CurrentType ==
    ASSUME TypeOK, NEW p \in Party
    PROVE  /\ WellFormed(ScriptOf(p))
           /\ round[p] \in 1..Len(ScriptOf(p))
           /\ Current(p) \in RoundRecord
           /\ Current(p).need # 0 =>
                /\ round[p] + 1 \in 1..Len(ScriptOf(p))
                /\ ScriptOf(p)[round[p] + 1] \in RoundRecord
                /\ Current(p).err \in Error
<1>1. ceremony \in CeremonyName
  BY SessionAssumption DEF TypeOK
<1>2. WellFormed(ScriptOf(p))
  BY <1>1, ScriptsWellFormed DEF ScriptOf
<1> DEFINE s == ScriptOf(p)
<1>3. s \in Seq(RoundRecord) /\ Len(s) \in Nat
  BY <1>2, LenProperties DEF WellFormed
<1>4. round[p] \in 1..Len(s)
  BY <1>3 DEF TypeOK
<1>5. Current(p) = s[round[p]]
  BY DEF Current
<1> HIDE DEF s
<1>6. Current(p) \in RoundRecord
  BY <1>3, <1>4, <1>5, ElementOfSeq
<1>7. ASSUME Current(p).need # 0
      PROVE  round[p] + 1 \in 1..Len(s) /\ s[round[p] + 1] \in RoundRecord
             /\ Current(p).err \in Error
  <2>1. round[p] # Len(s)
    BY <1>2, <1>5, <1>7 DEF WellFormed, Ending, s
  <2>2. round[p] \in 1..(Len(s) - 1) /\ round[p] + 1 \in 1..Len(s)
    BY <1>3, <1>4, <2>1
  <2>3. s[round[p]] \in Waiting
    BY <1>2, <2>2 DEF WellFormed, s
  <2> QED
    BY <1>3, <1>5, <2>2, <2>3, ElementOfSeq DEF Waiting
<1> QED
  BY <1>2, <1>4, <1>6, <1>7 DEF s

\* The relay's lists only grow at their end, so what a runner has fetched stays.
RelayGrows ==
    \A q \in Party :
        /\ Len(relay[q]) <= Len(relay'[q])
        /\ \A i \in 1..Len(relay[q]) : relay'[q][i] = relay[q][i]

\* Appending a message makes the relay grow.
LEMMA AppendGrows ==
    ASSUME TypeOK, NEW to \in Party, NEW m \in Message,
           relay' = [relay EXCEPT ![to] = Append(@, m)]
    PROVE  RelayGrows /\ relay' \in [Party -> Seq(Message)]
<1>1. relay \in [Party -> Seq(Message)]
  BY DEF TypeOK
<1>2. ASSUME NEW q \in Party
      PROVE  /\ relay'[q] \in Seq(Message)
             /\ Len(relay[q]) <= Len(relay'[q])
             /\ \A i \in 1..Len(relay[q]) : relay'[q][i] = relay[q][i]
  <2>1. relay[q] \in Seq(Message) /\ Len(relay[q]) \in Nat
    BY <1>1, LenProperties
  <2>2. CASE q = to
    <3>1. relay'[q] = Append(relay[q], m)
      BY <1>1, <2>2
    <3> QED
      BY <2>1, <3>1, AppendProperties
  <2>3. CASE q # to
    BY <1>1, <2>1, <2>3
  <2> QED
    BY <2>2, <2>3
<1>3. relay' \in [Party -> Seq(Message)]
  BY <1>1, <1>2
<1> QED
  BY <1>2, <1>3 DEF RelayGrows

\* A step that only adds to the relay leaves every pending batch as it is.
LEMMA PendingStable ==
    ASSUME Shape, RelayGrows, batch' = batch, seen' = seen,
           \A q \in Party : pc'[q] = "feed" => pc[q] = "feed"
    PROVE  /\ FeedPending'
           /\ (relay' \in [Party -> Seq(Message)]) =>
                \A q \in Party : batch'[q] <= Len(relay'[q])
<1>1. ASSUME NEW q \in Party PROVE Unseen(q, batch[q])' = Unseen(q, batch[q])
  <2>1. batch[q] \in Nat /\ Len(relay[q]) \in Nat /\ batch[q] <= Len(relay[q])
    BY LenProperties DEF Shape, TypeOK
  <2>2. \A i \in 1..batch[q] : relay'[q][i] = relay[q][i]
    BY <2>1 DEF RelayGrows
  <2> QED
    BY <2>2 DEF Unseen, SeenKey
<1>2. FeedPending'
  BY <1>1 DEF FeedPending, Shape
<1>3. ASSUME relay' \in [Party -> Seq(Message)], NEW q \in Party
      PROVE  batch'[q] <= Len(relay'[q])
  <2>1. batch[q] \in Nat /\ Len(relay[q]) \in Nat /\ batch[q] <= Len(relay[q])
        /\ Len(relay'[q]) \in Nat
    BY <1>3, LenProperties DEF Shape, TypeOK
  <2> QED
    BY <2>1 DEF RelayGrows
<1> QED
  BY <1>2, <1>3

\* The initial states have the shape.
LEMMA InitShape == Init => Shape
<1> SUFFICES ASSUME Init PROVE Shape
  OBVIOUS
<1>1. ceremony \in Running /\ ceremony \in CeremonyName
  BY SessionAssumption DEF Init
<1>2. \A p \in Party : OwnBlob(p) \in Val
  BY DEF OwnBlob, Val
<1>3. ASSUME NEW p \in Party
      PROVE  /\ Len(ScriptOf(p)) \in Nat /\ Len(ScriptOf(p)) >= 1
             /\ ScriptOf(p)[1].send \in Seq(Kind)
  <2>1. WellFormed(ScriptOf(p))
    BY <1>1, ScriptsWellFormed DEF ScriptOf
  <2>2. /\ ScriptOf(p) \in Seq(RoundRecord) /\ Len(ScriptOf(p)) \in Nat
        /\ Len(ScriptOf(p)) >= 1
    BY <2>1, LenProperties DEF WellFormed
  <2>3. ScriptOf(p)[1] \in RoundRecord
    BY <2>2, ElementOfSeq
  <2> QED
    BY <2>2, <2>3 DEF RoundRecord
<1>4. \A p \in Party :
         Envelopes(p, ScriptOf(p)[1].send, {}, OwnBlob(p)) \in Seq(Envelope)
  BY <1>2, <1>3, EnvelopesType
<1>5. outbox \in [Party -> Seq(Envelope)] /\ blob \in [Party -> Val]
  BY <1>2, <1>4 DEF Init
<1>6. /\ round \in [Party -> Nat \ {0}]
      /\ \A p \in Party : round[p] <= Len(ScriptOf(p))
  BY <1>3 DEF Init
<1>7. /\ count \in [Party -> 0..(N - 1)] /\ heard \in [Party -> SUBSET Heard]
      /\ seen \in [Party -> SUBSET (Party \X Nat)] /\ seq \in [Party -> Nat]
      /\ batch \in [Party -> Nat]
  BY PartyType DEF Init
<1>8. /\ relay \in [Party -> Seq(Message)]
      /\ \A p \in Party : batch[p] <= Len(relay[p])
  BY DEF Init
<1>9. /\ outcome \in [Party -> {"none", "ok"} \cup Error]
      /\ blamed \in [Party -> Party \cup {0}]
      /\ pc \in [Party -> {"drain", "feed", "final", "ok", "error", "blame"}]
      /\ FeedPending
  BY DEF Init, FeedPending
<1>10. dups \in 0..MaxDups /\ drops \in 0..MaxDrops
  BY SessionAssumption DEF Init
<1> QED
  BY <1>1, <1>5, <1>6, <1>7, <1>8, <1>9, <1>10 DEF Shape, TypeOK

\* A POST only adds to the relay.
LEMMA PostGrows ==
    ASSUME Shape, NEW p \in Party, Post(p) \/ PostLost(p)
    PROVE  RelayGrows /\ relay' \in [Party -> Seq(Message)] /\ drops' \in 0..MaxDrops
<1>1. outbox[p] \in Seq(Envelope) /\ outbox[p] # <<>>
  BY DEF Shape, TypeOK, Post, PostLost
<1>2. Head(outbox[p]) \in Envelope
  BY <1>1, HeadTailProperties
<1>3. CASE Post(p)
  <2> DEFINE e == Head(outbox[p])
  <2>1. PICK v \in Sendable(p, e) :
           relay' = [relay EXCEPT ![e.to] =
                       Append(@, [from |-> p, seq |-> seq[p] + 1,
                                  kind |-> e.kind, val |-> v])]
    BY <1>3 DEF Post
  <2>2. e.to \in Party /\ e.kind \in Kind /\ e.val \in Val
    BY <1>2 DEF Envelope
  <2>3. v \in Val
    BY <2>1, <2>2 DEF Sendable, Val
  <2>4. [from |-> p, seq |-> seq[p] + 1, kind |-> e.kind, val |-> v] \in Message
    BY <2>2, <2>3 DEF Message, Shape, TypeOK
  <2>5. drops' = drops /\ drops \in 0..MaxDrops
    BY <1>3 DEF Post, Shape, TypeOK
  <2> HIDE DEF e
  <2> QED
    BY <2>1, <2>2, <2>4, <2>5, AppendGrows DEF Shape
<1>4. CASE PostLost(p)
  <2>1. relay' = relay /\ drops' = drops + 1 /\ drops < MaxDrops
        /\ relay \in [Party -> Seq(Message)] /\ drops \in 0..MaxDrops
    BY <1>4 DEF PostLost, Shape, TypeOK
  <2>2. drops' \in 0..MaxDrops
    BY <2>1, SessionAssumption
  <2>3. RelayGrows
    BY <2>1, LenProperties DEF RelayGrows
  <2> QED
    BY <2>1, <2>2, <2>3
<1> QED
  BY <1>3, <1>4

\* A POST, lost or not.
LEMMA PostShape ==
    ASSUME Shape, NEW p \in Party, Post(p) \/ PostLost(p)
    PROVE  Shape'
<1>1. /\ outbox[p] \in Seq(Envelope) /\ outbox[p] # <<>>
      /\ outbox' = [outbox EXCEPT ![p] = Tail(@)]
      /\ seq' = [seq EXCEPT ![p] = @ + 1]
      /\ UNCHANGED <<ceremony, task, pc, batch, seen, dups>>
  BY DEF Shape, TypeOK, Post, PostLost
<1>2. Head(outbox[p]) \in Envelope /\ Tail(outbox[p]) \in Seq(Envelope)
  BY <1>1, HeadTailProperties
<1>3. outbox' \in [Party -> Seq(Envelope)] /\ seq' \in [Party -> Nat]
  BY <1>1, <1>2 DEF Shape, TypeOK
<1>4. /\ RelayGrows /\ relay' \in [Party -> Seq(Message)] /\ drops' \in 0..MaxDrops
  BY PostGrows
<1>5. FeedPending' /\ \A q \in Party : batch'[q] <= Len(relay'[q])
  BY <1>1, <1>4, PendingStable
<1> QED
  BY <1>1, <1>3, <1>4, <1>5 DEF Shape, TypeOK, task, ScriptOf

\* Fetching the list keeps the shape: the batch has an unseen message.
LEMMA GetMessagesShape ==
    ASSUME Shape, NEW p \in Party, GetMessages(p)
    PROVE  Shape'
<1>1. relay[p] \in Seq(Message) /\ Len(relay[p]) \in Nat
  BY LenProperties DEF Shape, TypeOK
<1>2. /\ batch' \in [Party -> Nat]
      /\ \A q \in Party : batch'[q] <= Len(relay'[q])
  BY <1>1 DEF Shape, TypeOK, GetMessages
<1>3. FeedPending'
  <2> SUFFICES ASSUME NEW q \in Party, pc'[q] = "feed"
               PROVE  Unseen(q, batch[q])' # {}
    BY DEF FeedPending
  <2>1. relay' = relay /\ seen' = seen
    BY DEF GetMessages
  <2>2. CASE q = p
    <3>1. batch'[q] = Len(relay[q]) /\ Unseen(q, Len(relay[q])) # {}
      BY <2>2 DEF GetMessages, Shape, TypeOK
    <3> QED
      BY <2>1, <3>1 DEF Unseen
  <2>3. CASE q # p
    <3>1. batch'[q] = batch[q] /\ pc[q] = "feed"
      BY <2>3 DEF GetMessages, Shape, TypeOK
    <3>2. Unseen(q, batch[q]) # {}
      BY <3>1 DEF Shape, FeedPending
    <3> QED
      BY <2>1, <3>1, <3>2 DEF Unseen
  <2> QED
    BY <2>2, <2>3
<1> QED
  BY <1>2, <1>3 DEF Shape, TypeOK, GetMessages, task, ScriptOf

\* The end of RunSession keeps the shape.
LEMMA ReturnShape ==
    ASSUME Shape, NEW p \in Party, Return(p) \/ RunFails(p)
    PROVE  Shape'
<1>1. /\ UNCHANGED <<ceremony, task, outbox, batch, seen, seq, relay, dups, drops>>
      /\ \E v \in {"ok", "error", "blame"} : pc' = [pc EXCEPT ![p] = v]
  BY DEF Return, RunFails
<1>2. pc' \in [Party -> {"drain", "feed", "final", "ok", "error", "blame"}]
  BY <1>1 DEF Shape, TypeOK
<1>3. \A q \in Party : pc'[q] = "feed" => pc[q] = "feed"
  BY <1>1 DEF Shape, TypeOK
<1>4. FeedPending'
  BY <1>1, <1>3 DEF Shape, FeedPending, Unseen
<1> QED
  BY <1>1, <1>2, <1>4 DEF Shape, TypeOK, task, ScriptOf

\* A message listed twice only adds to the relay.
LEMMA DuplicateGrows ==
    ASSUME Shape, NEW p \in Party, Duplicate(p)
    PROVE  RelayGrows /\ relay' \in [Party -> Seq(Message)]
<1>1. PICK i \in DOMAIN relay[p] : relay' = [relay EXCEPT ![p] = Append(@, @[i])]
  BY DEF Duplicate
<1>2. relay[p] \in Seq(Message) /\ relay[p][i] \in Message
  BY <1>1, ElementOfSeq, LenProperties DEF Shape, TypeOK
<1>3. relay' = [relay EXCEPT ![p] = Append(@, relay[p][i])]
  BY <1>1 DEF Shape, TypeOK
<1> QED
  BY <1>2, <1>3, AppendGrows DEF Shape

\* A message listed twice keeps the shape.
LEMMA DuplicateShape ==
    ASSUME Shape, NEW p \in Party, Duplicate(p)
    PROVE  Shape'
<1>1. RelayGrows /\ relay' \in [Party -> Seq(Message)]
  BY DuplicateGrows
<1>2. UNCHANGED <<ceremony, task, outbox, pc, batch, seen, seq, drops>>
  BY DEF Duplicate
<1>3. FeedPending' /\ \A q \in Party : batch'[q] <= Len(relay'[q])
  BY <1>1, <1>2, PendingStable
<1>4. dups' \in 0..MaxDups
  BY SessionAssumption DEF Duplicate, Shape, TypeOK
<1> QED
  BY <1>1, <1>2, <1>3, <1>4 DEF Shape, TypeOK, task, ScriptOf

\* The parts of TypeOK that one poll of a task changes.
TaskType ==
    /\ round \in [Party -> Nat \ {0}]
    /\ \A q \in Party : round[q] <= Len(ScriptOf(q))
    /\ count \in [Party -> 0..(N - 1)]
    /\ heard \in [Party -> SUBSET Heard]
    /\ blob \in [Party -> Val]
    /\ outcome \in [Party -> {"none", "ok"} \cup Error]
    /\ blamed \in [Party -> Party \cup {0}]
    /\ outbox \in [Party -> Seq(Envelope)]

\* What a task stores of a message.
LEMMA RecordType ==
    ASSUME NEW h \in SUBSET Heard, NEW m \in Message
    PROVE  Record(h, m) \in SUBSET Heard
<1>1. [from |-> m.from, kind |-> m.kind, val |-> m.val] \in Heard
  BY DEF Heard, Message
<1> QED
  BY <1>1 DEF Record

\* A culprit is a party, and the one that is blamed is a culprit.
LEMMA CulpritsType ==
    ASSUME NEW h \in SUBSET Heard, NEW k
    PROVE  /\ Culprits(h, k) \in SUBSET Party
           /\ Culprits(h, k) # {} => First(Culprits(h, k)) \in Culprits(h, k)
<1>1. Culprits(h, k) \in SUBSET Party
  BY DEF Culprits, Heard
<1>2. Culprits(h, k) \in SUBSET Nat
  BY <1>1, PartyType
<1> QED
  BY <1>1, <1>2, FirstExists

\* One poll of a task keeps its part of the shape, whichever way it ends.
LEMMA FeedType ==
    ASSUME TypeOK, NEW p \in Party, NEW m \in Message, Feed(p, m), ceremony' = ceremony
    PROVE  TaskType'
<1> USE DEF TypeOK
<1>1. TaskType /\ Current(p) \in RoundRecord
  BY CurrentType DEF TaskType
<1>2. \A q \in Party : ScriptOf(q)' = ScriptOf(q)
  BY DEF ScriptOf
<1>3. CASE Reject(p, m)
  <2>1. Current(p).err \in Error \cup {"none"}
    BY <1>1 DEF RoundRecord
  <2> QED
    BY <1>2, <1>3, <2>1 DEF Reject, TaskType
<1>4. CASE Collect(p, m)
  <2>1. Current(p).need \in 0..(N - 1) /\ count[p] \in 0..(N - 1)
    BY <1>1 DEF RoundRecord
  <2>2. count[p] + 1 < Current(p).need
    BY <1>4 DEF Collect
  <2> DEFINE n == Current(p).need
             c == count[p]
  <2>3. n \in 0..(N - 1) /\ c \in 0..(N - 1) /\ c + 1 < n
    BY <2>1, <2>2
  <2> HIDE DEF n, c
  <2>4. c + 1 \in 0..(N - 1)
    BY <2>3, PartyType
  <2>5. count' \in [Party -> 0..(N - 1)]
    BY <1>4, <2>4 DEF Collect, c
  <2>6. Record(heard[p], m) \in SUBSET Heard
    BY RecordType
  <2> QED
    BY <1>2, <1>4, <2>5, <2>6 DEF Collect, TaskType
<1>5. CASE FailCheck(p, m)
  <2> DEFINE h == Record(heard[p], m)
             e == LoopError(p, h)
             c == Culprits(h, Current(p).recv)
  <2>1. h \in SUBSET Heard
    BY RecordType
  <2>2. e \in Error \cup {"none"} /\ (e = "LIB_BLAME" => c # {})
    BY DEF LoopError, Error
  <2>3. c # {} => First(c) \in Party
    BY <2>1, CulpritsType
  <2>4. /\ heard' = [heard EXCEPT ![p] = h]
        /\ outcome' = [outcome EXCEPT ![p] = e]
        /\ blamed' = IF e = "LIB_BLAME" THEN [blamed EXCEPT ![p] = First(c)] ELSE blamed
        /\ UNCHANGED <<round, count, blob, outbox>>
    BY <1>5 DEF FailCheck
  <2> HIDE DEF h, e, c
  <2>5. blamed' \in [Party -> Party \cup {0}]
    BY <2>2, <2>3, <2>4
  <2> QED
    BY <1>2, <2>1, <2>2, <2>4, <2>5 DEF TaskType
<1>6. CASE Advance(p, m)
  <2> DEFINE h == Record(heard[p], m)
             b == IF m.kind = "meta" THEN m.val ELSE blob[p]
             next == ScriptOf(p)[round[p] + 1]
             out == Envelopes(p, next.send, h, b)
  <2>1. h \in SUBSET Heard
    BY RecordType
  <2>2. b \in Val
    BY DEF Message
  <2>3. Current(p).need # 0
    <3>1. count[p] \in Nat /\ Current(p).need = count[p] + 1
      BY <1>6 DEF Advance
    <3> QED
      BY <3>1
  <2>4. /\ round[p] + 1 \in 1..Len(ScriptOf(p)) /\ next \in RoundRecord
    BY <2>3, CurrentType
  <2>5. next.send \in Seq(Kind)
    BY <2>4 DEF RoundRecord
  <2>6. out \in Seq(Envelope)
    BY <2>2, <2>5, EnvelopesType
  <2>7. outbox[p] \o out \in Seq(Envelope)
    BY <2>6, ConcatProperties
  <2>8. /\ heard' = [heard EXCEPT ![p] = h]
        /\ blob' = [blob EXCEPT ![p] = b]
        /\ round' = [round EXCEPT ![p] = @ + 1]
        /\ count' = [count EXCEPT ![p] = 0]
        /\ outbox' = [outbox EXCEPT ![p] = @ \o out]
        /\ outcome' = [outcome EXCEPT ![p] = IF next.need = 0 THEN "ok" ELSE "none"]
        /\ UNCHANGED blamed
    BY <1>6 DEF Advance
  <2> HIDE DEF h, b, next, out
  <2>9. /\ round' \in [Party -> Nat \ {0}]
        /\ \A q \in Party : round'[q] <= Len(ScriptOf(q))
    BY <2>4, <2>8
  <2>10. count' \in [Party -> 0..(N - 1)]
    BY <2>8, PartyType
  <2>11. outbox' \in [Party -> Seq(Envelope)]
    BY <2>7, <2>8
  <2> QED
    BY <1>2, <2>1, <2>2, <2>8, <2>9, <2>10, <2>11 DEF TaskType
<1> QED
  BY <1>3, <1>4, <1>5, <1>6 DEF Feed

\* The message pollInbox feeds next is one of those the relay lists.
LEMMA FedMessage ==
    ASSUME Shape, NEW p \in Party, pc[p] = "feed"
    PROVE  /\ First(Unseen(p, batch[p])) \in Unseen(p, batch[p])
           /\ First(Unseen(p, batch[p])) \in 1..Len(relay[p])
           /\ relay[p][First(Unseen(p, batch[p]))] \in Message
<1> DEFINE new == Unseen(p, batch[p])
<1>1. new # {}
  BY DEF Shape, FeedPending
<1>2. /\ relay[p] \in Seq(Message) /\ Len(relay[p]) \in Nat /\ batch[p] \in Nat
      /\ batch[p] <= Len(relay[p])
  BY LenProperties DEF Shape, TypeOK
<1>3. new \subseteq 1..batch[p] /\ new \in SUBSET Nat
  BY <1>2 DEF Unseen
<1>4. First(new) \in new
  BY <1>1, <1>3, FirstExists
<1> HIDE DEF new
<1>5. First(new) \in 1..Len(relay[p])
  <2>1. First(new) \in 1..batch[p]
    BY <1>3, <1>4
  <2> QED
    BY <1>2, <2>1
<1> QED
  BY <1>2, <1>4, <1>5, ElementOfSeq DEF new

\* Feeding a message keeps the shape.
LEMMA FeedShape ==
    ASSUME Shape, NEW p \in Party, FeedNext(p)
    PROVE  Shape'
<1> DEFINE new == Unseen(p, batch[p])
           m == relay[p][First(new)]
           key == SeenKey(m)
           last == \A j \in new : SeenKey(relay[p][j]) = key
<1>1. pc[p] = "feed" /\ m \in Message
  BY FedMessage DEF FeedNext
<1>2. /\ seen' = [seen EXCEPT ![p] = @ \cup {key}]
      /\ Feed(p, m)
      /\ pc' = [pc EXCEPT ![p] = IF outcome'[p] # "none" THEN "final"
                                 ELSE IF last THEN "drain" ELSE "feed"]
      /\ batch' = [batch EXCEPT ![p] = IF pc'[p] = "feed" THEN @ ELSE 0]
      /\ UNCHANGED <<ceremony, seq, relay, dups, drops>>
  BY DEF FeedNext
<1>3. new = {i \in 1..batch[p] : SeenKey(relay[p][i]) \notin seen[p]}
  BY DEF Unseen
<1>4. key \in Party \X Nat
  BY <1>1 DEF SeenKey, Message
<1> HIDE DEF new, m, key
<1>5. TaskType'
  BY <1>1, <1>2, FeedType DEF Shape
<1>6. /\ seen' \in [Party -> SUBSET (Party \X Nat)]
      /\ pc' \in [Party -> {"drain", "feed", "final", "ok", "error", "blame"}]
  BY <1>2, <1>4 DEF Shape, TypeOK
<1>7. ASSUME NEW q \in Party
      PROVE  /\ batch'[q] \in Nat /\ batch'[q] <= Len(relay'[q])
             /\ pc'[q] = "feed" => batch'[q] = batch[q]
  <2>1. batch[q] \in Nat /\ batch[q] <= Len(relay[q]) /\ Len(relay[q]) \in Nat
    BY LenProperties DEF Shape, TypeOK
  <2>2. batch'[q] \in {batch[q], 0} /\ (pc'[q] = "feed" => batch'[q] = batch[q])
    BY <1>2 DEF Shape, TypeOK
  <2> QED
    BY <1>2, <2>1, <2>2
<1>8. batch' \in [Party -> Nat]
  <2>1. batch \in [Party -> Nat]
    BY DEF Shape, TypeOK
  <2> QED
    BY <1>2, <1>7, <2>1
<1>9. FeedPending'
  <2> SUFFICES ASSUME NEW q \in Party, pc'[q] = "feed"
               PROVE  Unseen(q, batch[q])' # {}
    BY DEF FeedPending
  <2>1. batch'[q] = batch[q] /\ relay' = relay
    BY <1>2, <1>7
  <2>2. CASE q = p
    <3>1. ~last
      BY <1>2, <2>2 DEF Shape, TypeOK
    <3>2. PICK j \in new : SeenKey(relay[p][j]) # key
      BY <3>1
    <3>3. seen'[p] = seen[p] \cup {key}
      BY <1>2 DEF Shape, TypeOK
    <3>4. j \in 1..batch[p] /\ SeenKey(relay[p][j]) \notin seen'[p]
      BY <1>3, <3>2, <3>3
    <3> QED
      BY <2>1, <2>2, <3>4 DEF Unseen, SeenKey
  <2>3. CASE q # p
    <3>1. pc[q] = "feed" /\ seen'[q] = seen[q]
      BY <1>2, <2>3 DEF Shape, TypeOK
    <3>2. Unseen(q, batch[q]) # {}
      BY <3>1 DEF Shape, FeedPending
    <3> QED
      BY <2>1, <3>1, <3>2 DEF Unseen, SeenKey
  <2> QED
    BY <2>2, <2>3
<1> QED
  BY <1>2, <1>5, <1>6, <1>7, <1>8, <1>9 DEF Shape, TypeOK, TaskType

\* Every step keeps the shape.
LEMMA NextShape == Shape /\ [Next]_vars => Shape'
<1> SUFFICES ASSUME Shape, [Next]_vars PROVE Shape'
  OBVIOUS
<1>1. CASE UNCHANGED vars
  BY <1>1 DEF vars, Shape, TypeOK, FeedPending, Unseen, SeenKey, ScriptOf
<1>2. ASSUME NEW p \in Party, Step(p) PROVE Shape'
  BY <1>2, PostShape, GetMessagesShape, FeedShape, ReturnShape DEF Step
<1>3. ASSUME NEW p \in Party, PostLost(p) \/ RunFails(p) \/ Duplicate(p) PROVE Shape'
  BY <1>3, PostShape, ReturnShape, DuplicateShape
<1> QED
  BY <1>1, <1>2, <1>3 DEF Next, PollEmpty, Done

\* A session keeps its shape whatever the number of parties, the ceremony, the
\* interleaving and the faults: no task runs past the end of its script, no runner
\* feeds more than the relay lists, and a blamed identifier is one of a party.
THEOREM SessionTypeCorrect == Spec => []TypeOK
<1>1. Spec => []Shape
  BY InitShape, NextShape, PTL DEF Spec
<1>2. Shape => TypeOK
  BY DEF Shape
<1> QED
  BY <1>1, <1>2, PTL
-----------------------------------------------------------------------------
(***************************************************************************)
(* An honest party is blamed only where a faulty one equivocated.          *)
(***************************************************************************)
\* Altered packages come from faulty parties: what the tasks themselves produce is
\* neither invalid nor sent to one party only, and a relay or a task that holds such a
\* package got it from a faulty party.  A metadata blob is never one, so adopting it
\* spoils no payload.  A task that holds other commitments or another randomizer has
\* them from the relay, which still lists them.
Altered == {"invalid", "other"}
CleanVal == Val \ Altered
CleanEnvelope == [to : Party, kind : Kind, val : CleanVal]
HonestMessage ==
    {m \in Message :
        /\ m.val \in Altered => m.from \in Faulty /\ m.kind # "meta"
        /\ m.val = "other" => m.kind \in {"commit", "package"}}
HonestHeard == {m \in Heard : m.val \in Altered => m.from \in Faulty}

\* Parties that hold other commitments were sent them.
HeardOthers == \A p \in Party : View(heard[p]) # {} => Equivocated(p)

NoForgery ==
    /\ blob \in [Party -> CleanVal]
    /\ outbox \in [Party -> Seq(CleanEnvelope)]
    /\ relay \in [Party -> Seq(HonestMessage)]
    /\ heard \in [Party -> SUBSET HonestHeard]
    /\ HeardOthers
    /\ BlameNeedsEquivocation

\* What the relay lists it goes on listing, so both claims outlive a step that
\* changes neither what the tasks hold nor whom they blame.
LEMMA StillListed ==
    ASSUME Shape, HeardOthers, BlameNeedsEquivocation, RelayGrows,
           relay' \in [Party -> Seq(Message)], heard' = heard, blamed' = blamed
    PROVE  HeardOthers' /\ BlameNeedsEquivocation'
<1>1. ASSUME NEW q \in Party, Equivocated(q) PROVE Equivocated(q)'
  <2>1. PICK i \in DOMAIN relay[q] :
           /\ relay[q][i].from \in Faulty
           /\ relay[q][i].kind \in {"commit", "package"}
           /\ relay[q][i].val = "other"
    BY <1>1 DEF Equivocated
  <2>2. /\ Len(relay[q]) \in Nat /\ Len(relay'[q]) \in Nat
        /\ DOMAIN relay[q] = 1..Len(relay[q]) /\ DOMAIN relay'[q] = 1..Len(relay'[q])
    BY LenProperties DEF Shape, TypeOK
  <2>3. i \in DOMAIN relay'[q] /\ relay'[q][i] = relay[q][i]
    BY <2>2 DEF RelayGrows
  <2> QED
    BY <2>1, <2>3 DEF Equivocated
<1>2. HeardOthers'
  BY <1>1 DEF HeardOthers, View
<1>3. BlameNeedsEquivocation'
  BY <1>1 DEF BlameNeedsEquivocation, Shape, TypeOK
<1> QED
  BY <1>2, <1>3

\* What a task sends is never altered.
LEMMA CleanPayload ==
    ASSUME NEW p \in Party, NEW ks \in Seq(Kind), NEW h, NEW b \in CleanVal
    PROVE  Envelopes(p, ks, h, b) \in Seq(CleanEnvelope)
<1>1. \A k \in Kind : Payload(p, k, h, b) \in CleanVal
  BY DEF Payload, Term, CleanVal, Altered, Val
<1> QED
  BY <1>1, EnvelopesIn DEF CleanEnvelope

\* Initially nothing altered exists.
LEMMA InitNoForgery == Init => NoForgery
<1> SUFFICES ASSUME Init PROVE NoForgery
  OBVIOUS
<1>1. Shape
  BY InitShape
<1>2. \A p \in Party : OwnBlob(p) \in CleanVal
  BY DEF OwnBlob, CleanVal, Altered, Val
<1>3. \A p \in Party : Current(p).send \in Seq(Kind) /\ Current(p) = ScriptOf(p)[1]
  BY <1>1, CurrentType DEF Shape, RoundRecord, Current, Init
<1>4. \A p \in Party :
         Envelopes(p, ScriptOf(p)[1].send, {}, OwnBlob(p)) \in Seq(CleanEnvelope)
  BY <1>2, <1>3, CleanPayload
<1>5. outbox \in [Party -> Seq(CleanEnvelope)] /\ blob \in [Party -> CleanVal]
  BY <1>2, <1>4 DEF Init
<1>6. relay \in [Party -> Seq(HonestMessage)] /\ heard \in [Party -> SUBSET HonestHeard]
  BY DEF Init
<1>7. HeardOthers /\ BlameNeedsEquivocation
  BY DEF Init, HeardOthers, View, BlameNeedsEquivocation
<1> QED
  BY <1>5, <1>6, <1>7 DEF NoForgery

\* A POST carries something altered only for a faulty party.
LEMMA PostNoForgery ==
    ASSUME Shape, NoForgery, NEW p \in Party, Post(p) \/ PostLost(p)
    PROVE  NoForgery'
<1>1. /\ outbox[p] \in Seq(CleanEnvelope) /\ outbox[p] # <<>>
      /\ outbox' = [outbox EXCEPT ![p] = Tail(@)]
      /\ UNCHANGED task
  BY DEF NoForgery, Post, PostLost
<1>2. Head(outbox[p]) \in CleanEnvelope /\ Tail(outbox[p]) \in Seq(CleanEnvelope)
  BY <1>1, HeadTailProperties
<1>3. outbox' \in [Party -> Seq(CleanEnvelope)]
  BY <1>1, <1>2 DEF NoForgery
<1>4. relay' \in [Party -> Seq(HonestMessage)]
  <2>1. CASE Post(p)
    <3> DEFINE e == Head(outbox[p])
    <3>1. PICK v \in Sendable(p, e) :
             relay' = [relay EXCEPT ![e.to] =
                         Append(@, [from |-> p, seq |-> seq[p] + 1,
                                    kind |-> e.kind, val |-> v])]
      BY <2>1 DEF Post
    <3>2. e.to \in Party /\ e.kind \in Kind /\ e.val \in CleanVal
      BY <1>2 DEF CleanEnvelope
    <3>3. /\ v \in Val
          /\ v \in Altered => p \in Faulty /\ e.kind # "meta"
          /\ v = "other" => e.kind \in {"commit", "package"}
      BY <3>1, <3>2 DEF Sendable, CleanVal, Altered, Val
    <3> DEFINE m == [from |-> p, seq |-> seq[p] + 1, kind |-> e.kind, val |-> v]
    <3>4. m \in HonestMessage
      <4>1. seq[p] + 1 \in Nat
        BY DEF Shape, TypeOK
      <4>2. m \in Message
        BY <4>1, <3>2, <3>3 DEF Message
      <4> QED
        BY <4>2, <3>3 DEF HonestMessage
    <3> HIDE DEF e, m
    <3>5. Append(relay[e.to], m) \in Seq(HonestMessage)
      BY <3>2, <3>4, AppendProperties DEF NoForgery
    <3> QED
      BY <3>1, <3>5 DEF m, NoForgery
  <2>2. CASE PostLost(p)
    BY <2>2 DEF PostLost, NoForgery
  <2> QED
    BY <2>1, <2>2
<1>5. RelayGrows /\ relay' \in [Party -> Seq(Message)]
  BY PostGrows
<1>6. HeardOthers' /\ BlameNeedsEquivocation'
  BY <1>1, <1>5, StillListed DEF NoForgery, task
<1> QED
  BY <1>1, <1>3, <1>4, <1>6 DEF NoForgery, task

\* A task that accepts a message learns nothing altered from an honest party, and
\* blames none unless the faulty party that made them disagree sent it, or the one
\* it blames, other commitments or another randomizer.
LEMMA FeedNoForgery ==
    ASSUME Shape, NoForgery, NEW p \in Party, FeedNext(p)
    PROVE  NoForgery'
<1> DEFINE m == relay[p][First(Unseen(p, batch[p]))]
           h == Record(heard[p], m)
<1>1. /\ First(Unseen(p, batch[p])) \in 1..Len(relay[p])
      /\ Feed(p, m) /\ relay' = relay
  BY FedMessage DEF FeedNext
<1>2. m \in HonestMessage /\ (m.val = "other" => Equivocated(p))
  <2>1. m \in HonestMessage
    BY <1>1, ElementOfSeq DEF NoForgery
  <2>2. First(Unseen(p, batch[p])) \in DOMAIN relay[p]
    BY <1>1, LenProperties DEF Shape, TypeOK
  <2> QED
    BY <2>1, <2>2 DEF HonestMessage, Altered, Equivocated
<1> HIDE DEF m
<1>3. h \in SUBSET HonestHeard /\ (View(h) # {} => Equivocated(p))
  <2>1. [from |-> m.from, kind |-> m.kind, val |-> m.val] \in HonestHeard
    BY <1>2 DEF HonestHeard, Heard, HonestMessage, Message
  <2>2. heard[p] \in SUBSET HonestHeard
    BY DEF NoForgery
  <2>3. h \in SUBSET HonestHeard
    BY <2>1, <2>2 DEF Record
  <2>4. ASSUME NEW x \in h, x.val = "other" PROVE Equivocated(p)
    <3>1. x \in heard[p] \/ x.val = m.val
      BY DEF Record
    <3>2. x \in heard[p] => View(heard[p]) # {}
      BY <2>4 DEF View
    <3> QED
      BY <1>2, <2>4, <3>1, <3>2 DEF NoForgery, HeardOthers
  <2> HIDE DEF h
  <2> QED
    BY <2>3, <2>4 DEF View
<1> HIDE DEF h
<1>4. /\ relay' \in [Party -> Seq(HonestMessage)] /\ TypeOK
      /\ \A q \in Party : Equivocated(q)' = Equivocated(q)
      /\ HeardOthers /\ BlameNeedsEquivocation
  BY <1>1 DEF NoForgery, Shape, Equivocated
<1>5. ASSUME heard' = [heard EXCEPT ![p] = h] PROVE HeardOthers'
  <2>1. \A q \in Party : View(heard'[q]) # {} => Equivocated(q)
    BY <1>3, <1>4, <1>5 DEF HeardOthers, TypeOK
  <2> QED
    BY <1>4, <2>1 DEF HeardOthers, View
<1>6. ASSUME blamed' = blamed PROVE BlameNeedsEquivocation'
  <2>1. \A q \in Party : blamed'[q] # 0 /\ blamed'[q] \notin Faulty =>
           Equivocated(q) \/ Equivocated(blamed'[q])
    BY <1>4, <1>6 DEF BlameNeedsEquivocation
  <2>2. blamed' \in [Party -> Party \cup {0}]
    BY <1>4, <1>6 DEF TypeOK
  <2> QED
    BY <1>4, <2>1, <2>2 DEF BlameNeedsEquivocation
<1>7. CASE Reject(p, m)
  <2>1. HeardOthers'
    BY <1>4, <1>7 DEF Reject, HeardOthers, View
  <2> QED
    BY <1>4, <1>6, <1>7, <2>1 DEF Reject, NoForgery
<1>8. CASE Collect(p, m)
  <2>1. heard' = [heard EXCEPT ![p] = h]
    BY <1>8 DEF Collect, h
  <2> QED
    BY <1>3, <1>4, <1>5, <1>6, <1>8, <2>1 DEF Collect, NoForgery
<1>9. CASE FailCheck(p, m)
  <2> DEFINE c == Culprits(h, Current(p).recv)
             e == LoopError(p, h)
  <2>1. ASSUME NEW q \in c, q \notin Faulty PROVE Equivocated(p) \/ Equivocated(q)
    <3>1. PICK x \in h : x.from = q /\ Fails(h, x)
      BY <2>1 DEF Culprits
    <3>2. x.val # "invalid" /\ q \in Party
      BY <1>3, <2>1, <3>1 DEF HonestHeard, Altered, Heard
    <3>3. View(heard[q]) # View(h)
      BY <3>1, <3>2 DEF Fails
    <3>4. View(heard[q]) # {} \/ View(h) # {}
      BY <3>3
    <3> QED
      BY <1>3, <1>4, <3>2, <3>4 DEF HeardOthers
  <2>2. h \in SUBSET Heard
    BY <1>3 DEF HonestHeard
  <2>3. e = "LIB_BLAME" => c # {}
    BY DEF LoopError
  <2>4. e = "LIB_BLAME" => First(c) \in c /\ First(c) \in Party
    BY <2>2, <2>3, CulpritsType
  <2>5. /\ heard' = [heard EXCEPT ![p] = h]
        /\ blamed' = IF e = "LIB_BLAME" THEN [blamed EXCEPT ![p] = First(c)] ELSE blamed
        /\ UNCHANGED <<blob, outbox>>
    BY <1>9 DEF FailCheck, h
  <2> HIDE DEF c, e
  <2>6. \A q \in Party : blamed'[q] # 0 /\ blamed'[q] \notin Faulty =>
           Equivocated(q) \/ Equivocated(blamed'[q])
    BY <1>4, <2>1, <2>4, <2>5 DEF BlameNeedsEquivocation, TypeOK
  <2>7. blamed' \in [Party -> Party \cup {0}]
    BY <1>4, <2>4, <2>5 DEF TypeOK
  <2>8. BlameNeedsEquivocation'
    BY <1>4, <2>6, <2>7 DEF BlameNeedsEquivocation
  <2> QED
    BY <1>3, <1>4, <1>5, <2>5, <2>8 DEF NoForgery
<1>10. CASE Advance(p, m)
  <2> DEFINE b == IF m.kind = "meta" THEN m.val ELSE blob[p]
             next == ScriptOf(p)[round[p] + 1]
             out == Envelopes(p, next.send, h, b)
  <2>1. b \in CleanVal
    BY <1>2 DEF HonestMessage, Message, CleanVal, Altered, NoForgery
  <2>2. Current(p).need # 0
    <3>1. count[p] \in Nat /\ Current(p).need = count[p] + 1
      BY <1>4, <1>10 DEF Advance, TypeOK
    <3> QED
      BY <3>1
  <2>3. next.send \in Seq(Kind)
    BY <1>4, <2>2, CurrentType DEF RoundRecord
  <2>4. out \in Seq(CleanEnvelope)
    BY <2>1, <2>3, CleanPayload
  <2>5. outbox[p] \o out \in Seq(CleanEnvelope)
    BY <2>4, ConcatProperties DEF NoForgery
  <2>6. /\ heard' = [heard EXCEPT ![p] = h]
        /\ blob' = [blob EXCEPT ![p] = b]
        /\ outbox' = [outbox EXCEPT ![p] = @ \o out]
        /\ UNCHANGED blamed
    BY <1>10 DEF Advance, h
  <2> HIDE DEF b, next, out
  <2> QED
    BY <1>3, <1>4, <1>5, <1>6, <2>1, <2>5, <2>6 DEF NoForgery
<1> QED
  BY <1>1, <1>7, <1>8, <1>9, <1>10 DEF Feed

\* A message listed twice has the sender it had.
LEMMA DuplicateNoForgery ==
    ASSUME Shape, NoForgery, NEW p \in Party, Duplicate(p)
    PROVE  NoForgery'
<1>1. PICK i \in DOMAIN relay[p] : relay' = [relay EXCEPT ![p] = Append(@, @[i])]
  BY DEF Duplicate
<1>2. relay[p] \in Seq(HonestMessage) /\ relay[p][i] \in HonestMessage
  BY <1>1, ElementOfSeq, LenProperties DEF NoForgery
<1>3. Append(relay[p], relay[p][i]) \in Seq(HonestMessage)
  BY <1>2, AppendProperties
<1>4. relay' \in [Party -> Seq(HonestMessage)]
  BY <1>1, <1>3 DEF NoForgery
<1>5. RelayGrows /\ relay' \in [Party -> Seq(Message)]
  BY DuplicateGrows
<1>6. HeardOthers' /\ BlameNeedsEquivocation'
  BY <1>5, StillListed DEF Duplicate, NoForgery, task
<1> QED
  BY <1>4, <1>6 DEF Duplicate, NoForgery, task

\* Every step keeps the invariant.
LEMMA NextNoForgery == Shape /\ NoForgery /\ [Next]_vars => NoForgery'
<1> SUFFICES ASSUME Shape, NoForgery, [Next]_vars PROVE NoForgery'
  OBVIOUS
<1>1. CASE UNCHANGED vars
  BY <1>1 DEF vars, NoForgery, HeardOthers, View, Equivocated, BlameNeedsEquivocation
<1>2. ASSUME NEW p \in Party, GetMessages(p) \/ Return(p) \/ RunFails(p)
      PROVE  NoForgery'
  <2>1. UNCHANGED <<task, relay, outbox>>
    BY <1>2 DEF GetMessages, Return, RunFails
  <2>2. RelayGrows /\ relay' \in [Party -> Seq(Message)]
    BY <2>1, LenProperties DEF RelayGrows, Shape, TypeOK
  <2>3. HeardOthers' /\ BlameNeedsEquivocation'
    BY <2>1, <2>2, StillListed DEF NoForgery, task
  <2> QED
    BY <2>1, <2>3 DEF NoForgery, task
<1>3. ASSUME NEW p \in Party, Post(p) \/ PostLost(p) \/ FeedNext(p) \/ Duplicate(p)
      PROVE  NoForgery'
  BY <1>3, PostNoForgery, FeedNoForgery, DuplicateNoForgery
<1> QED
  BY <1>1, <1>2, <1>3 DEF Next, Step, PollEmpty, Done

\* Whatever the number of parties, the ceremony, the order of delivery, the losses
\* and duplicates and the altered messages: the identifier a task stores with
\* LIB_BLAME is that of a faulty party, unless a faulty party sent the party that
\* blames, or the one that is blamed, other commitments or another randomizer.
THEOREM FalseBlameNeedsEquivocation == Spec => []BlameNeedsEquivocation
<1>1. Spec => [](Shape /\ NoForgery)
  BY InitShape, NextShape, InitNoForgery, NextNoForgery, PTL DEF Spec
<1>2. Shape /\ NoForgery => BlameNeedsEquivocation
  BY DEF NoForgery
<1> QED
  BY <1>1, <1>2, PTL
=============================================================================
