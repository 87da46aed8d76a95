---------------------------- MODULE WalletProofs ----------------------------
(***************************************************************************)
(* Proofs about the party programs and their keystores for any number of   *)
(* parties, outputs, ceremonies, spends and faults.  The inductive         *)
(* invariant says of each party what it has queued to write (Queued,       *)
(* InOrder), what its files hold in the meantime (RecordSpent, Kept,       *)
(* Remembered) and where it is in the spend (Phase), and of the spend what *)
(* its flags mean (Spending).                                              *)
(*                                                                         *)
(* Total is a fold over a set.  Lemmas say what it is worth for any set of *)
(* outputs, by induction over sets (LeastSet), and what the comparison of  *)
(* the code, which wraps, says of it (CoversPays, PaysCovers).             *)
(***************************************************************************)
EXTENDS Wallet, FiniteSetTheorems, SequenceTheorems, WellFoundedInduction, TLAPS

\* What the state is made of.
Label == Resting \cup {"save", "prepare", "sign", "broadcast", "wait", "record", "close"}
KeyContent == Nat \cup {Torn}
RecordType == [list : Seq(Output), odd : BOOLEAN]
Keystore ==
    {d \in [File -> KeyContent \cup RecordType] :
        /\ \A f \in KeyFile : d[f] \in KeyContent
        /\ d["spent"] \in RecordType}
Entry == (KeyFile \X Nat) \cup ({"spent"} \X Seq(Output))
Spend ==
    [number : Nat, signers : SUBSET Party, coordinator : Party \cup {None},
     amount : Nat, inputs : Seq(Output), short : BOOLEAN, signed : BOOLEAN,
     told : BOOLEAN, closed : SUBSET Party]

TypeOK ==
    /\ coin \in Coin
    /\ disk \in [Party -> Keystore]
    /\ pc \in [Party -> Label]
    /\ todo \in [Party -> Seq(Entry)]
    /\ writing \in [Party -> {<<>>} \cup {<<c>> : c \in KeyContent \cup RecordType}]
    /\ ceremony \in Nat
    /\ sess \in Spend
    /\ sent \subseteq Output
    /\ stored \in [Party -> Nat]
    /\ noted \in [Party -> SUBSET Output]
    /\ torn \in [Party -> SUBSET File]

\* The file a party has truncated and not yet written.
Opened(p, f) == writing[p] # <<>> /\ todo[p][1][1] = f

\* The queue: key files of the latest ceremony while a save runs, entries of
\* accepted transactions while the record is written, else nothing; and the
\* content of the open file is that of the head of the queue.
Queued(p) ==
    /\ pc[p] = "save" =>
          /\ ceremony > 0
          /\ \A i \in DOMAIN todo[p] : todo[p][i][1] \in KeyFile /\ todo[p][i][2] = ceremony
    /\ pc[p] = "record" =>
          \A i \in DOMAIN todo[p] : todo[p][i][1] = "spent" /\ Range(todo[p][i][2]) \subseteq sent
    /\ pc[p] \notin {"save", "record"} => todo[p] = <<>>
    /\ todo[p] = <<>> => writing[p] = <<>>
    /\ writing[p] # <<>> =>
          IF pc[p] = "save" THEN writing[p] = <<ceremony>>
          ELSE /\ writing[p][1] \in RecordType
               /\ Range(writing[p][1].list) \subseteq sent

\* The record lists accepted spends only.
RecordSpent(p) == Range(disk[p]["spent"].list) \subseteq sent

Separate == {"key_package", "pub_key_package", "sapling_extras"}

\* The order of the writes: the bundle (or key share) comes first, so that the
\* separate files of Zcash are never there without it.
InOrder(p) ==
    /\ coin = "zcash" /\ disk[p]["bundle"] = Absent => \A f \in Separate : disk[p][f] = Absent
    /\ pc[p] = "save" =>
          /\ \A i \in DOMAIN todo[p] :
                /\ i > 1 => todo[p][i][1] \notin {"bundle", "key_share"}
                /\ coin = "zcash" => todo[p][i][1] \in {"bundle"} \cup Separate
                /\ coin = "monero" => todo[p][i][1] \in {"bundle", "key_share", "pub_key"}
                /\ coin = "monero" /\ i > 1 => i = 2 /\ todo[p][1][1] = "key_share"
          /\ todo[p] # <<>> /\ todo[p][1][1] \notin {"bundle", "key_share"} =>
                disk[p][IF coin = "zcash" THEN "bundle" ELSE "key_share"] = ceremony

\* The file that is loaded is whole and no older than the last complete save,
\* unless it is open or was once cut short.
Kept(p) ==
    /\ stored[p] <= ceremony
    /\ \A f \in {"bundle", "key_share"} :
          f \notin torn[p] /\ ~Opened(p, f) =>
             /\ disk[p][f] # Torn
             /\ coin = "zcash" /\ f = "bundle" => disk[p][f] >= stored[p]
             /\ coin = "monero" /\ f = "key_share" /\ disk[p]["bundle"] = Absent =>
                   disk[p][f] >= stored[p]

\* What a party noted as spent is in its record, or in the record being written.
Remembered(p) ==
    coin = "monero" /\ "spent" \notin torn[p] =>
       IF Opened(p, "spent")
       THEN /\ ~writing[p][1].odd
            /\ noted[p] \cup Range(todo[p][1][2]) \subseteq Range(writing[p][1].list)
       ELSE ~disk[p]["spent"].odd /\ noted[p] \subseteq Range(disk[p]["spent"].list)

\* The network has accepted the transaction of the spend in progress.
Out == Range(sess.inputs) \subseteq sent

\* Where a program may be, given what the spend has come to.
Phase(p) ==
    /\ pc[p] \in Label \ (Resting \cup {"save"}) => p \in sess.signers
    /\ pc[p] = "save" => sess.signers = {}
    /\ pc[p] = "prepare" => p = sess.coordinator /\ sess.inputs = <<>>
    /\ pc[p] \in {"prepare", "sign"} => ~sess.signed
    /\ pc[p] \in {"broadcast", "wait", "record", "close"} => sess.signed
    /\ pc[p] = "broadcast" => p = sess.coordinator
    /\ pc[p] = "wait" => p # sess.coordinator
    /\ pc[p] = "record" => Out
    /\ pc[p] = "close" /\ coin = "zcash" => Out
    /\ pc[p] = "done" /\ p \in sess.signers => sess.signed /\ Out

\* What the flags of the spend mean.
Spending ==
    /\ sess.signers # {} => sess.coordinator \in sess.signers
    /\ sess.signed => sess.inputs # <<>>
    /\ sess.told => sess.signed /\ Out
    /\ sess.coordinator \in sess.closed => sess.signed /\ Out
    /\ SelectionPays

\* Files(p) is about the keystore of one party, the rest about the spend.
Files(p) == Queued(p) /\ RecordSpent(p) /\ InOrder(p) /\ Kept(p) /\ Remembered(p)
Inv == Spending /\ \A p \in Party : Files(p) /\ Phase(p)
-----------------------------------------------------------------------------
\* A nonempty set of naturals has a least element: what Min returns.
LEMMA MinExists ==
    ASSUME NEW S \in SUBSET Nat, S # {}
    PROVE  Min(S) \in S /\ \A y \in S : Min(S) <= y
<1> DEFINE R == OpToRel(<, Nat)
<1>1. \E x \in S : \A y \in S : ~(<<y, x>> \in R)
  <2>1. IsWellFoundedOn(R, Nat)
    BY NatLessThanWellFounded
  <2> HIDE DEF R
  <2> QED
    BY <2>1, WFMin
<1>2. \A x, y \in Nat : y < x => <<y, x>> \in R
  BY DEF OpToRel
<1> HIDE DEF R
<1>3. PICK x \in S : \A y \in S : ~(<<y, x>> \in R)
  BY <1>1
<1>4. ASSUME NEW y \in S PROVE x <= y
  <2>1. x \in Nat /\ y \in Nat /\ ~(y < x)
    BY <1>2, <1>3
  <2> QED
    BY <2>1
<1> QED
  BY <1>4 DEF Min

\* The first element of a queue and the rest of it.
LEMMA Queue ==
    ASSUME NEW S, NEW s \in Seq(S), s # <<>>
    PROVE  /\ Head(s) = s[1] /\ s[1] \in S
           /\ 1 \in DOMAIN s
           /\ Tail(s) \in Seq(S)
           /\ \A i \in DOMAIN Tail(s) : i + 1 \in DOMAIN s /\ i \in Nat \ {0} /\ Tail(s)[i] = s[i + 1]
           /\ Tail(s) # <<>> => 1 \in DOMAIN Tail(s)
<1>1. Len(s) \in Nat \ {0} /\ DOMAIN s = 1 .. Len(s)
  BY EmptySeq, LenProperties
<1>2. /\ Tail(s) \in Seq(S) /\ Len(Tail(s)) = Len(s) - 1
      /\ \A i \in 1 .. Len(Tail(s)) : Tail(s)[i] = s[i + 1]
  BY HeadTailProperties
<1>3. DOMAIN Tail(s) = 1 .. (Len(s) - 1)
  BY <1>2, LenProperties
<1>4. Head(s) = s[1] /\ s[1] \in S
  BY <1>1, ElementOfSeq
<1> QED
  BY <1>1, <1>2, <1>3, <1>4

\* The elements of what is appended to, and of a prefix.
LEMMA RangeFacts ==
    ASSUME NEW S, NEW s \in Seq(S)
    PROVE  /\ Range(s) \subseteq S
           /\ \A t \in Seq(S) : s \o t \in Seq(S) /\ Range(s \o t) = Range(s) \cup Range(t)
           /\ \A k \in 0 .. Len(s) : /\ SubSeq(s, 1, k) \in Seq(S)
                                     /\ Len(SubSeq(s, 1, k)) = k
                                     /\ \A i \in 1 .. k : SubSeq(s, 1, k)[i] = s[i]
                                     /\ Range(SubSeq(s, 1, k)) \subseteq Range(s)
<1>1. Len(s) \in Nat /\ DOMAIN s = 1 .. Len(s) /\ \A i \in 1 .. Len(s) : s[i] \in S
  BY LenProperties, ElementOfSeq
<1>2. Range(s) \subseteq S
  BY <1>1 DEF Range
<1>3. ASSUME NEW t \in Seq(S)
      PROVE  s \o t \in Seq(S) /\ Range(s \o t) = Range(s) \cup Range(t)
  <2>1. Len(t) \in Nat /\ DOMAIN t = 1 .. Len(t)
    BY LenProperties
  <2>2. /\ s \o t \in Seq(S)
        /\ Len(s \o t) = Len(s) + Len(t)
        /\ \A i \in 1 .. Len(s) + Len(t) :
              (s \o t)[i] = IF i <= Len(s) THEN s[i] ELSE t[i - Len(s)]
    BY ConcatProperties
  <2>3. DOMAIN (s \o t) = 1 .. Len(s) + Len(t)
    BY <2>2, LenProperties
  <2>4. ASSUME NEW x \in Range(s) PROVE x \in Range(s \o t)
    BY <1>1, <2>1, <2>2, <2>3 DEF Range
  <2>5. ASSUME NEW x \in Range(t) PROVE x \in Range(s \o t)
    <3>1. PICK i \in 1 .. Len(t) : x = t[i]
      BY <2>1 DEF Range
    <3>2. i + Len(s) \in 1 .. Len(s) + Len(t) /\ (s \o t)[i + Len(s)] = t[i]
      BY <1>1, <2>1, <2>2
    <3> QED
      BY <2>3, <3>1, <3>2 DEF Range
  <2>6. ASSUME NEW x \in Range(s \o t) PROVE x \in Range(s) \cup Range(t)
    BY <1>1, <2>1, <2>2, <2>3 DEF Range
  <2> QED
    BY <2>2, <2>4, <2>5, <2>6
<1>4. ASSUME NEW k \in 0 .. Len(s)
      PROVE  /\ SubSeq(s, 1, k) \in Seq(S)
             /\ Len(SubSeq(s, 1, k)) = k
             /\ \A i \in 1 .. k : SubSeq(s, 1, k)[i] = s[i]
             /\ Range(SubSeq(s, 1, k)) \subseteq Range(s)
  <2>1. k \in Nat /\ \A i \in 1 .. k : s[i] \in S /\ i \in 1 .. Len(s)
    BY <1>1
  <2>2. /\ SubSeq(s, 1, k) \in Seq(S)
        /\ Len(SubSeq(s, 1, k)) = k
        /\ \A i \in 1 .. k : SubSeq(s, 1, k)[i] = s[i]
    BY <2>1, SubSeqProperties
  <2>3. DOMAIN SubSeq(s, 1, k) = 1 .. k
    BY <2>2, LenProperties
  <2> QED
    BY <1>1, <2>1, <2>2, <2>3 DEF Range
<1> QED
  BY <1>2, <1>3, <1>4
-----------------------------------------------------------------------------
\* The sorted lists hold each output once.
LEMMA Sorted ==
    ASSUME NEW S \in SUBSET Output, NEW s \in Ascending(S) \cup Descending(S)
    PROVE  s \in Seq(S) /\ IsInjective(s)
<1>1. Cardinality(S) \in Nat
  BY WalletAssumption, FS_Subset, FS_CardinalityType
<1>2. ASSUME NEW r \in Ascending(S)
      PROVE  /\ r \in Seq(S) /\ IsInjective(r)
             /\ r \in [1 .. Cardinality(S) -> S] /\ Len(r) = Cardinality(S)
  <2>1. /\ r \in [1 .. Cardinality(S) -> S]
        /\ \A i, j \in 1 .. Cardinality(S) : i # j => r[i] # r[j]
    BY DEF Ascending, SetToSeqs
  <2>2. r \in Seq(S)
    BY <1>1, <2>1, SeqDef
  <2>3. Len(r) = Cardinality(S)
    BY <1>1, <2>1, <2>2, LenProperties
  <2> QED
    BY <2>1, <2>2, <2>3 DEF IsInjective
<1>3. CASE s \in Ascending(S)
  BY <1>2, <1>3
<1>4. CASE s \in Descending(S)
  <2>1. PICK r \in Ascending(S) : s = Reverse(r)
    BY <1>4 DEF Descending
  <2> DEFINE n == Cardinality(S)
  <2>2. /\ n \in Nat /\ Len(r) = n /\ DOMAIN r = 1 .. n
        /\ \A i \in 1 .. n : r[i] \in S
        /\ \A i, j \in 1 .. n : r[i] = r[j] => i = j
    BY <1>1, <1>2 DEF IsInjective
  <2>3. s = [i \in 1 .. n |-> r[(n - i) + 1]]
    BY <2>1, <2>2 DEF Reverse
  <2> HIDE DEF n
  <2>4. \A i \in 1 .. n : (n - i) + 1 \in 1 .. n
    BY <2>2
  <2>5. s \in [1 .. n -> S]
    BY <2>2, <2>3, <2>4
  <2>6. s \in Seq(S)
    BY <2>2, <2>5, SeqDef
  <2>7. ASSUME NEW i \in 1 .. n, NEW j \in 1 .. n, s[i] = s[j] PROVE i = j
    <3>1. r[(n - i) + 1] = r[(n - j) + 1]
      BY <2>3, <2>7
    <3>2. (n - i) + 1 = (n - j) + 1
      BY <2>2, <2>4, <3>1
    <3> QED
      BY <2>2, <3>2
  <2> QED
    BY <2>5, <2>6, <2>7 DEF IsInjective
<1> QED
  BY <1>3, <1>4

\* A covering prefix is not empty, covers, and holds each output once.
LEMMA CoveringPrefix ==
    ASSUME NEW S, NEW s \in Seq(S), IsInjective(s), NEW amount,
           NEW t \in FirstCovering(s, amount)
    PROVE  t \in Seq(S) /\ t # <<>> /\ IsInjective(t) /\ Covers(Range(t), amount)
<1> DEFINE enough == {n \in 1 .. Len(s) : Covers(Range(SubSeq(s, 1, n)), amount)}
<1>1. enough # {} /\ t = SubSeq(s, 1, Min(enough))
  BY DEF FirstCovering
<1>2. Min(enough) \in enough
  <2>1. enough \in SUBSET Nat
    OBVIOUS
  <2> HIDE DEF enough
  <2> QED
    BY <1>1, <2>1, MinExists
<1> DEFINE n == Min(enough)
<1>3. n \in 1 .. Len(s) /\ Covers(Range(t), amount)
  BY <1>1, <1>2
<1> HIDE DEF enough, n
<1>4. Len(s) \in Nat /\ DOMAIN s = 1 .. Len(s)
  BY LenProperties
<1>5. /\ t \in Seq(S) /\ Len(t) = n
      /\ \A i \in 1 .. n : t[i] = s[i]
  BY <1>1, <1>3, <1>4, RangeFacts DEF n
<1>6. DOMAIN t = 1 .. n /\ t # <<>>
  BY <1>3, <1>4, <1>5, LenProperties, EmptySeq
<1>7. IsInjective(t)
  BY <1>3, <1>4, <1>5, <1>6 DEF IsInjective
<1> QED
  BY <1>3, <1>5, <1>6, <1>7

\* What a coordinator selects are outputs it sees, each once, and they pay.
LEMMA Selected ==
    ASSUME NEW p, NEW amount, NEW t \in Select(p, amount)
    PROVE  /\ t \in Seq(Available(p)) /\ t \in Seq(Output) /\ t # <<>>
           /\ Range(t) \subseteq Available(p)
           /\ IsInjective(t) /\ Covers(Range(t), amount)
<1> DEFINE S == Available(p)
<1>1. S \in SUBSET Output
  BY DEF Available, UnspentNotes, UnspentOutputs
<1>2. t \in Seq(S) /\ t # <<>> /\ IsInjective(t) /\ Covers(Range(t), amount)
  <2>1. ASSUME NEW s \in Ascending(S) \cup Descending(S), t \in FirstCovering(s, amount)
        PROVE  t \in Seq(S) /\ t # <<>> /\ IsInjective(t) /\ Covers(Range(t), amount)
    <3>1. s \in Seq(S) /\ IsInjective(s)
      BY <1>1, Sorted
    <3> QED
      BY <2>1, <3>1, CoveringPrefix
  <2>2. ASSUME NEW s \in Descending(S), s # <<>>, Covers({s[1]}, amount), t = <<s[1]>>
        PROVE  t \in Seq(S) /\ t # <<>> /\ IsInjective(t) /\ Covers(Range(t), amount)
    <3>1. s \in Seq(S)
      BY <1>1, Sorted
    <3>2. s[1] \in S
      BY <2>2, <3>1, Queue
    <3>3. Range(t) = {s[1]} /\ IsInjective(t)
      BY <2>2 DEF Range, IsInjective
    <3>4. Covers(Range(t), amount)
      BY <2>2, <3>3
    <3>5. t \in Seq(S) /\ t # <<>>
      <4> HIDE DEF S
      <4> QED
        BY <2>2, <3>2
    <3> QED
      BY <3>3, <3>4, <3>5
  <2>3. CASE coin = "zcash"
    <3>1. t \in selectNotes(S, amount)
      BY <2>3 DEF Select, Available
    <3>2. \/ \E s \in Descending(S) : s # <<>> /\ Covers({s[1]}, amount) /\ t = <<s[1]>>
          \/ \E s \in Ascending(S) : t \in FirstCovering(s, amount)
      <4> HIDE DEF S
      <4> QED
        BY <3>1 DEF selectNotes
    <3> QED
      BY <2>1, <2>2, <3>2
  <2>4. CASE coin # "zcash"
    <3>1. t \in selectOutputs(S, amount)
      BY <2>4 DEF Select, Available
    <3>2. \E s \in Descending(S) : t \in FirstCovering(s, amount)
      <4> HIDE DEF S
      <4> QED
        BY <3>1 DEF selectOutputs
    <3> QED
      BY <2>1, <3>2
  <2> QED
    BY <2>3, <2>4
<1> HIDE DEF S
<1>3. t \in Seq(Output)
  BY <1>1, <1>2, SeqMonotonic
<1>4. Range(t) \subseteq S
  BY <1>2, RangeFacts
<1> QED
  BY <1>2, <1>3, <1>4 DEF S
-----------------------------------------------------------------------------
\* What the programs queue: the key files of a ceremony, the one that is loaded
\* first, and the entries of the record of spent outputs.
LEMMA CeremonyFiles ==
    ASSUME TypeOK, NEW files \in {KeygenFiles, ImportFiles}
    PROVE  /\ files \in Seq(KeyFile) /\ files # <<>>
           /\ files[1] \in {"bundle", "key_share"}
           /\ \A i \in DOMAIN files :
                 /\ i > 1 => files[i] \notin {"bundle", "key_share"}
                 /\ coin = "zcash" => files[i] \in {"bundle"} \cup Separate
                 /\ coin = "monero" => files[i] \in {"bundle", "key_share", "pub_key"}
                 /\ coin = "monero" /\ i > 1 => i = 2 /\ files[1] = "key_share"
<1>1. CASE coin = "zcash" /\ files = <<"bundle", "key_package", "pub_key_package", "sapling_extras">>
  <2>1. files \in Seq(KeyFile)
    BY <1>1 DEF KeyFile
  <2>2. DOMAIN files = 1 .. 4
    BY <1>1
  <2>3. ASSUME NEW i \in 1 .. 4
        PROVE  /\ i > 1 => files[i] \notin {"bundle", "key_share"}
               /\ files[i] \in {"bundle"} \cup Separate
    <3>1. i = 1 \/ i = 2 \/ i = 3 \/ i = 4
      OBVIOUS
    <3> QED
      BY <1>1, <3>1 DEF Separate
  <2> QED
    BY <1>1, <2>1, <2>2, <2>3
<1>2. CASE coin # "zcash" /\ files = <<"bundle">>
  BY <1>2 DEF KeyFile
<1>3. CASE coin # "zcash" /\ files = <<"key_share", "pub_key">>
  BY <1>3 DEF KeyFile
<1> QED
  BY <1>1, <1>2, <1>3 DEF KeygenFiles, ImportFiles

KeyEntries(files, n) == [i \in 1 .. Len(files) |-> <<files[i], n>>]

LEMMA CeremonyEntries ==
    ASSUME TypeOK, NEW files \in {KeygenFiles, ImportFiles}, NEW n \in Nat
    PROVE  /\ KeyEntries(files, n) \in Seq(Entry)
           /\ KeyEntries(files, n) # <<>>
           /\ KeyEntries(files, n)[1][1] = files[1]
           /\ \A i \in DOMAIN KeyEntries(files, n) :
                 /\ i \in DOMAIN files
                 /\ KeyEntries(files, n)[i][1] = files[i] /\ files[i] \in KeyFile
                 /\ KeyEntries(files, n)[i][2] = n
<1> DEFINE s == KeyEntries(files, n)
<1>1. /\ files \in Seq(KeyFile) /\ Len(files) \in Nat \ {0} /\ DOMAIN files = 1 .. Len(files)
      /\ \A i \in 1 .. Len(files) : files[i] \in KeyFile
  BY CeremonyFiles, EmptySeq, LenProperties, ElementOfSeq
<1>2. \A i \in 1 .. Len(files) : <<files[i], n>> \in Entry
  BY <1>1 DEF Entry
<1>3. s = [i \in 1 .. Len(files) |-> <<files[i], n>>]
  BY DEF KeyEntries
<1> HIDE DEF s
<1>4. s \in [1 .. Len(files) -> Entry]
  BY <1>2, <1>3
<1>5. s \in Seq(Entry)
  BY <1>1, <1>4, SeqDef
<1>6. 1 \in 1 .. Len(files) /\ s[1][1] = files[1]
  BY <1>1, <1>3
<1>7. /\ s \in Seq(Entry) /\ s # <<>> /\ s[1][1] = files[1]
      /\ \A i \in DOMAIN s :
            i \in DOMAIN files /\ s[i][1] = files[i] /\ files[i] \in KeyFile /\ s[i][2] = n
  BY <1>1, <1>3, <1>5, <1>6
<1> QED
  BY <1>7 DEF s

LEMMA RecordQueue ==
    ASSUME NEW inputs \in Seq(Output)
    PROVE  /\ RecordEntries(inputs) \in Seq(Entry)
           /\ \A i \in DOMAIN RecordEntries(inputs) :
                 /\ RecordEntries(inputs)[i][1] = "spent"
                 /\ Range(RecordEntries(inputs)[i][2]) \subseteq Range(inputs)
<1>1. Len(inputs) \in Nat /\ DOMAIN inputs = 1 .. Len(inputs)
      /\ \A i \in 1 .. Len(inputs) : inputs[i] \in Output
  BY LenProperties, ElementOfSeq
<1>2. CASE coin = "zcash"
  <2> DEFINE s == [i \in 1 .. Len(inputs) |-> <<"spent", <<inputs[i]>>>>]
  <2>1. RecordEntries(inputs) = s
    BY <1>2 DEF RecordEntries
  <2>2. \A i \in 1 .. Len(inputs) : <<"spent", <<inputs[i]>>>> \in Entry
    BY <1>1 DEF Entry
  <2>3. s \in Seq(Entry)
    BY <1>1, <2>2, SeqDef
  <2>4. \A x : Range(<<x>>) = {x}
    BY DEF Range
  <2> QED
    BY <1>1, <2>1, <2>3, <2>4 DEF Range
<1>3. CASE coin # "zcash"
  <2>1. RecordEntries(inputs) = <<<<"spent", inputs>>>>
    BY <1>3 DEF RecordEntries
  <2>2. <<"spent", inputs>> \in Entry
    BY DEF Entry
  <2> QED
    BY <2>1, <2>2
<1> QED
  BY <1>2, <1>3

\* What an entry of the queue will leave in its file.
LEMMA ContentType ==
    ASSUME TypeOK, NEW p \in Party, NEW e \in Entry
    PROVE  /\ e[1] \in KeyFile => Content(p, e) = e[2] /\ e[2] \in Nat
           /\ e[1] = "spent" =>
                /\ e[2] \in Seq(Output)
                /\ Content(p, e) \in RecordType
                /\ Content(p, e).odd = disk[p]["spent"].odd
                /\ Range(Content(p, e).list) = Range(disk[p]["spent"].list) \cup Range(e[2])
           /\ e[1] \in File
           /\ Content(p, e) \in KeyContent \cup RecordType
<1>1. CASE e[1] \in KeyFile
  BY <1>1 DEF Entry, Content, KeyFile, File, KeyContent
<1>2. CASE e[1] = "spent"
  <2>1. e[2] \in Seq(Output)
    BY <1>2 DEF Entry, KeyFile
  <2>2. disk[p]["spent"] \in RecordType
    BY DEF TypeOK, Keystore
  <2> DEFINE old == disk[p]["spent"]
  <2>3. old.list \in Seq(Output) /\ old.odd \in BOOLEAN
    BY <2>2 DEF RecordType
  <2>4. Content(p, e) = [list |-> old.list \o e[2], odd |-> old.odd]
    BY <1>2 DEF Content, SaveSpent, LoadSpent, Record
  <2> HIDE DEF old
  <2>5. /\ old.list \o e[2] \in Seq(Output)
        /\ Range(old.list \o e[2]) = Range(old.list) \cup Range(e[2])
    BY <2>1, <2>3, RangeFacts
  <2>6. Content(p, e) \in RecordType
    BY <2>3, <2>4, <2>5 DEF RecordType
  <2> QED
    BY <1>2, <2>1, <2>4, <2>5, <2>6 DEF old, File, KeyFile
<1> QED
  BY <1>1, <1>2 DEF Entry

\* What a truncated file holds.
LEMMA CutType ==
    ASSUME NEW p, NEW f, NEW content, NEW left \in Cut(p, f, content)
    PROVE  /\ f # "spent" => left = Torn
           /\ f = "spent" /\ content \in RecordType =>
                left \in RecordType /\ Range(left.list) \subseteq Range(content.list)
<1>1. CASE f # "spent"
  BY <1>1 DEF Cut
<1>2. CASE f = "spent" /\ content \in RecordType
  <2>1. content.list \in Seq(Output)
    BY <1>2 DEF RecordType
  <2>2. CASE coin = "zcash" \/ p \in Encrypted
    <3>1. left = [list |-> <<>>, odd |-> FALSE]
      BY <1>2, <2>2 DEF Cut, NoRecord, Record
    <3>2. Range(<<>>) = {}
      BY DEF Range
    <3> QED
      BY <1>2, <3>1, <3>2 DEF RecordType
  <2>3. CASE ~(coin = "zcash" \/ p \in Encrypted)
    <3>1. PICK k \in 0 .. Len(content.list) - 1, odd \in BOOLEAN :
             left = [list |-> SubSeq(content.list, 1, k), odd |-> odd]
      BY <1>2, <2>3 DEF Cut, Record
    <3>2. Len(content.list) \in Nat
      BY <2>1, LenProperties
    <3>3. k \in 0 .. Len(content.list)
      BY <3>2
    <3>4. /\ SubSeq(content.list, 1, k) \in Seq(Output)
          /\ Range(SubSeq(content.list, 1, k)) \subseteq Range(content.list)
      BY <2>1, <3>3, RangeFacts
    <3> QED
      BY <1>2, <3>1, <3>4 DEF RecordType
  <2> QED
    BY <2>2, <2>3
<1> QED
  BY <1>1, <1>2
-----------------------------------------------------------------------------
\* The empty keystores have the type.
LEMMA InitType == Init => TypeOK
<1> SUFFICES ASSUME Init PROVE TypeOK
  OBVIOUS
<1>1. NoRecord \in RecordType
  BY DEF NoRecord, Record, RecordType
<1>2. disk \in [Party -> Keystore]
  BY <1>1 DEF Init, Keystore, KeyContent, KeyFile, File, Absent
<1>3. sess \in Spend
  BY DEF Init, NoSpend, Spend
<1>4. pc \in [Party -> Label] /\ todo \in [Party -> Seq(Entry)]
  BY DEF Init, Label, Resting
<1> QED
  BY <1>2, <1>3, <1>4 DEF Init, TypeOK

\* One file of one party changes.
LEMMA OneFile ==
    ASSUME TypeOK, NEW p \in Party, NEW f \in File, NEW c,
           f \in KeyFile => c \in KeyContent,
           f = "spent" => c \in RecordType,
           disk' = [disk EXCEPT ![p][f] = c]
    PROVE  disk' \in [Party -> Keystore]
<1>1. disk \in [Party -> Keystore]
  BY DEF TypeOK
<1> QED
  BY <1>1 DEF Keystore, File, KeyFile

\* Opening a file and writing it keep the type.
LEMMA BeginWriteType ==
    ASSUME TypeOK, NEW p \in Party, BeginWrite(p)
    PROVE  TypeOK'
<1> DEFINE e == Head(todo[p])
           f == e[1]
           c == Content(p, e)
<1>1. e \in Entry /\ f \in File /\ c \in KeyContent \cup RecordType
  <2>1. e \in Entry
    BY Queue DEF BeginWrite, TypeOK
  <2> QED
    BY <2>1, ContentType
<1>2. f = "spent" => c \in RecordType
  BY <1>1, ContentType
<1>3. PICK left \in Cut(p, f, c) : disk' = [disk EXCEPT ![p][f] = left]
  BY DEF BeginWrite
<1>4. writing' = [writing EXCEPT ![p] = <<c>>]
  BY DEF BeginWrite
<1> HIDE DEF e, f, c
<1>5. /\ f # "spent" => left \in KeyContent
      /\ f = "spent" => left \in RecordType
  BY <1>2, CutType DEF KeyContent
<1>6. disk' \in [Party -> Keystore]
  BY <1>1, <1>3, <1>5, OneFile DEF KeyFile
<1>7. writing' \in [Party -> {<<>>} \cup {<<x>> : x \in KeyContent \cup RecordType}]
  BY <1>1, <1>4 DEF TypeOK
<1> QED
  BY <1>6, <1>7 DEF BeginWrite, TypeOK, chain

LEMMA EndWriteType ==
    ASSUME TypeOK, NEW p \in Party, Queued(p), EndWrite(p)
    PROVE  TypeOK'
<1>1. todo[p] # <<>> /\ todo[p] \in Seq(Entry)
  BY DEF EndWrite, Queued, TypeOK
<1>2. Head(todo[p]) = todo[p][1] /\ todo[p][1] \in Entry /\ Tail(todo[p]) \in Seq(Entry)
      /\ 1 \in DOMAIN todo[p]
  BY <1>1, Queue
<1> DEFINE f == todo[p][1][1]
           c == writing[p][1]
<1>3. f \in File
  BY <1>2, ContentType
<1>4. /\ pc[p] = "save" => c = ceremony /\ f \in KeyFile
      /\ pc[p] # "save" => c \in RecordType /\ f = "spent"
  <2>1. writing[p] # <<>> /\ pc[p] \in {"save", "record"}
    BY <1>1 DEF EndWrite, Queued
  <2> QED
    BY <1>2, <2>1 DEF Queued
<1>5. disk' = [disk EXCEPT ![p][f] = c]
  BY <1>2 DEF EndWrite
<1>6. disk' \in [Party -> Keystore]
  <2>1. /\ f \in KeyFile => c \in KeyContent
        /\ f = "spent" => c \in RecordType
    BY <1>4 DEF TypeOK, KeyContent, KeyFile
  <2> HIDE DEF f, c
  <2> QED
    BY <1>3, <1>5, <2>1, OneFile
<1>7. stored' \in [Party -> Nat]
  BY <1>4 DEF EndWrite, TypeOK
<1>8. noted' \in [Party -> SUBSET Output]
  <2>1. CASE f = "spent"
    <3>1. todo[p][1][2] \in Seq(Output)
      BY <1>2, <2>1, ContentType
    <3>2. Range(todo[p][1][2]) \subseteq Output
      BY <3>1, RangeFacts
    <3>3. noted' = [noted EXCEPT ![p] = @ \cup Range(todo[p][1][2])]
      BY <1>2, <2>1 DEF EndWrite
    <3> QED
      BY <3>2, <3>3 DEF TypeOK
  <2>2. CASE f # "spent"
    BY <1>2, <2>2 DEF EndWrite, TypeOK
  <2> QED
    BY <2>1, <2>2
<1>9. todo' \in [Party -> Seq(Entry)]
  BY <1>2 DEF EndWrite, TypeOK
<1>10. writing' \in [Party -> {<<>>} \cup {<<x>> : x \in KeyContent \cup RecordType}]
  BY DEF EndWrite, TypeOK
<1> HIDE DEF f, c
<1> QED
  BY <1>6, <1>7, <1>8, <1>9, <1>10 DEF EndWrite, TypeOK, chain

\* So do a failed write and a crash.
LEMMA FaultType ==
    ASSUME TypeOK, NEW p \in Party, Queued(p), FailWrite(p) \/ Crash(p)
    PROVE  TypeOK'
<1>1. Tears(p) \in [Party -> SUBSET File]
  <2>1. CASE writing[p] = <<>>
    BY <2>1 DEF Tears, TypeOK
  <2>2. CASE writing[p] # <<>>
    <3>1. todo[p] # <<>> /\ todo[p] \in Seq(Entry)
      BY <2>2 DEF Queued, TypeOK
    <3>2. Head(todo[p]) \in Entry
      BY <3>1, Queue
    <3>3. Head(todo[p])[1] \in File
      BY <3>2, ContentType
    <3> QED
      BY <2>2, <3>3 DEF Tears, TypeOK
  <2> QED
    BY <2>1, <2>2
<1>2. writing' \in [Party -> {<<>>} \cup {<<x>> : x \in KeyContent \cup RecordType}]
  BY DEF FailWrite, Crash, TypeOK
<1>3. CASE FailWrite(p)
  <2>1. Tail(todo[p]) \in Seq(Entry)
    BY <1>3, Queue DEF FailWrite, TypeOK
  <2>2. todo' \in [Party -> Seq(Entry)] /\ pc' \in [Party -> Label]
    <3>1. todo \in [Party -> Seq(Entry)] /\ pc \in [Party -> Label]
      BY DEF TypeOK
    <3>2. CASE pc[p] = "save"
      <4>1. todo' = [todo EXCEPT ![p] = <<>>] /\ pc' = [pc EXCEPT ![p] = "failed"]
        BY <1>3, <3>2 DEF FailWrite, Goto
      <4>2. <<>> \in Seq(Entry) /\ "failed" \in Label
        BY DEF Label, Resting
      <4> QED
        BY <3>1, <4>1, <4>2
    <3>3. CASE pc[p] # "save"
      BY <1>3, <2>1, <3>1, <3>3 DEF FailWrite
    <3> QED
      BY <3>2, <3>3
  <2> QED
    BY <1>1, <1>2, <1>3, <2>2 DEF FailWrite, TypeOK, chain
<1>4. CASE Crash(p)
  <2>2. todo' \in [Party -> Seq(Entry)] /\ pc' \in [Party -> Label]
    BY <1>4 DEF Crash, TypeOK, Goto, Label, Resting
  <2> QED
    BY <1>1, <1>2, <1>4, <2>2 DEF Crash, TypeOK, chain
<1> QED
  BY <1>3, <1>4
\* One field of the spend in progress changes.
LEMMA WithInputs ==
    ASSUME TypeOK, NEW x \in Seq(Output), sess' = [sess EXCEPT !.inputs = x]
    PROVE  /\ sess' \in Spend /\ sess'.inputs = x
           /\ sess'.signers = sess.signers /\ sess'.coordinator = sess.coordinator
           /\ sess'.amount = sess.amount /\ sess'.signed = sess.signed
           /\ sess'.told = sess.told /\ sess'.closed = sess.closed
           /\ sess'.short = sess.short
BY DEF TypeOK, Spend

LEMMA WithShort ==
    ASSUME TypeOK, NEW x \in BOOLEAN, sess' = [sess EXCEPT !.short = x]
    PROVE  /\ sess' \in Spend /\ sess'.short = x
           /\ sess'.signers = sess.signers /\ sess'.coordinator = sess.coordinator
           /\ sess'.amount = sess.amount /\ sess'.inputs = sess.inputs
           /\ sess'.signed = sess.signed /\ sess'.told = sess.told
           /\ sess'.closed = sess.closed
BY DEF TypeOK, Spend

LEMMA WithSigned ==
    ASSUME TypeOK, NEW x \in BOOLEAN, sess' = [sess EXCEPT !.signed = x]
    PROVE  /\ sess' \in Spend /\ sess'.signed = x
           /\ sess'.signers = sess.signers /\ sess'.coordinator = sess.coordinator
           /\ sess'.amount = sess.amount /\ sess'.inputs = sess.inputs
           /\ sess'.told = sess.told /\ sess'.closed = sess.closed
           /\ sess'.short = sess.short
BY DEF TypeOK, Spend

LEMMA WithTold ==
    ASSUME TypeOK, NEW x \in BOOLEAN, sess' = [sess EXCEPT !.told = x]
    PROVE  /\ sess' \in Spend /\ sess'.told = x
           /\ sess'.signers = sess.signers /\ sess'.coordinator = sess.coordinator
           /\ sess'.amount = sess.amount /\ sess'.inputs = sess.inputs
           /\ sess'.signed = sess.signed /\ sess'.closed = sess.closed
           /\ sess'.short = sess.short
BY DEF TypeOK, Spend

LEMMA WithClosed ==
    ASSUME TypeOK, NEW x \in SUBSET Party, sess' = [sess EXCEPT !.closed = x]
    PROVE  /\ sess' \in Spend /\ sess'.closed = x
           /\ sess'.signers = sess.signers /\ sess'.coordinator = sess.coordinator
           /\ sess'.amount = sess.amount /\ sess'.inputs = sess.inputs
           /\ sess'.signed = sess.signed /\ sess'.told = sess.told
           /\ sess'.short = sess.short
BY DEF TypeOK, Spend

\* No spend is in progress.
LEMMA NoNewSpend ==
    ASSUME NEW n \in Nat
    PROVE  \A r : r = [NoSpend EXCEPT !.number = n] =>
              /\ r \in Spend
              /\ r.signers = {}
              /\ r.inputs = <<>> /\ r.closed = {}
              /\ r.signed = FALSE /\ r.told = FALSE /\ r.short = FALSE
<1> DEFINE x == [number |-> n, signers |-> {}, coordinator |-> None, amount |-> 0,
                inputs |-> <<>>, short |-> FALSE, signed |-> FALSE, told |-> FALSE,
                closed |-> {}]
<1>1. ASSUME NEW r, r = [NoSpend EXCEPT !.number = n] PROVE r = x
  BY <1>1 DEF NoSpend
<1>2. x \in Spend
  BY DEF Spend
<1>3. /\ x.signers = {}
      /\ x.inputs = <<>> /\ x.closed = {}
      /\ x.signed = FALSE /\ x.told = FALSE /\ x.short = FALSE
  OBVIOUS
<1> HIDE DEF x
<1> QED
  BY <1>1, <1>2, <1>3

\* A ceremony and the start of a spend keep the type.
LEMMA CeremonyType ==
    ASSUME TypeOK, NEW files \in {KeygenFiles, ImportFiles}, Ceremony(files)
    PROVE  TypeOK'
<1> DEFINE s == KeyEntries(files, ceremony + 1)
<1>1. ceremony + 1 \in Nat
  BY DEF TypeOK
<1>2. s \in Seq(Entry)
  BY <1>1, CeremonyEntries
<1>3. todo' = [p \in Party |-> s]
  BY DEF Ceremony, KeyEntries
<1> HIDE DEF s
<1>4. todo' \in [Party -> Seq(Entry)]
  BY <1>2, <1>3
<1>5. pc' \in [Party -> Label] /\ ceremony' \in Nat
  BY <1>1 DEF Ceremony, Label
<1>6. sess' \in Spend
  <2>1. sess.number \in Nat
    BY DEF TypeOK, Spend
  <2> QED
    BY <2>1, NoNewSpend DEF Ceremony
<1> QED
  BY <1>4, <1>5, <1>6 DEF Ceremony, TypeOK, chain

LEMMA Coordinates ==
    ASSUME NEW S \in kSubset(MinSigners, Party), NEW c \in Coordinators(S)
    PROVE  S \subseteq Party /\ c \in S
<1>1. S \subseteq Party /\ Cardinality(S) = MinSigners /\ Party \subseteq Nat
  BY WalletAssumption DEF kSubset
<1>2. Cardinality(Party) \in Nat /\ MinSigners \in Nat \ {0}
  BY WalletAssumption, FS_CardinalityType
<1>3. S # {}
  BY <1>1, <1>2, FS_EmptySet
<1>4. Min(S) \in S
  BY <1>1, <1>3, MinExists
<1> QED
  BY <1>1, <1>4 DEF Coordinators

\* What the start of a spend sets.
LEMMA Started ==
    ASSUME TypeOK, runSpend
    PROVE  /\ sess' \in Spend /\ sess'.coordinator \in sess'.signers
           /\ sess'.inputs = <<>> /\ sess'.closed = {}
           /\ sess'.signed = FALSE /\ sess'.told = FALSE /\ sess'.short = FALSE
           /\ \A p \in Party : pc[p] \in Resting
           /\ pc' \in [Party -> {"idle", "failed", "prepare", "sign"}]
           /\ \A p \in Party : pc'[p] \in {"prepare", "sign"} => p \in sess'.signers
           /\ \A p \in Party : pc'[p] = "prepare" => p = sess'.coordinator
<1> DEFINE SP(S, amount, c) ==
              sess' = [NoSpend EXCEPT !.number = sess.number + 1, !.signers = S,
                                      !.coordinator = c, !.amount = amount]
           PC(S, c) ==
              pc' = [p \in Party |-> IF p \notin S THEN "idle"
                                     ELSE IF ~Loads(p) THEN "failed"
                                     ELSE IF p = c THEN "prepare" ELSE "sign"]
<1>1. PICK S \in kSubset(MinSigners, Party), amount \in Amount :
         \E c \in Coordinators(S) : SP(S, amount, c) /\ PC(S, c)
  BY DEF runSpend
<1>2. PICK c \in Coordinators(S) : SP(S, amount, c) /\ PC(S, c)
  BY <1>1
<1>3. S \subseteq Party /\ c \in S /\ amount \in Nat
  BY Coordinates, WalletAssumption
<1>4. sess.number + 1 \in Nat /\ S \in SUBSET Party /\ c \in Party \cup {None}
  BY <1>3 DEF TypeOK, Spend
<1>5. PC(S, c)
  BY <1>2
<1>6. SP(S, amount, c)
  BY <1>2
<1> HIDE DEF PC
<1>7. /\ sess' \in Spend
      /\ sess'.signers = S /\ sess'.coordinator = c
      /\ sess'.inputs = <<>> /\ sess'.closed = {}
      /\ sess'.signed = FALSE /\ sess'.told = FALSE /\ sess'.short = FALSE
  <2> DEFINE n == sess.number + 1
             x == [number |-> n, signers |-> S, coordinator |-> c, amount |-> amount,
                   inputs |-> <<>>, short |-> FALSE, signed |-> FALSE, told |-> FALSE,
                   closed |-> {}]
  <2>1. sess' = x
    BY <1>6 DEF NoSpend
  <2> HIDE DEF SP, n
  <2>2. x \in Spend
    BY <1>3, <1>4 DEF Spend, n
  <2>3. /\ x.signers = S /\ x.coordinator = c /\ x.inputs = <<>> /\ x.closed = {}
        /\ x.signed = FALSE /\ x.told = FALSE /\ x.short = FALSE
    OBVIOUS
  <2> HIDE DEF x
  <2> QED
    BY <2>1, <2>2, <2>3
<1> HIDE DEF SP
<1>8. /\ pc' \in [Party -> {"idle", "failed", "prepare", "sign"}]
      /\ \A p \in Party : pc'[p] \in {"prepare", "sign"} => p \in S
      /\ \A p \in Party : pc'[p] = "prepare" => p = c
  BY <1>5 DEF PC
<1>9. \A p \in Party : pc[p] \in Resting
  BY DEF runSpend
<1> QED
  BY <1>3, <1>7, <1>8, <1>9

\* So do the steps of a spend.
LEMMA SpendType ==
    ASSUME TypeOK, NEW p \in Party,
           \/ Saved(p) \/ Prepare(p) \/ Fail(p) \/ Broadcast(p)
           \/ ReceiveOffsets(p) \/ Recorded(p) \/ Finish(p)
    PROVE  TypeOK'
<1>1. sess \in Spend /\ pc \in [Party -> Label] /\ todo \in [Party -> Seq(Entry)]
      /\ sess.inputs \in Seq(Output)
  BY DEF TypeOK, Spend
<1>2. \A q \in Party, l \in Label : [pc EXCEPT ![q] = l] \in [Party -> Label]
  BY <1>1
<1>8. sess.closed \cup {p} \in SUBSET Party
  BY DEF TypeOK, Spend
<1>3. CASE Saved(p) \/ Fail(p) \/ Finish(p)
  <2>1. pc' \in [Party -> Label]
    BY <1>2, <1>3 DEF Saved, Fail, Finish, Goto, Label, Resting
  <2> QED
    BY <1>3, <2>1 DEF Saved, Fail, Finish, TypeOK, chain
<1>4. CASE Prepare(p)
  <2>1. pc' \in [Party -> Label]
    BY <1>2, <1>4 DEF Prepare, Goto, Label, Resting
  <2>2. \/ \E inputs \in Select(p, sess.amount) : sess' = [sess EXCEPT !.inputs = inputs]
        \/ sess' = [sess EXCEPT !.short = TRUE]
    BY <1>4 DEF Prepare
  <2>3. \A inputs \in Select(p, sess.amount) : inputs \in Seq(Output)
    BY Selected
  <2>4. sess' \in Spend
    BY <2>2, <2>3, WithInputs, WithShort
  <2> QED
    BY <1>4, <2>1, <2>4 DEF Prepare, TypeOK, chain
<1>5. CASE Broadcast(p)
  <2>1. pc' \in [Party -> Label]
    BY <1>2, <1>5 DEF Broadcast, Goto, Label, Resting
  <2>2. RecordEntries(sess.inputs) \in Seq(Entry)
    BY <1>1, RecordQueue
  <2>3. todo' = todo \/ todo' = [todo EXCEPT ![p] = RecordEntries(sess.inputs)]
    BY <1>5 DEF Broadcast
  <2>4. todo' \in [Party -> Seq(Entry)]
    BY <1>1, <2>2, <2>3
  <2>5. sess' = sess \/ \E b \in BOOLEAN : sess' = [sess EXCEPT !.told = b]
    BY <1>5 DEF Broadcast
  <2>6. sess' \in Spend
    BY <1>1, <2>5, WithTold
  <2>7. Range(sess.inputs) \subseteq Output
    BY <1>1, RangeFacts
  <2>8. sent' \subseteq Output
    BY <1>5, <2>7 DEF Broadcast, TypeOK
  <2> QED
    BY <1>5, <2>1, <2>4, <2>6, <2>8 DEF Broadcast, TypeOK
<1>6. CASE ReceiveOffsets(p)
  <2>1. pc' \in [Party -> Label]
    BY <1>2, <1>6 DEF ReceiveOffsets, Goto, Label, Resting
  <2>2. RecordEntries(sess.inputs) \in Seq(Entry)
    BY <1>1, RecordQueue
  <2>3. todo' = todo \/ todo' = [todo EXCEPT ![p] = RecordEntries(sess.inputs)]
    BY <1>6 DEF ReceiveOffsets
  <2>4. todo' \in [Party -> Seq(Entry)]
    BY <1>1, <2>2, <2>3
  <2>5. sess' = sess \/ sess' = [sess EXCEPT !.closed = @ \cup {p}]
    BY <1>6 DEF ReceiveOffsets, AtBarrier
  <2>6. sess' \in Spend
    BY <1>1, <1>8, <2>5, WithClosed
  <2> QED
    BY <1>6, <2>1, <2>4, <2>6 DEF ReceiveOffsets, TypeOK, chain
<1>7. CASE Recorded(p)
  <2>1. pc' \in [Party -> Label]
    BY <1>2, <1>7 DEF Recorded, Goto, Label
  <2>2. \/ sess' = [sess EXCEPT !.told = TRUE]
        \/ sess' = [sess EXCEPT !.closed = @ \cup {p}]
    BY <1>7 DEF Recorded, AtBarrier
  <2>3. sess' \in Spend
    BY <1>8, <2>2, WithTold, WithClosed
  <2> QED
    BY <1>7, <2>1, <2>3 DEF Recorded, TypeOK, chain
<1> QED
  BY <1>3, <1>4, <1>5, <1>6, <1>7

\* Every step keeps the type.
LEMMA NextType ==
    ASSUME TypeOK, \A p \in Party : Queued(p), [Next]_vars
    PROVE  TypeOK'
<1>1. CASE runKeygen \/ runKeyImport
  BY <1>1, CeremonyType DEF runKeygen, runKeyImport
<1>2. CASE runSpend
  <2>1. sess' \in Spend /\ pc' \in [Party -> Label]
    BY <1>2, Started DEF Label, Resting
  <2> QED
    BY <1>2, <2>1 DEF runSpend, TypeOK, chain
<1>3. CASE Sign
  <2>1. pc' \in [Party -> Label] /\ sess' \in Spend
    BY <1>3, WithSigned DEF Sign, TypeOK, Label
  <2> QED
    BY <1>3, <2>1 DEF Sign, TypeOK, chain
<1>4. ASSUME NEW p \in Party, BeginWrite(p) \/ EndWrite(p) \/ FailWrite(p) \/ Crash(p)
      PROVE  TypeOK'
  BY <1>4, BeginWriteType, EndWriteType, FaultType
<1>5. ASSUME NEW p \in Party,
             \/ Saved(p) \/ Prepare(p) \/ Fail(p) \/ Broadcast(p)
             \/ ReceiveOffsets(p) \/ Recorded(p) \/ Finish(p)
      PROVE  TypeOK'
  BY <1>5, SpendType
<1>6. ASSUME NEW o \in Output, Receive(o) PROVE TypeOK'
  BY <1>6 DEF Receive, TypeOK
<1>7. ASSUME NEW tx \in pool, Mine(tx) PROVE TypeOK'
  BY <1>7 DEF Mine, TypeOK
<1>8. CASE UNCHANGED vars
  BY <1>8 DEF vars, TypeOK
<1> QED
  BY <1>1, <1>2, <1>3, <1>4, <1>5, <1>6, <1>7, <1>8 DEF Next
-----------------------------------------------------------------------------
\* A party whose files, queue and histories a step leaves alone.
Untouched(p) ==
    /\ disk'[p] = disk[p] /\ writing'[p] = writing[p] /\ todo'[p] = todo[p]
    /\ stored'[p] = stored[p] /\ noted'[p] = noted[p] /\ torn'[p] = torn[p]
    /\ coin' = coin /\ ceremony' = ceremony /\ sent \subseteq sent'

LEMMA QuietFiles ==
    ASSUME TypeOK, NEW p \in Party, Files(p), Untouched(p),
           pc'[p] = pc[p] \/ (todo[p] = <<>> /\ pc'[p] # "save")
    PROVE  Files(p)'
<1> USE DEF Untouched
<1>1. Queued(p)'
  <2>1. CASE pc'[p] = pc[p]
    BY <2>1 DEF Files, Queued
  <2>2. CASE todo[p] = <<>> /\ pc'[p] # "save"
    BY <2>2 DEF Files, Queued
  <2> QED
    BY <2>1, <2>2
<1>2. RecordSpent(p)'
  BY DEF Files, RecordSpent
<1>3. InOrder(p)'
  BY DEF Files, InOrder
<1>4. Kept(p)'
  BY DEF Files, Kept, Opened
<1>5. Remembered(p)'
  BY DEF Files, Remembered, Opened
<1> QED
  BY <1>1, <1>2, <1>3, <1>4, <1>5 DEF Files

\* A party that queues the entries of outputs that were spent.
LEMMA EnqueueFiles ==
    ASSUME TypeOK, NEW p \in Party, Files(p), NEW inputs \in Seq(Output),
           Range(inputs) \subseteq sent', todo[p] = <<>>,
           todo' = [todo EXCEPT ![p] = RecordEntries(inputs)],
           pc'[p] = "record", UNCHANGED <<coin, disk, writing, ceremony, stored, noted, torn>>,
           sent \subseteq sent'
    PROVE  Files(p)'
<1>1. writing[p] = <<>> /\ todo'[p] = RecordEntries(inputs)
  BY DEF Files, Queued, TypeOK
<1>2. \A i \in DOMAIN RecordEntries(inputs) :
         /\ RecordEntries(inputs)[i][1] = "spent"
         /\ Range(RecordEntries(inputs)[i][2]) \subseteq sent'
  BY RecordQueue
<1>3. Queued(p)'
  BY <1>1, <1>2 DEF Queued
<1>4. RecordSpent(p)'
  BY DEF Files, RecordSpent
<1>5. InOrder(p)'
  BY DEF Files, InOrder
<1>6. Kept(p)'
  BY <1>1 DEF Files, Kept, Opened
<1>7. Remembered(p)'
  BY <1>1 DEF Files, Remembered, Opened
<1> QED
  BY <1>3, <1>4, <1>5, <1>6, <1>7 DEF Files

\* A ceremony queues its key files at every party.
LEMMA CeremonyFilesKept ==
    ASSUME TypeOK, NEW p \in Party, Files(p), NEW files \in {KeygenFiles, ImportFiles},
           Ceremony(files)
    PROVE  Files(p)'
<1> DEFINE s == KeyEntries(files, ceremony + 1)
<1>1. ceremony \in Nat /\ ceremony + 1 \in Nat /\ ceremony' = ceremony + 1
  BY DEF TypeOK, Ceremony
<1>2. /\ s # <<>> /\ s[1][1] = files[1]
      /\ \A i \in DOMAIN s :
            /\ i \in DOMAIN files
            /\ s[i][1] = files[i] /\ files[i] \in KeyFile
            /\ s[i][2] = ceremony + 1
  BY <1>1, CeremonyEntries
<1>3. todo'[p] = s /\ pc'[p] = "save"
      /\ UNCHANGED <<coin, disk, writing, sent, stored, noted, torn>>
  BY DEF Ceremony, chain, KeyEntries
<1>4. todo[p] = <<>> /\ writing[p] = <<>>
  BY DEF Ceremony, Resting, Files, Queued
<1> HIDE DEF s
<1>5. Queued(p)'
  BY <1>1, <1>2, <1>3, <1>4 DEF Queued
<1>6. RecordSpent(p)'
  BY <1>3 DEF Files, RecordSpent
<1>7. InOrder(p)'
  BY <1>2, <1>3, CeremonyFiles DEF Files, InOrder
<1>8. Kept(p)'
  BY <1>1, <1>3, <1>4 DEF Files, Kept, Opened, TypeOK
<1>9. Remembered(p)'
  BY <1>3, <1>4 DEF Files, Remembered, Opened
<1> QED
  BY <1>5, <1>6, <1>7, <1>8, <1>9 DEF Files
\* Opening a file leaves it torn until it is written.
LEMMA BeginWriteFiles ==
    ASSUME TypeOK, NEW p \in Party, Files(p), BeginWrite(p)
    PROVE  Files(p)'
<1> DEFINE e == todo[p][1]
           f == e[1]
           c == Content(p, e)
<1>1. /\ todo[p] # <<>> /\ writing[p] = <<>> /\ todo[p] \in Seq(Entry)
      /\ UNCHANGED <<coin, pc, todo, ceremony, sent, stored, noted, torn>>
  BY DEF BeginWrite, TypeOK, chain
<1>2. Head(todo[p]) = e /\ e \in Entry /\ 1 \in DOMAIN todo[p]
  BY <1>1, Queue
<1>3. PICK left \in Cut(p, f, c) : disk' = [disk EXCEPT ![p][f] = left]
  BY <1>2 DEF BeginWrite
<1>4. writing'[p] = <<c>>
  BY <1>2 DEF BeginWrite, TypeOK
<1>5. /\ pc[p] = "save" => f \in KeyFile /\ e[2] = ceremony /\ ceremony > 0
      /\ pc[p] = "record" => f = "spent" /\ Range(e[2]) \subseteq sent
      /\ pc[p] \in {"save", "record"}
  BY <1>1, <1>2 DEF Files, Queued
<1>6. /\ f \in KeyFile => c = e[2] /\ e[2] \in Nat
      /\ f = "spent" => /\ c \in RecordType
                        /\ c.odd = disk[p]["spent"].odd
                        /\ Range(c.list) = Range(disk[p]["spent"].list) \cup Range(e[2])
      /\ f \in File
  BY <1>2, ContentType
<1> HIDE DEF e, f, c
<1>7. /\ f # "spent" => left = Torn
      /\ f = "spent" => left \in RecordType /\ Range(left.list) \subseteq Range(c.list)
  BY <1>6, CutType
<1>8. /\ disk'[p][f] = left
      /\ \A g \in File \ {f} : disk'[p][g] = disk[p][g]
  <2>1. disk \in [Party -> Keystore] /\ disk[p] \in [File -> KeyContent \cup RecordType]
    BY DEF TypeOK, Keystore
  <2> QED
    BY <1>3, <1>6, <2>1
<1>9. "spent" \notin KeyFile
  BY DEF KeyFile
<1>10. f = "spent" => Range(c.list) \subseteq sent
  BY <1>5, <1>6, <1>9 DEF Files, RecordSpent
<1>11. \A g : Opened(p, g)' <=> g = f
  BY <1>1, <1>4 DEF Opened, f, e
<1>12. \A g : ~Opened(p, g)
  BY <1>1 DEF Opened
<1>13. Queued(p)'
  BY <1>1, <1>4, <1>5, <1>6, <1>9, <1>10 DEF Files, Queued
<1>14. RecordSpent(p)'
  BY <1>1, <1>6, <1>7, <1>8, <1>10 DEF Files, RecordSpent, File
<1>15. InOrder(p)'
  <2>1. \A g \in {"bundle", "key_share"} \cup Separate : g \in File /\ g # "spent"
    BY DEF Separate, File, KeyFile
  <2>2. ASSUME coin' = "zcash", disk'[p]["bundle"] = Absent, NEW g \in Separate
        PROVE  disk'[p][g] = Absent
    <3>1. "bundle" # f /\ disk[p]["bundle"] = Absent
      BY <1>7, <1>8, <2>1, <2>2 DEF Torn, Absent
    <3>2. f \notin Separate
      <4>1. CASE pc[p] = "save"
        <5>1. f \in Separate => disk[p]["bundle"] = ceremony
          BY <1>1, <1>2, <2>2, <4>1 DEF Files, InOrder, Separate, f, e
        <5> QED
          BY <1>5, <3>1, <4>1, <5>1 DEF Absent
      <4>2. CASE pc[p] = "record"
        BY <1>5, <2>1, <4>2
      <4> QED
        BY <1>5, <4>1, <4>2
    <3>3. disk[p][g] = Absent
      BY <1>1, <2>2, <3>1 DEF Files, InOrder
    <3> QED
      BY <1>8, <2>1, <3>2, <3>3
  <2>3. ASSUME pc'[p] = "save", todo'[p][1][1] \notin {"bundle", "key_share"}
        PROVE  disk'[p][IF coin' = "zcash" THEN "bundle" ELSE "key_share"] = ceremony'
    <3>1. f = todo[p][1][1]
      BY DEF f, e
    <3> QED
      BY <1>1, <1>8, <2>1, <2>3, <3>1 DEF Files, InOrder
  <2> QED
    BY <1>1, <2>2, <2>3 DEF Files, InOrder
<1>16. Kept(p)'
  <2>1. \A g \in {"bundle", "key_share"} : g \in File
    BY DEF File, KeyFile
  <2>2. disk'[p]["bundle"] = Absent => disk[p]["bundle"] = Absent
    BY <1>7, <1>8, <2>1 DEF Torn, Absent
  <2> QED
    BY <1>1, <1>8, <1>11, <1>12, <2>1, <2>2 DEF Files, Kept
<1>17. Remembered(p)'
  <2>1. CASE f = "spent"
    <3>1. Opened(p, "spent")' /\ todo'[p][1][2] = e[2] /\ writing'[p][1] = c
      BY <1>1, <1>4, <1>11, <2>1 DEF e
    <3> QED
      BY <1>1, <1>6, <1>12, <2>1, <3>1 DEF Files, Remembered
  <2>2. CASE f # "spent"
    BY <1>1, <1>8, <1>11, <1>12, <2>2 DEF Files, Remembered, File
  <2> QED
    BY <2>1, <2>2
<1> QED
  BY <1>13, <1>14, <1>15, <1>16, <1>17 DEF Files
\* Writing a file completes it.
LEMMA EndWriteFiles ==
    ASSUME TypeOK, NEW p \in Party, Files(p), EndWrite(p)
    PROVE  Files(p)'
<1> DEFINE e == todo[p][1]
           f == e[1]
           c == writing[p][1]
<1>1. /\ todo[p] # <<>> /\ writing[p] # <<>> /\ todo[p] \in Seq(Entry)
      /\ UNCHANGED <<coin, pc, ceremony, sent, torn>>
  BY DEF EndWrite, TypeOK, chain, Files, Queued
<1>2. /\ Head(todo[p]) = e /\ e \in Entry /\ 1 \in DOMAIN todo[p]
      /\ \A i \in DOMAIN Tail(todo[p]) :
            i + 1 \in DOMAIN todo[p] /\ i \in Nat \ {0} /\ Tail(todo[p])[i] = todo[p][i + 1]
      /\ Tail(todo[p]) # <<>> => 1 \in DOMAIN Tail(todo[p])
  BY <1>1, Queue
<1>3. disk' = [disk EXCEPT ![p][f] = c]
  BY <1>2 DEF EndWrite
<1>4. /\ writing'[p] = <<>> /\ todo'[p] = Tail(todo[p])
      /\ stored'[p] = IF Tail(todo[p]) = <<>> /\ pc[p] = "save" THEN c ELSE stored[p]
      /\ noted'[p] = IF f = "spent" THEN noted[p] \cup Range(e[2]) ELSE noted[p]
  BY <1>2 DEF EndWrite, TypeOK
<1>5. /\ pc[p] = "save" => f \in KeyFile /\ c = ceremony /\ ceremony > 0
      /\ pc[p] = "record" => f = "spent" /\ c \in RecordType /\ Range(c.list) \subseteq sent
      /\ pc[p] \in {"save", "record"}
  BY <1>1, <1>2 DEF Files, Queued
<1>6. f \in File /\ "spent" \notin KeyFile
  BY <1>2, ContentType DEF KeyFile
<1>7. f = todo[p][1][1] /\ e = todo[p][1] /\ c = writing[p][1]
  OBVIOUS
<1> HIDE DEF e, f, c
<1>8. /\ disk'[p][f] = c
      /\ \A g \in File \ {f} : disk'[p][g] = disk[p][g]
  <2>1. disk \in [Party -> Keystore] /\ disk[p] \in [File -> KeyContent \cup RecordType]
    BY DEF TypeOK, Keystore
  <2> QED
    BY <1>3, <1>6, <2>1
<1>9. \A g : ~Opened(p, g)'
  BY <1>4 DEF Opened
<1>10. \A g : Opened(p, g) <=> g = f
  BY <1>1, <1>7 DEF Opened
<1>11. Queued(p)'
  <2>1. \A i \in DOMAIN todo'[p] : i + 1 \in DOMAIN todo[p] /\ todo'[p][i] = todo[p][i + 1]
    BY <1>2, <1>4
  <2> QED
    BY <1>1, <1>4, <1>5, <2>1 DEF Files, Queued
<1>12. RecordSpent(p)'
  BY <1>1, <1>5, <1>6, <1>8 DEF Files, RecordSpent, File
<1>13. InOrder(p)'
  <2>1. \A g \in {"bundle", "key_share"} \cup Separate : g \in File /\ g # "spent"
    BY DEF Separate, File, KeyFile
  <2>2. ASSUME coin' = "zcash", disk'[p]["bundle"] = Absent, NEW g \in Separate
        PROVE  disk'[p][g] = Absent
    <3>1. "bundle" # f /\ disk[p]["bundle"] = Absent
      BY <1>5, <1>8, <2>1, <2>2 DEF Absent
    <3>2. f \notin Separate
      <4>1. CASE pc[p] = "save"
        <5>1. f \in Separate => disk[p]["bundle"] = ceremony
          BY <1>1, <1>2, <1>7, <2>2, <4>1 DEF Files, InOrder, Separate
        <5> QED
          BY <1>5, <3>1, <4>1, <5>1 DEF Absent
      <4>2. CASE pc[p] = "record"
        BY <1>5, <2>1, <4>2
      <4> QED
        BY <1>5, <4>1, <4>2
    <3>3. disk[p][g] = Absent
      BY <1>1, <2>2, <3>1 DEF Files, InOrder
    <3> QED
      BY <1>8, <2>1, <3>2, <3>3
  <2>3. ASSUME pc'[p] = "save"
        PROVE  /\ \A i \in DOMAIN todo'[p] :
                     /\ i > 1 => todo'[p][i][1] \notin {"bundle", "key_share"}
                     /\ coin' = "zcash" => todo'[p][i][1] \in {"bundle"} \cup Separate
                     /\ coin' = "monero" => todo'[p][i][1] \in {"bundle", "key_share", "pub_key"}
                     /\ coin' = "monero" /\ i > 1 => i = 2 /\ todo'[p][1][1] = "key_share"
               /\ todo'[p] # <<>> /\ todo'[p][1][1] \notin {"bundle", "key_share"} =>
                     disk'[p][IF coin' = "zcash" THEN "bundle" ELSE "key_share"] = ceremony'
    <3>1. \A i \in DOMAIN todo'[p] :
             /\ i + 1 \in DOMAIN todo[p] /\ i \in Nat \ {0} /\ i + 1 > 1
             /\ todo'[p][i] = todo[p][i + 1]
      BY <1>2, <1>4
    <3>2. \A i \in DOMAIN todo'[p] :
             /\ todo'[p][i][1] \notin {"bundle", "key_share"}
             /\ coin = "zcash" => todo'[p][i][1] \in {"bundle"} \cup Separate
             /\ coin = "monero" => todo'[p][i][1] \in {"bundle", "key_share", "pub_key"}
             /\ coin = "monero" => i = 1
      BY <1>1, <2>3, <3>1 DEF Files, InOrder
    <3>3. ASSUME todo'[p] # <<>>
          PROVE  disk'[p][IF coin' = "zcash" THEN "bundle" ELSE "key_share"] = ceremony'
      <4>1. CASE coin = "zcash"
        <5>1. f = "bundle" \/ (f # "bundle" /\ f \in Separate)
          BY <1>1, <1>2, <1>7, <2>3, <4>1 DEF Files, InOrder
        <5>2. f \in Separate => disk[p]["bundle"] = ceremony
          BY <1>1, <1>2, <1>7, <2>3, <4>1 DEF Files, InOrder, Separate
        <5> QED
          BY <1>1, <1>5, <1>8, <2>1, <2>3, <4>1, <5>1, <5>2
      <4>2. CASE coin = "monero"
        <5>1. f \in {"bundle", "key_share", "pub_key"}
          BY <1>1, <1>2, <1>7, <2>3, <4>2 DEF Files, InOrder
        <5>2. f = "pub_key" => disk[p]["key_share"] = ceremony
          BY <1>1, <1>2, <1>7, <2>3, <4>2 DEF Files, InOrder
        <5>3. f # "bundle"
          <6>1. 1 \in DOMAIN Tail(todo[p]) /\ 2 \in DOMAIN todo[p]
            BY <1>2, <1>4, <3>3
          <6> QED
            BY <1>1, <1>7, <2>3, <4>2, <6>1 DEF Files, InOrder
        <5> QED
          BY <1>1, <1>5, <1>8, <2>1, <2>3, <4>2, <5>1, <5>2, <5>3
      <4> QED
        BY <4>1, <4>2 DEF TypeOK, Coin
    <3> QED
      BY <1>1, <3>2, <3>3
  <2> QED
    BY <2>2, <2>3 DEF InOrder
<1>14. Kept(p)'
  <2>1. \A g \in {"bundle", "key_share"} : g \in File
    BY DEF File, KeyFile
  <2>2. /\ ceremony \in Nat /\ stored[p] \in Nat /\ stored[p] <= ceremony
        /\ disk[p]["bundle"] \in Int /\ disk[p]["key_share"] \in Int
    BY DEF TypeOK, Files, Kept, Keystore, KeyFile, KeyContent, Torn
  <2>3. stored'[p] \in Nat /\ stored'[p] <= ceremony
    BY <1>4, <1>5, <2>2
  <2>4. ASSUME NEW g \in {"bundle", "key_share"}, g \notin torn[p]
        PROVE  disk'[p][g] # Torn
    <3>1. CASE g = f
      BY <1>5, <1>6, <1>8, <2>1, <2>2, <3>1 DEF Torn, KeyFile
    <3>2. CASE g # f
      BY <1>8, <1>10, <2>1, <2>4, <3>2 DEF Files, Kept
    <3> QED
      BY <3>1, <3>2
  <2>5. ASSUME coin = "zcash", "bundle" \notin torn[p]
        PROVE  disk'[p]["bundle"] >= stored'[p]
    <3>1. CASE f = "bundle"
      BY <1>5, <1>6, <1>8, <2>2, <2>3, <3>1 DEF KeyFile
    <3>2. CASE f # "bundle"
      <4>1. disk'[p]["bundle"] = disk[p]["bundle"] /\ disk[p]["bundle"] >= stored[p]
        BY <1>8, <1>10, <2>1, <2>5, <3>2 DEF Files, Kept
      <4>2. pc[p] = "save" => disk[p]["bundle"] = ceremony
        BY <1>1, <1>2, <1>7, <2>5, <3>2 DEF Files, InOrder, Separate
      <4> QED
        BY <1>4, <2>2, <2>3, <4>1, <4>2
    <3> QED
      BY <3>1, <3>2
  <2>6. ASSUME coin = "monero", "key_share" \notin torn[p], disk'[p]["bundle"] = Absent
        PROVE  disk'[p]["key_share"] >= stored'[p]
    <3>1. f # "bundle" /\ disk[p]["bundle"] = Absent
      BY <1>5, <1>6, <1>8, <2>1, <2>6 DEF Absent, KeyFile
    <3>2. CASE f = "key_share"
      BY <1>5, <1>6, <1>8, <2>2, <2>3, <3>2 DEF KeyFile
    <3>3. CASE f # "key_share"
      <4>1. disk'[p]["key_share"] = disk[p]["key_share"] /\ disk[p]["key_share"] >= stored[p]
        BY <1>8, <1>10, <2>1, <2>6, <3>1, <3>3 DEF Files, Kept
      <4>2. pc[p] = "save" => disk[p]["key_share"] = ceremony
        BY <1>1, <1>2, <1>7, <2>6, <3>1, <3>3 DEF Files, InOrder
      <4> QED
        BY <1>4, <2>2, <2>3, <4>1, <4>2
    <3> QED
      BY <3>2, <3>3
  <2> QED
    BY <1>1, <2>3, <2>4, <2>5, <2>6 DEF Kept
<1>15. Remembered(p)'
  <2>1. CASE f = "spent"
    BY <1>1, <1>4, <1>7, <1>8, <1>9, <1>10, <2>1 DEF Files, Remembered, File
  <2>2. CASE f # "spent"
    BY <1>1, <1>4, <1>8, <1>9, <1>10, <2>2 DEF Files, Remembered, File
  <2> QED
    BY <2>1, <2>2
<1> QED
  BY <1>11, <1>12, <1>13, <1>14, <1>15 DEF Files

\* A write that fails and a crash leave the open file torn for good.
LEMMA FaultFiles ==
    ASSUME TypeOK, NEW p \in Party, Files(p), FailWrite(p) \/ Crash(p)
    PROVE  Files(p)'
<1>1. /\ writing'[p] = <<>>
      /\ UNCHANGED <<coin, disk, ceremony, sent, stored, noted>>
      /\ torn' = Tears(p)
  BY DEF FailWrite, Crash, TypeOK, chain
<1>2. \/ pc'[p] = "failed" /\ todo'[p] = <<>>
      \/ pc[p] # "save" /\ pc'[p] = pc[p] /\ todo[p] # <<>> /\ todo'[p] = Tail(todo[p])
  BY DEF FailWrite, Crash, Goto, TypeOK
<1>3. ASSUME NEW g \in File, g \notin torn'[p]
      PROVE  g \notin torn[p] /\ ~Opened(p, g)
  <2>1. CASE writing[p] = <<>>
    BY <1>1, <1>3, <2>1 DEF Tears, Opened
  <2>2. CASE writing[p] # <<>>
    <3>1. todo[p] # <<>> /\ todo[p] \in Seq(Entry)
      BY <2>2 DEF Files, Queued, TypeOK
    <3>2. Head(todo[p]) = todo[p][1]
      BY <3>1, Queue
    <3>3. torn'[p] = torn[p] \cup {todo[p][1][1]}
      BY <1>1, <2>2, <3>2 DEF Tears, TypeOK
    <3> QED
      BY <1>3, <3>3 DEF Opened
  <2> QED
    BY <2>1, <2>2
<1>4. \A g : ~Opened(p, g)'
  BY <1>1 DEF Opened
<1>5. Queued(p)'
  <2>1. CASE pc'[p] = "failed" /\ todo'[p] = <<>>
    BY <1>1, <2>1 DEF Queued
  <2>2. CASE pc[p] # "save" /\ pc'[p] = pc[p] /\ todo[p] # <<>> /\ todo'[p] = Tail(todo[p])
    <3>1. \A i \in DOMAIN todo'[p] : i + 1 \in DOMAIN todo[p] /\ todo'[p][i] = todo[p][i + 1]
      BY <2>2, Queue DEF TypeOK
    <3>2. pc[p] = "record"
      BY <2>2 DEF Files, Queued
    <3> QED
      BY <1>1, <2>2, <3>1, <3>2 DEF Files, Queued
  <2> QED
    BY <1>2, <2>1, <2>2
<1>6. RecordSpent(p)'
  BY <1>1 DEF Files, RecordSpent
<1>7. InOrder(p)'
  BY <1>1, <1>2 DEF Files, InOrder
<1>8. Kept(p)'
  <2>1. \A g \in {"bundle", "key_share"} : g \in File
    BY DEF File, KeyFile
  <2> QED
    BY <1>1, <1>3, <1>4, <2>1 DEF Files, Kept
<1>9. Remembered(p)'
  BY <1>1, <1>3, <1>4 DEF Files, Remembered, File
<1> QED
  BY <1>5, <1>6, <1>7, <1>8, <1>9 DEF Files

\* The files of every party, at the start and over every step.
LEMMA InitFiles ==
    ASSUME Init, NEW p \in Party
    PROVE  Files(p)
<1>1. /\ pc[p] = "idle" /\ todo[p] = <<>> /\ writing[p] = <<>> /\ ceremony = 0
      /\ stored[p] = 0 /\ noted[p] = {} /\ torn[p] = {}
      /\ disk[p]["spent"] = NoRecord
      /\ \A f \in KeyFile : disk[p][f] = Absent
  BY DEF Init, KeyFile, File
<1>2. NoRecord.list = <<>> /\ ~NoRecord.odd /\ Range(<<>>) = {}
  BY DEF NoRecord, Record, Range
<1>3. "bundle" \in KeyFile /\ "key_share" \in KeyFile /\ Separate \subseteq KeyFile
  BY DEF KeyFile, Separate
<1> QED
  BY <1>1, <1>2, <1>3 DEF Files, Queued, RecordSpent, InOrder, Kept, Remembered, Opened,
                          Torn, Absent

\* The steps of one party leave the files of the others alone.
LEMMA OthersFiles ==
    ASSUME TypeOK, NEW p \in Party, NEW q \in Party, q # p, Files(q),
           \/ BeginWrite(p) \/ EndWrite(p) \/ FailWrite(p) \/ Crash(p)
           \/ Saved(p) \/ Prepare(p) \/ Fail(p) \/ Broadcast(p)
           \/ ReceiveOffsets(p) \/ Recorded(p) \/ Finish(p)
    PROVE  Files(q)'
<1>1. pc \in [Party -> Label] /\ todo \in [Party -> Seq(Entry)] /\ disk \in [Party -> Keystore]
      /\ DOMAIN writing = Party /\ DOMAIN torn = Party /\ DOMAIN stored = Party
      /\ DOMAIN noted = Party
  BY DEF TypeOK
<1>2. CASE BeginWrite(p) \/ EndWrite(p) \/ FailWrite(p) \/ Crash(p)
  <2>1. Untouched(q) /\ pc'[q] = pc[q]
    BY <1>1, <1>2 DEF BeginWrite, EndWrite, FailWrite, Crash, Goto, Tears, Untouched, chain
  <2> QED
    BY <2>1, QuietFiles
<1>3. CASE Saved(p) \/ Prepare(p) \/ Fail(p) \/ Recorded(p) \/ Finish(p)
  <2>1. UNCHANGED <<disk, writing, todo, stored, noted, torn, coin, ceremony, sent>>
    BY <1>3 DEF Saved, Prepare, Fail, Recorded, Finish, chain
  <2>2. pc'[q] = pc[q]
    BY <1>1, <1>3 DEF Saved, Prepare, Fail, Recorded, Finish, Goto
  <2> QED
    BY <2>1, <2>2, QuietFiles DEF Untouched
<1>4. CASE Broadcast(p) \/ ReceiveOffsets(p)
  <2>1. UNCHANGED <<disk, writing, stored, noted, torn, coin, ceremony>> /\ sent \subseteq sent'
    BY <1>4 DEF Broadcast, ReceiveOffsets, chain
  <2>2. pc'[q] = pc[q] /\ todo'[q] = todo[q]
    BY <1>1, <1>4 DEF Broadcast, ReceiveOffsets, Goto
  <2> QED
    BY <2>1, <2>2, QuietFiles DEF Untouched
<1> QED
  BY <1>2, <1>3, <1>4

\* So do the steps of a party that write nothing with its own.
LEMMA OwnFiles ==
    ASSUME TypeOK, Spending, NEW p \in Party, Files(p), Phase(p),
           \/ Saved(p) \/ Prepare(p) \/ Fail(p) \/ Broadcast(p)
           \/ ReceiveOffsets(p) \/ Recorded(p) \/ Finish(p)
    PROVE  Files(p)'
<1>1. pc \in [Party -> Label] /\ todo \in [Party -> Seq(Entry)] /\ sess.inputs \in Seq(Output)
  BY DEF TypeOK, Spend
<1>2. todo[p] = <<>>
  BY DEF Saved, Prepare, Fail, Broadcast, ReceiveOffsets, Recorded, Finish, Files, Queued
<1>3. CASE Saved(p) \/ Prepare(p) \/ Fail(p) \/ Recorded(p) \/ Finish(p)
  <2>1. UNCHANGED <<disk, writing, todo, stored, noted, torn, coin, ceremony, sent>>
    BY <1>3 DEF Saved, Prepare, Fail, Recorded, Finish, chain
  <2>2. pc'[p] # "save"
    BY <1>1, <1>3 DEF Saved, Prepare, Fail, Recorded, Finish, Goto
  <2> QED
    BY <1>2, <2>1, <2>2, QuietFiles DEF Untouched
<1>4. CASE Broadcast(p)
  <2>1. UNCHANGED <<disk, writing, stored, noted, torn, coin, ceremony>> /\ sent \subseteq sent'
    BY <1>4 DEF Broadcast
  <2>2. \/ pc'[p] = "failed" /\ todo' = todo
        \/ /\ pc'[p] = "record" /\ todo' = [todo EXCEPT ![p] = RecordEntries(sess.inputs)]
           /\ Range(sess.inputs) \subseteq sent'
    BY <1>1, <1>4 DEF Broadcast, Goto
  <2> QED
    BY <1>1, <1>2, <2>1, <2>2, QuietFiles, EnqueueFiles DEF Untouched
<1>5. CASE ReceiveOffsets(p)
  <2>1. UNCHANGED <<disk, writing, stored, noted, torn, coin, ceremony, sent>>
    BY <1>5 DEF ReceiveOffsets, chain
  <2>2. \/ pc'[p] = "close" /\ todo' = todo
        \/ /\ pc'[p] = "record" /\ todo' = [todo EXCEPT ![p] = RecordEntries(sess.inputs)]
           /\ sess.told
    BY <1>1, <1>5 DEF ReceiveOffsets, Goto
  <2>3. sess.told => Range(sess.inputs) \subseteq sent'
    BY <2>1 DEF Spending, Out
  <2> QED
    BY <1>1, <1>2, <2>1, <2>2, <2>3, QuietFiles, EnqueueFiles DEF Untouched
<1> QED
  BY <1>3, <1>4, <1>5

\* The shares of a signing that succeeds come from some signer.
LEMMA SomeoneSigns ==
    ASSUME Sign
    PROVE  sess.signers # {}
<1> DEFINE U == UNION {Loaded(p) : p \in sess.signers}
<1>1. Cardinality(U) = 1
  BY DEF Sign
<1>2. sess.signers = {} => U = {}
  OBVIOUS
<1> HIDE DEF U
<1>3. U # {}
  BY <1>1, FS_EmptySet
<1> QED
  BY <1>2, <1>3

\* The invariant of the files over a step of the whole system.
LEMMA NextFiles ==
    ASSUME TypeOK, Inv, [Next]_vars, NEW q \in Party
    PROVE  Files(q)'
<1>1. Files(q) /\ Phase(q) /\ Spending
  BY DEF Inv
<1>2. CASE runKeygen \/ runKeyImport
  BY <1>1, <1>2, CeremonyFilesKept DEF runKeygen, runKeyImport
<1>3. CASE runSpend
  <2>1. pc[q] \in Resting /\ pc'[q] # "save"
    BY <1>3, Started
  <2>2. todo[q] = <<>>
    BY <1>1, <2>1 DEF Files, Queued, Resting
  <2>3. Untouched(q)
    BY <1>3 DEF runSpend, Untouched, chain
  <2> QED
    BY <1>1, <2>1, <2>2, <2>3, QuietFiles
<1>4. CASE Sign
  <2>1. Untouched(q)
    BY <1>4 DEF Sign, Untouched, chain
  <2>2. pc'[q] = pc[q] \/ (pc[q] = "sign" /\ pc'[q] # "save")
    <3>1. sess.coordinator \in sess.signers
      <4>1. sess.signers # {}
        BY <1>4, SomeoneSigns
      <4> QED
        BY <1>1, <4>1 DEF Spending
    <3> QED
      BY <1>4, <3>1 DEF Sign
  <2>3. pc[q] = "sign" => todo[q] = <<>>
    BY <1>1 DEF Files, Queued
  <2> QED
    BY <1>1, <2>1, <2>2, <2>3, QuietFiles
<1>5. CASE (\E o \in Output : Receive(o)) \/ (\E tx \in pool : Mine(tx)) \/ UNCHANGED vars
  <2>1. Untouched(q) /\ pc'[q] = pc[q]
    BY <1>5 DEF Receive, Mine, Untouched, vars
  <2> QED
    BY <1>1, <2>1, QuietFiles
<1>6. ASSUME NEW p \in Party, BeginWrite(p) \/ EndWrite(p) \/ FailWrite(p) \/ Crash(p)
      PROVE  Files(q)'
  <2>1. CASE q = p
    BY <1>1, <1>6, <2>1, BeginWriteFiles, EndWriteFiles, FaultFiles
  <2>2. CASE q # p
    BY <1>1, <1>6, <2>2, OthersFiles
  <2> QED
    BY <2>1, <2>2
<1>7. ASSUME NEW p \in Party,
             \/ Saved(p) \/ Prepare(p) \/ Fail(p) \/ Broadcast(p)
             \/ ReceiveOffsets(p) \/ Recorded(p) \/ Finish(p)
      PROVE  Files(q)'
  <2>1. CASE q = p
    BY <1>1, <1>7, <2>1, OwnFiles
  <2>2. CASE q # p
    BY <1>1, <1>7, <2>2, OthersFiles
  <2> QED
    BY <2>1, <2>2
<1> QED
  BY <1>2, <1>3, <1>4, <1>5, <1>6, <1>7 DEF Next
-----------------------------------------------------------------------------
\* Any set of sets of outputs that is not empty has one that loses its
\* membership with any of its elements: induction over sets of outputs.
LEMMA LeastSet ==
    ASSUME NEW F \in SUBSET (SUBSET Output), F # {}
    PROVE  \E X \in F : \A x \in X : X \ {x} \notin F
<1> DEFINE sizes == {Cardinality(X) : X \in F}
<1>1. \A X \in SUBSET Output : IsFiniteSet(X) /\ Cardinality(X) \in Nat
  BY WalletAssumption, FS_Subset, FS_CardinalityType
<1>2. sizes \in SUBSET Nat /\ sizes # {}
  BY <1>1
<1>3. PICK X \in F : \A Y \in F : Cardinality(X) <= Cardinality(Y)
  <2> HIDE DEF sizes
  <2>1. Min(sizes) \in sizes /\ \A n \in sizes : Min(sizes) <= n
    BY <1>2, MinExists
  <2> QED
    BY <2>1 DEF sizes
<1>4. ASSUME NEW x \in X PROVE X \ {x} \notin F
  <2>1. Cardinality(X \ {x}) = Cardinality(X) - 1 /\ Cardinality(X) \in Nat
    BY <1>1, FS_RemoveElement
  <2> QED
    BY <1>3, <2>1
<1> QED
  BY <1>3, <1>4

\* Total by its defining recursion: Sums(S, g) says that g holds the total of
\* every set of elements of S, taking out one element after the other.
Choice(s) == CHOOSE x \in s : TRUE
Sums(S, g) ==
    g = [s \in SUBSET S |-> IF s = {} THEN 0 ELSE Value[Choice(s)] + g[s \ {Choice(s)}]]

\* Total is read from such a table, if there is one.
LEMMA TotalIsSum ==
    ASSUME NEW S, NEW g, Sums(S, g)
    PROVE  \E h : Sums(S, h) /\ Total(S) = h[S]
BY DEF Total, MapThenSumSet, MapThenFoldSet, Sums, Choice

\* Two tables of sums agree where both are defined.
LEMMA SumsAgree ==
    ASSUME NEW S \in SUBSET Output, NEW T \in SUBSET Output, NEW g, NEW h,
           Sums(S, g), Sums(T, h)
    PROVE  \A s \in SUBSET (S \cap T) : g[s] = h[s]
<1> DEFINE F == {s \in SUBSET (S \cap T) : g[s] # h[s]}
<1> SUFFICES ASSUME F # {} PROVE FALSE
  OBVIOUS
<1>1. F \in SUBSET (SUBSET Output)
  OBVIOUS
<1>2. PICK s \in F : \A x \in s : s \ {x} \notin F
  <2> HIDE DEF F
  <2> QED
    BY <1>1, LeastSet
<1>3. s \in SUBSET S /\ s \in SUBSET T /\ g[s] # h[s]
  OBVIOUS
<1>4. /\ g[s] = IF s = {} THEN 0 ELSE Value[Choice(s)] + g[s \ {Choice(s)}]
      /\ h[s] = IF s = {} THEN 0 ELSE Value[Choice(s)] + h[s \ {Choice(s)}]
  BY <1>3 DEF Sums
<1>5. s # {} /\ Choice(s) \in s
  BY <1>3, <1>4 DEF Choice
<1>6. g[s \ {Choice(s)}] = h[s \ {Choice(s)}]
  BY <1>2, <1>5
<1> QED
  BY <1>3, <1>4, <1>5, <1>6

\* Every set of outputs has a table of sums.
LEMMA SumsExist ==
    ASSUME NEW S \in SUBSET Output
    PROVE  \E g : Sums(S, g)
<1> DEFINE F == {X \in SUBSET Output : ~ \E g : Sums(X, g)}
<1> SUFFICES ASSUME F # {} PROVE FALSE
  OBVIOUS
<1>1. PICK X \in F : \A x \in X : X \ {x} \notin F
  <2>1. F \in SUBSET (SUBSET Output)
    OBVIOUS
  <2> HIDE DEF F
  <2> QED
    BY <2>1, LeastSet
<1>2. X \in SUBSET Output /\ ~ \E g : Sums(X, g)
  OBVIOUS
\* Tables for what is left of X without one element.
<1> DEFINE Part(x) == CHOOSE g : Sums(X \ {x}, g)
           Rest(s) == Part(CHOOSE x \in X : x \notin s)[s]
           next(s) == IF s = {} THEN 0 ELSE Value[Choice(s)] + Rest(s \ {Choice(s)})
           g == [s \in SUBSET X |-> next(s)]
<1>3. \A x \in X : Sums(X \ {x}, Part(x))
  BY <1>1, <1>2
<1> HIDE DEF Part, F
<1>4. ASSUME NEW s \in SUBSET X, s # X
      PROVE  Rest(s) = next(s)
  <2>1. PICK x \in X : x \notin s /\ Rest(s) = Part(x)[s]
    BY <1>4
  <2>2. s \in SUBSET (X \ {x}) /\ Sums(X \ {x}, Part(x))
    BY <1>3, <2>1
  <2>3. Part(x)[s] = IF s = {} THEN 0 ELSE Value[Choice(s)] + Part(x)[s \ {Choice(s)}]
    BY <2>2 DEF Sums
  <2>4. CASE s = {}
    BY <2>1, <2>3, <2>4
  <2>5. CASE s # {}
    <3> DEFINE t == s \ {Choice(s)}
    <3>1. PICK y \in X : y \notin t /\ Rest(t) = Part(y)[t]
      <4>1. \E y \in X : y \notin t
        BY <2>1
      <4> HIDE DEF t
      <4> QED
        BY <4>1
    <3>2. t \in SUBSET ((X \ {x}) \cap (X \ {y})) /\ X \ {x} \in SUBSET Output /\ X \ {y} \in SUBSET Output
      BY <1>2, <2>2, <3>1
    <3>3. Part(x)[t] = Part(y)[t]
      <4>1. Sums(X \ {x}, Part(x)) /\ Sums(X \ {y}, Part(y))
        BY <1>3
      <4> HIDE DEF t
      <4> QED
        BY <3>2, <4>1, SumsAgree
    <3>4. Part(x)[s] = Value[Choice(s)] + Rest(t)
      BY <2>3, <2>5, <3>1, <3>3
    <3> QED
      BY <2>1, <2>5, <3>4
  <2> QED
    BY <2>4, <2>5
<1> HIDE DEF Rest
<1>5. ASSUME NEW s \in SUBSET X, s # {} PROVE g[s \ {Choice(s)}] = Rest(s \ {Choice(s)})
  <2> DEFINE t == s \ {Choice(s)}
  <2>1. Choice(s) \in s
    BY <1>5 DEF Choice
  <2>2. t \in SUBSET X /\ t # X
    BY <2>1
  <2> HIDE DEF t
  <2>3. g[t] = next(t)
    BY <2>2
  <2>4. Rest(t) = next(t)
    <3> HIDE DEF next
    <3> QED
      BY <1>4, <2>2
  <2>5. g[t] = Rest(t)
    <3> HIDE DEF next, g
    <3> QED
      BY <2>3, <2>4
  <2> HIDE DEF next, g
  <2> QED
    BY <2>5 DEF t
<1>6. Sums(X, g)
  <2>1. ASSUME NEW s \in SUBSET X
        PROVE  next(s) = IF s = {} THEN 0 ELSE Value[Choice(s)] + g[s \ {Choice(s)}]
    <3> HIDE DEF g
    <3> QED
      BY <1>5
  <2>2. g = [s \in SUBSET X |-> next(s)]
    OBVIOUS
  <2> HIDE DEF g, next
  <2> QED
    BY <2>1, <2>2 DEF Sums
<1> QED
  BY <1>2, <1>6

\* What a total is, by the element that is taken out first.
LEMMA TotalStep ==
    ASSUME NEW S \in SUBSET Output
    PROVE  Total(S) = IF S = {} THEN 0
                      ELSE Value[Choice(S)] + Total(S \ {Choice(S)})
<1>1. PICK g : Sums(S, g) /\ Total(S) = g[S]
  <2>1. \E g : Sums(S, g)
    BY SumsExist
  <2> QED
    BY <2>1, TotalIsSum
<1>2. g[S] = IF S = {} THEN 0 ELSE Value[Choice(S)] + g[S \ {Choice(S)}]
  <2>1. S \in SUBSET S
    OBVIOUS
  <2> QED
    BY <1>1, <2>1 DEF Sums
<1> DEFINE T == S \ {Choice(S)}
<1>3. T \in SUBSET Output /\ T \in SUBSET (S \cap T)
  OBVIOUS
<1> HIDE DEF T
<1>4. PICK h : Sums(T, h) /\ Total(T) = h[T]
  <2>1. \E h : Sums(T, h)
    BY <1>3, SumsExist
  <2> QED
    BY <2>1, TotalIsSum
<1>5. g[T] = h[T]
  BY <1>1, <1>3, <1>4, SumsAgree
<1> QED
  BY <1>1, <1>2, <1>4, <1>5 DEF T

\* A total is a natural.
LEMMA TotalType ==
    ASSUME NEW S \in SUBSET Output
    PROVE  Total(S) \in Nat
<1> DEFINE F == {X \in SUBSET Output : Total(X) \notin Nat}
<1> SUFFICES ASSUME F # {} PROVE FALSE
  OBVIOUS
<1>1. PICK X \in F : \A x \in X : X \ {x} \notin F
  <2>1. F \in SUBSET (SUBSET Output)
    OBVIOUS
  <2> HIDE DEF F
  <2> QED
    BY <2>1, LeastSet
<1>2. X \in SUBSET Output /\ Total(X) \notin Nat
  OBVIOUS
<1>3. X # {} /\ Total(X) = Value[Choice(X)] + Total(X \ {Choice(X)})
  BY <1>2, TotalStep
<1>4. Choice(X) \in X
  BY <1>3 DEF Choice
<1>5. Total(X \ {Choice(X)}) \in Nat /\ Value[Choice(X)] \in Nat
  BY <1>1, <1>2, <1>4, WalletAssumption
<1> QED
  BY <1>2, <1>3, <1>5

\* A total is what any one element is worth and the total of the others.
LEMMA TotalRemove ==
    ASSUME NEW S \in SUBSET Output, NEW z \in S
    PROVE  Total(S) = Value[z] + Total(S \ {z})
<1> DEFINE F == {X \in SUBSET Output : \E x \in X : Total(X) # Value[x] + Total(X \ {x})}
<1> SUFFICES ASSUME F # {} PROVE FALSE
  OBVIOUS
<1>1. PICK X \in F : \A x \in X : X \ {x} \notin F
  <2>1. F \in SUBSET (SUBSET Output)
    OBVIOUS
  <2> HIDE DEF F
  <2> QED
    BY <2>1, LeastSet
<1>2. PICK x \in X : X \in SUBSET Output /\ Total(X) # Value[x] + Total(X \ {x})
  OBVIOUS
<1> DEFINE c == Choice(X)
           rest == (X \ {c}) \ {x}
<1>3. c \in X /\ Total(X) = Value[c] + Total(X \ {c})
  BY <1>2, TotalStep DEF Choice
<1>4. c # x
  BY <1>2, <1>3
<1>5. Total(X \ {c}) = Value[x] + Total(rest)
  BY <1>1, <1>2, <1>3, <1>4
<1>6. Total(X \ {x}) = Value[c] + Total(rest)
  <2>1. X \ {x} \notin F /\ c \in X \ {x} /\ X \ {x} \in SUBSET Output
    BY <1>1, <1>2, <1>3, <1>4
  <2>2. rest = (X \ {x}) \ {c}
    OBVIOUS
  <2> HIDE DEF c, rest
  <2> QED
    BY <2>1, <2>2
<1>7. rest \in SUBSET Output /\ Value[x] \in Nat /\ Value[c] \in Nat
  BY <1>2, <1>3, WalletAssumption
<1> HIDE DEF F, c, rest
<1>8. Total(rest) \in Nat
  BY <1>7, TotalType
<1> QED
  BY <1>2, <1>3, <1>5, <1>6, <1>7, <1>8

\* Totals of disjoint sets add up.
LEMMA TotalUnion ==
    ASSUME NEW S \in SUBSET Output, NEW T \in SUBSET Output, S \cap T = {}
    PROVE  Total(S \cup T) = Total(S) + Total(T)
<1> DEFINE F == {Y \in SUBSET Output : S \cap Y = {} /\ Total(S \cup Y) # Total(S) + Total(Y)}
<1> SUFFICES ASSUME F # {} PROVE FALSE
  OBVIOUS
<1>1. PICK Y \in F : \A x \in Y : Y \ {x} \notin F
  <2>1. F \in SUBSET (SUBSET Output)
    OBVIOUS
  <2> HIDE DEF F
  <2> QED
    BY <2>1, LeastSet
<1>2. Y \in SUBSET Output /\ S \cap Y = {} /\ Total(S \cup Y) # Total(S) + Total(Y)
  OBVIOUS
<1>3. Total(S) \in Nat
  BY TotalType
<1>4. PICK y : y \in Y
  <2>1. Y # {}
    <3>1. Total({}) = 0 /\ S \cup {} = S
      BY TotalStep
    <3> QED
      BY <1>2, <1>3, <3>1
  <2> QED
    BY <2>1
<1>5. Total(S \cup (Y \ {y})) = Total(S) + Total(Y \ {y})
  BY <1>1, <1>2, <1>4
<1>6. Total(Y) = Value[y] + Total(Y \ {y})
  BY <1>2, <1>4, TotalRemove
<1>7. Total(S \cup Y) = Value[y] + Total(S \cup (Y \ {y}))
  <2>1. (S \cup Y) \ {y} = S \cup (Y \ {y}) /\ S \cup Y \in SUBSET Output /\ y \in S \cup Y
    BY <1>2, <1>4
  <2> QED
    BY <2>1, TotalRemove
<1>8. Value[y] \in Nat /\ Total(Y \ {y}) \in Nat
  BY <1>2, <1>4, TotalType, WalletAssumption
<1> QED
  BY <1>2, <1>3, <1>5, <1>6, <1>7, <1>8

\* A total is at least what its elements are worth at least.
LEMMA TotalAtLeast ==
    ASSUME NEW S \in SUBSET Output, NEW b \in Nat, \A o \in S : Value[o] >= b
    PROVE  Total(S) >= Cardinality(S) * b
<1> DEFINE F == {X \in SUBSET S : ~(Total(X) >= Cardinality(X) * b)}
<1> SUFFICES ASSUME F # {} PROVE FALSE
  OBVIOUS
<1>1. PICK X \in F : \A x \in X : X \ {x} \notin F
  <2>1. F \in SUBSET (SUBSET Output)
    OBVIOUS
  <2> HIDE DEF F
  <2> QED
    BY <2>1, LeastSet
<1>2. X \in SUBSET S /\ ~(Total(X) >= Cardinality(X) * b)
  OBVIOUS
<1>3. IsFiniteSet(X) /\ Cardinality(X) \in Nat
  BY <1>2, WalletAssumption, FS_Subset, FS_CardinalityType
<1>4. PICK x : x \in X
  <2>1. CASE X = {}
    <3>1. Total(X) = 0 /\ Cardinality(X) = 0
      BY <2>1, TotalStep, FS_EmptySet
    <3> QED
      BY <1>2, <3>1
  <2> QED
    BY <2>1
<1> DEFINE n == Cardinality(X \ {x})
<1>5. n \in Nat /\ Cardinality(X) = n + 1
  <2>1. IsFiniteSet(X \ {x}) /\ Cardinality(X \ {x}) = Cardinality(X) - 1
    BY <1>3, <1>4, FS_RemoveElement
  <2>2. Cardinality(X \ {x}) \in Nat
    BY <2>1, FS_CardinalityType
  <2> QED
    BY <1>3, <2>1, <2>2
<1>6. Total(X \ {x}) >= n * b
  BY <1>1, <1>2, <1>4
<1>7. Total(X) = Value[x] + Total(X \ {x}) /\ Value[x] \in Nat /\ Value[x] >= b
  BY <1>2, <1>4, TotalRemove, WalletAssumption
<1>8. Total(X \ {x}) \in Nat
  BY <1>2, TotalType
<1> HIDE DEF n, F
<1>9. (n + 1) * b = n * b + b /\ n * b \in Nat
  BY <1>5
<1> QED
  BY <1>2, <1>5, <1>6, <1>7, <1>8, <1>9

\* Of two sets of one size, the one whose elements are all worth at least as
\* much as those of the other has the larger total.
LEMMA TotalDominates ==
    ASSUME NEW S \in SUBSET Output, NEW T \in SUBSET Output,
           Cardinality(S) = Cardinality(T), \A o \in S, u \in T : Value[o] <= Value[u]
    PROVE  Total(S) <= Total(T)
<1> DEFINE F == {X \in SUBSET S : \E Y \in SUBSET T :
                   Cardinality(X) = Cardinality(Y) /\ ~(Total(X) <= Total(Y))}
<1> SUFFICES ASSUME F # {} PROVE FALSE
  <2>1. S \notin F
    OBVIOUS
  <2> HIDE DEF F
  <2>2. S \in SUBSET S /\ T \in SUBSET T
    OBVIOUS
  <2> QED
    BY <2>1, <2>2 DEF F
<1>1. PICK X \in F : \A x \in X : X \ {x} \notin F
  <2>1. F \in SUBSET (SUBSET Output)
    OBVIOUS
  <2> HIDE DEF F
  <2> QED
    BY <2>1, LeastSet
<1>2. PICK Y \in SUBSET T : /\ X \in SUBSET S /\ Cardinality(X) = Cardinality(Y)
                            /\ ~(Total(X) <= Total(Y))
  OBVIOUS
<1>3. /\ IsFiniteSet(X) /\ Cardinality(X) \in Nat
      /\ IsFiniteSet(Y) /\ Cardinality(Y) \in Nat
  BY <1>2, WalletAssumption, FS_Subset, FS_CardinalityType
<1>4. X # {}
  <2>1. CASE X = {}
    <3>1. Total(X) = 0 /\ Total(Y) \in Nat
      BY <1>2, <2>1, TotalStep, TotalType
    <3> QED
      BY <1>2, <3>1
  <2> QED
    BY <2>1
<1>5. Y # {}
  BY <1>2, <1>3, <1>4, FS_EmptySet
<1>6. PICK x, y : x \in X /\ y \in Y
  BY <1>4, <1>5
<1>7. Cardinality(X \ {x}) = Cardinality(Y \ {y})
  <2>1. Cardinality(X \ {x}) = Cardinality(X) - 1
    BY <1>3, <1>6, FS_RemoveElement
  <2>2. Cardinality(Y \ {y}) = Cardinality(Y) - 1
    BY <1>3, <1>6, FS_RemoveElement
  <2> QED
    BY <1>2, <2>1, <2>2
<1>8. Total(X \ {x}) <= Total(Y \ {y})
  <2>1. X \ {x} \notin F /\ X \ {x} \in SUBSET S /\ Y \ {y} \in SUBSET T
    BY <1>1, <1>2, <1>6
  <2> QED
    BY <1>7, <2>1
<1>9. /\ Total(X) = Value[x] + Total(X \ {x})
      /\ Total(Y) = Value[y] + Total(Y \ {y})
  BY <1>2, <1>6, TotalRemove
<1>10. /\ Value[x] \in Nat /\ Value[y] \in Nat /\ Value[x] <= Value[y]
       /\ Total(X \ {x}) \in Nat /\ Total(Y \ {y}) \in Nat
  BY <1>2, <1>6, TotalType, WalletAssumption
<1> QED
  BY <1>2, <1>8, <1>9, <1>10
\* The fee is a natural.
LEMMA FeeType ==
    ASSUME NEW n \in Nat
    PROVE  Fee(n) \in Nat
<1>1. {BaseFee, GraceActions, WeightFee, InputFee} \subseteq Nat
  BY WalletAssumption
<1>2. Max({n, 2, GraceActions}) \in Nat
  <2>1. \E x \in {n, 2, GraceActions} : \A y \in {n, 2, GraceActions} : x >= y
    BY <1>1
  <2> QED
    BY <1>1, <2>1 DEF Max
<1>3. Max({n, 2, GraceActions}) * BaseFee \in Nat /\ WeightFee + n * InputFee \in Nat
  <2> HIDE DEF Max
  <2> QED
    BY <1>1, <1>2
<1> QED
  BY <1>3 DEF Fee, ComputeFee, FeeEstimate

\* Below the wrap nothing is lost, and what wraps comes out smaller.
LEMMA Wrapped ==
    ASSUME NEW a \in Nat
    PROVE  a % Wrap \in Nat /\ a % Wrap <= a /\ (a < Wrap => a % Wrap = a)
<1>1. Wrap \in Nat \ {0}
  BY WalletAssumption
<1> QED
  BY <1>1

\* The total and the need of a set of outputs are naturals.
LEMMA TotalAndNeed ==
    ASSUME NEW S \in SUBSET Output, NEW amount \in Nat
    PROVE  Total(S) \in Nat /\ Need(S, amount) \in Nat
<1>1. Cardinality(S) \in Nat
  BY WalletAssumption, FS_Subset, FS_CardinalityType
<1>2. Fee(Cardinality(S)) \in Nat
  BY <1>1, FeeType
<1> QED
  BY <1>2, TotalType DEF Need

\* Unless the need wraps, what passes the comparison of the code pays.
LEMMA CoversPays ==
    ASSUME NEW S \in SUBSET Output, NEW amount \in Nat, Covers(S, amount),
           Need(S, amount) < Wrap
    PROVE  Pays(S, amount)
<1> DEFINE total == Total(S)
           need == Need(S, amount)
<1>1. total \in Nat /\ need \in Nat /\ need < Wrap /\ total % Wrap >= need % Wrap
  BY TotalAndNeed DEF Covers
<1> SUFFICES total >= need
  BY DEF Pays
<1> HIDE DEF total, need
<1>2. need % Wrap = need
  BY <1>1, Wrapped
<1>3. total % Wrap \in Nat /\ total % Wrap <= total
  BY <1>1, Wrapped
<1> QED
  BY <1>1, <1>2, <1>3

\* Unless the total wraps, what pays passes the comparison of the code.
LEMMA PaysCovers ==
    ASSUME NEW S \in SUBSET Output, NEW amount \in Nat, Pays(S, amount), Total(S) < Wrap
    PROVE  Covers(S, amount)
<1> DEFINE total == Total(S)
           need == Need(S, amount)
<1>1. total \in Nat /\ need \in Nat /\ total < Wrap /\ total >= need /\ Wrap \in Nat
  BY TotalAndNeed, WalletAssumption DEF Pays
<1> SUFFICES total % Wrap >= need % Wrap
  BY DEF Covers
<1> HIDE DEF total, need
<1>2. total % Wrap = total
  BY <1>1, Wrapped
<1>3. need % Wrap \in Nat /\ need % Wrap <= need
  BY <1>1, Wrapped
<1> QED
  BY <1>1, <1>2, <1>3
-----------------------------------------------------------------------------
\* The start: no spend, and every program idle.
LEMMA InitSpending ==
    ASSUME Init
    PROVE  Spending /\ \A p \in Party : Phase(p)
<1>1. /\ sess.signers = {} /\ sess.inputs = <<>> /\ sess.closed = {}
      /\ sess.signed = FALSE /\ sess.told = FALSE
  BY DEF Init, NoSpend
<1>2. \A p \in Party : pc[p] = "idle"
  BY DEF Init
<1> QED
  BY <1>1, <1>2 DEF Spending, Phase, SelectionPays, Resting

\* What is accepted stays accepted, and a choice that pays goes on paying.
LEMMA SameChoice ==
    ASSUME coin' = coin, sess'.inputs = sess.inputs, sess'.amount = sess.amount,
           sent \subseteq sent'
    PROVE  (Out => Out') /\ (SelectionPays => SelectionPays')
<1>1. Out => Out'
  BY DEF Out
<1>2. SelectionPays => SelectionPays'
  BY DEF SelectionPays, Need, Pays, Fee
<1> QED
  BY <1>1, <1>2

\* A program that returns an error keeps every claim about the spend.
LEMMA QuietPhase ==
    ASSUME NEW q \in Party, Phase(q), coin' = coin, sess' = sess, sent \subseteq sent',
           pc'[q] = pc[q] \/ pc'[q] = "failed"
    PROVE  Phase(q)'
<1>1. Out => Out'
  BY SameChoice
<1> QED
  BY <1>1 DEF Phase, Resting

LEMMA QuietSpending ==
    ASSUME Spending, coin' = coin, sess' = sess, sent \subseteq sent'
    PROVE  Spending'
BY SameChoice DEF Spending

LEMMA CeremonySpending ==
    ASSUME TypeOK, NEW files, Ceremony(files)
    PROVE  Spending' /\ \A q \in Party : Phase(q)'
<1>1. sess.number \in Nat
  BY DEF TypeOK, Spend
<1>2. /\ sess'.signers = {} /\ sess'.inputs = <<>> /\ sess'.closed = {}
      /\ sess'.signed = FALSE /\ sess'.told = FALSE
  BY <1>1, NoNewSpend DEF Ceremony
<1>3. \A q \in Party : pc'[q] = "save"
  BY DEF Ceremony
<1> QED
  BY <1>2, <1>3 DEF Spending, Phase, SelectionPays, Resting

LEMMA StartSpending ==
    ASSUME TypeOK, runSpend
    PROVE  Spending' /\ \A q \in Party : Phase(q)'
<1>1. /\ sess'.coordinator \in sess'.signers
      /\ sess'.inputs = <<>> /\ sess'.closed = {}
      /\ sess'.signed = FALSE /\ sess'.told = FALSE
      /\ pc' \in [Party -> {"idle", "failed", "prepare", "sign"}]
      /\ \A p \in Party : pc'[p] \in {"prepare", "sign"} => p \in sess'.signers
      /\ \A p \in Party : pc'[p] = "prepare" => p = sess'.coordinator
  BY Started
<1>2. Spending'
  BY <1>1 DEF Spending, SelectionPays
<1>3. ASSUME NEW q \in Party PROVE Phase(q)'
  <2>1. pc'[q] \in {"idle", "failed", "prepare", "sign"}
    BY <1>1
  <2> QED
    BY <1>1, <2>1 DEF Phase, Resting
<1> QED
  BY <1>2, <1>3

\* Signing turns every signer's program past the rounds.
LEMMA SignSpending ==
    ASSUME TypeOK, Spending, \A q \in Party : Phase(q), Sign
    PROVE  Spending' /\ \A q \in Party : Phase(q)'
<1>1. /\ sess'.signed = TRUE
      /\ sess'.signers = sess.signers /\ sess'.coordinator = sess.coordinator
      /\ sess'.amount = sess.amount /\ sess'.inputs = sess.inputs
      /\ sess'.told = sess.told /\ sess'.closed = sess.closed
  BY WithSigned DEF Sign
<1>2. coin' = coin /\ sent' = sent /\ sess.inputs # <<>> /\ ~sess.signed
  BY DEF Sign, chain
<1>3. Out' = Out /\ SelectionPays'
  <2>1. Out' = Out
    BY <1>1, <1>2 DEF Out
  <2> QED
    BY <1>1, <1>2, <2>1, SameChoice DEF Spending
<1>4. Spending'
  BY <1>1, <1>2, <1>3 DEF Spending
<1>5. ASSUME NEW q \in Party PROVE Phase(q)'
  <2>1. pc'[q] = IF q = sess.coordinator THEN "broadcast"
                 ELSE IF q \in sess.signers THEN "wait" ELSE pc[q]
    BY DEF Sign
  <2>2. CASE q \in sess.signers
    BY <1>1, <2>1, <2>2 DEF Phase, Resting
  <2>3. CASE q \notin sess.signers
    <3>1. sess.signers # {}
      BY SomeoneSigns
    <3>2. q # sess.coordinator
      BY <2>3, <3>1 DEF Spending
    <3>3. pc'[q] = pc[q] /\ pc[q] \in Resting \cup {"save"}
      BY <2>1, <2>3, <3>2 DEF Phase, TypeOK, Label
    <3> QED
      BY <1>1, <2>3, <3>3 DEF Phase, Resting, Label
  <2> QED
    BY <2>2, <2>3
<1> QED
  BY <1>4, <1>5

\* The coordinator selects: it is the only one past the loading of keys that
\* has not begun to sign.
LEMMA PrepareSpending ==
    ASSUME TypeOK, Spending, \A q \in Party : Phase(q), NEW p \in Party, Prepare(p)
    PROVE  Spending' /\ \A q \in Party : Phase(q)'
<1>1. /\ p = sess.coordinator /\ sess.inputs = <<>> /\ ~sess.signed /\ p \in sess.signers
      /\ coin' = coin /\ sent' = sent /\ pc[p] = "prepare"
  BY DEF Prepare, Phase, chain, Label, Resting
<1>2. ASSUME NEW q \in Party
      PROVE  /\ q # p => pc[q] \notin {"prepare", "broadcast", "wait", "record", "close"}
             /\ pc[q] = "done" => q \notin sess.signers
             /\ pc[q] \in Label \ (Resting \cup {"save"}) => q \in sess.signers
             /\ pc[q] # "save"
  BY <1>1 DEF Phase
<1>3. ASSUME NEW t \in Select(p, sess.amount), sess' = [sess EXCEPT !.inputs = t],
             Goto(p, "sign")
      PROVE  Spending' /\ \A q \in Party : Phase(q)'
  <2>1. t \in Seq(Output) /\ t # <<>> /\ IsInjective(t) /\ Covers(Range(t), sess.amount)
    BY Selected
  <2>2. /\ sess'.inputs = t
        /\ sess'.signers = sess.signers /\ sess'.coordinator = sess.coordinator
        /\ sess'.amount = sess.amount /\ sess'.signed = sess.signed
        /\ sess'.told = sess.told /\ sess'.closed = sess.closed
    BY <1>3, <2>1, WithInputs
  <2>3. SelectionPays'
    <3>1. Range(t) \in SUBSET Output
      BY <2>1, RangeFacts
    <3>2. Need(Range(t), sess.amount) < Wrap => Pays(Range(t), sess.amount)
      BY <2>1, <3>1, CoversPays DEF TypeOK, Spend
    <3> QED
      BY <1>1, <2>1, <2>2, <3>2 DEF SelectionPays, Need, Pays, Fee
  <2>4. Spending'
    BY <1>1, <2>2, <2>3 DEF Spending
  <2>5. ASSUME NEW q \in Party PROVE Phase(q)'
    <3>1. pc'[q] = IF q = p THEN "sign" ELSE pc[q]
      BY <1>3 DEF Goto, TypeOK
    <3> QED
      BY <1>1, <1>2, <2>2, <3>1 DEF Phase, Resting
  <2> QED
    BY <2>4, <2>5
<1>4. ASSUME sess' = [sess EXCEPT !.short = TRUE], Goto(p, "failed")
      PROVE  Spending' /\ \A q \in Party : Phase(q)'
  <2>1. /\ sess'.signers = sess.signers /\ sess'.coordinator = sess.coordinator
        /\ sess'.amount = sess.amount /\ sess'.inputs = sess.inputs
        /\ sess'.signed = sess.signed /\ sess'.told = sess.told
        /\ sess'.closed = sess.closed
    BY <1>4, WithShort
  <2>2. Spending'
    BY <1>1, <2>1, SameChoice DEF Spending
  <2>3. ASSUME NEW q \in Party PROVE Phase(q)'
    <3>1. pc'[q] = IF q = p THEN "failed" ELSE pc[q]
      BY <1>4 DEF Goto, TypeOK
    <3> QED
      BY <1>1, <1>2, <2>1, <3>1 DEF Phase, Resting
  <2> QED
    BY <2>2, <2>3
<1> QED
  BY <1>3, <1>4 DEF Prepare

\* Only the flags of the spend change, and the program of one party.
LEMMA FlagsPhase ==
    ASSUME NEW q \in Party, Phase(q), coin' = coin, sent \subseteq sent', pc'[q] = pc[q],
           sess'.signers = sess.signers, sess'.coordinator = sess.coordinator,
           sess'.amount = sess.amount, sess'.inputs = sess.inputs,
           sess'.signed = sess.signed
    PROVE  Phase(q)'
<1>1. Out => Out'
  BY SameChoice
<1> QED
  BY <1>1 DEF Phase, Resting

\* The answer of the network.
LEMMA BroadcastSpending ==
    ASSUME TypeOK, Spending, \A q \in Party : Phase(q), NEW p \in Party, Broadcast(p)
    PROVE  Spending' /\ \A q \in Party : Phase(q)'
<1>1. /\ p = sess.coordinator /\ sess.signed /\ p \in sess.signers
      /\ coin' = coin /\ sent \subseteq sent'
  BY DEF Broadcast, Phase, Label, Resting
<1>2. CASE sess' = sess /\ Goto(p, "failed")
  <2>1. \A q \in Party : pc'[q] = pc[q] \/ pc'[q] = "failed"
    BY <1>2 DEF Goto, TypeOK
  <2> QED
    BY <1>1, <1>2, <2>1, QuietPhase, QuietSpending
<1>3. ASSUME NEW b \in BOOLEAN, sess' = [sess EXCEPT !.told = b], Goto(p, "record"),
             Range(sess.inputs) \subseteq sent'
      PROVE  Spending' /\ \A q \in Party : Phase(q)'
  <2>1. /\ sess'.signers = sess.signers /\ sess'.coordinator = sess.coordinator
        /\ sess'.amount = sess.amount /\ sess'.inputs = sess.inputs
        /\ sess'.signed = sess.signed /\ sess'.closed = sess.closed
    BY <1>3, WithTold
  <2>2. Out'
    BY <1>3, <2>1 DEF Out
  <2>3. Spending'
    BY <1>1, <2>1, <2>2, SameChoice DEF Spending
  <2>4. ASSUME NEW q \in Party PROVE Phase(q)'
    <3>1. pc'[q] = IF q = p THEN "record" ELSE pc[q]
      BY <1>3 DEF Goto, TypeOK
    <3>2. CASE q = p
      BY <1>1, <2>1, <2>2, <3>1, <3>2 DEF Phase, Resting
    <3>3. CASE q # p
      BY <1>1, <2>1, <3>1, <3>3, FlagsPhase
    <3> QED
      BY <3>2, <3>3
  <2> QED
    BY <2>3, <2>4
<1>4. \/ sess' = sess /\ Goto(p, "failed")
      \/ /\ Goto(p, "record") /\ Range(sess.inputs) \subseteq sent'
         /\ \E b \in BOOLEAN : sess' = [sess EXCEPT !.told = b]
  BY DEF Broadcast
<1> QED
  BY <1>2, <1>3, <1>4

\* A signer receives the offsets, or goes to the barrier without them.
LEMMA ReceiveOffsetsSpending ==
    ASSUME TypeOK, Spending, \A q \in Party : Phase(q), NEW p \in Party, ReceiveOffsets(p)
    PROVE  Spending' /\ \A q \in Party : Phase(q)'
<1>1. /\ p # sess.coordinator /\ sess.signed /\ p \in sess.signers /\ coin = "monero"
      /\ coin' = coin /\ sent' = sent /\ sess.closed \cup {p} \in SUBSET Party
  BY DEF ReceiveOffsets, Phase, Label, Resting, chain, TypeOK, Spend
<1>2. CASE sess.told /\ Goto(p, "record") /\ sess' = sess
  <2>1. Spending' /\ Out'
    BY <1>1, <1>2, QuietSpending DEF Spending, Out
  <2>2. ASSUME NEW q \in Party PROVE Phase(q)'
    <3>1. pc'[q] = IF q = p THEN "record" ELSE pc[q]
      BY <1>2 DEF Goto, TypeOK
    <3>2. CASE q = p
      BY <1>1, <1>2, <2>1, <3>1, <3>2 DEF Phase, Resting
    <3>3. CASE q # p
      BY <1>1, <1>2, <3>1, <3>3, QuietPhase
    <3> QED
      BY <3>2, <3>3
  <2> QED
    BY <2>1, <2>2
<1>3. CASE Goto(p, "close") /\ sess' = AtBarrier(p)
  <2>1. /\ sess'.closed = sess.closed \cup {p}
        /\ sess'.signers = sess.signers /\ sess'.coordinator = sess.coordinator
        /\ sess'.amount = sess.amount /\ sess'.inputs = sess.inputs
        /\ sess'.signed = sess.signed /\ sess'.told = sess.told
    BY <1>1, <1>3, WithClosed DEF AtBarrier
  <2>2. Spending'
    BY <1>1, <2>1, SameChoice DEF Spending
  <2>3. ASSUME NEW q \in Party PROVE Phase(q)'
    <3>1. pc'[q] = IF q = p THEN "close" ELSE pc[q]
      BY <1>3 DEF Goto, TypeOK
    <3>2. CASE q = p
      BY <1>1, <2>1, <3>1, <3>2 DEF Phase, Resting
    <3>3. CASE q # p
      BY <1>1, <2>1, <3>1, <3>3, FlagsPhase
    <3> QED
      BY <3>2, <3>3
  <2> QED
    BY <2>2, <2>3
<1> QED
  BY <1>2, <1>3 DEF ReceiveOffsets

\* The writes are through: a party says so only of a spend that is out.
LEMMA RecordedSpending ==
    ASSUME TypeOK, Spending, \A q \in Party : Phase(q), NEW p \in Party, Recorded(p)
    PROVE  Spending' /\ \A q \in Party : Phase(q)'
<1>1. /\ Out /\ sess.signed /\ p \in sess.signers
      /\ coin' = coin /\ sent' = sent /\ sess.closed \cup {p} \in SUBSET Party
  BY DEF Recorded, Phase, Label, Resting, chain, TypeOK, Spend
<1>2. /\ sess'.signers = sess.signers /\ sess'.coordinator = sess.coordinator
      /\ sess'.amount = sess.amount /\ sess'.inputs = sess.inputs
      /\ sess'.signed = sess.signed
  <2>1. CASE coin = "zcash"
    BY <2>1, WithTold DEF Recorded
  <2>2. CASE coin # "zcash"
    BY <1>1, <2>2, WithClosed DEF Recorded, AtBarrier
  <2> QED
    BY <2>1, <2>2
<1>3. Out'
  BY <1>1, <1>2, SameChoice
<1>4. Spending'
  BY <1>1, <1>2, <1>3, SameChoice DEF Spending
<1>5. ASSUME NEW q \in Party PROVE Phase(q)'
  <2>1. pc'[q] = IF q = p THEN "close" ELSE pc[q]
    BY DEF Recorded, Goto, TypeOK
  <2>2. CASE q = p
    BY <1>1, <1>2, <1>3, <2>1, <2>2 DEF Phase, Resting
  <2>3. CASE q # p
    BY <1>1, <1>2, <2>1, <2>3, FlagsPhase
  <2> QED
    BY <2>2, <2>3
<1> QED
  BY <1>4, <1>5

\* A program ends without an error after the coordinator has said so, or past
\* the barrier, which the coordinator is at.
LEMMA FinishSpending ==
    ASSUME TypeOK, Spending, \A q \in Party : Phase(q), NEW p \in Party, Finish(p)
    PROVE  Spending' /\ \A q \in Party : Phase(q)'
<1>1. /\ sess.signed /\ p \in sess.signers
      /\ coin' = coin /\ sent' = sent /\ sess' = sess
  BY DEF Finish, Phase, Label, Resting, chain
<1>2. Out
  <2>1. CASE coin = "zcash"
    BY <2>1 DEF Finish, Phase, Spending
  <2>2. CASE coin # "zcash"
    BY <1>1, <2>2 DEF Finish, Spending
  <2> QED
    BY <2>1, <2>2
<1>3. Spending' /\ Out'
  BY <1>1, <1>2, QuietSpending DEF Out
<1>4. ASSUME NEW q \in Party PROVE Phase(q)'
  <2>1. pc'[q] = IF q = p THEN "done" ELSE pc[q]
    BY DEF Finish, Goto, TypeOK
  <2>2. CASE q = p
    BY <1>1, <1>3, <2>1, <2>2 DEF Phase, Resting
  <2>3. CASE q # p
    BY <1>1, <2>1, <2>3, QuietPhase
  <2> QED
    BY <2>2, <2>3
<1> QED
  BY <1>3, <1>4

\* The steps that do not touch the spend.
LEMMA SavingSpending ==
    ASSUME TypeOK, Spending, \A q \in Party : Phase(q), NEW p \in Party,
           \/ BeginWrite(p) \/ EndWrite(p) \/ FailWrite(p) \/ Crash(p)
           \/ Saved(p) \/ Fail(p)
    PROVE  Spending' /\ \A q \in Party : Phase(q)'
<1>1. coin' = coin /\ sent' = sent /\ sess' = sess
  BY DEF BeginWrite, EndWrite, FailWrite, Crash, Saved, Fail, chain
<1>2. Spending'
  BY <1>1, QuietSpending
<1>3. CASE BeginWrite(p) \/ EndWrite(p) \/ FailWrite(p) \/ Crash(p) \/ Fail(p)
  <2>1. \A q \in Party : pc'[q] = pc[q] \/ pc'[q] = "failed"
    BY <1>3 DEF BeginWrite, EndWrite, FailWrite, Crash, Fail, Goto, TypeOK
  <2> QED
    BY <1>1, <1>2, <2>1, QuietPhase
<1>4. CASE Saved(p)
  <2>1. sess.signers = {}
    BY <1>4 DEF Saved, Phase
  <2>2. ASSUME NEW q \in Party PROVE Phase(q)'
    <3>1. CASE q = p
      <4>1. pc'[q] \in {"done", "failed"}
        BY <1>4, <3>1 DEF Saved, Goto, TypeOK
      <4> QED
        BY <1>1, <2>1, <4>1 DEF Phase, Resting
    <3>2. CASE q # p
      <4>1. pc'[q] = pc[q]
        BY <1>4, <3>2 DEF Saved, Goto, TypeOK
      <4> QED
        BY <1>1, <4>1, QuietPhase
    <3> QED
      BY <3>1, <3>2
  <2> QED
    BY <1>2, <2>2
<1> QED
  BY <1>3, <1>4

\* The whole invariant over every step.
LEMMA NextInv ==
    ASSUME TypeOK, Inv, [Next]_vars
    PROVE  TypeOK' /\ Inv'
<1>1. Spending /\ (\A q \in Party : Phase(q)) /\ (\A q \in Party : Queued(q))
  BY DEF Inv, Files
<1>2. TypeOK' /\ \A q \in Party : Files(q)'
  BY <1>1, NextType, NextFiles
<1>3. Spending' /\ \A q \in Party : Phase(q)'
  <2>1. CASE runKeygen \/ runKeyImport
    BY <2>1, CeremonySpending DEF runKeygen, runKeyImport
  <2>2. CASE runSpend
    BY <2>2, StartSpending
  <2>3. CASE Sign
    BY <1>1, <2>3, SignSpending
  <2>4. CASE (\E o \in Output : Receive(o)) \/ (\E tx \in pool : Mine(tx)) \/ UNCHANGED vars
    <3>1. coin' = coin /\ sent' = sent /\ sess' = sess /\ pc' = pc
      BY <2>4 DEF Receive, Mine, vars
    <3> QED
      BY <1>1, <3>1, QuietPhase, QuietSpending
  <2>5. ASSUME NEW p \in Party,
               \/ BeginWrite(p) \/ EndWrite(p) \/ FailWrite(p) \/ Crash(p)
               \/ Saved(p) \/ Prepare(p) \/ Fail(p) \/ Broadcast(p)
               \/ ReceiveOffsets(p) \/ Recorded(p) \/ Finish(p)
        PROVE  Spending' /\ \A q \in Party : Phase(q)'
    BY <1>1, <2>5, SavingSpending, PrepareSpending, BroadcastSpending,
       ReceiveOffsetsSpending, RecordedSpending, FinishSpending
  <2> QED
    BY <2>1, <2>2, <2>3, <2>4, <2>5 DEF Next
<1> QED
  BY <1>2, <1>3 DEF Inv

\* The inductive invariant holds in every state of every behaviour.
THEOREM WalletInvariant == Spec => [](TypeOK /\ Inv)
<1>1. Init => TypeOK /\ Inv
  BY InitType, InitFiles, InitSpending DEF Inv
<1>2. TypeOK /\ Inv /\ [Next]_vars => (TypeOK /\ Inv)'
  BY NextInv
<1> QED
  BY <1>1, <1>2, PTL DEF Spec
-----------------------------------------------------------------------------
\* What a torn or half-finished save leaves is of one ceremony or does not load.
LEMMA OneCeremony ==
    ASSUME TypeOK, Inv
    PROVE  KeysOfOneCeremony
<1> SUFFICES ASSUME NEW p \in Party, Loads(p)
             PROVE  Cardinality(Loaded(p)) = 1
  BY DEF KeysOfOneCeremony
<1>1. \E f \in {"bundle", "key_share"} : LoadFiles(p) = {f}
  <2>1. CASE disk[p]["bundle"] # Absent \/ coin # "zcash"
    BY <2>1 DEF LoadFiles
  <2>2. CASE disk[p]["bundle"] = Absent /\ coin = "zcash"
    <3>1. disk[p]["key_package"] = Absent
      BY <2>2 DEF Inv, Files, InOrder, Separate
    <3> QED
      BY <2>2, <3>1 DEF LoadFiles, Loads
  <2> QED
    BY <2>1, <2>2
<1>2. PICK f : LoadFiles(p) = {f}
  BY <1>1
<1>3. Loaded(p) = {disk[p][f]}
  BY <1>2 DEF Loaded
<1> QED
  BY <1>3, FS_Singleton

\* KeysOfOneCeremony: runKeygen and runKeyImport may stop between any two of
\* their writes; what spend loads afterwards never mixes two ceremonies.
THEOREM KeysOfOneCeremonyAlways == Spec => []KeysOfOneCeremony
<1>1. TypeOK /\ Inv => KeysOfOneCeremony
  BY OneCeremony
<1> QED
  BY <1>1, WalletInvariant, PTL

\* LatestLoads: a completed save is what the next spend loads, until a write of
\* a bundle or key share is cut short.
THEOREM LatestLoadsAlways == Spec => []LatestLoads
<1>1. ASSUME TypeOK, Inv PROVE LatestLoads
  <2> SUFFICES ASSUME NEW p \in Party, stored[p] > 0, pc[p] # "save",
                      torn[p] \cap {"bundle", "key_share"} = {}
               PROVE  /\ Loads(p)
                      /\ \/ \A c \in Loaded(p) : c >= stored[p]
                         \/ coin = "monero" /\ Loaded(p) = {disk[p]["bundle"]}
    BY DEF LatestLoads
  <2>1. Files(p)
    BY <1>1 DEF Inv
  <2>2. \A f \in KeyFile : ~Opened(p, f)
    <3>1. CASE writing[p] = <<>>
      BY <3>1 DEF Opened
    <3>2. CASE writing[p] # <<>>
      <4>1. todo[p] # <<>> /\ todo[p] \in Seq(Entry)
        BY <1>1, <2>1, <3>2 DEF Files, Queued, TypeOK
      <4>2. 1 \in DOMAIN todo[p]
        BY <4>1, Queue
      <4>3. todo[p][1][1] = "spent"
        BY <2>1, <4>1, <4>2 DEF Files, Queued
      <4> QED
        BY <4>3 DEF Opened, KeyFile
    <3> QED
      BY <3>1, <3>2
  <2>3. \A f \in {"bundle", "key_share"} :
           /\ disk[p][f] # Torn
           /\ coin = "zcash" /\ f = "bundle" => disk[p][f] >= stored[p]
           /\ coin = "monero" /\ f = "key_share" /\ disk[p]["bundle"] = Absent =>
                 disk[p][f] >= stored[p]
    BY <2>1, <2>2 DEF Files, Kept, KeyFile
  <2>4. stored[p] \in Nat /\ coin \in Coin
    BY <1>1 DEF TypeOK
  <2>5. CASE coin = "zcash"
    <3>1. disk[p]["bundle"] # Absent
      BY <2>3, <2>4, <2>5 DEF Absent
    <3>2. LoadFiles(p) = {"bundle"}
      BY <3>1 DEF LoadFiles
    <3> QED
      BY <2>3, <2>5, <3>1, <3>2 DEF Loads, Loaded
  <2>6. CASE coin = "monero" /\ disk[p]["bundle"] # Absent
    <3>1. LoadFiles(p) = {"bundle"}
      BY <2>6 DEF LoadFiles
    <3> QED
      BY <2>3, <2>6, <3>1 DEF Loads, Loaded
  <2>7. CASE coin = "monero" /\ disk[p]["bundle"] = Absent
    <3>1. LoadFiles(p) = {"key_share"}
      BY <2>7 DEF LoadFiles
    <3>2. disk[p]["key_share"] # Absent
      BY <2>3, <2>4, <2>7 DEF Absent
    <3> QED
      BY <2>3, <2>7, <3>1, <3>2 DEF Loads, Loaded
  <2> QED
    BY <2>4, <2>5, <2>6, <2>7 DEF Coin
<1> QED
  BY <1>1, WalletInvariant, PTL

\* RecordIsSpent: MarkNoteSpent and SaveSpentOffsets only ever list outputs that
\* the network has accepted the spending of, torn records included.
THEOREM RecordIsSpentAlways == Spec => []RecordIsSpent
<1>1. TypeOK /\ Inv => RecordIsSpent
  BY DEF Inv, Files, RecordSpent, RecordIsSpent, LoadSpent
<1> QED
  BY <1>1, WalletInvariant, PTL

\* SuccessIsBroadcast: no signer's spend program returns without an error unless
\* the network has accepted the transaction.
THEOREM SuccessIsBroadcastAlways == Spec => []SuccessIsBroadcast
<1>1. TypeOK /\ Inv => SuccessIsBroadcast
  BY DEF TypeOK, Spend, Inv, Phase, Spending, Out, SuccessIsBroadcast
<1> QED
  BY <1>1, WalletInvariant, PTL

\* SelectionPays: what the coordinator selects pays the amount and the fee, unless
\* their sum exceeds 64 bits (the unchecked additions of builder.go and spend.rs).
THEOREM SelectionPaysAlways == Spec => []SelectionPays
<1>1. TypeOK /\ Inv => SelectionPays
  BY DEF Inv, Spending
<1> QED
  BY <1>1, WalletInvariant, PTL

\* A step that selects is the coordinator's Prepare, which reads its record.
LEMMA SelectsUnrecorded ==
    ASSUME TypeOK, Inv, [Next]_vars, coin = "monero", sess.inputs = <<>>,
           sess'.inputs # <<>>, "spent" \notin torn[sess.coordinator]
    PROVE  Range(sess'.inputs) \cap noted[sess.coordinator] = {}
<1>1. \E p \in Party : Prepare(p)
  <2>1. CASE runKeygen \/ runKeyImport
    <3>1. sess.number \in Nat
      BY DEF TypeOK, Spend
    <3> QED
      BY <2>1, <3>1, NoNewSpend DEF runKeygen, runKeyImport, Ceremony
  <2>2. CASE runSpend
    BY <2>2, Started
  <2>3. CASE Sign
    BY <2>3 DEF Sign
  <2>4. CASE (\E o \in Output : Receive(o)) \/ (\E tx \in pool : Mine(tx)) \/ UNCHANGED vars
    BY <2>4 DEF Receive, Mine, vars
  <2>5. ASSUME NEW p \in Party,
               \/ BeginWrite(p) \/ EndWrite(p) \/ FailWrite(p) \/ Crash(p)
               \/ Saved(p) \/ Fail(p) \/ Finish(p)
        PROVE  FALSE
    BY <2>5 DEF BeginWrite, EndWrite, FailWrite, Crash, Saved, Fail, Finish
  <2>6. ASSUME NEW p \in Party, Broadcast(p) \/ ReceiveOffsets(p) \/ Recorded(p)
        PROVE  FALSE
    <3>1. sess.signed
      BY <2>6 DEF Broadcast, ReceiveOffsets, Recorded, Inv, Phase
    <3> QED
      BY <3>1 DEF Inv, Spending
  <2> QED
    BY <2>1, <2>2, <2>3, <2>4, <2>5, <2>6 DEF Next
<1>2. PICK p \in Party : Prepare(p)
  BY <1>1
<1>3. p = sess.coordinator /\ Files(p) /\ pc[p] = "prepare"
  BY <1>2 DEF Prepare, Inv, Phase
<1>4. PICK t \in Select(p, sess.amount) : sess' = [sess EXCEPT !.inputs = t]
  <2>1. ASSUME sess' = [sess EXCEPT !.short = TRUE] PROVE FALSE
    BY <2>1, WithShort
  <2> QED
    BY <1>2, <2>1 DEF Prepare
<1>5. Range(t) \subseteq Available(p) /\ t \in Seq(Output)
  BY Selected
<1>6. sess'.inputs = t
  BY <1>4, <1>5, WithInputs
<1>7. Available(p) \cap Excluded(p) = {}
  BY DEF Available, UnspentOutputs
<1>8. ~Opened(p, "spent")
  BY <1>3 DEF Files, Queued, Opened
<1>9. noted[p] \subseteq Excluded(p)
  BY <1>3, <1>8 DEF Files, Remembered, Excluded, LoadSpent
<1> QED
  BY <1>3, <1>5, <1>6, <1>7, <1>9

\* NeverReselects: the exclusion list a Monero coordinator hands to
\* fromt_spend_prepare holds every output it ever recorded as spent.
THEOREM NeverReselectsAlways == Spec => NeverReselects
<1>1. ASSUME TypeOK /\ Inv, [Next]_vars
      PROVE  [LET c == sess.coordinator
              IN  /\ coin = "monero" /\ sess.inputs = <<>> /\ sess'.inputs # <<>>
                  /\ "spent" \notin torn[c]
                  => Range(sess'.inputs) \cap noted[c] = {}]_vars
  BY <1>1, SelectsUnrecorded
<1> QED
  BY <1>1, WalletInvariant, PTL DEF Spec, NeverReselects
-----------------------------------------------------------------------------
\* Every set of outputs can be sorted: the least element goes first.
LEMMA SortedExists ==
    ASSUME NEW S \in SUBSET Output
    PROVE  Ascending(S) # {}
<1> DEFINE F == {X \in SUBSET Output : Ascending(X) = {}}
<1> SUFFICES ASSUME F # {} PROVE FALSE
  OBVIOUS
<1>1. PICK X \in F : \A x \in X : X \ {x} \notin F
  <2>1. F \in SUBSET (SUBSET Output)
    OBVIOUS
  <2> HIDE DEF F
  <2> QED
    BY <2>1, LeastSet
<1>2. X \in SUBSET Output /\ Ascending(X) = {}
  OBVIOUS
<1>3. IsFiniteSet(X) /\ Cardinality(X) \in Nat
  BY <1>2, WalletAssumption, FS_Subset, FS_CardinalityType
<1>4. X # {}
  <2>1. CASE X = {}
    <3>1. <<>> \in Seq(X) /\ Len(<<>>) = 0 /\ Cardinality(X) = 0
      BY <2>1, FS_EmptySet
    <3>2. <<>> \in [1 .. 0 -> X] /\ 1 .. 0 = {}
      OBVIOUS
    <3>3. <<>> \in Ascending(X)
      BY <3>1, <3>2 DEF Ascending, SetToSeqs
    <3> QED
      BY <1>2, <3>3
  <2> QED
    BY <2>1
<1>5. PICK x \in X : \A y \in X : Value[x] <= Value[y]
  <2> DEFINE values == {Value[y] : y \in X}
  <2>1. values \in SUBSET Nat /\ values # {}
    BY <1>2, <1>4, WalletAssumption
  <2>2. Min(values) \in values /\ \A v \in values : Min(values) <= v
    <3> HIDE DEF values
    <3> QED
      BY <2>1, MinExists
  <2> QED
    BY <2>2
<1> DEFINE R == X \ {x}
           n == Cardinality(R)
<1>6. n \in Nat /\ Cardinality(X) = n + 1
  <2>1. IsFiniteSet(X \ {x}) /\ Cardinality(X \ {x}) = Cardinality(X) - 1
    BY <1>3, FS_RemoveElement
  <2>2. Cardinality(X \ {x}) \in Nat
    BY <2>1, FS_CardinalityType
  <2> QED
    BY <1>3, <2>1, <2>2
<1>7. PICK r : r \in Ascending(R)
  BY <1>1, <1>2
<1> HIDE DEF n
<1>8. /\ r \in [1 .. n -> R]
      /\ \A i, j \in 1 .. n : i # j => r[i] # r[j]
      /\ \A i \in 1 .. n - 1 : Value[r[i]] <= Value[r[i + 1]]
  <2>1. /\ r \in [1 .. n -> R]
        /\ \A i, j \in 1 .. n : i # j => r[i] # r[j]
        /\ \A i \in 1 .. Len(r) - 1 : Value[r[i]] <= Value[r[i + 1]]
    BY <1>7 DEF Ascending, SetToSeqs, n
  <2>2. Len(r) = n
    BY <1>6, <2>1
  <2> QED
    BY <2>1, <2>2
<1> DEFINE s == [i \in 1 .. n + 1 |-> IF i = 1 THEN x ELSE r[i - 1]]
<1> HIDE DEF F
<1>9. \A i \in 1 .. n + 1 : i # 1 => i - 1 \in 1 .. n
  BY <1>6
<1>10. /\ \A i \in 1 .. n : r[i] \in R /\ r[i] \in X /\ r[i] # x
       /\ s[1] = x /\ \A i \in 1 .. n + 1 : i # 1 => s[i] = r[i - 1]
  BY <1>6, <1>8
<1>11. s \in [1 .. n + 1 -> X]
  BY <1>9, <1>10
<1>12. ASSUME NEW i \in 1 .. n + 1, NEW j \in 1 .. n + 1, i # j PROVE s[i] # s[j]
  <2>1. CASE i = 1
    BY <1>9, <1>10, <1>12, <2>1
  <2>2. CASE j = 1
    BY <1>9, <1>10, <1>12, <2>2
  <2>3. CASE i # 1 /\ j # 1
    <3>1. i - 1 \in 1 .. n /\ j - 1 \in 1 .. n /\ i - 1 # j - 1
      BY <1>6, <1>9, <1>12, <2>3
    <3>2. s[i] = r[i - 1] /\ s[j] = r[j - 1]
      BY <1>10, <2>3
    <3> HIDE DEF s
    <3> QED
      BY <1>8, <3>1, <3>2
  <2> QED
    BY <2>1, <2>2, <2>3
<1>13. Len(s) = n + 1
  BY <1>6
<1>14. ASSUME NEW i \in 1 .. n PROVE Value[s[i]] <= Value[s[i + 1]]
  <2>1. i + 1 \in 1 .. n + 1 /\ i + 1 # 1 /\ (i + 1) - 1 = i
    BY <1>6
  <2>2. s[i + 1] = r[i]
    BY <1>10, <2>1
  <2>3. CASE i = 1
    BY <1>5, <1>10, <2>2, <2>3
  <2>4. CASE i # 1
    <3>1. i - 1 \in 1 .. n - 1 /\ (i - 1) + 1 = i /\ i \in 1 .. n + 1
      BY <1>6, <2>4
    <3>2. s[i] = r[i - 1]
      BY <1>10, <2>4, <3>1
    <3> HIDE DEF s
    <3> QED
      BY <1>8, <2>2, <3>1, <3>2
  <2> QED
    BY <2>3, <2>4
<1> HIDE DEF s
<1>15. s \in Ascending(X)
  <2>1. s \in SetToSeqs(X)
    BY <1>6, <1>11, <1>12 DEF SetToSeqs
  <2>2. \A i \in 1 .. Len(s) - 1 : Value[s[i]] <= Value[s[i + 1]]
    BY <1>6, <1>13, <1>14
  <2> QED
    BY <2>1, <2>2 DEF Ascending
<1> QED
  BY <1>2, <1>15

\* A sorted list has every element at one place, and is in order over any distance.
LEMMA SortedOrder ==
    ASSUME NEW S \in SUBSET Output, NEW s \in Ascending(S)
    PROVE  /\ IsFiniteSet(S) /\ Len(s) = Cardinality(S) /\ Len(s) \in Nat
           /\ s \in [1 .. Len(s) -> S] /\ Range(s) = S
           /\ \A i, j \in 1 .. Len(s) : i # j => s[i] # s[j]
           /\ \A i, j \in 1 .. Len(s) : i <= j => Value[s[i]] <= Value[s[j]]
<1> DEFINE n == Cardinality(S)
<1>1. IsFiniteSet(S) /\ n \in Nat
  BY WalletAssumption, FS_Subset, FS_CardinalityType
<1>2. /\ s \in [1 .. n -> S]
      /\ \A i, j \in 1 .. n : i # j => s[i] # s[j]
      /\ \A i \in 1 .. Len(s) - 1 : Value[s[i]] <= Value[s[i + 1]]
  BY DEF Ascending, SetToSeqs
<1>3. Len(s) = n
  BY <1>1, <1>2
<1>4. Range(s) = S
  <2>1. s \in Injection(1 .. n, S)
    BY <1>2 DEF Injection, IsInjective
  <2>2. Cardinality(1 .. n) = n
    <3> HIDE DEF n
    <3>1. Cardinality(1 .. n) = IF 1 > n THEN 0 ELSE (n - 1) + 1
      BY <1>1, FS_Interval
    <3> QED
      BY <1>1, <3>1
  <2>3. s \in Surjection(1 .. n, S)
    BY <1>1, <2>1, <2>2, FS_Injection
  <2> QED
    BY <1>2, <2>3 DEF Surjection, Range
<1> DEFINE Far(i, j) == Value[s[i]] <= Value[s[j]]
<1>5. ASSUME NEW i \in 1 .. n, NEW j \in 1 .. n, i <= j PROVE Far(i, j)
  <2> DEFINE late == {k \in 1 .. n : i <= k /\ ~Far(i, k)}
  <2> SUFFICES ASSUME late # {} PROVE FALSE
    BY <1>5
  <2>1. Min(late) \in late /\ \A k \in late : Min(late) <= k
    <3>1. late \in SUBSET Nat
      OBVIOUS
    <3> HIDE DEF late
    <3> QED
      BY <3>1, MinExists
  <2> DEFINE k == Min(late)
  <2> HIDE DEF k
  <2>2. k \in 1 .. n /\ i <= k /\ ~Far(i, k) /\ \A m \in late : k <= m
    BY <2>1 DEF k
  <2>3. \A m \in 1 .. n : s[m] \in S /\ Value[s[m]] \in Nat
    BY <1>2, WalletAssumption
  <2>4. k # i
    BY <2>2, <2>3
  <2>5. k - 1 \in 1 .. n - 1 /\ k - 1 \in 1 .. n /\ i <= k - 1 /\ (k - 1) + 1 = k /\ ~(k <= k - 1)
    BY <1>1, <2>2, <2>4
  <2>6. Far(i, k - 1)
    BY <2>2, <2>5
  <2>7. Value[s[k - 1]] <= Value[s[k]]
    <3> HIDE DEF n
    <3> QED
      BY <1>2, <1>3, <2>5
  <2>8. Value[s[i]] \in Nat /\ Value[s[k - 1]] \in Nat /\ Value[s[k]] \in Nat
    BY <2>2, <2>3, <2>5
  <2> QED
    BY <2>2, <2>6, <2>7, <2>8
<1> HIDE DEF n
<1> QED
  BY <1>1, <1>2, <1>3, <1>4, <1>5 DEF n
-----------------------------------------------------------------------------
\* The k largest elements of a set are worth at least as much as any k.
LEMMA LargestAreMost ==
    ASSUME NEW S \in SUBSET Output, NEW d \in Descending(S), NEW k \in 1 .. Len(d),
           NEW X \in SUBSET S, Cardinality(X) = k
    PROVE  LET P == Range(SubSeq(d, 1, k))
           IN  Cardinality(P) = k /\ Total(X) <= Total(P)
<1> DEFINE P == Range(SubSeq(d, 1, k))
<1>1. PICK s \in Ascending(S) : d = Reverse(s)
  BY DEF Descending
<1> DEFINE n == Len(s)
<1>2. /\ n \in Nat /\ IsFiniteSet(S)
      /\ s \in [1 .. n -> S] /\ Range(s) = S
      /\ \A i, j \in 1 .. n : i # j => s[i] # s[j]
      /\ \A i, j \in 1 .. n : i <= j => Value[s[i]] <= Value[s[j]]
  BY SortedOrder
<1>3. d = [i \in 1 .. n |-> s[(n - i) + 1]]
  BY <1>1 DEF Reverse
<1> HIDE DEF n
<1>4. Len(d) = n /\ d \in Seq(S) /\ IsInjective(d)
  <2>1. Len(d) = n
    BY <1>2, <1>3
  <2> QED
    BY <2>1, Sorted
<1>5. \A i \in 1 .. n : (n - i) + 1 \in 1 .. n /\ (n - ((n - i) + 1)) + 1 = i
  BY <1>2
<1>6. \A o \in S : \E i \in 1 .. n : o = d[i]
  <2> SUFFICES ASSUME NEW o \in S PROVE \E i \in 1 .. n : o = d[i]
    OBVIOUS
  <2>1. PICK j \in 1 .. n : o = s[j]
    BY <1>2 DEF Range
  <2> QED
    BY <1>3, <1>5, <2>1
<1>7. \A i, j \in 1 .. n : i <= j => Value[d[j]] <= Value[d[i]]
  <2> SUFFICES ASSUME NEW i \in 1 .. n, NEW j \in 1 .. n, i <= j
               PROVE  Value[d[j]] <= Value[d[i]]
    OBVIOUS
  <2>1. (n - j) + 1 <= (n - i) + 1
    BY <1>2
  <2>2. d[i] = s[(n - i) + 1] /\ d[j] = s[(n - j) + 1]
    BY <1>3
  <2> QED
    BY <1>2, <1>5, <2>1, <2>2
<1> DEFINE t == SubSeq(d, 1, k)
<1>8. /\ t \in Seq(S) /\ Len(t) = k /\ Range(t) \subseteq S
      /\ \A i \in 1 .. k : t[i] = d[i] /\ i \in 1 .. n
  BY <1>2, <1>4, RangeFacts
<1>9. DOMAIN t = 1 .. k /\ t \in [1 .. k -> S]
  <2> HIDE DEF t
  <2> QED
    BY <1>8, LenProperties
<1> HIDE DEF t
<1>10. Cardinality(P) = k /\ IsFiniteSet(P) /\ P \subseteq S
  <2>1. DOMAIN d = 1 .. n
    BY <1>3
  <2>2. t \in Injection(1 .. k, P)
    <3>1. \A i, j \in 1 .. k : t[i] = t[j] => i = j
      BY <1>4, <1>8, <2>1 DEF IsInjective
    <3>2. P = {t[i] : i \in 1 .. k}
      BY <1>9 DEF Range, t
    <3>3. t \in [1 .. k -> P]
      <4> HIDE DEF P
      <4> QED
        BY <1>9, <3>2
    <3> HIDE DEF P
    <3> QED
      BY <1>9, <3>1, <3>3 DEF Injection, IsInjective
  <2>3. IsFiniteSet(P) /\ P \subseteq S
    BY <1>2, <1>8, FS_Subset DEF t
  <2>4. t \in Surjection(1 .. k, P)
    BY <1>9, <2>2 DEF Surjection, Injection, Range, t
  <2>5. Cardinality(1 .. k) = k
    <3>1. k \in Nat /\ k >= 1
      BY <1>2, <1>4
    <3>2. Cardinality(1 .. k) = IF 1 > k THEN 0 ELSE (k - 1) + 1
      BY <3>1, FS_Interval
    <3> QED
      BY <3>1, <3>2
  <2> HIDE DEF P
  <2> QED
    BY <2>2, <2>3, <2>4, <2>5, FS_Injection
<1>11. \A o \in X \ P, u \in P \ X : Value[o] <= Value[u]
  <2> SUFFICES ASSUME NEW o \in X \ P, NEW u \in P \ X PROVE Value[o] <= Value[u]
    OBVIOUS
  <2>1. PICK i \in 1 .. k : u = d[i] /\ i \in 1 .. n
    BY <1>8, <1>9 DEF Range, t
  <2>2. PICK j \in 1 .. n : o = d[j]
    BY <1>6
  <2>3. j \notin 1 .. k
    <3>1. ASSUME j \in 1 .. k PROVE o \in P
      BY <1>8, <1>9, <2>2, <3>1 DEF Range, t
    <3> QED
      BY <3>1
  <2>4. i <= j
    BY <1>2, <1>4, <2>3
  <2> QED
    BY <1>7, <2>1, <2>2, <2>4
<1> HIDE DEF P
<1>12. Cardinality(X \ P) = Cardinality(P \ X)
  <2>1. IsFiniteSet(X)
    BY <1>2, FS_Subset
  <2>2. Cardinality(X \ P) = Cardinality(X) - Cardinality(X \cap P)
    BY <2>1, FS_Difference
  <2>3. Cardinality(P \ X) = Cardinality(P) - Cardinality(P \cap X)
    BY <1>10, FS_Difference
  <2>4. X \cap P = P \cap X
    OBVIOUS
  <2> QED
    BY <1>10, <2>2, <2>3, <2>4
<1>13. Total(X \ P) <= Total(P \ X)
  <2>1. X \ P \in SUBSET Output /\ P \ X \in SUBSET Output
    BY <1>10
  <2> QED
    BY <1>11, <1>12, <2>1, TotalDominates
<1>14. /\ Total(X) = Total(X \cap P) + Total(X \ P)
       /\ Total(P) = Total(X \cap P) + Total(P \ X)
       /\ Total(X \cap P) \in Nat /\ Total(X \ P) \in Nat /\ Total(P \ X) \in Nat
  <2>1. /\ X = (X \cap P) \cup (X \ P) /\ P = (X \cap P) \cup (P \ X)
        /\ (X \cap P) \cap (X \ P) = {} /\ (X \cap P) \cap (P \ X) = {}
        /\ X \cap P \in SUBSET Output /\ X \ P \in SUBSET Output /\ P \ X \in SUBSET Output
    BY <1>10
  <2>2. Total((X \cap P) \cup (X \ P)) = Total(X \cap P) + Total(X \ P)
    BY <2>1, TotalUnion
  <2>3. Total((X \cap P) \cup (P \ X)) = Total(X \cap P) + Total(P \ X)
    BY <2>1, TotalUnion
  <2> QED
    BY <2>1, <2>2, <2>3, TotalType
<1>15. Total(X) <= Total(P)
  BY <1>13, <1>14
<1> QED
  BY <1>10, <1>15 DEF P

\* No prefix of a list covers the amount when none is chosen.
LEMMA NoPrefixCovers ==
    ASSUME NEW s, NEW amount, FirstCovering(s, amount) = {}
    PROVE  \A k \in 1 .. Len(s) : ~Covers(Range(SubSeq(s, 1, k)), amount)
BY DEF FirstCovering

\* Each further Zcash note adds at most BaseFee to the fee.
LEMMA ZcashFeeGrows ==
    ASSUME coin = "zcash", NEW n \in Nat, NEW m \in Nat
    PROVE  Fee(n + m) <= Fee(n) + m * BaseFee
<1> DEFINE big == Max({n + m, 2, GraceActions})
           small == Max({n, 2, GraceActions})
<1>1. BaseFee \in Nat /\ GraceActions \in Nat
  BY WalletAssumption
<1>2. big \in {n + m, 2, GraceActions}
  <2>1. \E x \in {n + m, 2, GraceActions} : \A y \in {n + m, 2, GraceActions} : x >= y
    BY <1>1
  <2> QED
    BY <2>1 DEF Max
<1>3. small \in {n, 2, GraceActions} /\ \A y \in {n, 2, GraceActions} : small >= y
  <2>1. \E x \in {n, 2, GraceActions} : \A y \in {n, 2, GraceActions} : x >= y
    BY <1>1
  <2> QED
    BY <2>1 DEF Max
<1>4. Fee(n + m) = big * BaseFee /\ Fee(n) = small * BaseFee
  BY DEF Fee, ComputeFee
<1> HIDE DEF big, small
<1>5. big \in Nat /\ small \in Nat /\ big <= small + m
  BY <1>1, <1>2, <1>3
<1>6. big * BaseFee <= (small + m) * BaseFee
  <2>1. PICK e \in Nat : small + m = big + e
    <3>1. (small + m) - big \in Nat /\ small + m = big + ((small + m) - big)
      BY <1>5
    <3> QED
      BY <3>1
  <2>2. (big + e) * BaseFee = big * BaseFee + e * BaseFee /\ e * BaseFee \in Nat
        /\ big * BaseFee \in Nat
    BY <1>1, <1>5
  <2> QED
    BY <2>1, <2>2
<1>7. (small + m) * BaseFee = small * BaseFee + m * BaseFee
  BY <1>1, <1>5
<1> QED
  BY <1>4, <1>6, <1>7

\* A set of outputs the code takes for too little pays too little, unless the
\* total of the outputs it is chosen from wraps.
LEMMA TooLittle ==
    ASSUME NEW S \in SUBSET Output, NEW T \in SUBSET S, NEW amount \in Nat,
           Total(S) < Wrap, ~Covers(T, amount)
    PROVE  ~Pays(T, amount)
<1>1. T \cup (S \ T) = S /\ T \cap (S \ T) = {}
      /\ T \in SUBSET Output /\ S \ T \in SUBSET Output
  OBVIOUS
<1>2. Total(S) = Total(T) + Total(S \ T)
  BY <1>1, TotalUnion
<1>3. Total(T) \in Nat /\ Total(S \ T) \in Nat /\ Wrap \in Nat
  BY <1>1, TotalType, WalletAssumption
<1>4. Total(T) < Wrap
  BY <1>2, <1>3
<1> QED
  BY <1>1, <1>4, PaysCovers

\* Monero: when some outputs pay, so do as many of the largest.
LEMMA LargestPay ==
    ASSUME NEW S \in SUBSET Output, NEW amount \in Nat, NEW X \in SUBSET S, X # {},
           Total(S) < Wrap, Pays(X, amount), coin # "zcash"
    PROVE  selectOutputs(S, amount) # {}
<1> SUFFICES ASSUME selectOutputs(S, amount) = {} PROVE FALSE
  OBVIOUS
<1>1. PICK s \in Ascending(S) : TRUE
  BY SortedExists
<1> DEFINE d == Reverse(s)
           k == Cardinality(X)
<1>2. d \in Descending(S) /\ FirstCovering(d, amount) = {}
  <2>1. d \in Descending(S)
    BY DEF Descending
  <2> QED
    BY <2>1 DEF selectOutputs
<1>3. Len(d) = Cardinality(S) /\ IsFiniteSet(S)
  <2>1. /\ IsFiniteSet(S) /\ Len(s) = Cardinality(S) /\ Len(s) \in Nat
    BY SortedOrder
  <2> QED
    BY <2>1 DEF Reverse
<1>4. k \in 1 .. Cardinality(S)
  <2>1. IsFiniteSet(X) /\ Cardinality(X) <= Cardinality(S)
    BY <1>3, FS_Subset
  <2>2. Cardinality(X) # 0 /\ Cardinality(X) \in Nat /\ Cardinality(S) \in Nat
    BY <1>3, <2>1, FS_EmptySet, FS_CardinalityType
  <2> QED
    BY <2>1, <2>2
<1> DEFINE P == Range(SubSeq(d, 1, k))
<1> HIDE DEF d, k
<1>5. k \in Nat /\ k \in 1 .. Len(d) /\ Cardinality(X) = k
  BY <1>3, <1>4, FS_CardinalityType DEF k
<1>6. Cardinality(P) = k /\ Total(X) <= Total(P)
  BY <1>2, <1>5, LargestAreMost
<1>7. ~Covers(P, amount)
  BY <1>2, <1>5, NoPrefixCovers
<1>8. Total(X) \in Nat /\ Total(P) \in Nat /\ P \subseteq S
  <2>1. d \in Seq(S)
    BY <1>2, Sorted
  <2>2. Range(SubSeq(d, 1, k)) \subseteq S
    <3>1. Len(d) \in Nat /\ k \in 0 .. Len(d)
      BY <2>1, <1>5, LenProperties
    <3> QED
      BY <2>1, <3>1, RangeFacts
  <2> QED
    BY <2>2, TotalType
<1> HIDE DEF P
<1>9. Fee(k) \in Nat
  BY <1>5, FeeType
<1>10. Total(X) >= amount + Fee(k) /\ ~(Total(P) >= amount + Fee(k))
  <2>1. ~Pays(P, amount)
    BY <1>7, <1>8, TooLittle
  <2> QED
    BY <1>5, <1>6, <2>1 DEF Pays, Need
<1> QED
  BY <1>6, <1>8, <1>9, <1>10

\* Zcash: when some notes pay and none is worth less than its action, all do.
LEMMA AllNotesPay ==
    ASSUME NEW S \in SUBSET Output, NEW amount \in Nat, NEW X \in SUBSET S, X # {},
           Total(S) < Wrap, Pays(X, amount), coin = "zcash",
           \A o \in S : Value[o] >= BaseFee
    PROVE  selectNotes(S, amount) # {}
<1> SUFFICES ASSUME selectNotes(S, amount) = {} PROVE FALSE
  OBVIOUS
<1>1. PICK s \in Ascending(S) : TRUE
  BY SortedExists
<1>2. FirstCovering(s, amount) = {}
  <2> DEFINE single == {d \in Descending(S) : d # <<>> /\ Covers({d[1]}, amount)}
  <2>1. selectNotes(S, amount) =
          IF single # {} THEN {<<d[1]>> : d \in single}
          ELSE UNION {FirstCovering(a, amount) : a \in Ascending(S)}
    BY DEF selectNotes
  <2> HIDE DEF single
  <2> QED
    BY <2>1
<1>3. /\ IsFiniteSet(S) /\ Len(s) = Cardinality(S) /\ Len(s) \in Nat
      /\ s \in [1 .. Len(s) -> S] /\ Range(s) = S
  BY SortedOrder
<1> DEFINE Y == S \ X
           n == Cardinality(X)
           m == Cardinality(Y)
<1>4. n \in Nat /\ m \in Nat /\ Cardinality(S) = n + m /\ n # 0
  <2>1. IsFiniteSet(X) /\ IsFiniteSet(Y)
    BY <1>3, FS_Subset
  <2>2. Cardinality(S \ X) = Cardinality(S) - Cardinality(S \cap X)
    BY <1>3, FS_Difference
  <2>3. S \cap X = X
    OBVIOUS
  <2>4. n \in Nat /\ m \in Nat /\ n # 0
    BY <2>1, FS_CardinalityType, FS_EmptySet
  <2>5. m = Cardinality(S) - n /\ Cardinality(S) \in Nat
    BY <1>3, <2>2, <2>3
  <2> HIDE DEF m, n
  <2> QED
    BY <2>4, <2>5
<1>5. SubSeq(s, 1, Len(s)) = s
  BY <1>3
<1>6. ~Covers(S, amount)
  <2>1. Len(s) \in 1 .. Len(s)
    BY <1>3, <1>4
  <2>2. ~Covers(Range(SubSeq(s, 1, Len(s))), amount)
    BY <1>2, <2>1, NoPrefixCovers
  <2> QED
    BY <1>3, <1>5, <2>2
<1>7. Total(S) = Total(X) + Total(Y)
  <2>1. X \cup Y = S /\ X \cap Y = {}
    OBVIOUS
  <2> QED
    BY <2>1, TotalUnion
<1>8. Total(Y) >= m * BaseFee /\ m * BaseFee \in Nat
  <2>1. BaseFee \in Nat
    BY WalletAssumption
  <2> QED
    BY <1>4, <2>1, TotalAtLeast
<1>9. Total(X) >= amount + Fee(n) /\ ~(Total(S) >= amount + Fee(n + m))
  <2>1. ~Pays(S, amount)
    BY <1>6, TooLittle
  <2> QED
    BY <1>4, <2>1 DEF Pays, Need
<1> HIDE DEF Y, n, m
<1>10. Fee(n + m) <= Fee(n) + m * BaseFee /\ Fee(n) \in Nat /\ Fee(n + m) \in Nat
  <2>1. n + m \in Nat
    BY <1>4
  <2> QED
    BY <1>4, <2>1, FeeType, ZcashFeeGrows
<1>11. Total(X) \in Nat /\ Total(Y) \in Nat
  BY TotalType DEF Y
<1> QED
  BY <1>7, <1>8, <1>9, <1>10, <1>11

\* A spend falls short in its coordinator's Prepare only, which found no choice.
LEMMA FallsShort ==
    ASSUME TypeOK, Inv, [Next]_vars, ~sess.short, sess'.short
    PROVE  pc[sess.coordinator] = "prepare" /\ Select(sess.coordinator, sess.amount) = {}
<1>1. \E p \in Party : Prepare(p)
  <2>1. CASE runKeygen \/ runKeyImport
    <3>1. sess.number \in Nat
      BY DEF TypeOK, Spend
    <3> QED
      BY <2>1, <3>1, NoNewSpend DEF runKeygen, runKeyImport, Ceremony
  <2>2. CASE runSpend
    BY <2>2, Started
  <2>3. CASE Sign
    BY <2>3, WithSigned DEF Sign
  <2>4. CASE (\E o \in Output : Receive(o)) \/ (\E tx \in pool : Mine(tx)) \/ UNCHANGED vars
    BY <2>4 DEF Receive, Mine, vars
  <2>5. ASSUME NEW p \in Party,
               \/ BeginWrite(p) \/ EndWrite(p) \/ FailWrite(p) \/ Crash(p)
               \/ Saved(p) \/ Fail(p) \/ Finish(p)
        PROVE  FALSE
    BY <2>5 DEF BeginWrite, EndWrite, FailWrite, Crash, Saved, Fail, Finish
  <2>6. ASSUME NEW p \in Party, Broadcast(p) \/ ReceiveOffsets(p) \/ Recorded(p)
        PROVE  FALSE
    <3>1. \/ UNCHANGED sess
          \/ \E x \in BOOLEAN : sess' = [sess EXCEPT !.told = x]
          \/ sess' = AtBarrier(p)
      BY <2>6 DEF Broadcast, ReceiveOffsets, Recorded
    <3>2. sess.closed \cup {p} \in SUBSET Party
      BY DEF TypeOK, Spend
    <3> QED
      BY <3>1, <3>2, WithTold, WithClosed DEF AtBarrier
  <2> QED
    BY <2>1, <2>2, <2>3, <2>4, <2>5, <2>6 DEF Next
<1>2. PICK p \in Party : Prepare(p)
  BY <1>1
<1>3. p = sess.coordinator /\ pc[p] = "prepare"
  BY <1>2 DEF Prepare, Inv, Phase
<1>4. ASSUME NEW t \in Select(p, sess.amount), sess' = [sess EXCEPT !.inputs = t] PROVE FALSE
  <2>1. t \in Seq(Output)
    BY Selected
  <2> QED
    BY <1>4, <2>1, WithInputs
<1> QED
  BY <1>2, <1>3, <1>4 DEF Prepare

\* NoFalseShortage: the coordinator reports a lack of funds only when no choice
\* of the outputs it sees pays the amount and the fee, unless a Zcash note is
\* worth less than the fee its own spending adds, or all of them together are worth
\* more than an amount can say.
THEOREM NoFalseShortageAlways == Spec => NoFalseShortage
<1> DEFINE Dust == coin = "zcash" /\ \E o \in Available(sess.coordinator) : Value[o] < BaseFee
<1>1. ASSUME TypeOK, Inv, [Next]_vars, ~sess.short, sess'.short, ~Dust,
             Total(Available(sess.coordinator)) < Wrap,
             NEW S \in SUBSET Available(sess.coordinator), S # {}
      PROVE  ~Pays(S, sess.amount)
  <2> DEFINE A == Available(sess.coordinator)
  <2>1. Select(sess.coordinator, sess.amount) = {} /\ sess.amount \in Nat
    BY <1>1, FallsShort DEF TypeOK, Spend
  <2>2. A \in SUBSET Output
    BY DEF Available, UnspentNotes, UnspentOutputs
  <2>3. Select(sess.coordinator, sess.amount) =
          IF coin = "zcash" THEN selectNotes(A, sess.amount) ELSE selectOutputs(A, sess.amount)
    BY DEF Select, Available
  <2>4. coin = "zcash" => \A o \in A : Value[o] >= BaseFee
    <3>1. \A o \in A : Value[o] \in Nat /\ BaseFee \in Nat
      BY <2>2, WalletAssumption
    <3>2. \A o \in A : coin = "zcash" => ~(Value[o] < BaseFee)
      BY <1>1
    <3> HIDE DEF A
    <3> QED
      BY <3>1, <3>2
  <2>5. S \in SUBSET A /\ S # {} /\ Total(A) < Wrap
    BY <1>1
  <2> HIDE DEF A
  <2> QED
    BY <2>1, <2>2, <2>3, <2>4, <2>5, LargestPay, AllNotesPay
<1>2. ASSUME TypeOK /\ Inv, [Next]_vars
      PROVE  [LET c == sess.coordinator
                  dust == coin = "zcash" /\ \E o \in Available(c) : Value[o] < BaseFee
              IN  ~sess.short /\ sess'.short /\ ~dust /\ Total(Available(c)) < Wrap =>
                    \A S \in SUBSET Available(c) : S # {} => ~Pays(S, sess.amount)]_vars
  BY <1>1, <1>2
<1> QED
  BY <1>2, WalletInvariant, PTL DEF Spec, NoFalseShortage
=============================================================================
