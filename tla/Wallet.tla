------------------------------- MODULE Wallet --------------------------------
(***************************************************************************)
(* The party programs of both coins around the ceremonies: what keygen and *)
(* key import leave in the keystore, what a spend loads from it, how the   *)
(* coordinator of a spend chooses the outputs it spends, and the record of *)
(* spent outputs that the parties keep.  A ceremony and the signing of a   *)
(* transaction are single steps here; Session and Ceremonies take them     *)
(* apart.                                                                  *)
(*                                                                         *)
(* os.WriteFile truncates the file and then writes it: it is two steps, and *)
(* a process that stops between them leaves a torn file.                   *)
(***************************************************************************)
EXTENDS Integers, Sequences, FiniteSets, SequencesExt, FiniteSetsExt

CONSTANTS
    Party,          \* the parties of the vault, numbered in the order of their names
    MinSigners,     \* how many of them sign a spend
    Encrypted,      \* the parties whose keystore has a passphrase
    Mnemonic,       \* the parties whose configuration holds the seed words
    Output,         \* the outputs (Monero) or notes (Zcash) the vault receives
    Value,          \* the amount of each output
    Amount,         \* the amounts that are sent
    BaseFee,        \* Zcash: the fee per action
    GraceActions,   \* Zcash: the actions a transaction pays for at least
    WeightFee,      \* Monero: the fee of a transaction without inputs
    InputFee,       \* Monero: the fee each input adds
    Wrap,           \* 2^64 in the code: the number of values of an amount
    MaxCeremonies,  \* bound: ceremonies run in one session directory
    MaxSpends,      \* bound: spends attempted
    MaxFaults,      \* bound: crashes and failed writes
    None

ASSUME WalletAssumption ==
    /\ Party \subseteq Nat /\ IsFiniteSet(Party)
    /\ MinSigners \in 1 .. Cardinality(Party)
    /\ Encrypted \subseteq Party /\ Mnemonic \subseteq Party
    /\ Wrap \in Nat \ {0}
    /\ IsFiniteSet(Output) /\ Value \in [Output -> 0 .. Wrap - 1]
    /\ Amount \subseteq 1 .. Wrap - 1
    /\ {BaseFee, GraceActions, WeightFee, InputFee} \subseteq Nat
    /\ {MaxCeremonies, MaxSpends, MaxFaults} \subseteq Nat

Coin == {"zcash", "monero"}

\* A key file holds the number of the ceremony it comes from.
KeyFile == {"bundle", "key_package", "pub_key_package", "sapling_extras",
            "key_share", "pub_key"}
File == KeyFile \cup {"spent"}

Absent == 0
Torn == -1  \* what is left of the file cannot be decrypted or parsed

\* The record of spent outputs, `odd' when a torn entry makes the length of the
\* file no multiple of 32.  A file that is absent or cannot be decrypted or
\* parsed reads as the empty record.
Record(list, odd) == [list |-> list, odd |-> odd]
NoRecord == Record(<<>>, FALSE)

VARIABLES
    coin,      \* which of the two clients the parties run
    disk,      \* per party and file: its content
    pc,        \* per party: where its program is
    todo,      \* per party: the files it has still to write, with their data
    writing,   \* per party: <<content>> of the file it has truncated, or <<>>
    ceremony,  \* the number of ceremonies run so far
    sess,      \* the spend in progress
    owned,     \* per output: the ceremony whose key receives it, or 0
    pool,      \* transactions the network has accepted, not yet in a block
    mined,     \* outputs spent in the blocks of the chain
    sent,      \* history: every output an accepted transaction has spent
    stored,    \* history: the last ceremony each party has saved completely
    noted,     \* history: outputs whose spending each party recorded, no error
    torn,      \* history: the files of each party whose writing was cut short
    faults     \* crashes and failed writes so far

vars == <<coin, disk, pc, todo, writing, ceremony, sess, owned, pool, mined, sent,
          stored, noted, torn, faults>>
chain == <<owned, pool, mined, sent>>

(***************************************************************************)
(* The keystore.                                                           *)
(***************************************************************************)

\* The files a ceremony ends by saving, in order: runKeygen and runKeyImport.
KeygenFiles ==
    IF coin = "zcash" THEN <<"bundle", "key_package", "pub_key_package", "sapling_extras">>
                      ELSE <<"bundle">>

ImportFiles ==
    IF coin = "zcash" THEN <<"bundle", "key_package", "pub_key_package", "sapling_extras">>
                      ELSE <<"key_share", "pub_key">>

\* Mutant: the separate files are preferred.
LoadFilesSeparate(p) ==
    IF coin = "zcash" /\ disk[p]["key_package"] # Absent
    THEN {"key_package", "pub_key_package", "sapling_extras"}
    ELSE IF disk[p]["bundle"] # Absent THEN {"bundle"} ELSE {"key_share"}

\* Mutant: a key share of an import is preferred to the bundle of a keygen.
LoadFilesShareFirst(p) ==
    IF disk[p]["key_share"] # Absent THEN {"key_share"}
    ELSE IF disk[p]["bundle"] # Absent \/ coin = "monero" THEN {"bundle"}
    ELSE {"key_package", "pub_key_package", "sapling_extras"}

\* The files the key material of a spend comes from: the bundle whenever there
\* is one, readable or not.
LoadFiles(p) ==
    IF disk[p]["bundle"] # Absent THEN {"bundle"}
    ELSE IF coin = "zcash" THEN {"key_package", "pub_key_package", "sapling_extras"}
    ELSE {"key_share"}

Loads(p) == \A f \in LoadFiles(p) : disk[p][f] \notin {Absent, Torn}

\* The ceremonies that the loaded key material comes from.
Loaded(p) == {disk[p][f] : f \in LoadFiles(p)}

\* LoadSpentNotes, LoadSpentOffsets: callers ignore the error, which leaves an
\* empty list.
LoadSpent(p) == disk[p]["spent"]

\* Mutant: the new entries replace the old ones.
SaveSpentOverwrites(p, outputs) == Record(outputs, FALSE)

\* MarkNoteSpent, SaveSpentOffsets: what is read, with the new entries appended.
SaveSpent(p, outputs) ==
    LET old == LoadSpent(p) IN Record(old.list \o outputs, old.odd)

\* What a truncated file may hold after a crash: nothing that can be read, but
\* for a plain Monero record, whose whole entries and odd bytes remain.
Cut(p, file, content) ==
    IF file # "spent" THEN {Torn}
    ELSE IF coin = "zcash" \/ p \in Encrypted THEN {NoRecord}
    ELSE {Record(SubSeq(content.list, 1, k), odd) :
            k \in 0 .. Len(content.list) - 1, odd \in BOOLEAN}

(***************************************************************************)
(* Selection of the outputs to spend.                                      *)
(***************************************************************************)

\* fromt_spend_prepare drops the whole list when its length is odd.
Excluded(p) == IF LoadSpent(p).odd THEN {} ELSE Range(LoadSpent(p).list)

\* The spent_status of is_key_image_spent covers blocks and pool.
KeyImagesSpent(p) == IF p \in Mnemonic THEN mined \cup UNION pool ELSE {}

\* Scan and filters: Zcash knows a note as spent by its nullifier in a block;
\* Monero by its own record and, where the spend key is known, by key images.
UnspentNotes(p) == {o \in Output : owned[o] \in Loaded(p)} \ mined

UnspentOutputs(p) ==
    {o \in Output : owned[o] \in Loaded(p)} \ (Excluded(p) \cup KeyImagesSpent(p))

Available(p) == IF coin = "zcash" THEN UnspentNotes(p) ELSE UnspentOutputs(p)

ComputeFee(nSpends, nOutputs) == Max({nSpends, nOutputs, GraceActions}) * BaseFee

\* The fee estimate by weight, 1500 + 2100 for each input.
FeeEstimate(nSpends) == WeightFee + nSpends * InputFee

Fee(n) == IF coin = "zcash" THEN ComputeFee(n, 2) ELSE FeeEstimate(n)

Total(S) == MapThenSumSet(LAMBDA o : Value[o], S)

\* What the inputs S have to be worth.
Need(S, amount) == amount + Fee(Cardinality(S))

\* The comparison of the code: both sides are unchecked sums of 64-bit amounts.
Covers(S, amount) == Total(S) % Wrap >= Need(S, amount) % Wrap

\* The comparison it stands for, which the network makes.
Pays(S, amount) == Total(S) >= Need(S, amount)

\* The orders a sort by value may produce: equal amounts come in any order.
Ascending(S) ==
    {s \in SetToSeqs(S) : \A i \in 1 .. Len(s) - 1 : Value[s[i]] <= Value[s[i + 1]]}

Descending(S) == {Reverse(s) : s \in Ascending(S)}

\* Mutant: the fee is estimated before the output is counted in.
FirstCoveringEarlyFee(s, amount) ==
    LET enough == {n \in 1 .. Len(s) :
                     Total(Range(SubSeq(s, 1, n))) % Wrap >= (amount + Fee(n - 1)) % Wrap}
    IN  IF enough = {} THEN {} ELSE {SubSeq(s, 1, Min(enough))}

\* The shortest prefix of a sorted list that covers the amount, if one does.
FirstCovering(s, amount) ==
    LET enough == {n \in 1 .. Len(s) : Covers(Range(SubSeq(s, 1, n)), amount)}
    IN  IF enough = {} THEN {} ELSE {SubSeq(s, 1, Min(enough))}

\* Mutant: only a single note is looked for.
selectNotesSingle(notes, amount) == {<<o>> : o \in {n \in notes : Covers({n}, amount)}}

\* One note that suffices, the largest; else the smallest notes that do.
selectNotes(notes, amount) ==
    LET single == {s \in Descending(notes) :
                     s # <<>> /\ Covers({s[1]}, amount)}
    IN  IF single # {} THEN {<<s[1]>> : s \in single}
        ELSE UNION {FirstCovering(s, amount) : s \in Ascending(notes)}

\* prepare_spend: the largest outputs, until they suffice.
selectOutputs(outputs, amount) ==
    UNION {FirstCovering(s, amount) : s \in Descending(outputs)}

Select(p, amount) ==
    IF coin = "zcash" THEN selectNotes(UnspentNotes(p), amount)
                      ELSE selectOutputs(UnspentOutputs(p), amount)

(***************************************************************************)
(* Steps.                                                                  *)
(***************************************************************************)
Resting == {"idle", "done", "failed"}

NoSpend == [number |-> 0, signers |-> {}, coordinator |-> None, amount |-> 0,
            inputs |-> <<>>, short |-> FALSE, signed |-> FALSE, told |-> FALSE, closed |-> {}]

Init ==
    /\ coin \in Coin
    /\ disk = [p \in Party |-> [f \in File |-> IF f = "spent" THEN NoRecord ELSE Absent]]
    /\ pc = [p \in Party |-> "idle"]
    /\ todo = [p \in Party |-> <<>>]
    /\ writing = [p \in Party |-> <<>>]
    /\ ceremony = 0
    /\ sess = NoSpend
    /\ owned = [o \in Output |-> 0]
    /\ pool = {} /\ mined = {} /\ sent = {}
    /\ stored = [p \in Party |-> 0]
    /\ noted = [p \in Party |-> {}]
    /\ torn = [p \in Party |-> {}]
    /\ faults = 0

Goto(p, label) == pc' = [pc EXCEPT ![p] = label]

\* Every party has finished the ceremony and holds its result in memory.
Ceremony(files) ==
    /\ ceremony < MaxCeremonies
    /\ \A p \in Party : pc[p] \in Resting
    /\ ceremony' = ceremony + 1
    /\ pc' = [p \in Party |-> "save"]
    /\ todo' = [p \in Party |-> [i \in 1 .. Len(files) |-> <<files[i], ceremony + 1>>]]
    /\ sess' = [NoSpend EXCEPT !.number = sess.number]
    /\ UNCHANGED <<coin, disk, writing, chain, stored, noted, torn, faults>>

runKeygen == Ceremony(KeygenFiles)
runKeyImport == Ceremony(ImportFiles)

Content(p, entry) == IF entry[1] = "spent" THEN SaveSpent(p, entry[2]) ELSE entry[2]

\* WriteFile: os.WriteFile opens the file and truncates it.
BeginWrite(p) ==
    /\ todo[p] # <<>>
    /\ writing[p] = <<>>
    /\ LET file == Head(todo[p])[1]
           content == Content(p, Head(todo[p]))
       IN  /\ writing' = [writing EXCEPT ![p] = <<content>>]
           /\ \E left \in Cut(p, file, content) : disk' = [disk EXCEPT ![p][file] = left]
    /\ UNCHANGED <<coin, pc, todo, ceremony, sess, chain, stored, noted, torn, faults>>

EndWrite(p) ==
    /\ writing[p] # <<>>
    /\ LET file == Head(todo[p])[1]
           content == writing[p][1]
       IN  /\ disk' = [disk EXCEPT ![p][file] = content]
           /\ stored' = IF Tail(todo[p]) = <<>> /\ pc[p] = "save"
                        THEN [stored EXCEPT ![p] = content] ELSE stored
           /\ noted' = IF file = "spent"
                       THEN [noted EXCEPT ![p] = @ \cup Range(Head(todo[p])[2])] ELSE noted
    /\ writing' = [writing EXCEPT ![p] = <<>>]
    /\ todo' = [todo EXCEPT ![p] = Tail(@)]
    /\ UNCHANGED <<coin, pc, ceremony, sess, chain, torn, faults>>

\* Stopping now leaves the file that is being written torn.
Tears(p) ==
    IF writing[p] = <<>> THEN torn
    ELSE [torn EXCEPT ![p] = @ \cup {Head(todo[p])[1]}]

\* WriteFile fails, before it opens the file or while it writes: a save of keys
\* returns the error, the record of spent outputs only logs it.
FailWrite(p) ==
    /\ faults < MaxFaults
    /\ todo[p] # <<>>
    /\ faults' = faults + 1
    /\ torn' = Tears(p)
    /\ writing' = [writing EXCEPT ![p] = <<>>]
    /\ IF pc[p] = "save"
       THEN Goto(p, "failed") /\ todo' = [todo EXCEPT ![p] = <<>>]
       ELSE todo' = [todo EXCEPT ![p] = Tail(@)] /\ UNCHANGED pc
    /\ UNCHANGED <<coin, disk, ceremony, sess, chain, stored, noted>>

\* The process stops, and is started again for the next operation.
Crash(p) ==
    /\ faults < MaxFaults
    /\ pc[p] \notin Resting
    /\ faults' = faults + 1
    /\ torn' = Tears(p)
    /\ Goto(p, "failed")
    /\ todo' = [todo EXCEPT ![p] = <<>>]
    /\ writing' = [writing EXCEPT ![p] = <<>>]
    /\ UNCHANGED <<coin, disk, ceremony, sess, chain, stored, noted>>

\* The save is complete.  Only now an import of Zcash compares the address with
\* the expected one, and CompleteTSS is called: an error of either is returned,
\* and the files stay.
Saved(p) ==
    /\ pc[p] = "save" /\ todo[p] = <<>>
    /\ Goto(p, "done") \/ Goto(p, "failed")
    /\ UNCHANGED <<coin, disk, todo, writing, ceremony, sess, chain, stored, noted, torn, faults>>

Coordinators(S) == IF coin = "zcash" THEN {Min(S)} ELSE S

\* A spend is started at its signers: each loads its keys first, and returns
\* when it cannot.
runSpend ==
    /\ sess.number < MaxSpends
    /\ \A p \in Party : pc[p] \in Resting
    /\ \E S \in kSubset(MinSigners, Party), amount \in Amount : \E c \in Coordinators(S) :
         /\ sess' = [NoSpend EXCEPT !.number = sess.number + 1, !.signers = S,
                                    !.coordinator = c, !.amount = amount]
         /\ pc' = [p \in Party |-> IF p \notin S THEN "idle"
                                   ELSE IF ~Loads(p) THEN "failed"
                                   ELSE IF p = c THEN "prepare" ELSE "sign"]
    /\ UNCHANGED <<coin, disk, todo, writing, ceremony, chain, stored, noted, torn, faults>>

\* The coordinator scans, selects, builds and sends the transaction, or ends
\* with "insufficient funds".
Prepare(p) ==
    /\ pc[p] = "prepare"
    /\ LET choices == Select(p, sess.amount)
       IN  \/ \E inputs \in choices :
                sess' = [sess EXCEPT !.inputs = inputs] /\ Goto(p, "sign")
           \/ choices = {} /\ sess' = [sess EXCEPT !.short = TRUE] /\ Goto(p, "failed")
    /\ UNCHANGED <<coin, disk, todo, writing, ceremony, chain, stored, noted, torn, faults>>

\* All signers take part in every round; the rounds succeed when their shares
\* belong to one key.
Sign ==
    /\ sess.inputs # <<>> /\ ~sess.signed
    /\ \A p \in sess.signers : pc[p] = "sign"
    /\ Cardinality(UNION {Loaded(p) : p \in sess.signers}) = 1
    /\ sess' = [sess EXCEPT !.signed = TRUE]
    /\ pc' = [p \in Party |-> IF p = sess.coordinator THEN "broadcast"
                              ELSE IF p \in sess.signers THEN "wait" ELSE pc[p]]
    /\ UNCHANGED <<coin, disk, todo, writing, ceremony, chain, stored, noted, torn, faults>>

\* An error of the relay, a round or the context: the program returns it.
Fail(p) ==
    /\ pc[p] \in {"prepare", "sign", "broadcast", "wait", "close"}
    /\ Goto(p, "failed")
    /\ UNCHANGED <<coin, disk, todo, writing, ceremony, sess, chain, stored, noted, torn, faults>>

\* Zcash marks the notes one file write after the other, Monero appends all.
RecordEntries(inputs) ==
    IF coin = "zcash" THEN [i \in 1 .. Len(inputs) |-> <<"spent", <<inputs[i]>>>>]
                      ELSE <<<<"spent", inputs>>>>

\* Mutant: the outputs are recorded before the answer is looked at.
BroadcastRecordsFirst(p) ==
    /\ pc[p] = "broadcast"
    /\ LET inputs == Range(sess.inputs)
           fresh == inputs \cap sent = {} /\ Pays(inputs, sess.amount)
       IN  /\ \E arrives \in {fresh, FALSE} :
                /\ pool' = IF arrives THEN pool \cup {inputs} ELSE pool
                /\ sent' = IF arrives THEN sent \cup inputs ELSE sent
           /\ Goto(p, "record")
           /\ todo' = [todo EXCEPT ![p] = RecordEntries(sess.inputs)]
    /\ UNCHANGED <<coin, disk, writing, ceremony, sess, owned, mined, stored, noted, torn, faults>>

\* The network accepts a transaction that balances and spends nothing twice.  The request
\* or its answer may be lost; the coordinator records the outputs when it reads an OK.
\* Monero has sent them to the other parties before, unless that failed.
Broadcast(p) ==
    /\ pc[p] = "broadcast"
    /\ LET inputs == Range(sess.inputs)
           fresh == inputs \cap sent = {} /\ Pays(inputs, sess.amount)
       IN  \E arrives \in {fresh, FALSE} :
           /\ pool' = IF arrives THEN pool \cup {inputs} ELSE pool
           /\ sent' = IF arrives THEN sent \cup inputs ELSE sent
           /\ \/ /\ arrives
                 /\ Goto(p, "record")
                 /\ todo' = [todo EXCEPT ![p] = RecordEntries(sess.inputs)]
                 /\ \E told \in BOOLEAN :
                      sess' = [sess EXCEPT !.told = told /\ coin = "monero"]
              \/ Goto(p, "failed") /\ UNCHANGED <<todo, sess>>
    /\ UNCHANGED <<coin, disk, writing, ceremony, owned, mined, stored, noted, torn, faults>>

\* The spend-done barrier counts a party from the moment it signs up.
AtBarrier(p) == [sess EXCEPT !.closed = @ \cup {p}]

\* A signer of a Monero spend saves the offsets the coordinator sent; one that
\* fails to receive them logs it and goes on.
ReceiveOffsets(p) ==
    /\ coin = "monero" /\ pc[p] = "wait"
    /\ \/ /\ sess.told
          /\ Goto(p, "record")
          /\ todo' = [todo EXCEPT ![p] = RecordEntries(sess.inputs)]
          /\ UNCHANGED sess
       \/ Goto(p, "close") /\ UNCHANGED todo /\ sess' = AtBarrier(p)
    /\ UNCHANGED <<coin, disk, writing, ceremony, chain, stored, noted, torn, faults>>

\* The writes are through: Monero goes to the spend-done barrier, the Zcash
\* coordinator sends spend-broadcast-done.
Recorded(p) ==
    /\ pc[p] = "record" /\ todo[p] = <<>>
    /\ Goto(p, "close")
    /\ sess' = IF coin = "zcash" THEN [sess EXCEPT !.told = TRUE] ELSE AtBarrier(p)
    /\ UNCHANGED <<coin, disk, todo, writing, ceremony, chain, stored, noted, torn, faults>>

\* Mutant: a Zcash signer does not wait for the coordinator.
FinishUntold(p) ==
    /\ IF coin = "zcash"
       THEN pc[p] \in {"close", "wait"}
       ELSE pc[p] = "close" /\ sess.closed = sess.signers
    /\ Goto(p, "done")
    /\ UNCHANGED <<coin, disk, todo, writing, ceremony, sess, chain, stored, noted, torn, faults>>

\* The program returns without an error: Monero past the barrier of all
\* signers, Zcash when the coordinator's message is there.
Finish(p) ==
    /\ IF coin = "zcash"
       THEN pc[p] = "close" \/ (pc[p] = "wait" /\ sess.told)
       ELSE pc[p] = "close" /\ sess.closed = sess.signers
    /\ Goto(p, "done")
    /\ UNCHANGED <<coin, disk, todo, writing, ceremony, sess, chain, stored, noted, torn, faults>>

\* The chain (external): an output becomes visible to the vault, a transaction
\* of the pool gets into a block.
Receive(o) ==
    /\ owned[o] = 0
    /\ \E c \in 1 .. ceremony : owned' = [owned EXCEPT ![o] = c]
    /\ UNCHANGED <<coin, disk, pc, todo, writing, ceremony, sess, pool, mined, sent,
                   stored, noted, torn, faults>>

Mine(tx) ==
    /\ pool' = pool \ {tx}
    /\ mined' = mined \cup tx
    /\ UNCHANGED <<coin, disk, pc, todo, writing, ceremony, sess, owned, sent, stored,
                   noted, torn, faults>>

Next ==
    \/ runKeygen \/ runKeyImport \/ runSpend \/ Sign
    \/ \E p \in Party : BeginWrite(p) \/ EndWrite(p) \/ FailWrite(p) \/ Crash(p)
    \/ \E p \in Party : Saved(p) \/ Prepare(p) \/ Fail(p) \/ Broadcast(p)
    \/ \E p \in Party : ReceiveOffsets(p) \/ Recorded(p) \/ Finish(p)
    \/ \E o \in Output : Receive(o)
    \/ \E tx \in pool : Mine(tx)

Spec == Init /\ [][Next]_vars

(***************************************************************************)
(* Properties.                                                             *)
(***************************************************************************)

\* Wherever a save was interrupted, the key package, public key package and
\* sapling extras that a spend loads belong to one ceremony: the order of the
\* four writes and the preference for the bundle see to that.
KeysOfOneCeremony == \A p \in Party : Loads(p) => Cardinality(Loaded(p)) = 1

\* A party that has saved a ceremony to the end loads it, or a later one, until
\* the writing of a bundle or key share is cut short.  The exception is a
\* Monero import into a session that has a bundle: the bundle keeps winning.
LatestLoads ==
    \A p \in Party :
        /\ stored[p] > 0 /\ pc[p] # "save"
        /\ torn[p] \cap {"bundle", "key_share"} = {}
        => /\ Loads(p)
           /\ \/ \A c \in Loaded(p) : c >= stored[p]
              \/ coin = "monero" /\ Loaded(p) = {disk[p]["bundle"]}

\* No party ever records an output as spent that no accepted transaction
\* spends: a rejected, failed or abandoned spend leaves every record alone,
\* and so does a torn record.
RecordIsSpent ==
    \A p \in Party : Range(LoadSpent(p).list) \subseteq sent

\* A spend whose program returns without an error at any signer has been
\* accepted by the network: the others learn the outcome from the coordinator.
SuccessIsBroadcast ==
    \A p \in sess.signers : pc[p] = "done" => sess.inputs # <<>> /\ Range(sess.inputs) \subseteq sent

\* Each output is selected once, and together they pay the amount and the fee of that
\* many inputs, unless amount and fee exceed what 64 bits hold: the sum wraps, and
\* almost any output is taken for enough.
SelectionPays ==
    sess.inputs # <<>> =>
        LET S == Range(sess.inputs) IN
        /\ IsInjective(sess.inputs)
        /\ Need(S, sess.amount) < Wrap => Pays(S, sess.amount)

\* A Monero coordinator never selects an output whose spending it has recorded,
\* in whichever role and however many spends ago, unless the writing of its
\* record was once cut short.
NeverReselects ==
    [][LET c == sess.coordinator
       IN  /\ coin = "monero" /\ sess.inputs = <<>> /\ sess'.inputs # <<>>
           /\ "spent" \notin torn[c]
           => Range(sess'.inputs) \cap noted[c] = {}]_vars

\* The coordinator gives up for lack of funds only when no choice of the
\* outputs it sees pays the amount and the fee.  This supposes that all of them
\* together are worth less than 64 bits hold and, for Zcash, that no note is worth
\* less than the fee its own spending adds.
NoFalseShortage ==
    [][LET c == sess.coordinator
           dust == coin = "zcash" /\ \E o \in Available(c) : Value[o] < BaseFee
       IN  ~sess.short /\ sess'.short /\ ~dust /\ Total(Available(c)) < Wrap =>
             \A S \in SUBSET Available(c) : S # {} => ~Pays(S, sess.amount)]_vars
=============================================================================
