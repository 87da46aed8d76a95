------------------------------- MODULE Rounds --------------------------------
(***************************************************************************)
(* The ceremonies the Go clients run as explicit rounds over the relay: key *)
(* import, signing and spending of both coins.  A program is a script of    *)
(* messages sent, barriers, and loops that collect the messages of a round; *)
(* the replay check of the relay client stands behind every message that is *)
(* read.  A program may stop, and be started again in the same session.     *)
(*                                                                         *)
(* The relay (external) keeps what was posted and lists all of it at every  *)
(* poll; a barrier keeps the names that were posted to it.                  *)
(***************************************************************************)
EXTENDS Integers, Sequences, FiniteSets, SequencesExt, FiniteSetsExt

CONSTANTS
    Party,       \* the parties of the ceremony, in the order of their names
    Kind,        \* the ceremonies that are run
    Inputs,      \* the notes a Zcash spend signs for, one after the other
    MaxStops     \* bound: programs that stop or are started again

ASSUME RoundsAssumption ==
    /\ Party \subseteq Nat /\ IsFiniteSet(Party) /\ \E p, q \in Party : p # q
    /\ Kind \subseteq {"froztImport", "fromtImport", "froztSign", "fromtSign",
                       "froztSpend", "fromtSpend"}
    /\ Inputs \in Nat /\ MaxStops \in Nat

VARIABLES
    kind,     \* the ceremony
    lead,     \* the coordinator, or the party with the seed of a Monero import
    pc,       \* per party: the next step of its script
    why,      \* per party: why its program returned an error, or "none"
    run,      \* per party: how often its program was started
    seq,      \* per party: the messages its relay client has sent
    seen,     \* per party: seenSeqs, the senders and numbers it has accepted
    view,     \* per party: the messages it has read
    relay,    \* the messages on the relay
    barrier,  \* per phase: the parties that are ready
    stops,    \* stops and restarts so far
    late      \* history: a party was restarted that had been ready for round 2

vars == <<kind, lead, pc, why, run, seq, seen, view, relay, barrier, stops, late>>

(***************************************************************************)
(* Scripts.                                                                *)
(***************************************************************************)

\* SendMessage, one POST for all recipients; `of' names the messages that the
\* content is computed from.
Send(id, to, of) == [op |-> "send", id |-> id, to |-> to, of |-> of, n |-> 0]
WaitForBarrier(id) == [op |-> "barrier", id |-> id, to |-> {}, of |-> id, n |-> 0]
CollectMessages(id, n) == [op |-> "collect", id |-> id, to |-> {}, of |-> id, n |-> n]
WaitForMessage(id) == [op |-> "wait", id |-> id, to |-> {}, of |-> id, n |-> 1]

\* A call of the library that refuses what does not fit together.
Verify(what, id) == [op |-> what, id |-> id, to |-> {}, of |-> id, n |-> 0]

Id(name) == <<name, 0>>

OtherParties(p) == Party \ {p}

Others == Cardinality(Party) - 1

\* The other parties in the order of their names.
Rank(p, q) == Cardinality({r \in OtherParties(p) : r <= q})

\* sendPerRecipient: one POST for each recipient.
sendPerRecipient(p, id, of) ==
    [i \in 1 .. Others |-> Send(id, {q \in OtherParties(p) : Rank(p, q) = i}, of)]

\* One party sends, the others take the one message.
Exchange(p, id) ==
    IF p = lead THEN <<Send(id, OtherParties(p), id)>> ELSE <<CollectMessages(id, 1)>>

Announce(p, id) ==
    IF p = lead THEN <<Send(id, OtherParties(p), id)>> ELSE <<WaitForMessage(id)>>

\* Mutant: the barrier is left out.
BroadcastsNoBarrier(p, id, of) ==
    <<Send(id, OtherParties(p), of), CollectMessages(id, Others)>>

\* A round of broadcasts: everybody sends, is ready, and collects.
Broadcasts(p, id, of) ==
    <<Send(id, OtherParties(p), of), WaitForBarrier(id), CollectMessages(id, Others)>>

DkgRounds(p) ==
    Broadcasts(p, Id("round1"), Id("round1"))
    \o sendPerRecipient(p, Id("round2"), Id("round1"))
    \o <<WaitForBarrier(Id("round2")), CollectMessages(Id("round2"), Others)>>

\* exchangeImportMetadata and verifyMetadataConsistency.
ImportMetadata(p) ==
    Exchange(p, Id("metadata")) \o Broadcasts(p, Id("metadata-hash"), Id("metadata"))
    \o <<Verify("hashes", Id("metadata-hash"))>>

FroztImport(p) ==
    DkgRounds(p) \o Exchange(p, Id("expected-vk")) \o <<Verify("part3", Id("round2"))>>
    \o ImportMetadata(p)

FromtImport(p) ==
    Announce(p, Id("expected-vk")) \o <<WaitForBarrier(Id("vk-exchanged"))>>
    \o DkgRounds(p) \o <<Verify("part3", Id("round2"))>>

\* The rounds of one signature: only the coordinator collects shares, and
\* nothing but its polling tells it that they are there.
SignRounds(p, i) ==
    Broadcasts(p, <<"commit", i>>, <<"commit", i>>)
    \o IF p = lead
       THEN <<Send(<<"package", i>>, OtherParties(p), <<"commit", i>>),
              CollectMessages(<<"share", i>>, Others),
              Verify("aggregate", <<"share", i>>),
              Send(<<"result", i>>, OtherParties(p), <<"share", i>>)>>
       ELSE <<WaitForMessage(<<"package", i>>),
              Verify("sign", <<"package", i>>),
              Send(<<"share", i>>, {lead}, <<"package", i>>),
              WaitForMessage(<<"result", i>>)>>

FroztSign(p) == SignRounds(p, 0)

\* Mutant: the coordinator returns without the last barrier.
FromtSignNoBarrier(p) ==
    SignRounds(p, 0) \o IF p = lead THEN <<>> ELSE <<WaitForBarrier(Id("sign-done"))>>

FromtSign(p) == SignRounds(p, 0) \o <<WaitForBarrier(Id("sign-done"))>>

\* The signatures of the inputs one after the other, under ids of their own.
FroztSpend(p) ==
    Announce(p, Id("sighash"))
    \o FlattenSeq([i \in 1 .. Inputs |-> SignRounds(p, i)])
    \o Announce(p, Id("broadcast-done"))

FromtSpend(p) ==
    Announce(p, Id("signable-tx")) \o <<WaitForBarrier(Id("tx-exchanged"))>>
    \o Broadcasts(p, Id("preprocess"), Id("preprocess"))
    \o Broadcasts(p, Id("share"), Id("preprocess"))
    \o <<Verify("complete", Id("share"))>>
    \o Announce(p, Id("offsets")) \o <<WaitForBarrier(Id("spend-done"))>>

Script(p) ==
    CASE kind = "froztImport" -> FroztImport(p)
      [] kind = "fromtImport" -> FromtImport(p)
      [] kind = "froztSign" -> FroztSign(p)
      [] kind = "fromtSign" -> FromtSign(p)
      [] kind = "froztSpend" -> FroztSpend(p)
      [] kind = "fromtSpend" -> FromtSpend(p)

(***************************************************************************)
(* State.                                                                  *)
(***************************************************************************)

Done(p) == pc[p] > Len(Script(p))
Step(p) == Script(p)[pc[p]]
Running(p) == why[p] = "none" /\ ~Done(p)

\* The messages of one round that a party has read, with the run of the sender.
Read(p, id) == {m \in view[p] : m.id = id}
Heads(p, id) == {<<m.from, m.run>> : m \in Read(p, id)}
Self(p) == <<p, run[p]>>

Init ==
    /\ kind \in Kind
    /\ lead \in IF kind \in {"fromtImport", "fromtSpend"} THEN Party ELSE {Min(Party)}
    /\ pc = [p \in Party |-> 1]
    /\ why = [p \in Party |-> "none"]
    /\ run = [p \in Party |-> 1]
    /\ seq = [p \in Party |-> 0]
    /\ seen = [p \in Party |-> {}]
    /\ view = [p \in Party |-> {}]
    /\ relay = {}
    /\ barrier = {}
    /\ stops = 0
    /\ late = FALSE

Advance(p) == pc' = [pc EXCEPT ![p] = @ + 1] /\ UNCHANGED why
Return(p, error) == why' = [why EXCEPT ![p] = error] /\ UNCHANGED pc

(***************************************************************************)
(* Steps of the programs.                                                  *)
(***************************************************************************)

SendMessage(p) ==
    /\ Running(p) /\ Step(p).op = "send"
    /\ seq' = [seq EXCEPT ![p] = @ + 1]
    /\ relay' = relay \cup {[id |-> Step(p).id, from |-> p, to |-> Step(p).to,
                             seq |-> seq[p] + 1, run |-> run[p],
                             on |-> Heads(p, Step(p).of) \cup {Self(p)}]}
    /\ Advance(p)
    /\ UNCHANGED <<kind, lead, run, seen, view, barrier, stops, late>>

PostBarrier(p) ==
    /\ Running(p) /\ Step(p).op = "barrier"
    /\ <<Step(p).id, p>> \notin barrier
    /\ barrier' = barrier \cup {<<Step(p).id, p>>}
    /\ UNCHANGED <<kind, lead, pc, why, run, seq, seen, view, relay, stops, late>>

Ready(id) == {p \in Party : <<id, p>> \in barrier}

GetBarrier(p) ==
    /\ Running(p) /\ Step(p).op = "barrier"
    /\ p \in Ready(Step(p).id)
    /\ Cardinality(Ready(Step(p).id)) >= Cardinality(Party)
    /\ Advance(p)
    /\ UNCHANGED <<kind, lead, run, seq, seen, view, relay, barrier, stops, late>>

\* GetMessages: everything posted under the id for this party.
Listed(p) == {m \in relay : m.id = Step(p).id /\ p \in m.to}

\* DecryptAndVerify refuses a number it has accepted from that sender before.
Replayed(p, msgs) ==
    \/ \E m \in msgs : <<m.from, m.seq>> \in seen[p]
    \/ \E m, n \in msgs : m # n /\ m.from = n.from /\ m.seq = n.seq

Accept(p, msgs) ==
    /\ seen' = [seen EXCEPT ![p] = @ \cup {<<m.from, m.seq>> : m \in msgs}]
    /\ view' = [view EXCEPT ![p] = @ \cup
                  {[id |-> m.id, from |-> m.from, run |-> m.run, on |-> m.on] :
                     m \in {x \in msgs : ~\E y \in msgs : y.from = x.from /\ y.run < x.run}}]

\* Mutant: the loop ends one message early.
EnoughOffByOne(p, msgs) == Cardinality({m.from : m \in msgs}) >= Step(p).n - 1

Enough(p, msgs) == Cardinality({m.from : m \in msgs}) >= Step(p).n

\* One poll of CollectMessages, collectCommitments or collectSignShares.  Every
\* listed message is decrypted again, so that a poll which found a part of the
\* messages is followed by one that fails.
Collect(p) ==
    /\ Running(p) /\ Step(p).op = "collect"
    /\ Listed(p) # {}
    /\ IF Replayed(p, Listed(p))
       THEN Return(p, "replay") /\ UNCHANGED <<seen, view>>
       ELSE /\ Accept(p, Listed(p))
            /\ IF Enough(p, Listed(p)) THEN Advance(p) ELSE UNCHANGED <<pc, why>>
    /\ UNCHANGED <<kind, lead, run, seq, relay, barrier, stops, late>>

\* WaitForMessage and the loops like it take the first message that is listed.
TakeFirst(p) ==
    /\ Running(p) /\ Step(p).op = "wait"
    /\ \E m \in Listed(p) :
         /\ \A n \in Listed(p) : m.run <= n.run
         /\ IF Replayed(p, {m})
            THEN Return(p, "replay") /\ UNCHANGED <<seen, view>>
            ELSE Accept(p, {m}) /\ Advance(p)
    /\ UNCHANGED <<kind, lead, run, seq, relay, barrier, stops, late>>

\* Mutant: nothing is checked.
FitsAlways(p) == TRUE

\* What the library checks (external: the algebra of it): a round-2 share
\* against the round-1 package of its sender; a package against the nonces of
\* the signer; a share against the package it was made for; the shares of a
\* Monero transaction against the preprocesses of all; the hashes of metadata
\* against the own one, which depends on the seed and not on the run.
Fits(p) ==
    CASE Step(p).op = "part3" ->
           Heads(p, Id("round2")) = Heads(p, Id("round1"))
      [] Step(p).op = "sign" ->
           \A m \in Read(p, Step(p).id) : Self(p) \in m.on
      [] Step(p).op = "aggregate" ->
           \A m \in Read(p, Step(p).id) : Self(p) \in m.on
      [] Step(p).op = "hashes" ->
           \A m \in Read(p, Step(p).id) : lead \in {h[1] : h \in m.on}
      [] Step(p).op = "complete" ->
           \A m \in Read(p, Step(p).id) : m.on = Heads(p, Id("preprocess")) \cup {Self(p)}

Check(p) ==
    /\ Running(p) /\ Step(p).op \in {"part3", "hashes", "sign", "aggregate", "complete"}
    /\ IF Fits(p) THEN Advance(p) ELSE Return(p, "check")
    /\ UNCHANGED <<kind, lead, run, seq, seen, view, relay, barrier, stops, late>>

\* A request fails, or the process dies.
Stop(p) ==
    /\ stops < MaxStops
    /\ Running(p)
    /\ Return(p, "stop")
    /\ stops' = stops + 1
    /\ UNCHANGED <<kind, lead, run, seq, seen, view, relay, barrier, late>>

\* The program is started again with the same session: a new relay client
\* counts from zero and has seen nothing, the relay has forgotten nothing.
Restart(p) ==
    /\ stops < MaxStops
    /\ ~Done(p)
    /\ stops' = stops + 1
    /\ run' = [run EXCEPT ![p] = @ + 1]
    /\ pc' = [pc EXCEPT ![p] = 1]
    /\ why' = [why EXCEPT ![p] = "none"]
    /\ seq' = [seq EXCEPT ![p] = 0]
    /\ seen' = [seen EXCEPT ![p] = {}]
    /\ view' = [view EXCEPT ![p] = {}]
    /\ late' = (late \/ p \in Ready(Id("round2")))
    /\ UNCHANGED <<kind, lead, relay, barrier>>

Next == \E p \in Party :
    \/ SendMessage(p) \/ PostBarrier(p) \/ GetBarrier(p)
    \/ Collect(p) \/ TakeFirst(p) \/ Check(p)
    \/ Stop(p) \/ Restart(p)

Spec == Init /\ [][Next]_vars

(***************************************************************************)
(* Properties.                                                             *)
(***************************************************************************)

\* While no program stops or is restarted, the replay check and the checks of
\* the library fail nobody.  The one exception is the collection of signature
\* shares by a coordinator with two or more of them to come, which no barrier
\* precedes: it may find one share, poll again, and take it for a replay.
BarriersPreventReplays ==
    stops = 0 => \A p \in Party :
        \/ why[p] = "none"
        \/ why[p] = "replay" /\ Others > 1 /\ kind # "fromtSpend" /\ Step(p).id[1] = "share"

\* Any T signers produce a signature: while no program stops or is restarted, no
\* program fails.
SignersSucceed == stops = 0 => \A p \in Party : why[p] = "none"

\* A collection that ended, ended with a message of every other party, however
\* often a party was restarted; a loop for one message has it from the leader.
EveryPeerCollected ==
    \A p \in Party : \A i \in 1 .. pc[p] - 1 :
        LET s == Script(p)[i]
        IN  s.op = "collect" =>
              {m.from : m \in Read(p, s.id)} =
                IF s.id[1] \in {"expected-vk", "metadata"} THEN {lead} ELSE OtherParties(p)

\* While no program stops or fails, some program can go on until all are done:
\* what the scripts wait for is what the others send.
CanGoOn(p) ==
    /\ Running(p)
    /\ CASE Step(p).op = "barrier" -> p \notin Ready(Step(p).id) \/ Ready(Step(p).id) = Party
         [] Step(p).op \in {"collect", "wait"} -> Listed(p) # {}
         [] OTHER -> TRUE

ScriptsMatch ==
    stops = 0 /\ (\A p \in Party : why[p] = "none") =>
        (\A p \in Party : Done(p)) \/ \E p \in Party : CanGoOn(p)

\* Two parties that complete an import have built their shares from the same
\* round-1 packages, although a party was restarted with new ones: numbers
\* that count from zero again and the check of the round-2 shares see to it.
\* The exception is a restart of a party that had already been ready for round
\* 2: its peers may complete with the packages of its first run, and it with
\* those of its second.
SharesAgree ==
    kind \in {"froztImport", "fromtImport"} /\ ~late =>
        \A p, q \in {r \in Party : why[r] = "none" /\ Done(r)} :
            Heads(p, Id("round1")) \cup {Self(p)} = Heads(q, Id("round1")) \cup {Self(q)}
=============================================================================
