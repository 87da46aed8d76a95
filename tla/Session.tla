------------------------------- MODULE Session -------------------------------
(***************************************************************************)
(* A ceremony run as a session: N parties, each with the Rust state        *)
(* machine Protocol (frost-session/src/session.rs) driven by the Go loop   *)
(* RunSession (client/shared/session/runner.go), exchanging messages       *)
(* through the relay.                                                      *)
(*                                                                         *)
(* The relay keeps one list of messages per party and never forgets one;   *)
(* RunSession sends a broadcast as one POST per recipient, so other        *)
(* parties run between two POSTs of one broadcast.                         *)
(***************************************************************************)
EXTENDS Ceremonies, FiniteSets

CONSTANTS
    Running,     \* the ceremonies a behaviour may run
    Faulty,      \* parties that may send something else than the protocol's data
    Corrupted,   \* the kinds of message in which they may do so
    Misled,      \* the parties they may do it to
    MaxDups,     \* how many messages the relay lists twice
    MaxDrops,    \* how many messages the relay loses
    MayFail      \* may a context expire or a request of RunSession fail?

ASSUME SessionAssumption ==
    /\ Running \subseteq CeremonyName
    /\ Faulty \subseteq Party
    /\ Corrupted \subseteq Kind
    /\ Misled \subseteq Party
    /\ MaxDups \in Nat
    /\ MaxDrops \in Nat
    /\ MayFail \in BOOLEAN

Others(p) == Party \ {p}

\* setup.other_party_ids(p): the k-th recipient of a broadcast of p, and the
\* k-th key of a map of round-2 packages.
Recipient(p, k) == IF k < p THEN k ELSE k + 1

Val == {"none", "term", "off", "invalid", "other", "blob", "blob2", "right", "wrong", "ok"}

Envelope == [to : Party, kind : Kind, val : Val]
Message == [from : Party, seq : Nat, kind : Kind, val : Val]
Heard == [from : Party, kind : Kind, val : Val]

VARIABLES
    ceremony,   \* which ceremony this session runs
    round,      \* the round of its script a party's task is suspended in
    count,      \* iterations done of the receive loop of that round
    heard,      \* the messages a task has accepted (its maps, keyed by sender)
    blob,       \* metadata_blob
    outcome,    \* Protocol::outcome: none, ok or the lib_error
    blamed,     \* LAST_BLAMED_ID, 0 when nobody is blamed
    outbox,     \* what take_msg and msg_receiver hand to RunSession, in order
    pc,         \* where RunSession is
    batch,      \* how many of its messages the last GetMessages returned
    seen,       \* the runner's set of <<from, seq>>
    seq,        \* seqCounter of the relay client
    relay,      \* the relay's list of messages for each party
    dups, drops \* how often the relay misbehaved

task == <<round, count, heard, blob, outcome, blamed>>
vars == <<ceremony, round, count, heard, blob, outcome, blamed, outbox, pc,
          batch, seen, seq, relay, dups, drops>>
-----------------------------------------------------------------------------
(***************************************************************************)
(* The task: one poll of a *_run function.                                 *)
(***************************************************************************)
ScriptOf(p) == Scripts[ceremony][p]
Current(p) == ScriptOf(p)[round[p]]

\* The terms in the round-1 packages p knows, its own included: the group key
\* is their sum, and is the expected one when none of them is off.
KeyIsRight(p, h) ==
    /\ Term(ceremony, p) = "term"
    /\ \A m \in h : m.kind = "r1" => m.val = "term"

\* What p puts in a message of the given kind.
Payload(p, k, h, b) ==
    CASE k = "r1"             -> Term(ceremony, p)
      [] k \in {"meta", "hash"} -> b
      [] k = "vk"             -> IF ceremony = "FroztKeyImport" \/ KeyIsRight(p, h)
                                 THEN "right" ELSE "wrong"
      [] OTHER                -> "ok"

\* ch.broadcast / ch.send_to of the kinds ks, as the POSTs they turn into.
Envelopes(p, ks, h, b) ==
    [j \in 1..(Len(ks) * (N - 1)) |->
        LET k == ks[((j - 1) \div (N - 1)) + 1]
        IN [to |-> Recipient(p, ((j - 1) % (N - 1)) + 1), kind |-> k,
            val |-> Payload(p, k, h, b)]]

\* Is m what the receive loop of the round accepts?
Acceptable(p, m) ==
    /\ m.kind = Current(p).recv
    /\ m.kind = "hash" => m.val = blob[p]
    /\ m.kind = "vk" => m.val = (IF KeyIsRight(p, heard[p]) THEN "right" ELSE "wrong")

\* The commitments and the randomizer a signer was sent that are not the ones
\* their sender uses, and sends to the others.
View(h) == {<<m.kind, m.from>> : m \in {x \in h : x.val = "other"}}

\* Does part2, part3 or aggregate find fault with package m of the map h?  A share is
\* checked against the commitments and the randomizer the verifier holds, and its
\* signer made it for those it holds itself.  A faulty signer may make its share for
\* the ones its recipient holds.
Fails(h, m) ==
    \/ m.kind \in {"r1", "r2", "share"} /\ m.val = "invalid"
    \/ m.kind = "share" /\ m.from \notin Faulty /\ View(heard[m.from]) # View(h)

CulpritsShifted(h, k) == {m.from + 1 : m \in {x \in h : x.kind = k /\ Fails(h, x)}}

\* The parties whose package part2, part3 or aggregate, the check that follows the
\* loop, rejects: frost_err_to_blame names the first culprit.
Culprits(h, k) == {m.from : m \in {x \in h : x.kind = k /\ Fails(h, x)}}
First(S) == CHOOSE q \in S : \A r \in S : q <= r

LoopErrorNoVkCheck(p, h) ==
    IF Culprits(h, Current(p).recv) # {} THEN "LIB_BLAME" ELSE "none"

LoopError(p, h) ==
    LET k == Current(p).recv
    IN IF Culprits(h, k) # {} THEN "LIB_BLAME"
       ELSE IF ceremony = "Reshare" /\ k = "r2" /\ ~KeyIsRight(p, h)
       THEN "LIB_RESHARE_ERROR"
       ELSE "none"

\* BTreeMap::insert: a later message of a sender replaces the earlier one.
Record(h, m) ==
    {x \in h : ~(x.from = m.from /\ x.kind = m.kind)}
        \cup {[from |-> m.from, kind |-> m.kind, val |-> m.val]}

\* The function returns an error for message m.
Reject(p, m) ==
    /\ ~Acceptable(p, m)
    /\ outcome' = [outcome EXCEPT ![p] = Current(p).err]
    /\ UNCHANGED <<round, count, heard, blob, blamed, outbox>>

\* The loop goes round once more.
Collect(p, m) ==
    /\ Acceptable(p, m)
    /\ count[p] + 1 < Current(p).need
    /\ count' = [count EXCEPT ![p] = @ + 1]
    /\ heard' = [heard EXCEPT ![p] = Record(@, m)]
    /\ UNCHANGED <<round, blob, outcome, blamed, outbox>>

\* The last message of a loop, when the cryptographic check after it fails.
FailCheck(p, m) ==
    LET h == Record(heard[p], m)
        e == LoopError(p, h)
    IN /\ Acceptable(p, m)
       /\ count[p] + 1 = Current(p).need
       /\ e # "none"
       /\ heard' = [heard EXCEPT ![p] = h]
       /\ outcome' = [outcome EXCEPT ![p] = e]
       /\ blamed' = IF e = "LIB_BLAME"
                    THEN [blamed EXCEPT ![p] = First(Culprits(h, Current(p).recv))]
                    ELSE blamed
       /\ UNCHANGED <<round, count, blob, outbox>>

\* The last message of a loop: the task sends what the next round starts with
\* and suspends in it, or returns Ok.
Advance(p, m) ==
    LET h == Record(heard[p], m)
        b == IF m.kind = "meta" THEN m.val ELSE blob[p]
        next == ScriptOf(p)[round[p] + 1]
    IN /\ Acceptable(p, m)
       /\ count[p] + 1 = Current(p).need
       /\ LoopError(p, h) = "none"
       /\ heard' = [heard EXCEPT ![p] = h]
       /\ blob' = [blob EXCEPT ![p] = b]
       /\ round' = [round EXCEPT ![p] = @ + 1]
       /\ count' = [count EXCEPT ![p] = 0]
       /\ outbox' = [outbox EXCEPT ![p] = @ \o Envelopes(p, next.send, h, b)]
       /\ outcome' = [outcome EXCEPT ![p] = IF next.need = 0 THEN "ok" ELSE "none"]
       /\ UNCHANGED blamed

\* Protocol::feed.
Feed(p, m) ==
    Reject(p, m) \/ Collect(p, m) \/ FailCheck(p, m) \/ Advance(p, m)
-----------------------------------------------------------------------------
(***************************************************************************)
(* RunSession and the relay.                                               *)
(***************************************************************************)
\* What a faulty party may put in place of a payload: a package that does not
\* verify, another metadata blob (or the hash of another one), or commitments or a
\* randomizer that nothing is wrong with, but which it sends to nobody else.
Sendable(p, e) ==
    IF p \notin Faulty \/ e.kind \notin Corrupted \/ e.to \notin Misled THEN {e.val}
    ELSE {e.val, CASE e.kind \in {"meta", "hash"}      -> "blob2"
                   [] e.kind \in {"commit", "package"} -> "other"
                   [] OTHER                            -> "invalid"}

PostRetries(p) ==
    /\ pc[p] \in {"drain", "final"}
    /\ outbox[p] # <<>>
    /\ LET e == Head(outbox[p])
       IN \E v \in Sendable(p, e) :
            relay' = [relay EXCEPT ![e.to] =
                        Append(@, [from |-> p, seq |-> seq[p] + 1,
                                   kind |-> e.kind, val |-> v])]
    /\ \E retry \in BOOLEAN :
          outbox' = [outbox EXCEPT ![p] = IF retry THEN @ ELSE Tail(@)]
    /\ seq' = [seq EXCEPT ![p] = @ + 1]
    /\ UNCHANGED <<ceremony, task, pc, batch, seen, dups, drops>>

\* One POST of drainOutbox; the relay appends the message to the recipient's list.
Post(p) ==
    /\ pc[p] \in {"drain", "final"}
    /\ outbox[p] # <<>>
    /\ LET e == Head(outbox[p])
       IN \E v \in Sendable(p, e) :
            relay' = [relay EXCEPT ![e.to] =
                        Append(@, [from |-> p, seq |-> seq[p] + 1,
                                   kind |-> e.kind, val |-> v])]
    /\ outbox' = [outbox EXCEPT ![p] = Tail(@)]
    /\ seq' = [seq EXCEPT ![p] = @ + 1]
    /\ UNCHANGED <<ceremony, task, pc, batch, seen, dups, drops>>

\* A POST that the relay answers and then loses.
PostLost(p) ==
    /\ pc[p] \in {"drain", "final"}
    /\ outbox[p] # <<>>
    /\ drops < MaxDrops
    /\ drops' = drops + 1
    /\ outbox' = [outbox EXCEPT ![p] = Tail(@)]
    /\ seq' = [seq EXCEPT ![p] = @ + 1]
    /\ UNCHANGED <<ceremony, task, pc, batch, seen, relay, dups>>

SeenKey(m) == <<m.from, m.seq>>
Unseen(p, n) == {i \in 1..n : SeenKey(relay[p][i]) \notin seen[p]}

GetMessagesAhead(p) ==
    /\ pc[p] = "drain"
    /\ outbox[p] = <<>>
    /\ Unseen(p, Len(relay[p])) # {}
    /\ pc' = [pc EXCEPT ![p] = "feed"]
    /\ batch' = [batch EXCEPT ![p] = Len(relay[p]) + 1]
    /\ UNCHANGED <<ceremony, task, outbox, seen, seq, relay, dups, drops>>

\* drainOutbox found the outbox empty; pollInbox fetches the whole list.
GetMessages(p) ==
    /\ pc[p] = "drain"
    /\ outbox[p] = <<>>
    /\ Unseen(p, Len(relay[p])) # {}
    /\ pc' = [pc EXCEPT ![p] = "feed"]
    /\ batch' = [batch EXCEPT ![p] = Len(relay[p])]
    /\ UNCHANGED <<ceremony, task, outbox, seen, seq, relay, dups, drops>>

\* The list has nothing new: RunSession sleeps and goes round its loop.
PollEmpty(p) ==
    /\ pc[p] = "drain"
    /\ outbox[p] = <<>>
    /\ Unseen(p, Len(relay[p])) = {}
    /\ UNCHANGED vars

\* pollInbox feeds the next message it has not seen; it returns when Feed says the
\* task is done, or at the end of the list it fetched.
FeedNext(p) ==
    /\ pc[p] = "feed"
    /\ LET new == Unseen(p, batch[p])
           m == relay[p][First(new)]
           key == SeenKey(m)
           last == \A j \in new : SeenKey(relay[p][j]) = key
       IN /\ seen' = [seen EXCEPT ![p] = @ \cup {key}]
          /\ Feed(p, m)
          /\ pc' = [pc EXCEPT ![p] = IF outcome'[p] # "none" THEN "final"
                                     ELSE IF last THEN "drain" ELSE "feed"]
          /\ batch' = [batch EXCEPT ![p] = IF pc'[p] = "feed" THEN @ ELSE 0]
    /\ UNCHANGED <<ceremony, seq, relay, dups, drops>>

\* RunSession returns nil after the final drain, whose errors are only logged,
\* and the orchestration asks for the result: an error of the task is returned
\* without a call of handleBlame.
Return(p) ==
    /\ pc[p] = "final"
    /\ outbox[p] = <<>> \/ MayFail
    /\ pc' = [pc EXCEPT ![p] = IF outcome[p] = "ok" THEN "ok" ELSE "error"]
    /\ UNCHANGED <<ceremony, task, outbox, batch, seen, seq, relay, dups, drops>>

\* The context expires or a request fails in the loop: RunSession returns an
\* error and the orchestration calls handleBlame.
RunFails(p) ==
    /\ MayFail
    /\ pc[p] = "drain"
    /\ pc' = [pc EXCEPT ![p] = "blame"]
    /\ UNCHANGED <<ceremony, task, outbox, batch, seen, seq, relay, dups, drops>>

\* The relay lists a message a second time.
Duplicate(p) ==
    /\ dups < MaxDups
    /\ dups' = dups + 1
    /\ \E i \in DOMAIN relay[p] :
          relay' = [relay EXCEPT ![p] = Append(@, @[i])]
    /\ UNCHANGED <<ceremony, task, outbox, pc, batch, seen, seq, drops>>
-----------------------------------------------------------------------------
\* The metadata blob the coordinator of a DKG or a seed holder creates.
OwnBlob(p) ==
    IF \/ ceremony = "FroztDkg" /\ p = Coordinator
       \/ ceremony = "FroztKeyImport" /\ SeedHolder(p)
    THEN "blob" ELSE "none"

Init ==
    /\ ceremony \in Running
    /\ round = [p \in Party |-> 1]
    /\ count = [p \in Party |-> 0]
    /\ heard = [p \in Party |-> {}]
    /\ blob = [p \in Party |-> OwnBlob(p)]
    /\ outcome = [p \in Party |-> "none"]
    /\ blamed = [p \in Party |-> 0]
    /\ outbox = [p \in Party |->
                    Envelopes(p, ScriptOf(p)[1].send, {}, OwnBlob(p))]
    /\ pc = [p \in Party |-> "drain"]
    /\ batch = [p \in Party |-> 0]
    /\ seen = [p \in Party |-> {}]
    /\ seq = [p \in Party |-> 0]
    /\ relay = [p \in Party |-> <<>>]
    /\ dups = 0
    /\ drops = 0

Step(p) ==
    Post(p) \/ GetMessages(p) \/ FeedNext(p) \/ Return(p)

Stopped(p) == pc[p] \in {"ok", "error", "blame"}

\* Every orchestration has returned.
Done == (\A p \in Party : Stopped(p)) /\ UNCHANGED vars

Next ==
    \/ \E p \in Party :
          Step(p) \/ PollEmpty(p) \/ PostLost(p) \/ RunFails(p) \/ Duplicate(p)
    \/ Done

Spec == Init /\ [][Next]_vars

\* Each party's goroutine keeps running.  Nothing makes RunFails happen: the
\* context of a party program is cancelled by a signal and has no deadline.
FairSpec == Spec /\ \A p \in Party : WF_vars(Step(p))
-----------------------------------------------------------------------------
(***************************************************************************)
(* Properties.                                                             *)
(***************************************************************************)
\* The shape of the state of tasks, runners and relay.
TypeOK ==
    /\ ceremony \in Running
    /\ round \in [Party -> Nat \ {0}]
    /\ \A p \in Party : round[p] <= Len(ScriptOf(p))
    /\ count \in [Party -> 0..(N - 1)]
    /\ heard \in [Party -> SUBSET Heard]
    /\ blob \in [Party -> Val]
    /\ outcome \in [Party -> {"none", "ok"} \cup Error]
    /\ blamed \in [Party -> Party \cup {0}]
    /\ outbox \in [Party -> Seq(Envelope)]
    /\ pc \in [Party -> {"drain", "feed", "final", "ok", "error", "blame"}]
    /\ batch \in [Party -> Nat]
    /\ \A p \in Party : batch[p] <= Len(relay[p])
    /\ seen \in [Party -> SUBSET (Party \X Nat)]
    /\ seq \in [Party -> Nat]
    /\ relay \in [Party -> Seq(Message)]
    /\ dups \in 0..MaxDups
    /\ drops \in 0..MaxDrops

\* The receive loops count messages, not senders.  Still, when a loop of N - 1
\* iterations is over it has heard from every other party: nothing is delivered
\* twice (the runner's seen set) and the scripts send a kind once.  A faulty party
\* of the model alters payloads and keeps to its script; one that posted a kind
\* twice, under two numbers, would end a loop early.
Senders(p, k) == {m.from : m \in {x \in heard[p] : x.kind = k}}
EveryPeerHeard ==
    \A p \in Party : \A i \in 1..(round[p] - 1) :
        ScriptOf(p)[i].need = N - 1 => Senders(p, ScriptOf(p)[i].recv) = Others(p)

\* Two parties that follow the protocol and complete a frozt key generation or
\* import hold the same metadata (sapling extras and birthday), even when the
\* party that created it sent different blobs.
MetadataAgreement ==
    \A p, q \in Party \ Faulty :
        outcome[p] = "ok" /\ outcome[q] = "ok" => blob[p] = blob[q]

\* LIB_BLAME identifies the party that misbehaved, with one exception, whatever else
\* faulty parties send and in whichever order messages arrive: it may name a party that
\* follows the protocol where a faulty signer sent that party, or the one that blames
\* it, other commitments or another randomizer than it sent elsewhere.
Equivocated(r) ==
    \E i \in DOMAIN relay[r] :
        /\ relay[r][i].from \in Faulty
        /\ relay[r][i].kind \in {"commit", "package"}
        /\ relay[r][i].val = "other"

BlameNeedsEquivocation ==
    \A p \in Party : blamed[p] # 0 /\ blamed[p] \notin Faulty =>
        Equivocated(p) \/ Equivocated(blamed[p])

\* Nobody waits for a message that nobody is going to send: as long as no message
\* was lost and no party failed, either something can still be sent, fetched or
\* fed, or every party has its result.
Quiet(p) == outbox[p] = <<>> /\ (pc[p] = "ok" \/ Unseen(p, Len(relay[p])) = {})
NoStall ==
    (/\ drops = 0
     /\ \A p \in Party : pc[p] \in {"drain", "feed", "ok"} /\ Quiet(p))
    => \A p \in Party : pc[p] = "ok"

\* A resharing or import that completes has the group key it was to keep.
GroupKeyChecked ==
    \A p \in Party : outcome[p] = "ok" => KeyIsRight(p, heard[p])

\* A session does not fail as long as every party follows the protocol, no request
\* fails and the relay delivers every message in the order it was posted.
NoSpuriousFailure ==
    drops = 0 => \A p \in Party : outcome[p] \in {"none", "ok"}

\* After a ceremony fails, the orchestration calls handleBlame.
FailureReachesBlame == \A p \in Party : pc[p] # "error"

\* Unless a message is lost or a request fails, every party gets its result.
Failure ==
    \/ drops > 0
    \/ \E p \in Party : \/ pc[p] \in {"blame", "error"}
                        \/ pc[p] = "ok" /\ outbox[p] # <<>>
AllSucceed == <>(Failure \/ \A p \in Party : pc[p] = "ok")

\* A context timeout ends the session of a party whose peer never sends a required
\* message: every orchestration returns, with its result or an error.
AllReturn == \A p \in Party : <>Stopped(p)
=============================================================================
