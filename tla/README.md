# Verification of the frost-zm ceremonies

TLA+ models of the threshold-signing stack in this repository (FROST over
RedJubjub for Zcash, "frozt", and over Ed25519 for Monero, "fromt"), checked
with TLC on small instances and, as section 4 lists, proved with TLAPS for every
value of the constants. Paths below are relative to `src/`.

## 1. The system

| Component | State it keeps | Operations | Correct when |
|---|---|---|---|
| Handle table, `crates/frost-ffi/src/handle.rs` | global map id -> object or "in use", counter `LAST` | `allocate`, `get` (guard), `take`, `free`, guard drop, `into_inner` | one owner per object, one-shot objects are used once, entries in use are released, the bound holds, ids survive the wrap |
| Session state machine, `crates/frost-session` | a suspended future, inbox, outbox, outcome | `start`, `feed`, `take_msg`, `result` | a message is consumed by the round it is for; the outcome is final |
| Ceremonies, `crates/frost-ceremony/src/session_*.rs`, `crates/{frozt,fromt}-lib/src/session.rs` | packages per sender, metadata blob | DKG, reshare, key import, sign, key images as `*_run` functions | every peer is heard, metadata and group key agree, failures name the culprit |
| Session runner, `client/shared/session/runner.go` | `seen` set, relay client's sequence counter | `RunSession`: `drainOutbox`, `pollInbox`, result | it delivers each message once, ends, and reports failures |
| Blame, `client/shared/session/blame.go`, `client/shared/orchestration/helpers.go` | own report, collected reports | `HandleBlame`, `ExchangeBlame`, `tallyBlame` | nobody is framed, complete tallies agree, it ends |
| Relay client, `client/shared/relay` | sequence counter, replay set | messages, barriers, registration, encryption | no replays, barriers separate phases |
| Explicit rounds, `client/*/internal/orchestration/{key_import,sign,spend*}.go` | the messages of one round | post, barrier, `CollectMessages`, next round | same as the ceremonies |
| Party programs and keystore, `client/*/internal/{party,store}` | key files, spent notes | run one operation, save, mark spent | what is on disk is one ceremony's result; no note is spent twice |
| FFI surface, `crates/{frozt,fromt}-lib/src`, and browser classes, `crates/*-wasm/src` | handles given out, sessions, secrets between rounds | the parts of every ceremony, sessions, trees, `handle_free` | a secret gives one output, nothing leaks, a refused call has no effect |
| Zcash transaction builders, `crates/frozt-{lib,wasm}/src/{tx,shielding_tx}.rs` | parts, totals, randomizers, the built state | add, build, complete | what is completed is what was signed, balances, and pays a bounded fee |
| Selection and broadcast, `client/frozt/internal/spend`, `crates/fromt-lib/src/monero/spend.rs` | none beyond the keystore | scan, filter, select, fee | the selection pays, spends nothing twice, gives up only when it must |
| Share algebra, `crates/frost-ceremony/src/{reshare,key_import}.rs` | none | Lagrange coefficients, constant terms | shares interpolate to the key |
| Bundle, metadata and vault formats, scanners, TypeScript wrappers | mostly none | parsing, conversion | byte-level agreement with upstream |

How they interact. A Go party program starts one operation per process. For key
generation and resharing it creates a Rust session through the FFI (a handle),
and `RunSession` moves messages between that session and the relay, an HTTP
server that keeps a list of messages per recipient. The library offers imports,
signing and key images as sessions too, for any host that drives them the same
way; the Go client itself runs those as explicit rounds. When an orchestration
fails it calls `HandleBlame`, which exchanges reports over the same relay.

What is hard here: FFI calls of several threads on one table; parties that
proceed at their own pace and exchange untagged messages over a store that is
polled, so that rounds of different parties overlap; duplicated and lost
messages; parties that stop; deadlines (blame) and missing deadlines
(sessions); parties that send invalid data; programs that are restarted under the
same session; files saved one after the other; broadcasts whose answer is lost.
PROJECT.json lists these under `hazards` with their lines.

## 2. Modules

`HandleTable` - `hmap`, `last` and the guards held by threads. Each operation
takes the mutex once and is one action; a thread that holds a guard is inside an
FFI call, and others run before it drops it. `fate` records an object's life
(fresh, live, consumed, dropped). `misuse` becomes true when a caller frees a
handle in use, which the code does not prevent: three properties are stated for
callers that do not. The wrapped counter is one value, `MaxId + 2`.

`Ceremonies` - each `*_run` function as a script, one per party: a sequence of
rounds "broadcast these kinds, then await `need` messages of kind `recv`, with
this error otherwise". `Misconfigured` parties have a setup that gives them a
wrong constant term (other old identifiers in a resharing, themselves as a
second seed holder in an import). `Browser` parties run the copies of the scripts
in `frozt-wasm` and `fromt-wasm`, so that mixed ceremonies are checked too.

`Session` - extends `Ceremonies` with the task, the runner and the relay of every
party. The task's step is `Feed` (one poll of the future): `Reject`, `Collect`,
`FailCheck`, or `Advance`. The runner's steps are `Post` (one POST of
`drainOutbox`), `GetMessages`, `FeedNext` (one iteration of `pollInbox`),
`PollEmpty`, `Return` (final drain and the orchestration's call for the result)
and `RunFails`. Payloads are abstracted to what checks tell apart: a package is
valid or not, a constant term right or off, two blobs equal or not. What bytes
deserialize as is the message's `kind`; nothing in a message tells its round.
A signature share is checked against the commitments and the randomizer that the
verifier was sent, and made for those its signer was sent: `View` is what of these
somebody else was not sent, and a share does not verify where two views differ
(`Fails`). External: the relay server (it appends, and `Duplicate`, `PostLost` are its
faults) and the parties that deviate. These keep to their script and alter payloads
(`Sendable`): a package that does not verify, another blob or hash, other commitments,
another randomizer.

`Blame` - `HandleBlame` and `ExchangeBlame` of every party: the report, the post,
the barrier, the polls, the tally, and the deadline at each step. A party that
never enters is absent. A report of an honest party names a faulty one or nobody:
`LAST_BLAMED_ID` is thread-local and a goroutine may read it on another thread. A
party of `Deceived` is honest and may name anybody, since its peers were sent other
data (`BlameNeedsEquivocation` says when). Whatever `DecryptAndVerify` lets through is counted: it
refuses a sequence number it has seen from that sender, and of a message without a
number nothing; nobody looks at `Reporter`. A faulty party may therefore post reports beyond its own
(`PostExtra`), each of which has a vote. `MaxMore` bounds these and the messages the
relay lists twice together.

`Rounds` - the ceremonies the Go clients drive themselves (import, sign and spend
of both coins) as scripts of five kinds of step: `Send` (one POST),
`WaitForBarrier`, `CollectMessages`, `WaitForMessage`, and `Verify`, a call of the
library that refuses what does not fit together. Every poll re-reads the whole list
and runs `DecryptAndVerify` on it, so that the replay set `seen` decides whether a
second poll of the same round fails. `Restart` starts a program again in the same
session: its counter and replay set are new, the relay's messages and barriers are
not. A message carries the runs (of which parties) it was computed from; `Fits` is
the verdict of the library's algebra on those. Blame after a failure is `Blame`.

`Wallet` - what the programs keep between operations, for either coin. A write is
two steps (`os.WriteFile` truncates, then writes), and a crash or an error between
them leaves a torn file: unreadable keys, an empty record, or, for an unencrypted
Monero record, a prefix of its 32-byte entries with or without odd bytes. A spend
loads keys as `runSpend` does, filters and selects (`selectNotes`, `selectOutputs`) by
sums that wrap at `Wrap` (2^64 in the code, which adds without a check),
signs, broadcasts with an answer that may be lost, records, and closes. The chain is
external: outputs arrive, pooled transactions are mined.

`Ffi` - every call that touches a handle, as the sequence of steps its body takes
(argument checks that may fail, `allocate`, `get`, `take`, `free`, `feed`, `result`,
output), interleaved between threads over an instance of `HandleTable`. One
behaviour uses the calls of one ceremony, of the C interface or of the browser
classes (`Surfaces`); `Bodies` are the step sequences its calls can have. The pure
code between two steps is the set of errors it may return.

`OneShot` - the abstract specification of a secret: issued once, used at most once,
possibly lost. A step may lose several (`Lose(S)`): a DKG part that has taken the
secret of its round and finds no room for the next one drops both in one return.
`Ffi!SecretsOnce` is the refinement: with `Stage` as the mapping, every surface
implements `OneShot!Spec`.

`TxBuilder` - the four Zcash builders (spend and shielding, native and browser):
adds, build, complete in any order, totals that wrap at `2 * Half` where the code
does not check (`Half` is 2^63 in the code), digests and bytes as records of what they depend on. `Accepted` is
what the network checks, with the library's digests in place of those of ZIP 244.

The `MC*` modules are what TLC runs. The theorems are in `HandleTableProofs`,
`SessionProofs` and its continuation `DeliveryProofs`, `BlameProofs`, `WalletProofs`,
`FfiProofs`, `TxBuilderProofs` and `RoundsProofs`. Operators whose names extend
that of a definition (`GetShares`, `PostRetries`, `MajorityHalf`, ...) are
deliberately wrong variants; each property fails when its variant is put in
place, which shows that it depends on the code it is about.

## 3. Runs

| Run | Instance | Checks |
|---|---|---|
| `handles` | 2 threads, 3 nonces and 1 session, `MAX_HANDLES` 2, ids {1,3,5} | `TypeOK OneOwner InUseIsHeld GuardsReserve Bounded NoResurrection` |
| `session_pair` | 2 parties, one in the browser, all 8 ceremonies, 1 duplicate, 1 loss, failing requests | `TypeOK NoStall NoSpuriousFailure AllSucceed` |
| `session_faults` | frozt DKG, both signings and resharing of 3, one party with invalid packages, other metadata, commitments or randomizer for party 3, one misconfigured, one in the browser | `EveryPeerHeard BlameNeedsEquivocation GroupKeyChecked MetadataAgreement NoStall` |
| `blame` | 3 parties, one faulty, 1 duplicate or additional report, deadlines anywhere | `TypeOK NoFraming ReportsBeforeBarrier TallyIsMajority BlameEnds` |
| `ffi` | 2 threads, 2 sessions, 3 + 1 round secrets, `MAX_HANDLES` 2, every surface | `NoLeak RefusalIsHarmless InUseWhileRunning SecretsOnce` |
| `tx` | 4 builders, 4-bit amounts {0, 2, 3, 14} (`Half` 8), 2 anchors, 5 adds | `CompletedIsAccepted FeeBounds AlphaPerSpend` |
| `rounds` | 3 parties, 6 ceremonies, 2 inputs, 1 stop or restart | `BarriersPreventReplays EveryPeerCollected ScriptsMatch SharesAgree` |
| `wallet` | 2 parties (one encrypted, one with the mnemonic), 2 outputs, 2 ceremonies, 3 spends, 1 crash or failed write, words that wrap at 16 | `KeysOfOneCeremony LatestLoads RecordIsSpent SuccessIsBroadcast SelectionPays NeverReselects NoFalseShortage` |
| `session_race` | frozt DKG of 3 honest parties | `NoSpuriousFailure`, **violated** |
| `session_noblame` | 2 parties, one with invalid packages | `FailureReachesBlame`, **violated** |
| `session_absent` | 2 parties, one gives up | `AllReturn`, **violated** |
| `rounds_shares` | frozt signing of 3 honest parties, no stops | `SignersSucceed`, **violated** |

Bounds. Three ids over two table entries let the counter wrap over ids still in
use and let a table that is full meet a guard that is out; four objects exceed
the table. In a session the hard cases need two peers in different rounds, which
three parties have; with two parties nothing can overtake, and that is why
`NoSpuriousFailure` holds in `session_pair` and not in `session_race`. One
duplicate suffices to break a receive loop that would count it, one loss to make
a party wait. Three reports are the fewest with a majority that is not
unanimous; one additional report gives a faulty party two votes of four, which is the
boundary of a majority. `blame` has nobody `Deceived`; the theorems are for any such
set. In `rounds` the replay needs a collection of two messages, hence three
parties, and one restart already puts two runs of a party on the relay. In `wallet`
two outputs (5 and 3) against the amounts 1 and 4 make single notes suffice,
combinations necessary, and funds too short, and the amount 14 wraps with its fee; three spends are a spend, its retry and
one after that; one fault tears any one file. In `tx` 14 wraps a 4-bit total with
any other amount. Two threads and two handles are enough for a full table and for
every conflict over one handle; the third secret of round 1 lets a call that took one
find the table full, and lose it together with the one it has created. Parties are numbers whose order matters (the
smallest coordinates), so only threads and objects are symmetric.

Fairness. `Session!FairSpec` has weak fairness of each party's `Step`: a
goroutine that can post, fetch, feed or return does so. `RunFails`, losses and
duplicates have none. `Blame!FairSpec` has weak fairness of `Expire`
only, the 30 s deadline of `blameCtx`: `BlameEnds` holds without any assumption about
peers or relay. In these two modules there is no deadlock check to switch off: a
finished system stutters in `Done`, and any other stop would be reported. `wallet`,
`tx` and `rounds` really stop (all operations done, the builder freed, programs
returned or polling), so their configurations say `CHECK_DEADLOCK FALSE`; what a
stop may look like in `rounds` is `ScriptsMatch`. The remaining runs need no fairness:
their properties are safety.

### What the properties leave open

Eight properties name an exception, each a behaviour of the code that TLC reaches when
the exception is removed; `rounds_shares` shows the first.

- `BarriersPreventReplays`: the coordinator of a signature collects shares without
  a barrier before it (`frozt/internal/orchestration/sign.go:119`, also
  `spend_sign.go:108` and fromt). With three or more signers it may find one share,
  poll again, and have that share refused as a replay. With two signers there is no
  exception (`TwoSignersSucceed`).
- `BlameNeedsEquivocation`: `LIB_BLAME` may name an honest party when a faulty one sent
  commitments or a randomizer to some signers only. `aggregate` checks a share against
  what the verifier itself received (`frozt-lib/src/session.rs:116-191`,
  `frost-ceremony/src/session_sign.rs:33-63`), and the culprit is the sender of the
  share. `docs/AUDIT.md:49` says that `culprit()` identifies the misbehaving party, and
  `docs/AUDIT.md:145` admits that equivocation is not detected.
- `NoFraming`: reports are counted and not parties. What holds is that the blame of an
  honest party takes more than half of the reports tallied from faulty or deceived
  parties; `TallyIsMajority` says what a tally with one report of each party is.
  `docs/AUDIT.md:50` says that a single malicious party cannot frame an honest one;
  with `MaxMore = 2` one among three parties has three of the five reports and does.
- `GroupKeyChecked`: an import with two seed holders. `docs/AUDIT.md:46` has the final
  key checked, but a seed holder compares nothing: it broadcasts the key that came out
  (fromt) or the expected one without looking (frozt). Two holders of a fromt import
  complete with another key; in frozt their metadata hashes may still differ.
- `SelectionPays` and `NoFalseShortage`: amount and fee, and the total of the outputs,
  have to fit 64 bits. `SEND_AMOUNT` is any 64-bit number; near 2^64 the sum with the
  fee wraps and what is selected does not pay.
- `SharesAgree`: a party restarted after it was ready for round 2 of an import. The
  barriers still count it, the peers complete with its first packages and it
  completes with new ones.
- `LatestLoads`: a Monero import into a session directory that holds a bundle is
  saved and never loaded, since `LoadKeyShare` prefers the bundle.
- `NoFalseShortage`: Zcash notes worth less than the fee they add can make
  `selectNotes` report a shortage when a choice without them would pay (three notes
  of 4, 4 and 1 with a fee of 2 per action and the amount 4 are an instance).

`NeverReselects` is about Monero and holds up to the first torn record of a party:
an odd record is dropped whole by `fromt_spend_prepare`. Zcash writes its record and
never reads it (`IsNoteSpent` has no caller): a note whose transaction is in the
pool is selected again, and the network refuses the second transaction.
`CompletedIsAccepted` is about careful callers (defined in the module): the builders
check neither that all witnesses have one anchor nor additions after a build.

Faulty parties of `Session` post what their script says, with other payloads. One that
posts a message of a kind twice under two numbers would end a receive loop of its peers
early, since the loops count messages (`frost-ceremony/src/session_dkg.rs:32-38`), and
`EveryPeerHeard` and what rests on it (`MetadataAgreement`, `GroupKeyChecked`) would
not hold for it. Nor does one deal two different round-1 packages that both verify, with
shares that fit each: nothing in a key generation compares them, and the parties would
complete with different group keys (`docs/AUDIT.md:145`); in a resharing the comparison
with the old key stops it. Signers are taken to hold key packages of one ceremony. The `From` of a message is taken to be true: the relay's clients share
one key.

### What the violations show

1. `session_race` (code). A party may post its round-2 package while another
   party's round-1 POST to the same recipient is still to come; the recipient's
   first loop reads the package as a round-1 one and the ceremony fails with
   `LIB_SERIALIZATION_ERROR` though everyone followed the protocol. The tests
   deliver in lock step.
2. `session_noblame` (docs). `README.md:268` has the orchestration call
   `handleBlame()` after a ceremony fails; a failure inside the task makes
   `RunSession` return nil and surfaces at the result call, whose error is
   returned without it.
3. `session_absent` (docs). `docs/AUDIT.md:51` relies on a context timeout for
   absence; the party programs' context has none.
4. `rounds_shares` (docs). `README.md:70` says that any T signers produce a signature.
   Three do not if the coordinator polls between the first share and the second.

## 4. Proofs

| Module | Theorem | States |
|---|---|---|
| `HandleTableProofs` | `TypeCorrect`, `ObjectsHaveOneOwner`, `InUseEntriesAreHeld`, `GuardsKeepTheirEntries`, `TableIsBounded`, `HandlesAreNotResurrected` | all six properties of `handles` |
| `SessionProofs` | `SessionTypeCorrect`, `FalseBlameNeedsEquivocation` | `TypeOK`, `BlameNeedsEquivocation` |
| `DeliveryProofs` | `EveryPeerHeardAlways`, `MetadataAgreementAlways`, `GroupKeyCheckedAlways`, `NoStallAlways`, `TwoPartiesSucceed` | `EveryPeerHeard`, `MetadataAgreement`, `GroupKeyChecked`, `NoStall`, `NoSpuriousFailure` |
| `BlameProofs` | `BlameTypeCorrect`, `FramingNeedsMajority`, `BarrierOrdersReports`, `TallyIsMajorityAlways` | all four invariants of `blame` |
| `FfiProofs` | `FfiInvariant`, `NoLeakAlways`, `RefusalIsHarmlessAlways`, `InUseWhileRunningAlways`, `SecretsOnceAlways` | all properties of `ffi`, the refinement included |
| `TxBuilderProofs` | `AlphaPerSpendAlways`, `CompletedIsAcceptedAlways`, `FeeBoundsAlways` | all properties of `tx` |
| `RoundsProofs` | `EveryPeerCollectedAlways`, `SharesAgreeAlways`, `ScriptsMatchAlways`, `BarriersPreventReplaysAlways`, `TwoSignersSucceed` | all properties of `rounds`, and `SignersSucceed` for two |
| `WalletProofs` | `KeysOfOneCeremonyAlways`, `LatestLoadsAlways`, `RecordIsSpentAlways`, `SuccessIsBroadcastAlways`, `SelectionPaysAlways`, `NeverReselectsAlways`, `NoFalseShortageAlways` | all properties of `wallet` |

Assumptions are the named `ASSUME`s of the modules: at least two parties (both
libraries refuse `min_signers < 2`: `frost-ceremony/src/dkg.rs:50`,
`fromt-lib/src/ceremony/dkg.rs:98`; one suffices in `Wallet`), party sets are finite,
fault sets are sets of parties, bounds, fees and values are naturals, the largest fee is
below `Half`, `None` is not an object. Three theorems have hypotheses of their own.
`GroupKeyCheckedAlways` is about setups without a second seed holder in an import,
because the code does not notice one. `TwoPartiesSucceed` is
about two parties that are neither faulty nor misconfigured, because `session_race`
shows three honest ones failing. `TwoSignersSucceed` is about two parties for the same
reason (`rounds_shares`).

Handle table. `OneOwner` is not inductive as a statement about counts, so the
proof uses `Placed`: an object is in at most one entry and at most one guard, not
in both, and in some place exactly when it is live. With it each operation moves
one object from one place to another. `GuardsReserve` and `InUseIsHeld` follow
from the same steps, `Bounded` from the fact that a guard's entry is still
counted while it is out, and `NoResurrection` from `GuardsReserve`.

Session. `TypeOK` alone does not say that a runner in `feed` has a message left or
that a task that is being fed still has a round to go to: `Shape` adds
`FeedPending`, and `ScriptsWellFormed` says that every script ends in a round
that awaits nothing and has no such round before. For `BlameNeedsEquivocation`, a
payload that its sender's task would not produce has a faulty party as its sender
(`Altered`), and what a task has accepted was posted to it (`HeardOthers`,
`StillListed`). A share of an honest sender fails only where the view of its signer and
that of its verifier differ; then one of the two accepted other commitments or another
randomizer, and the relay still lists that message for it.

Delivery. The receive loops count messages, so that "heard N - 1" means "heard every
peer" only because nobody is counted twice. `GoodScript` says of all scripts that no
kind is sent or awaited in two rounds; then an outbox holds nothing twice
(`OutboxOnce`), the relay lists one message of a kind and a sender, though perhaps in
several places (`RelayOnce`), a task was fed only what the runner has marked as seen
(`HeardOnce`), and its counter is the number of its senders (`Counted`). A set of
N - 1 senders other than the party itself is everybody. The two agreement theorems add
what a message says: the hashes on their way are of their sender's blob unless it is
faulty, and those accepted are of the own blob (`Hashed`); round-1 packages hold their
sender's term, and a task beyond its comparison has compared (`Terms`).

For `NoStall` every round has a level that is the same in all scripts of a ceremony, and
levels rise along a script. Take a party at the least level among those that still run.
All the others have come as far, so they have sent what it awaits, and unless a message
was lost it is in an outbox or listed by the relay (`AllSent`, a part of `Progress`):
somebody can post it, or the party can fetch or feed it. Nothing in this depends on how many parties there are.

For two parties the order of the levels is kept all the way: outboxes are sorted by
level, the relay lists what it has in that order except for duplicates, and lists
nothing that comes after what is still to be posted (`Sequenced`). What is fed is
therefore of the awaited kind (`InTurn`): an earlier message has been heard and is
skipped, a later one would follow the awaited one. With a third party `InTurn` is false.
What is accepted also passes its check, since blobs and verifying keys on their way
are right when nobody is faulty or misconfigured (`Truthful`).

Blame. `Shape` ties inboxes to reports (`Origin`), accepted positions to distinct
numbers of a sender (`CountedOnce`) and program counters to reports made. `BarrierOrdersReports` uses that
whoever is ready has posted (`Posted`), and that a barrier passed was full; the first
poll therefore ends the loop (`FirstPoll`). A result is tied to the tally it was made
from (`Settled`, `Tallied`). Every vote against a party that is not faulty is at a
position whose sender is faulty or deceived (`FramedByDoubtful`), so that a majority of
votes is one of such reports, whatever part of them was collected. For
`TallyIsMajority` only a faulty party has two positions (`WhoRepeats`), and without
repeaters the votes of a complete tally are in bijection with the parties that blame:
accepted positions, plus the own report.

FFI. The bodies of the calls enter the proof only through their shape
(`WellFormed`): checks come first, an object is named before anything has an effect,
nothing fails after an allocation, the output is last and follows a claim. Every call
of every surface is shown to have it. The invariant then has the table's `Placed`
(one owner per object), how far each call is and what this says of its object, guard
and new handle (`Progress`), that a call with only its output left is the last user
of its object (`LastUse`), and that what gave its output can be reached by no call
(`Object`). `SecretsOnce` maps an object to its stage by whether an owner is left
(`Alive`) or ever was (`Unborn`), and shows of each step that it issues one, uses one,
loses a set, or changes no stage.

Transaction builders. The totals are sums kept beside the parts. `Sum` is a recursive
function, and what it does is proved by induction on the length: the least-number
principle follows from the well-foundedness of `<` without an operator parameter, a
table of partial sums exists and is unique, and appending a part adds its value
(`SumAppend`). The invariant says what a builder that was not refilled holds before its
build (`Open`: totals are the sums, or wrapped) and after it (`Closed`: randomizers are
the spends, the finished state is balanced, its sighash is that of its parts), and
which finished state a transaction is the serialisation of (`Serialised`). The bound
on the fee holds for refilled builders too, and is kept apart (`FeesOf`, `PaysOf`).

Rounds. Scripts differ by ceremony, party and leader; what the invariant needs of
them all is `GoodStep`: a party posts to others only, what one party sends is sent by
the leader, and a loop waits for the leader's message or for one of each of the other
parties. A Zcash spend has a round per input, so the concatenation of any number of
rounds is covered by the same induction. `Senders` then bounds what can be on the relay
and in a view, and a set of as many senders as there are other parties is all of them.
A restart empties the view and starts the script again, so nothing is claimed of it
until it has collected anew.

For `SharesAgree` the scripts of the two imports are described by position (`Layout`):
there is one collection of the shares and, later, one check of them; a share for each of
the others is sent, in one message, before the barrier ahead of the collection; and
nothing of either round is read after that. A message's number is the number of sends
before it in the script (`Numbers`, `Sourced`), so two runs of a party give the same
share the same number. A barrier that was passed has everybody (`Passed`), and while
nobody who was ready for round 2 is restarted, everybody at that barrier has sent the
shares of its present run (`Waiting`, `SentAll`). The collection therefore lists the
present share of every sender, a second one of an older run would be refused as a
replay, and what is read is the present run of all the others (`SharesRead`). The
check of the shares carries this over to the packages of round 1 (`PackagesFit`).

`ScriptsMatch` gives every step of every script a place (a phase by what it exchanges, in
it a level: sends, barrier, reads, checks) such that scripts are sorted and what a step waits for is sent or
entered by the others at smaller places, or at the same one before they wait
(`Supported`). The party at the smallest place can go on, so parties that were not
stopped never all wait. `BarriersPreventReplays` follows from what is true until the
first stop (`Undisturbed`): all are in their first run, each message is on the relay once
and quotes that run, each view remembers what it took, and whoever passed a barrier was
preceded there by all (`Entered`, `Waited`). Between two barriers a view then finds what
it collects in its first poll (`FirstPollIsEnough`), takes nothing twice
(`NothingReplayed`), and finds that it fits (`ChecksFit`). The shares of a signature are
left out when there is more than one to come (`Overtaken`); a single one is complete at
the first poll that finds it, which is `TwoSignersSucceed`. With a stop none of this
holds, hence the form `stops = 0 => Undisturbed`.

Wallet. The invariant says of each party what it has still to write and in which order
(`Queued`, `InOrder`: the bundle or key share comes first), what its files hold in the
meantime (`RecordSpent`, `Kept`, `Remembered`), and where it can be given what the spend
has come to (`Phase`); and of the spend what its flags mean (`Spending`). Every write
is two steps, so each of these speaks of the file that is open as well. That the
selection pays is proved for any outputs, values and width of a word, from what the
prefix sums of the sorted notes are: a comparison of wrapped sums that holds is one of
the sums when the smaller side fits (`CoversPays`), and the converse when the larger
does (`PaysCovers`).

`NoFalseShortage` compares sets that are not prefixes, so it needs what a total is.
`Total` is a fold over a set that takes out one chosen element after another; it is shown
to be well defined and to add up over disjoint sets in any order (`TotalIsSum`,
`TotalRemove`, `TotalUnion`), by induction over sets in the form that a nonempty family
of finite sets has a member that no single removal leaves in it (`LeastSet`). For Monero
the k largest outputs are worth at least as much as any k (`LargestAreMost`: what only the
one set has dominates what only the other has), and the fee is the same. For Zcash all
notes together pay when some do, since each of the others adds at most `BaseFee` to the
fee and is worth at least that (`AllNotesPay`).

Every invariant and every action property of the passing runs is proved. Only
model-checked are:

- `AllSucceed` and `BlameEnds`: liveness under fairness is outside the prover's reach.
  Its safety half is proved for sessions (`NoStallAlways`: somebody can always go on);
- the violated properties `NoSpuriousFailure` and `SignersSucceed` (three parties),
  `FailureReachesBlame` and `AllReturn`, which are false.

## 5. Not modelled

Cryptography is represented by the verdict of its checks. Not modelled are:

- the share algebra (Lagrange coefficients, constant terms): pure algebra over the
  curve's field, see the plan;
- the byte formats of setups, bundles, metadata, frames and vaults, and the
  encryption of relay messages and files: the models keep whether two blobs are equal
  and whether a file can be read;
- conformance of the transaction digests with ZIP 244: `TxBuilder` uses the library's
  own digests on both sides, and shows that what is signed is what is serialised;
- registration and start of a session at the relay, the block scanners, note
  decryption, key derivation and address formats;
- change outputs, reorganisations and eviction from the pool in `Wallet`;
- the Go and TypeScript wrappers, which convert arguments.

The read of `LAST_BLAMED_ID` is covered only as "may be
lost": a culprit left over from an earlier ceremony needs several ceremonies in
one process. A tally cut short by the deadline takes the majority of the reports
received, not of all parties as `README.md:273` puts it; `NoFraming` covers that
case, agreement between parties does not hold for it and is not claimed.

## 6. Plan

Done: all components of section 2, with the proofs of section 4. Next, in this order:

1. `ShareAlgebra`: Lagrange coefficients, additive shares of a resharing and
   constant terms of an import over a small prime field, against interpolation.
2. Setup and bundle formats: length checks and round trips over small alphabets.
