-------------------------------- MODULE Blame --------------------------------
(***************************************************************************)
(* What the orchestration does when RunSession or a round fails:           *)
(* HandleBlame (client/shared/orchestration/helpers.go) makes a report,    *)
(* ExchangeBlame (client/shared/session/blame.go) posts it, waits at a     *)
(* barrier of the relay, collects the reports of the others and tallies    *)
(* them.  Both run under a context of 30 seconds, which may expire at any  *)
(* point.                                                                  *)
(***************************************************************************)
EXTENDS Naturals, Sequences, FiniteSets

CONSTANTS
    N,         \* the number of parties of the failed ceremony
    Faulty,    \* parties whose packages were invalid, and whose reports may be wrong
    Deceived,  \* parties that were shown other data than their peers, so that their
               \* library may name anybody (see Session!BlameNeedsEquivocation)
    MaxMore    \* bound: messages the relay lists twice, and reports faulty parties post
               \* besides the one each of them has

ASSUME BlameAssumption ==
    /\ N \in Nat \ {0, 1}
    /\ Faulty \subseteq 1..N
    /\ Deceived \subseteq 1..N
    /\ MaxMore \in Nat

Party == 1..N

\* A relay message with a BlameReport.  Of the sequence numbers only those matter that
\* messages of this exchange have: 0 for none, 1 for the message SendMessage posts,
\* larger ones for what a faulty party posts in addition.  blamed is 0 when
\* BlamedParty is the empty string, which is so for every report of type "absent" or
\* "unknown" and for none of type "crypto".
Report == [from : Party, seq : Nat, blamed : Party \cup {0}]

\* Agreed and BlamedParty of a BlameResult.
NoAgreement == [agreed |-> FALSE, party |-> 0]
Result == [agreed : {TRUE}, party : Party] \cup {NoAgreement}

VARIABLES
    pc,        \* where a party is in HandleBlame
    report,    \* myReport
    inbox,     \* the relay's list of messages "blame" for a party
    ready,     \* the relay's ready parties of barrier "blame"
    accepted,  \* the positions in its inbox of the reports a party counts
    result,    \* its BlameResult
    more       \* how many messages were listed twice or posted in addition

vars == <<pc, report, inbox, ready, accepted, result, more>>
-----------------------------------------------------------------------------
\* The reports HandleBlame can make: LastBlamedParty() returns the culprit that
\* frost-core found, or 0 when it found none or when the goroutine has moved to
\* another thread; an absence is told from the error's text and names nobody.
Doubtful == Faulty \cup Deceived
Reports(p) ==
    {[from |-> p, seq |-> 1, blamed |-> q] :
        q \in {0} \cup (IF p \in Doubtful THEN Party ELSE Faulty)}

HandleBlame(p) ==
    /\ pc[p] = "failed"
    /\ \E r \in Reports(p) : report' = [report EXCEPT ![p] = r]
    /\ pc' = [pc EXCEPT ![p] = "send"]
    /\ UNCHANGED <<inbox, ready, accepted, result, more>>

\* ExchangeBlame posts one message to all the others.
SendReport(p) ==
    /\ pc[p] = "send"
    /\ inbox' = [q \in Party |-> IF q = p THEN inbox[q]
                                 ELSE Append(inbox[q], report[p])]
    /\ pc' = [pc EXCEPT ![p] = "barrier"]
    /\ UNCHANGED <<report, ready, accepted, result, more>>

PostBarrierEarly(p) ==
    /\ pc[p] \in {"send", "barrier"}
    /\ p \notin ready
    /\ ready' = ready \cup {p}
    /\ pc' = [pc EXCEPT ![p] = IF @ = "send" THEN @ ELSE "wait"]
    /\ UNCHANGED <<report, inbox, accepted, result, more>>

\* WaitForBarrier: the party posts that it is ready, then polls.
PostBarrier(p) ==
    /\ pc[p] = "barrier"
    /\ ready' = ready \cup {p}
    /\ pc' = [pc EXCEPT ![p] = "wait"]
    /\ UNCHANGED <<report, inbox, accepted, result, more>>

\* expectedResponders: all the others.  ExchangeBlame would expect one less for an
\* absence that names a party, and HandleBlame makes no such report.
Expected == N - 1

PassBarrier(p) ==
    /\ pc[p] = "wait"
    /\ Cardinality(ready) >= Expected + 1
    /\ pc' = [pc EXCEPT ![p] = "collect"]
    /\ UNCHANGED <<report, inbox, ready, accepted, result, more>>

FreshAll(p) == DOMAIN inbox[p] \ accepted[p]

\* Two messages with one key of the replay set; the check is for numbered ones only.
SameKey(m, n) == m.seq > 0 /\ m.seq = n.seq /\ m.from = n.from

\* The messages DecryptAndVerify lets through: all but those with a key it has seen.
\* Nothing compares From or Reporter with those of the reports counted before.
\* (A message without a number would be let through again by another poll; the loop
\* ends with its first one, see ReportsBeforeBarrier.)
Fresh(p) ==
    {i \in DOMAIN inbox[p] \ accepted[p] : \A j \in DOMAIN inbox[p] :
        SameKey(inbox[p][j], inbox[p][i]) => j >= i /\ j \notin accepted[p]}

\* tallyBlame over the party's own report and the accepted ones.
Count(p, acc, q) ==
    Cardinality({i \in acc : inbox[p][i].blamed = q})
        + (IF report[p].blamed = q THEN 1 ELSE 0)
MajorityHalf(acc) == (1 + Cardinality(acc)) \div 2
Majority(acc) == (1 + Cardinality(acc)) \div 2 + 1
WinnersBlank(p, acc) == {q \in Party \cup {0} : Count(p, acc, q) >= Majority(acc)}
Winners(p, acc) == {q \in Party : Count(p, acc, q) >= Majority(acc)}
Tally(p, acc) ==
    IF Winners(p, acc) = {} THEN NoAgreement
    ELSE [agreed |-> TRUE, party |-> CHOOSE q \in Winners(p, acc) : TRUE]

\* One GetMessages: the loop ends when the reports are complete.
Poll(p) ==
    /\ pc[p] = "collect"
    /\ accepted' = [accepted EXCEPT ![p] = @ \cup Fresh(p)]
    /\ IF 1 + Cardinality(accepted'[p]) >= Expected + 1
       THEN /\ result' = [result EXCEPT ![p] = Tally(p, accepted'[p])]
            /\ pc' = [pc EXCEPT ![p] = "done"]
       ELSE UNCHANGED <<result, pc>>
    /\ UNCHANGED <<report, inbox, ready, more>>

\* The context expires, or a request fails, before the barrier is passed: the
\* result holds the party's own report and no agreement.
ExchangeFailsSend(p) ==
    /\ pc[p] = "send"
    /\ pc' = [pc EXCEPT ![p] = "done"]
    /\ UNCHANGED <<report, inbox, ready, accepted, result, more>>

ExchangeFails(p) ==
    /\ pc[p] \in {"send", "barrier", "wait"}
    /\ pc' = [pc EXCEPT ![p] = "done"]
    /\ UNCHANGED <<report, inbox, ready, accepted, result, more>>

\* The context expires, or GetMessages fails, after the barrier: what has been
\* collected is tallied.
CollectFails(p) ==
    /\ pc[p] = "collect"
    /\ result' = [result EXCEPT ![p] = Tally(p, accepted[p])]
    /\ pc' = [pc EXCEPT ![p] = "done"]
    /\ UNCHANGED <<report, inbox, ready, accepted, more>>

\* A faulty party that has posted its report posts one more, to any party that may
\* still read it, under a number of its own or under none.
PostExtra(p) ==
    /\ p \in Faulty
    /\ pc[p] \notin {"failed", "send"}
    /\ more < MaxMore
    /\ more' = more + 1
    /\ \E q \in {r \in Party \ {p} : pc[r] # "done"}, b \in Party, n \in {0, more + 2} :
          inbox' = [inbox EXCEPT ![q] =
                      Append(@, [from |-> p, seq |-> n, blamed |-> b])]
    /\ UNCHANGED <<pc, report, ready, accepted, result>>

\* The relay lists a message a second time, to a party that may still read it.
Duplicate(p) ==
    /\ pc[p] # "done"
    /\ more < MaxMore
    /\ more' = more + 1
    /\ \E i \in DOMAIN inbox[p] :
          inbox' = [inbox EXCEPT ![p] = Append(@, @[i])]
    /\ UNCHANGED <<pc, report, ready, accepted, result>>
-----------------------------------------------------------------------------
NoReport(p) == [from |-> p, seq |-> 1, blamed |-> 0]

Init ==
    /\ pc = [p \in Party |-> "failed"]
    /\ report = [p \in Party |-> NoReport(p)]
    /\ inbox = [p \in Party |-> <<>>]
    /\ ready = {}
    /\ accepted = [p \in Party |-> {}]
    /\ result = [p \in Party |-> NoAgreement]
    /\ more = 0

Expire(p) == ExchangeFails(p) \/ CollectFails(p)

\* Every HandleBlame has returned.
Done == (\A p \in Party : pc[p] = "done") /\ UNCHANGED vars

Next ==
    \/ \E p \in Party :
          \/ HandleBlame(p) \/ SendReport(p) \/ PostBarrier(p) \/ PassBarrier(p)
          \/ Poll(p) \/ Expire(p) \/ PostExtra(p) \/ Duplicate(p)
    \/ Done

Spec == Init /\ [][Next]_vars

\* The only fairness is that of the clock: blameCtx has a deadline.  A party may be
\* absent, that is, never call HandleBlame.
FairSpec == Spec /\ \A p \in Party : WF_vars(Expire(p))
-----------------------------------------------------------------------------
(***************************************************************************)
(* Properties.                                                             *)
(***************************************************************************)
\* The shape of reports, inboxes and results: an agreement names a party.
TypeOK ==
    /\ pc \in [Party -> {"failed", "send", "barrier", "wait", "collect", "done"}]
    /\ report \in [Party -> Report]
    /\ inbox \in [Party -> Seq(Report)]
    /\ ready \subseteq Party
    /\ \A p \in Party : accepted[p] \subseteq DOMAIN inbox[p]
    /\ result \in [Party -> Result]
    /\ more \in 0..MaxMore

\* A party that follows the protocol agrees on the blame of one that does too only if
\* more than half of the reports it tallied came from faulty or deceived parties, even
\* when its context expires before every report has arrived.  Reports and not parties
\* are counted: with three of five reports a single party does frame another, which
\* docs/AUDIT.md:50 says it cannot.
Framed(p) == result[p].agreed /\ result[p].party \notin Faulty
DoubtfulReports(p) ==
    Cardinality({i \in accepted[p] : inbox[p][i].from \in Doubtful})
        + (IF p \in Doubtful THEN 1 ELSE 0)
NoFraming ==
    \A p \in Party \ Faulty :
        Framed(p) => 2 * DoubtfulReports(p) > 1 + Cardinality(accepted[p])

\* Each party posts its report before it posts the barrier, so whoever passes the
\* barrier finds every other party's report in its first poll, and tallies then.
ReportsBeforeBarrier ==
    \A p \in Party : pc[p] = "collect" =>
        /\ {inbox[p][i].from : i \in DOMAIN inbox[p]} = Party \ {p}
        /\ accepted[p] = {}

\* A party that has the report of every other party has one of each that follows the
\* protocol, whatever the relay duplicates; and if the faulty ones have one each as
\* well, it agrees on exactly the party that more than half of all the parties blame.
Blamers(q) == {r \in Party : report[r].blamed = q}
Complete(p) ==
    /\ pc[p] = "done"
    /\ {inbox[p][i].from : i \in accepted[p]} = Party \ {p}
Repeaters(p) ==
    {inbox[p][i].from : i \in {x \in accepted[p] : \E j \in accepted[p] :
        j # x /\ inbox[p][j].from = inbox[p][x].from}}
TallyIsMajority ==
    \A p \in Party : Complete(p) =>
        /\ Repeaters(p) \subseteq Faulty
        /\ Repeaters(p) = {} => \A q \in Party :
              result[p].party = q <=> 2 * Cardinality(Blamers(q)) > N

\* HandleBlame returns, whoever is absent.
BlameEnds == \A p \in Party : pc[p] = "send" ~> pc[p] = "done"
=============================================================================
