----------------------------- MODULE BlameProofs -----------------------------
(***************************************************************************)
(* Proofs about the exchange of blame reports for any number of parties.   *)
(*                                                                         *)
(* What a result rests on: only faulty and deceived parties report others  *)
(* than faulty ones (Origin), a party counts a message once (CountedOnce), *)
(* a report is posted before its sender is ready at the barrier (Posted),  *)
(* so that the first poll has everybody's (FirstPoll), and the result of a *)
(* party that is done is the tally of what it has accepted (Settled).      *)
(***************************************************************************)
EXTENDS Blame, FiniteSetTheorems, SequenceTheorems, WellFoundedInduction, TLAPS

\* Who may have written the reports: an honest party names nobody or a faulty one,
\* and only a faulty one posts more than the first.
TrueReport ==
    {r \in Report : /\ r.from \in Doubtful \/ r.blamed \in Faulty \cup {0}
                    /\ r.from \in Faulty \/ r.seq = 1}
Origin ==
    /\ report \in [Party -> TrueReport]
    /\ \A p \in Party : report[p].from = p /\ report[p].seq = 1
    /\ inbox \in [Party -> Seq(TrueReport)]

\* DecryptAndVerify lets one message of a sender and a number through.
CountedOnce ==
    /\ accepted \in [Party -> SUBSET Nat]
    /\ \A p \in Party : accepted[p] \subseteq DOMAIN inbox[p]
    /\ \A p \in Party : \A i, j \in accepted[p] :
          SameKey(inbox[p][i], inbox[p][j]) => i = j

Control ==
    /\ pc \in [Party -> {"failed", "send", "barrier", "wait", "collect", "done"}]
    /\ result \in [Party -> Result]
    /\ more \in 0..MaxMore

Shape == Origin /\ CountedOnce /\ Control /\ ready \subseteq Party

\* The report of q is in the list of p.
InboxHas(p, q) == \E i \in DOMAIN inbox[p] : inbox[p][i].from = q /\ inbox[p][i].seq = 1

\* A party reports before it is ready, and never to itself.
Posted ==
    /\ \A q \in Party : pc[q] = "barrier" \/ q \in ready =>
          \A p \in Party \ {q} : InboxHas(p, q)
    /\ \A p \in Party : \A i \in DOMAIN inbox[p] : inbox[p][i].from # p
    /\ \A p \in Party : pc[p] = "collect" => ready = Party
-----------------------------------------------------------------------------
\* A party that is certain to be among finitely many.
LEMMA FiniteParties == IsFiniteSet(Party) /\ Cardinality(Party) = N
BY BlameAssumption, FS_Interval DEF Party

\* Every nonempty set of naturals has a least member.
LEMMA LeastNumber ==
    ASSUME NEW S \in SUBSET Nat, S # {}
    PROVE  \E m \in S : \A k \in S : m <= k
<1>1. \E R : IsWellFoundedOn(R, Nat) /\ \A x, y \in Nat : <<y, x>> \in R <=> y < x
  <2> DEFINE R == {rr \in Nat \X Nat : rr[1] < rr[2]}
  <2>1. IsWellFoundedOn(R, Nat)
    BY NatLessThanWellFounded DEF OpToRel
  <2>2. \A x, y \in Nat : <<y, x>> \in R <=> y < x
    OBVIOUS
  <2> QED
    BY <2>1, <2>2
<1>2. PICK R : IsWellFoundedOn(R, Nat) /\ \A x, y \in Nat : <<y, x>> \in R <=> y < x
  BY <1>1
<1>3. PICK m \in S : \A k \in S : ~ (<<k, m>> \in R)
  BY <1>2, WFMin
<1>4. \A k \in S : ~ (k < m)
  BY <1>2, <1>3
<1> QED
  BY <1>4

\* The reports HandleBlame makes are true ones.
LEMMA ReportsTrue ==
    ASSUME NEW p \in Party, NEW r \in Reports(p)
    PROVE  r \in TrueReport /\ r.from = p /\ r.seq = 1
BY BlameAssumption DEF Reports, TrueReport, Report, Doubtful, Party

\* A list that grows at its end keeps what it had.
LEMMA AppendKeeps ==
    ASSUME NEW s \in Seq(TrueReport), NEW r \in TrueReport
    PROVE  /\ Append(s, r) \in Seq(TrueReport)
           /\ DOMAIN Append(s, r) = DOMAIN s \cup {Len(s) + 1}
           /\ \A i \in DOMAIN s : Append(s, r)[i] = s[i]
           /\ Append(s, r)[Len(s) + 1] = r
           /\ DOMAIN s \subseteq Nat
BY AppendProperties, LenProperties

\* What a poll accepts are messages it has not counted before, each key once.
LEMMA FreshOnce ==
    ASSUME Shape, NEW p \in Party
    PROVE  /\ accepted[p] \cup Fresh(p) \subseteq DOMAIN inbox[p]
           /\ \A i, j \in accepted[p] \cup Fresh(p) :
                 SameKey(inbox[p][i], inbox[p][j]) => i = j
<1>1. DOMAIN inbox[p] \subseteq Nat
  BY LenProperties DEF Shape, Origin
<1>2. accepted[p] \subseteq DOMAIN inbox[p] /\ Fresh(p) \subseteq DOMAIN inbox[p]
  BY DEF Shape, CountedOnce, Fresh
<1>3. ASSUME NEW i \in accepted[p] \cup Fresh(p), NEW j \in accepted[p] \cup Fresh(p),
             SameKey(inbox[p][i], inbox[p][j])
      PROVE  i = j
  <2>1. SameKey(inbox[p][j], inbox[p][i])
    BY <1>3 DEF SameKey
  <2>2. CASE i \in accepted[p] /\ j \in accepted[p]
    BY <1>3, <2>2 DEF Shape, CountedOnce
  <2>3. CASE i \in Fresh(p) /\ j \in accepted[p]
    BY <1>2, <2>1, <2>3 DEF Fresh
  <2>4. CASE i \in accepted[p] /\ j \in Fresh(p)
    BY <1>2, <1>3, <2>4 DEF Fresh
  <2>5. CASE i \in Fresh(p) /\ j \in Fresh(p)
    <3>1. j >= i /\ i >= j
      BY <1>2, <1>3, <2>1, <2>5 DEF Fresh
    <3>2. i \in Nat /\ j \in Nat
      BY <1>1, <1>2
    <3> QED
      BY <3>1, <3>2
  <2> QED
    BY <2>2, <2>3, <2>4, <2>5
<1> QED
  BY <1>2, <1>3

\* What tallyBlame returns is a result.
LEMMA TallyType ==
    ASSUME NEW p, NEW acc
    PROVE  Tally(p, acc) \in Result
BY DEF Tally, Winners, Result, NoAgreement
-----------------------------------------------------------------------------
\* The initial states have the shape.
LEMMA InitShape == Init => Shape
BY BlameAssumption DEF Init, Shape, Origin, CountedOnce, Control, NoReport, TrueReport,
   Report, Result, NoAgreement, Party

\* A message added to lists keeps the shape.
LEMMA GrowShape ==
    ASSUME Shape, NEW Q \in SUBSET Party, NEW r \in [Party -> TrueReport],
           inbox' = [q \in Party |-> IF q \in Q THEN Append(inbox[q], r[q]) ELSE inbox[q]],
           UNCHANGED <<report, ready, accepted, result>>
    PROVE  Origin' /\ CountedOnce'
<1>1. ASSUME NEW q \in Party
      PROVE  /\ inbox'[q] \in Seq(TrueReport)
             /\ DOMAIN inbox[q] \subseteq DOMAIN inbox'[q]
             /\ \A i \in DOMAIN inbox[q] : inbox'[q][i] = inbox[q][i]
  <2>1. inbox[q] \in Seq(TrueReport)
    BY DEF Shape, Origin
  <2> QED
    BY <2>1, AppendKeeps
<1>2. Origin'
  BY <1>1 DEF Shape, Origin
<1>3. CountedOnce'
  <2>1. ASSUME NEW p \in Party
        PROVE  /\ accepted[p] \subseteq DOMAIN inbox'[p]
               /\ \A i \in accepted[p] : inbox'[p][i] = inbox[p][i]
    BY <1>1 DEF Shape, CountedOnce
  <2> QED
    BY <2>1 DEF Shape, CountedOnce
<1> QED
  BY <1>2, <1>3

\* What a faulty party posts in addition is a report of its own, under another number
\* than its first.
LEMMA ExtraTrue ==
    ASSUME Shape, NEW p \in Party, PostExtra(p)
    PROVE  \E q \in Party \ {p}, m \in TrueReport :
              /\ inbox' = [inbox EXCEPT ![q] = Append(@, m)]
              /\ pc[q] # "done" /\ m.from = p /\ m.from \in Faulty /\ m.seq # 1
<1>1. PICK q \in {r \in Party \ {p} : pc[r] # "done"}, b \in Party, n \in {0, more + 2} :
         inbox' = [inbox EXCEPT ![q] = Append(@, [from |-> p, seq |-> n, blamed |-> b])]
  BY DEF PostExtra
<1>2. n \in Nat /\ n # 1
  BY BlameAssumption DEF Shape, Control
<1>3. [from |-> p, seq |-> n, blamed |-> b] \in TrueReport
  BY <1>1, <1>2 DEF PostExtra, TrueReport, Report, Doubtful
<1> QED
  BY <1>1, <1>2, <1>3 DEF PostExtra

\* Every step keeps the shape.
LEMMA NextShape == Shape /\ [Next]_vars => Shape'
<1> SUFFICES ASSUME Shape, [Next]_vars PROVE Shape'
  OBVIOUS
<1>1. CASE UNCHANGED vars
  BY <1>1 DEF vars, Shape, Origin, CountedOnce, Control
<1>2. ASSUME NEW p \in Party, HandleBlame(p) PROVE Shape'
  <2>1. PICK r \in Reports(p) : report' = [report EXCEPT ![p] = r]
    BY <1>2 DEF HandleBlame
  <2>2. r \in TrueReport /\ r.from = p /\ r.seq = 1
    BY ReportsTrue
  <2>3. Origin'
    BY <1>2, <2>1, <2>2 DEF HandleBlame, Shape, Origin
  <2> QED
    BY <1>2, <2>3 DEF HandleBlame, Shape, CountedOnce, Control
<1>3. ASSUME NEW p \in Party, SendReport(p) PROVE Shape'
  <2> DEFINE r == [q \in Party |-> report[p]]
             Q == Party \ {p}
  <2>1. r \in [Party -> TrueReport]
    BY DEF Shape, Origin
  <2>2. inbox' = [q \in Party |-> IF q \in Q THEN Append(inbox[q], r[q]) ELSE inbox[q]]
    BY <1>3 DEF SendReport
  <2> HIDE DEF r
  <2>3. Origin' /\ CountedOnce'
    BY <1>3, <2>1, <2>2, GrowShape DEF SendReport
  <2> QED
    BY <1>3, <2>3 DEF SendReport, Shape, Control
<1>4. ASSUME NEW p \in Party, Duplicate(p) PROVE Shape'
  <2>1. PICK i \in DOMAIN inbox[p] : inbox' = [inbox EXCEPT ![p] = Append(@, @[i])]
    BY <1>4 DEF Duplicate
  <2>2. inbox[p][i] \in TrueReport
    BY <2>1, ElementOfSeq, LenProperties DEF Shape, Origin
  <2> DEFINE r == [q \in Party |-> inbox[p][i]]
             Q == {p}
  <2>3. r \in [Party -> TrueReport] /\ Q \in SUBSET Party
    BY <2>2
  <2>4. inbox' = [q \in Party |-> IF q \in Q THEN Append(inbox[q], r[q]) ELSE inbox[q]]
    BY <2>1 DEF Shape, Origin
  <2> HIDE DEF r, Q
  <2>5. Origin' /\ CountedOnce'
    BY <1>4, <2>3, <2>4, GrowShape DEF Duplicate
  <2>6. more' \in 0..MaxMore
    BY <1>4, BlameAssumption DEF Duplicate, Shape, Control
  <2> QED
    BY <1>4, <2>5, <2>6 DEF Duplicate, Shape, Control
<1>5. ASSUME NEW p \in Party, PostBarrier(p) \/ PassBarrier(p) \/ ExchangeFails(p)
      PROVE  Shape'
  BY <1>5 DEF PostBarrier, PassBarrier, ExchangeFails, Shape, Origin, CountedOnce, Control
<1>6. ASSUME NEW p \in Party, CollectFails(p) PROVE Shape'
  BY <1>6, TallyType DEF CollectFails, Shape, Origin, CountedOnce, Control
<1>7. ASSUME NEW p \in Party, Poll(p) PROVE Shape'
  <2> DEFINE acc == accepted[p] \cup Fresh(p)
  <2>1. /\ accepted' = [accepted EXCEPT ![p] = acc] /\ accepted'[p] = acc
        /\ UNCHANGED <<report, inbox, ready, more>>
    BY <1>7 DEF Poll, Shape, CountedOnce
  <2>2. /\ acc \subseteq DOMAIN inbox[p]
        /\ \A i, j \in acc : SameKey(inbox[p][i], inbox[p][j]) => i = j
    BY FreshOnce
  <2>3. DOMAIN inbox[p] \subseteq Nat
    BY LenProperties DEF Shape, Origin
  <2> HIDE DEF acc
  <2>4. CountedOnce'
    BY <2>1, <2>2, <2>3 DEF Shape, CountedOnce
  <2>5. Origin'
    BY <2>1 DEF Shape, Origin
  <2>6. Control'
    BY <1>7, <2>1, TallyType DEF Poll, Shape, Control
  <2> QED
    BY <2>1, <2>4, <2>5, <2>6 DEF Shape
<1>8. ASSUME NEW p \in Party, PostExtra(p) PROVE Shape'
  <2>1. PICK q \in Party \ {p}, m \in TrueReport :
          inbox' = [inbox EXCEPT ![q] = Append(@, m)]
    BY <1>8, ExtraTrue
  <2> DEFINE r == [x \in Party |-> m]
             Q == {q}
  <2>2. r \in [Party -> TrueReport] /\ Q \in SUBSET Party
    BY <2>1
  <2>3. inbox' = [x \in Party |-> IF x \in Q THEN Append(inbox[x], r[x]) ELSE inbox[x]]
    BY <2>1 DEF Shape, Origin
  <2> HIDE DEF r, Q
  <2>4. Origin' /\ CountedOnce'
    BY <1>8, <2>2, <2>3, GrowShape DEF PostExtra
  <2>5. more' \in 0..MaxMore
    BY <1>8, BlameAssumption DEF PostExtra, Shape, Control
  <2> QED
    BY <1>8, <2>4, <2>5 DEF PostExtra, Shape, Control
<1> QED
  BY <1>1, <1>2, <1>3, <1>4, <1>5, <1>6, <1>7, <1>8 DEF Next, Expire, Done

\* The exchange keeps its shape, and an agreement names a party.
THEOREM BlameTypeCorrect == Spec => []TypeOK
<1>1. Shape => TypeOK
  <2> SUFFICES ASSUME Shape PROVE TypeOK
    OBVIOUS
  <2>1. report \in [Party -> Report]
    BY DEF Shape, Origin, TrueReport
  <2>2. inbox \in [Party -> Seq(Report)]
    <3>1. TrueReport \subseteq Report
      BY DEF TrueReport
    <3>2. Seq(TrueReport) \subseteq Seq(Report)
      BY <3>1, SeqMonotonic
    <3> QED
      BY <3>2 DEF Shape, Origin
  <2> QED
    BY <2>1, <2>2 DEF Shape, CountedOnce, Control, TypeOK
<1> QED
  BY <1>1, InitShape, NextShape, PTL DEF Spec
-----------------------------------------------------------------------------
\* A list that grows loses no report.
LEMMA InboxGrows ==
    ASSUME NEW p \in Party, NEW q,
           DOMAIN inbox[p] \subseteq DOMAIN inbox'[p],
           \A i \in DOMAIN inbox[p] : inbox'[p][i] = inbox[p][i],
           InboxHas(p, q)
    PROVE  InboxHas(p, q)'
BY DEF InboxHas

\* A barrier that counts N ready parties has all of them.
LEMMA AllReady ==
    ASSUME ready \subseteq Party, Cardinality(ready) >= Expected + 1
    PROVE  ready = Party
<1>1. IsFiniteSet(ready) /\ Cardinality(ready) <= Cardinality(Party)
      /\ (Cardinality(Party) = Cardinality(ready) => Party = ready)
  BY FiniteParties, FS_Subset
<1>2. Cardinality(ready) \in Nat
  BY <1>1, FS_CardinalityType
<1>3. Cardinality(Party) = N /\ N \in Nat
  BY FiniteParties, BlameAssumption
<1> QED
  BY <1>1, <1>2, <1>3 DEF Expected

\* Every step keeps the order of a report and its sender's barrier.
LEMMA NextPosted == Shape /\ Posted /\ [Next]_vars => Posted'
<1> SUFFICES ASSUME Shape, Posted, [Next]_vars PROVE Posted'
  OBVIOUS
<1>1. ASSUME UNCHANGED <<inbox, ready>>,
             \A q \in Party : pc'[q] \in {"barrier", "collect"} => pc'[q] = pc[q]
      PROVE  Posted'
  BY <1>1 DEF Posted, InboxHas
<1>2. CASE UNCHANGED vars
  BY <1>1, <1>2 DEF vars
<1>3. ASSUME NEW p \in Party,
             HandleBlame(p) \/ ExchangeFails(p) \/ CollectFails(p) \/ Poll(p)
      PROVE  Posted'
  <2>1. UNCHANGED <<inbox, ready>>
    BY <1>3 DEF HandleBlame, ExchangeFails, CollectFails, Poll
  <2>2. pc' = pc \/ \E v \in {"send", "done"} : pc' = [pc EXCEPT ![p] = v]
    BY <1>3 DEF HandleBlame, ExchangeFails, CollectFails, Poll
  <2> QED
    BY <1>1, <2>1, <2>2 DEF Shape, Control
<1>4. ASSUME NEW p \in Party, SendReport(p) PROVE Posted'
  <2>1. ASSUME NEW q \in Party
        PROVE  /\ q = p => inbox'[q] = inbox[q]
               /\ q # p => /\ DOMAIN inbox'[q] = DOMAIN inbox[q] \cup {Len(inbox[q]) + 1}
                           /\ inbox'[q][Len(inbox[q]) + 1] = report[p]
               /\ DOMAIN inbox[q] \subseteq DOMAIN inbox'[q]
               /\ \A i \in DOMAIN inbox[q] : inbox'[q][i] = inbox[q][i]
    <3>1. inbox[q] \in Seq(TrueReport) /\ report[p] \in TrueReport
      BY DEF Shape, Origin
    <3>2. inbox'[q] = IF q = p THEN inbox[q] ELSE Append(inbox[q], report[p])
      BY <1>4 DEF SendReport
    <3> QED
      BY <3>1, <3>2, AppendKeeps
  <2>2. report[p].from = p /\ report[p].seq = 1
    BY DEF Shape, Origin
  <2>3. ready' = ready /\ pc' = [pc EXCEPT ![p] = "barrier"]
    BY <1>4 DEF SendReport
  <2>4. ASSUME NEW q \in Party, pc'[q] = "barrier" \/ q \in ready', NEW r \in Party \ {q}
        PROVE  InboxHas(r, q)'
    <3>1. CASE q = p
      BY <2>1, <2>2, <3>1 DEF InboxHas
    <3>2. CASE q # p
      <4>1. pc[q] = "barrier" \/ q \in ready
        BY <2>3, <2>4, <3>2 DEF Shape, Control
      <4>2. InboxHas(r, q)
        BY <4>1 DEF Posted
      <4> QED
        BY <2>1, <4>2, InboxGrows
    <3> QED
      BY <3>1, <3>2
  <2>5. ASSUME NEW q \in Party, NEW i \in DOMAIN inbox'[q] PROVE inbox'[q][i].from # q
    BY <2>1, <2>2 DEF Posted
  <2>6. ASSUME NEW q \in Party, pc'[q] = "collect" PROVE ready' = Party
    BY <2>3, <2>6 DEF Posted, Shape, Control
  <2> QED
    BY <2>4, <2>5, <2>6 DEF Posted
<1>5. ASSUME NEW p \in Party, Duplicate(p) PROVE Posted'
  <2>1. PICK k \in DOMAIN inbox[p] : inbox' = [inbox EXCEPT ![p] = Append(@, @[k])]
    BY <1>5 DEF Duplicate
  <2>2. ASSUME NEW q \in Party
        PROVE  /\ DOMAIN inbox[q] \subseteq DOMAIN inbox'[q]
               /\ \A i \in DOMAIN inbox[q] : inbox'[q][i] = inbox[q][i]
               /\ \A i \in DOMAIN inbox'[q] : inbox'[q][i].from # q
    <3>1. inbox[q] \in Seq(TrueReport) /\ \A i \in DOMAIN inbox[q] : inbox[q][i].from # q
      BY DEF Shape, Origin, Posted
    <3>2. CASE q = p
      <4>1. inbox[p][k] \in TrueReport
        BY <2>1, <3>1, <3>2, ElementOfSeq, LenProperties
      <4>2. inbox'[q] = Append(inbox[q], inbox[p][k])
        BY <2>1, <3>2 DEF Shape, Origin
      <4>3. inbox[p][k].from # q
        BY <2>1, <3>1, <3>2
      <4> QED
        BY <3>1, <4>1, <4>2, <4>3, AppendKeeps
    <3>3. CASE q # p
      BY <2>1, <3>1, <3>3 DEF Shape, Origin
    <3> QED
      BY <3>2, <3>3
  <2>3. pc' = pc /\ ready' = ready
    BY <1>5 DEF Duplicate
  <2>4. ASSUME NEW q \in Party, pc'[q] = "barrier" \/ q \in ready', NEW r \in Party \ {q}
        PROVE  InboxHas(r, q)'
    <3>1. InboxHas(r, q)
      BY <2>3, <2>4 DEF Posted
    <3> QED
      BY <2>2, <3>1, InboxGrows
  <2> QED
    BY <2>2, <2>3, <2>4 DEF Posted
<1>6. ASSUME NEW p \in Party, PostBarrier(p) PROVE Posted'
  <2>1. /\ pc[p] = "barrier" /\ inbox' = inbox /\ ready' = ready \cup {p}
        /\ pc' = [pc EXCEPT ![p] = "wait"]
    BY <1>6 DEF PostBarrier
  <2>2. ASSUME NEW q \in Party, pc'[q] = "barrier" \/ q \in ready'
        PROVE  pc[q] = "barrier" \/ q \in ready
    BY <2>1, <2>2 DEF Shape, Control
  <2>3. ASSUME NEW q \in Party, pc'[q] = "collect" PROVE ready' = Party
    BY <2>1, <2>3 DEF Shape, Control, Posted
  <2> QED
    BY <2>1, <2>2, <2>3 DEF Posted, InboxHas
<1>7. ASSUME NEW p \in Party, PassBarrier(p) PROVE Posted'
  <2>1. /\ inbox' = inbox /\ ready' = ready /\ pc' = [pc EXCEPT ![p] = "collect"]
        /\ ready = Party
    BY <1>7, AllReady DEF PassBarrier, Shape
  <2>2. ASSUME NEW q \in Party, pc'[q] = "barrier" \/ q \in ready'
        PROVE  pc[q] = "barrier" \/ q \in ready
    BY <2>1, <2>2
  <2> QED
    BY <2>1, <2>2 DEF Posted, InboxHas
<1>8. ASSUME NEW p \in Party, PostExtra(p) PROVE Posted'
  <2>1. PICK x \in Party \ {p}, m \in TrueReport :
          inbox' = [inbox EXCEPT ![x] = Append(@, m)] /\ m.from = p
    BY <1>8, ExtraTrue
  <2>2. ASSUME NEW q \in Party
        PROVE  /\ DOMAIN inbox[q] \subseteq DOMAIN inbox'[q]
               /\ \A i \in DOMAIN inbox[q] : inbox'[q][i] = inbox[q][i]
               /\ \A i \in DOMAIN inbox'[q] : inbox'[q][i].from # q
    <3>1. inbox[q] \in Seq(TrueReport) /\ \A i \in DOMAIN inbox[q] : inbox[q][i].from # q
      BY DEF Shape, Origin, Posted
    <3>2. CASE q = x
      <4>1. inbox'[q] = Append(inbox[q], m)
        BY <2>1, <3>2 DEF Shape, Origin
      <4> QED
        BY <2>1, <3>1, <3>2, <4>1, AppendKeeps
    <3>3. CASE q # x
      BY <2>1, <3>1, <3>3 DEF Shape, Origin
    <3> QED
      BY <3>2, <3>3
  <2>3. pc' = pc /\ ready' = ready
    BY <1>8 DEF PostExtra
  <2>4. ASSUME NEW q \in Party, pc'[q] = "barrier" \/ q \in ready', NEW r \in Party \ {q}
        PROVE  InboxHas(r, q)'
    <3>1. InboxHas(r, q)
      BY <2>3, <2>4 DEF Posted
    <3> QED
      BY <2>2, <3>1, InboxGrows
  <2> QED
    BY <2>2, <2>3, <2>4 DEF Posted
<1> QED
  BY <1>2, <1>3, <1>4, <1>5, <1>6, <1>7, <1>8 DEF Next, Expire, Done

-----------------------------------------------------------------------------
\* A first report is final once it is posted, a party accepts reports only in its last
\* poll, and the result of a party that has accepted some is their tally, in which the
\* first report of every other party is counted.
Counted(p, acc) ==
    \A q \in Party \ {p} : \E i \in acc : inbox[p][i].from = q /\ inbox[p][i].seq = 1
Tallied(p, acc) ==
    IF acc = {} THEN result[p] \in {NoAgreement, Tally(p, acc)}
    ELSE result[p] = Tally(p, acc) /\ Counted(p, acc)
Settled ==
    /\ \A p \in Party : \A i \in DOMAIN inbox[p] : inbox[p][i].seq = 1 =>
         /\ pc[inbox[p][i].from] \notin {"failed", "send"}
         /\ inbox[p][i] = report[inbox[p][i].from]
    /\ \A p \in Party : pc[p] # "done" => accepted[p] = {} /\ result[p] = NoAgreement
    /\ \A p \in Party : \A acc :
         pc[p] = "done" /\ accepted[p] = acc => Tallied(p, acc)

\* The reports in a list are reports of parties.
LEMMA SenderType ==
    ASSUME Shape, NEW p \in Party, NEW i \in DOMAIN inbox[p]
    PROVE  inbox[p][i] \in TrueReport /\ inbox[p][i].from \in Party
<1>1. inbox[p][i] \in TrueReport
  BY ElementOfSeq, LenProperties DEF Shape, Origin
<1> QED
  BY <1>1 DEF TrueReport, Report

\* A tally depends on the own report and on those it counts.
LEMMA TallyStable ==
    ASSUME NEW p \in Party, NEW acc, report'[p] = report[p],
           \A i \in acc : inbox'[p][i] = inbox[p][i]
    PROVE  Tally(p, acc)' = Tally(p, acc)
<1>1. \A q : {i \in acc : inbox'[p][i].blamed = q} = {i \in acc : inbox[p][i].blamed = q}
  OBVIOUS
<1>2. \A q : Count(p, acc, q)' = Count(p, acc, q)
  BY <1>1 DEF Count
<1>3. Winners(p, acc)' = Winners(p, acc)
  BY <1>2 DEF Winners, Majority
<1> QED
  BY <1>3 DEF Tally

\* What holds of a party that is done holds as long as its own report stands and its list
\* only grows.
LEMMA TalliedStable ==
    ASSUME NEW p \in Party, NEW acc, report'[p] = report[p], result'[p] = result[p],
           \A i \in acc : inbox'[p][i] = inbox[p][i], Tallied(p, acc)
    PROVE  Tallied(p, acc)'
<1>1. Tally(p, acc)' = Tally(p, acc)
  BY TallyStable
<1>2. Counted(p, acc) => Counted(p, acc)'
  BY DEF Counted
<1> QED
  BY <1>1, <1>2 DEF Tallied

\* The first poll after the barrier has the report of every other party.
LEMMA FirstPoll ==
    ASSUME Shape, Posted, NEW p \in Party, pc[p] = "collect", accepted[p] = {}
    PROVE  /\ Counted(p, Fresh(p))
           /\ Cardinality(Fresh(p)) \in Nat /\ Cardinality(Fresh(p)) >= Expected
<1>1. inbox[p] \in Seq(TrueReport) /\ DOMAIN inbox[p] = 1..Len(inbox[p]) /\ Len(inbox[p]) \in Nat
  BY LenProperties DEF Shape, Origin
<1>2. ASSUME NEW q \in Party \ {p}
      PROVE  \E i \in Fresh(p) : inbox[p][i].from = q /\ inbox[p][i].seq = 1
  <2> DEFINE S == {i \in DOMAIN inbox[p] : inbox[p][i].from = q /\ inbox[p][i].seq = 1}
  <2>1. InboxHas(p, q)
    BY DEF Posted
  <2>2. S # {} /\ S \in SUBSET Nat
    BY <1>1, <2>1 DEF InboxHas
  <2>3. PICK m \in S : \A k \in S : m <= k
    BY <2>2, LeastNumber
  <2>4. ASSUME NEW j \in DOMAIN inbox[p], SameKey(inbox[p][j], inbox[p][m])
        PROVE  j >= m /\ j \notin accepted[p]
    <3>1. j \in S
      BY <2>4 DEF SameKey
    <3>2. j \in Nat /\ m \in Nat
      BY <2>2, <3>1
    <3> QED
      BY <2>3, <3>1, <3>2
  <2>5. m \in Fresh(p)
    BY <2>4 DEF Fresh
  <2> QED
    BY <2>5
<1>3. Counted(p, Fresh(p))
  BY <1>2 DEF Counted
<1>4. IsFiniteSet(Fresh(p)) /\ Cardinality(Fresh(p)) \in Nat
  <2>1. Fresh(p) \in SUBSET (1..Len(inbox[p]))
    BY <1>1 DEF Fresh
  <2>2. IsFiniteSet(1..Len(inbox[p]))
    BY <1>1, FS_Interval
  <2> QED
    BY <2>1, <2>2, FS_Subset, FS_CardinalityType
<1>5. Cardinality(Party \ {p}) = N - 1 /\ N \in Nat
  <2>1. IsFiniteSet(Party) /\ Cardinality(Party) = N /\ N \in Nat
    BY FiniteParties, BlameAssumption
  <2> QED
    BY <2>1, FS_RemoveElement
<1>6. Cardinality(Party \ {p}) <= Cardinality(Fresh(p))
  <2> DEFINE first == [q \in Party \ {p} |->
                         CHOOSE i \in Fresh(p) : inbox[p][i].from = q /\ inbox[p][i].seq = 1]
  <2>1. ASSUME NEW q \in Party \ {p} PROVE first[q] \in Fresh(p) /\ inbox[p][first[q]].from = q
    BY <1>2
  <2> HIDE DEF first
  <2>2. first \in [Party \ {p} -> Fresh(p)]
    <3>1. first = [q \in Party \ {p} |-> first[q]]
      BY DEF first
    <3> QED
      BY <2>1, <3>1
  <2>3. first \in Injection(Party \ {p}, Fresh(p))
    BY <2>1, <2>2 DEF Injection, IsInjective
  <2> QED
    BY <1>4, <2>3, FS_Injection
<1> QED
  BY <1>3, <1>4, <1>5, <1>6 DEF Expected

\* Steps in which the lists only grow, no posted report changes and nobody finishes.
LEMMA GrowSettled ==
    ASSUME Shape, Settled, UNCHANGED <<accepted, result>>,
           \A p \in Party :
              /\ pc'[p] = "done" <=> pc[p] = "done"
              /\ pc[p] = "done" => report'[p] = report[p]
              /\ DOMAIN inbox[p] \subseteq DOMAIN inbox'[p]
              /\ \A i \in DOMAIN inbox[p] : inbox'[p][i] = inbox[p][i]
              /\ \A i \in DOMAIN inbox'[p] : inbox'[p][i].seq = 1 =>
                   /\ pc'[inbox'[p][i].from] \notin {"failed", "send"}
                   /\ inbox'[p][i] = report'[inbox'[p][i].from]
    PROVE  Settled'
<1>1. ASSUME NEW p \in Party, pc'[p] # "done" PROVE accepted'[p] = {} /\ result'[p] = NoAgreement
  BY <1>1 DEF Settled
<1>2. ASSUME NEW p \in Party, NEW acc, pc'[p] = "done", accepted'[p] = acc
      PROVE  Tallied(p, acc)'
  <2>1. Tallied(p, acc)
    BY <1>2 DEF Settled
  <2>2. \A i \in acc : inbox'[p][i] = inbox[p][i]
    BY <1>2 DEF Shape, CountedOnce
  <2>3. report'[p] = report[p] /\ result'[p] = result[p]
    BY <1>2
  <2> QED
    BY <2>1, <2>2, <2>3, TalliedStable
<1> QED
  BY <1>1, <1>2 DEF Settled

\* Steps in which a party finishes and no list grows.
LEMMA FinishSettled ==
    ASSUME Shape, Settled, UNCHANGED <<report, inbox>>, NEW p \in Party,
           pc' = [pc EXCEPT ![p] = "done"],
           \A q \in Party \ {p} : accepted'[q] = accepted[q] /\ result'[q] = result[q],
           \A acc : accepted'[p] = acc =>
              IF acc = {} THEN result'[p] \in {NoAgreement, Tally(p, acc)}
              ELSE result'[p] = Tally(p, acc) /\ Counted(p, acc)
    PROVE  Settled'
<1>1. \A q \in Party : pc'[q] = IF q = p THEN "done" ELSE pc[q]
  BY DEF Shape, Control
<1>2. \A q \in Party : \A i \in DOMAIN inbox[q] : inbox[q][i].seq = 1 =>
        /\ pc'[inbox[q][i].from] \notin {"failed", "send"}
        /\ inbox[q][i] = report[inbox[q][i].from]
  <2> SUFFICES ASSUME NEW q \in Party, NEW i \in DOMAIN inbox[q], inbox[q][i].seq = 1
               PROVE  /\ pc'[inbox[q][i].from] \notin {"failed", "send"}
                      /\ inbox[q][i] = report[inbox[q][i].from]
    OBVIOUS
  <2>1. inbox[q][i].from \in Party
    BY SenderType
  <2> QED
    BY <1>1, <2>1 DEF Settled
<1>3. \A q \in Party : pc'[q] # "done" => accepted'[q] = {} /\ result'[q] = NoAgreement
  BY <1>1 DEF Settled
<1>4. ASSUME NEW q \in Party, NEW acc, pc'[q] = "done", accepted'[q] = acc
      PROVE  Tallied(q, acc)'
  <2>1. CASE q = p
    <3>1. Tally(p, acc)' = Tally(p, acc)
      BY TallyStable
    <3>2. Counted(p, acc) => Counted(p, acc)'
      BY DEF Counted
    <3> QED
      BY <1>4, <2>1, <3>1, <3>2 DEF Tallied
  <2>2. CASE q # p
    <3>1. Tallied(q, acc)
      BY <1>1, <1>4, <2>2 DEF Settled
    <3>2. report'[q] = report[q] /\ result'[q] = result[q] /\ \A i \in acc : inbox'[q][i] = inbox[q][i]
      BY <2>2
    <3> QED
      BY <3>1, <3>2, TalliedStable
  <2> QED
    BY <2>1, <2>2
<1> QED
  BY <1>2, <1>3, <1>4 DEF Settled

\* Every step keeps it.
LEMMA NextSettled == Shape /\ Posted /\ Settled /\ [Next]_vars => Settled'
<1> SUFFICES ASSUME Shape, Posted, Settled, [Next]_vars PROVE Settled'
  OBVIOUS
<1>1. pc \in [Party -> {"failed", "send", "barrier", "wait", "collect", "done"}]
      /\ result \in [Party -> Result]
      /\ accepted \in [Party -> SUBSET Nat] /\ report \in [Party -> TrueReport]
      /\ inbox \in [Party -> Seq(TrueReport)]
      /\ \A p \in Party : report[p].from = p /\ report[p].seq = 1
  BY DEF Shape, Control, CountedOnce, Origin
<1>2. \A p \in Party : \A i \in DOMAIN inbox[p] :
        /\ inbox[p][i].from \in Party
        /\ inbox[p][i].seq = 1 => /\ pc[inbox[p][i].from] \notin {"failed", "send"}
                                  /\ inbox[p][i] = report[inbox[p][i].from]
  BY SenderType DEF Settled
<1>3. CASE UNCHANGED vars
  BY <1>2, <1>3, GrowSettled DEF vars
<1>4. ASSUME NEW p \in Party, HandleBlame(p) PROVE Settled'
  <2>1. /\ pc[p] = "failed" /\ pc' = [pc EXCEPT ![p] = "send"]
        /\ UNCHANGED <<inbox, accepted, result>>
        /\ \A q \in Party \ {p} : report'[q] = report[q]
    BY <1>1, <1>4 DEF HandleBlame
  <2>2. \A q \in Party : \A i \in DOMAIN inbox[q] :
          inbox[q][i].seq = 1 => inbox[q][i].from # p
    BY <1>2, <2>1
  <2>3. \A q \in Party \ {p} : pc'[q] = pc[q]
    BY <1>1, <2>1
  <2>4. pc'[p] = "send"
    BY <1>1, <2>1
  <2>5. \A q \in Party : \A i \in DOMAIN inbox'[q] : inbox'[q][i].seq = 1 =>
          /\ pc'[inbox'[q][i].from] \notin {"failed", "send"}
          /\ inbox'[q][i] = report'[inbox'[q][i].from]
    BY <1>2, <2>1, <2>2, <2>3
  <2> QED
    BY <2>1, <2>3, <2>4, <2>5, GrowSettled
<1>5. ASSUME NEW p \in Party, PostBarrier(p) \/ PassBarrier(p) PROVE Settled'
  <2>1. PICK v \in {"wait", "collect"} : pc' = [pc EXCEPT ![p] = v]
    BY <1>5 DEF PostBarrier, PassBarrier
  <2>2. /\ pc[p] \in {"barrier", "wait"} /\ pc'[p] \in {"wait", "collect"}
        /\ \A q \in Party \ {p} : pc'[q] = pc[q]
        /\ UNCHANGED <<report, inbox, accepted, result>>
    BY <1>1, <1>5, <2>1 DEF PostBarrier, PassBarrier
  <2> QED
    BY <1>2, <2>2, GrowSettled
<1>6. ASSUME NEW p \in Party, SendReport(p) PROVE Settled'
  <2>1. /\ pc[p] = "send" /\ pc'[p] = "barrier" /\ \A q \in Party \ {p} : pc'[q] = pc[q]
        /\ UNCHANGED <<report, accepted, result>>
    BY <1>1, <1>6 DEF SendReport
  <2>2. ASSUME NEW q \in Party
        PROVE  /\ DOMAIN inbox[q] \subseteq DOMAIN inbox'[q]
               /\ \A i \in DOMAIN inbox[q] : inbox'[q][i] = inbox[q][i]
               /\ \A i \in DOMAIN inbox'[q] : i \in DOMAIN inbox[q] \/ inbox'[q][i] = report[p]
    <3>1. inbox'[q] = IF q = p THEN inbox[q] ELSE Append(inbox[q], report[p])
      BY <1>6 DEF SendReport
    <3>2. inbox[q] \in Seq(TrueReport) /\ report[p] \in TrueReport
      BY <1>1
    <3> QED
      BY <3>1, <3>2, AppendKeeps
  <2>3. ASSUME NEW q \in Party, NEW i \in DOMAIN inbox'[q], inbox'[q][i].seq = 1
        PROVE  /\ pc'[inbox'[q][i].from] \notin {"failed", "send"}
               /\ inbox'[q][i] = report[inbox'[q][i].from]
    <3>1. CASE i \in DOMAIN inbox[q]
      BY <1>2, <2>1, <2>2, <2>3, <3>1
    <3>2. CASE inbox'[q][i] = report[p]
      BY <1>1, <2>1, <3>2
    <3> QED
      BY <2>2, <3>1, <3>2
  <2> QED
    BY <2>1, <2>2, <2>3, GrowSettled
<1>7. ASSUME NEW p \in Party, Duplicate(p) PROVE Settled'
  <2>1. PICK k \in DOMAIN inbox[p] : inbox' = [inbox EXCEPT ![p] = Append(@, @[k])]
    BY <1>7 DEF Duplicate
  <2>2. UNCHANGED <<pc, report, accepted, result>>
    BY <1>7 DEF Duplicate
  <2>3. ASSUME NEW q \in Party
        PROVE  /\ DOMAIN inbox[q] \subseteq DOMAIN inbox'[q]
               /\ \A i \in DOMAIN inbox[q] : inbox'[q][i] = inbox[q][i]
               /\ \A i \in DOMAIN inbox'[q] :
                    i \in DOMAIN inbox[q] \/ inbox'[q][i] = inbox[p][k]
    <3>1. inbox'[q] = IF q = p THEN Append(inbox[q], inbox[p][k]) ELSE inbox[q]
      BY <1>1, <2>1
    <3>2. inbox[q] \in Seq(TrueReport) /\ inbox[p][k] \in TrueReport
      BY <1>1, <2>1, SenderType
    <3> QED
      BY <3>1, <3>2, AppendKeeps
  <2>4. ASSUME NEW q \in Party, NEW i \in DOMAIN inbox'[q], inbox'[q][i].seq = 1
        PROVE  /\ pc'[inbox'[q][i].from] \notin {"failed", "send"}
               /\ inbox'[q][i] = report[inbox'[q][i].from]
    <3>1. CASE i \in DOMAIN inbox[q]
      BY <1>2, <2>2, <2>3, <2>4, <3>1
    <3>2. CASE inbox'[q][i] = inbox[p][k]
      BY <1>2, <2>1, <2>2, <2>4, <3>2
    <3> QED
      BY <2>3, <3>1, <3>2
  <2> QED
    BY <2>2, <2>3, <2>4, GrowSettled
<1>8. ASSUME NEW p \in Party, PostExtra(p) PROVE Settled'
  <2>1. PICK x \in Party \ {p}, m \in TrueReport :
          inbox' = [inbox EXCEPT ![x] = Append(@, m)] /\ m.seq # 1
    BY <1>8, ExtraTrue
  <2>2. UNCHANGED <<pc, report, accepted, result>>
    BY <1>8 DEF PostExtra
  <2>3. ASSUME NEW q \in Party
        PROVE  /\ DOMAIN inbox[q] \subseteq DOMAIN inbox'[q]
               /\ \A i \in DOMAIN inbox[q] : inbox'[q][i] = inbox[q][i]
               /\ \A i \in DOMAIN inbox'[q] : i \in DOMAIN inbox[q] \/ inbox'[q][i] = m
    <3>1. inbox'[q] = IF q = x THEN Append(inbox[q], m) ELSE inbox[q]
      BY <1>1, <2>1
    <3>2. inbox[q] \in Seq(TrueReport)
      BY <1>1
    <3> QED
      BY <3>1, <3>2, AppendKeeps
  <2>4. ASSUME NEW q \in Party, NEW i \in DOMAIN inbox'[q], inbox'[q][i].seq = 1
        PROVE  /\ pc'[inbox'[q][i].from] \notin {"failed", "send"}
               /\ inbox'[q][i] = report[inbox'[q][i].from]
    <3>1. i \in DOMAIN inbox[q]
      BY <2>1, <2>3, <2>4
    <3> QED
      BY <1>2, <2>2, <2>3, <2>4, <3>1
  <2> QED
    BY <2>2, <2>3, <2>4, GrowSettled
<1>9. ASSUME NEW p \in Party, ExchangeFails(p) PROVE Settled'
  <2>1. /\ pc[p] \in {"send", "barrier", "wait"} /\ pc' = [pc EXCEPT ![p] = "done"]
        /\ UNCHANGED <<report, inbox, accepted, result>>
    BY <1>1, <1>9 DEF ExchangeFails
  <2>2. accepted[p] = {} /\ result[p] = NoAgreement
    BY <2>1 DEF Settled
  <2> QED
    BY <2>1, <2>2, FinishSettled
<1>10. ASSUME NEW p \in Party, CollectFails(p) PROVE Settled'
  <2>1. /\ pc[p] = "collect" /\ pc' = [pc EXCEPT ![p] = "done"]
        /\ result' = [result EXCEPT ![p] = Tally(p, accepted[p])]
        /\ UNCHANGED <<report, inbox, accepted>>
    BY <1>10 DEF CollectFails
  <2>2. accepted[p] = {} /\ result'[p] = Tally(p, accepted[p])
        /\ \A q \in Party \ {p} : result'[q] = result[q]
    BY <1>1, <2>1 DEF Settled
  <2> QED
    BY <2>1, <2>2, FinishSettled
<1>11. ASSUME NEW p \in Party, Poll(p) PROVE Settled'
  <2> DEFINE c == Fresh(p)
  <2>1. pc[p] = "collect" /\ accepted[p] = {}
    BY <1>11 DEF Poll, Settled
  <2>2. Counted(p, c) /\ Cardinality(c) \in Nat /\ Cardinality(c) >= Expected
    BY <2>1, FirstPoll
  <2>3. accepted' = [accepted EXCEPT ![p] = c] /\ accepted'[p] = c
        /\ UNCHANGED <<report, inbox>>
    BY <1>1, <1>11, <2>1 DEF Poll
  <2>4. IF 1 + Cardinality(accepted'[p]) >= Expected + 1
        THEN /\ result' = [result EXCEPT ![p] = Tally(p, accepted'[p])]
             /\ pc' = [pc EXCEPT ![p] = "done"]
        ELSE UNCHANGED <<result, pc>>
    BY <1>11 DEF Poll
  <2> HIDE DEF c
  <2>5. 1 + Cardinality(c) >= Expected + 1
    BY <2>2, BlameAssumption DEF Expected
  <2>6. /\ result' = [result EXCEPT ![p] = Tally(p, c)]
        /\ pc' = [pc EXCEPT ![p] = "done"]
    BY <2>3, <2>4, <2>5
  <2>7. result'[p] = Tally(p, c)
        /\ \A q \in Party \ {p} : accepted'[q] = accepted[q] /\ result'[q] = result[q]
    BY <1>1, <2>3, <2>6
  <2> QED
    BY <2>1, <2>2, <2>3, <2>6, <2>7, FinishSettled
<1> QED
  BY <1>3, <1>4, <1>5, <1>6, <1>7, <1>8, <1>9, <1>10, <1>11 DEF Next, Expire, Done

\* Together they are an invariant.
LEMMA BlameInvariant == Spec => [](Shape /\ Posted /\ Settled)
<1>1. Init => Posted /\ Settled
  BY DEF Init, Posted, Settled
<1> QED
  BY <1>1, InitShape, NextShape, NextPosted, NextSettled, PTL DEF Spec
-----------------------------------------------------------------------------
\* For any number of parties, and whatever faulty ones post besides, whoever passes the
\* barrier of ExchangeBlame finds the report of every other party at the relay and has
\* counted none before.
THEOREM BarrierOrdersReports == Spec => []ReportsBeforeBarrier
<1>1. Shape /\ Posted /\ Settled => ReportsBeforeBarrier
  <2> SUFFICES ASSUME Shape, Posted, Settled, NEW p \in Party, pc[p] = "collect"
               PROVE  /\ {inbox[p][i].from : i \in DOMAIN inbox[p]} = Party \ {p}
                      /\ accepted[p] = {}
    BY DEF ReportsBeforeBarrier
  <2>1. ASSUME NEW i \in DOMAIN inbox[p] PROVE inbox[p][i].from \in Party \ {p}
    BY SenderType DEF Posted
  <2>2. ASSUME NEW q \in Party \ {p}
        PROVE  \E i \in DOMAIN inbox[p] : inbox[p][i].from = q
    BY DEF Posted, InboxHas
  <2>3. accepted[p] = {}
    BY DEF Settled
  <2> QED
    BY <2>1, <2>2, <2>3
<1> QED
  BY <1>1, BlameInvariant, PTL
-----------------------------------------------------------------------------
\* Half and one more is more than half.
LEMMA MajorityIsMore ==
    ASSUME NEW c \in Nat, NEW n \in Nat
    PROVE  c >= n \div 2 + 1 <=> 2 * c > n
OBVIOUS

\* What is counted is finite.
LEMMA AcceptedFinite ==
    ASSUME Shape, NEW p \in Party, NEW acc \in SUBSET (DOMAIN inbox[p])
    PROVE  IsFiniteSet(acc) /\ Cardinality(acc) \in Nat
<1>1. Len(inbox[p]) \in Nat /\ DOMAIN inbox[p] = 1..Len(inbox[p])
  BY LenProperties DEF Shape, Origin
<1>2. IsFiniteSet(1..Len(inbox[p]))
  BY <1>1, FS_Interval
<1> QED
  BY <1>1, <1>2, FS_Subset, FS_CardinalityType

\* A tally that names a party that is not faulty has a majority of doubtful reports:
\* every vote for that party is one.
LEMMA FramedByDoubtful ==
    ASSUME Shape, NEW p \in Party, NEW acc \in SUBSET (DOMAIN inbox[p]),
           Tally(p, acc).agreed, Tally(p, acc).party \notin Faulty
    PROVE  2 * (Cardinality({i \in acc : inbox[p][i].from \in Doubtful})
                  + (IF p \in Doubtful THEN 1 ELSE 0)) > 1 + Cardinality(acc)
<1>1. PICK q \in Winners(p, acc) : Tally(p, acc).party = q
  BY DEF Tally, NoAgreement
<1>2. q \in Party /\ q \notin Faulty \cup {0} /\ Count(p, acc, q) >= Majority(acc)
  BY <1>1, BlameAssumption DEF Winners, Party
<1> DEFINE S == {i \in acc : inbox[p][i].blamed = q}
           D == {i \in acc : inbox[p][i].from \in Doubtful}
<1>3. S \subseteq D
  <2> SUFFICES ASSUME NEW i \in S PROVE inbox[p][i].from \in Doubtful
    OBVIOUS
  <2>1. inbox[p][i] \in TrueReport
    BY SenderType
  <2> QED
    BY <1>2, <2>1 DEF TrueReport
<1>4. IsFiniteSet(D) /\ Cardinality(D) \in Nat
  <2>1. D \in SUBSET (DOMAIN inbox[p])
    OBVIOUS
  <2> HIDE DEF D
  <2> QED
    BY <2>1, AcceptedFinite
<1>5. Cardinality(S) \in Nat /\ Cardinality(S) <= Cardinality(D)
  <2> HIDE DEF S, D
  <2> QED
    BY <1>3, <1>4, FS_Subset, FS_CardinalityType
<1>6. report[p].blamed = q => p \in Doubtful
  BY <1>2 DEF Shape, Origin, TrueReport
<1>7. Cardinality(acc) \in Nat
  BY AcceptedFinite
<1>8. Cardinality(S) + (IF report[p].blamed = q THEN 1 ELSE 0)
        >= (1 + Cardinality(acc)) \div 2 + 1
  BY <1>2 DEF Count, Majority
<1> HIDE DEF S, D
<1>9. Cardinality(D) + (IF p \in Doubtful THEN 1 ELSE 0) >= (1 + Cardinality(acc)) \div 2 + 1
  BY <1>4, <1>5, <1>6, <1>7, <1>8
<1> DEFINE c == Cardinality(D) + (IF p \in Doubtful THEN 1 ELSE 0)
           n == 1 + Cardinality(acc)
<1>10. c \in Nat /\ n \in Nat
  BY <1>4, <1>7
<1>11. c >= n \div 2 + 1
  BY <1>9
<1> HIDE DEF c, n
<1>12. 2 * c > n
  BY <1>10, <1>11, MajorityIsMore
<1> QED
  BY <1>12 DEF c, n, D

\* No party gets an honest one blamed by itself: for any number of parties, faulty or
\* deceived, and any number of additional reports, an honest party's BlameResult agrees
\* on one that is not faulty only if more than half of the reports it tallied came from
\* faulty or deceived parties, whichever had arrived when its context expired.
THEOREM FramingNeedsMajority == Spec => []NoFraming
<1>1. Shape /\ Posted /\ Settled => NoFraming
  <2> SUFFICES ASSUME Shape, Settled, NEW p \in Party, Framed(p)
               PROVE  2 * DoubtfulReports(p) > 1 + Cardinality(accepted[p])
    BY DEF NoFraming
  <2>1. result[p].agreed /\ result[p].party \notin Faulty /\ result[p] # NoAgreement
    BY DEF Framed, NoAgreement
  <2>2. PICK acc : acc = accepted[p]
    OBVIOUS
  <2>3. Tallied(p, acc)
    BY <2>1, <2>2 DEF Settled
  <2>4. result[p] = Tally(p, acc)
    BY <2>1, <2>3 DEF Tallied
  <2>5. acc \in SUBSET (DOMAIN inbox[p])
    BY <2>2 DEF Shape, CountedOnce
  <2>6. Tally(p, acc).agreed /\ Tally(p, acc).party \notin Faulty
    BY <2>1, <2>4
  <2>7. 2 * (Cardinality({i \in acc : inbox[p][i].from \in Doubtful})
               + (IF p \in Doubtful THEN 1 ELSE 0)) > 1 + Cardinality(acc)
    BY <2>5, <2>6, FramedByDoubtful
  <2> QED
    BY <2>2, <2>7 DEF DoubtfulReports
<1> QED
  BY <1>1, BlameInvariant, PTL
-----------------------------------------------------------------------------
\* Two finite sets related one to one have the same number of members.
LEMMA OneToOne ==
    ASSUME NEW S, NEW T, NEW f \in [S -> T], IsFiniteSet(T),
           \A a, b \in S : f[a] = f[b] => a = b,
           \A t \in T : \E s \in S : f[s] = t
    PROVE  IsFiniteSet(S) /\ Cardinality(S) = Cardinality(T)
<1>1. f \in Injection(S, T)
  BY DEF Injection, IsInjective
<1>2. f \in Surjection(S, T)
  BY DEF Surjection
<1> QED
  BY <1>1, <1>2, FS_Injection

\* The parties that blame q, the own report included, are as many as tallyBlame
\* counts over one report of each of the others.
LEMMA CountBlamers ==
    ASSUME Shape, Settled, NEW p \in Party, NEW acc, acc = accepted[p],
           {inbox[p][i].from : i \in acc} = Party \ {p},
           \A i, j \in acc : inbox[p][i].from = inbox[p][j].from => i = j,
           \A i \in acc : inbox[p][i].seq = 1, NEW q \in Party
    PROVE  /\ Count(p, acc, q) = Cardinality(Blamers(q))
           /\ Cardinality(acc) = N - 1
           /\ IsFiniteSet(Blamers(q)) /\ Cardinality(Blamers(q)) \in Nat
<1> DEFINE from == [i \in acc |-> inbox[p][i].from]
           A == {i \in acc : inbox[p][i].blamed = q}
           B == Blamers(q)
<1>1. acc \subseteq DOMAIN inbox[p]
      /\ \A i, j \in acc : inbox[p][i].from = inbox[p][j].from => i = j
  BY DEF Shape, CountedOnce
<1>2. \A i \in acc : inbox[p][i] = report[inbox[p][i].from]
  BY <1>1 DEF Settled
<1>3. IsFiniteSet(Party) /\ Cardinality(Party) = N /\ N \in Nat
  BY FiniteParties, BlameAssumption
<1>4. IsFiniteSet(Party \ {p}) /\ Cardinality(Party \ {p}) = N - 1
  BY <1>3, FS_RemoveElement
<1>5. /\ \A i \in acc : inbox[p][i].from \in Party \ {p}
      /\ \A r \in Party \ {p} : \E i \in acc : inbox[p][i].from = r
  BY Zenon
<1>6. Cardinality(acc) = N - 1
  <2>1. from \in [acc -> Party \ {p}]
    BY <1>5
  <2>2. \A a, b \in acc : from[a] = from[b] => a = b
    BY <1>1
  <2>3. \A r \in Party \ {p} : \E i \in acc : from[i] = r
    BY <1>5
  <2> HIDE DEF from
  <2>4. Cardinality(acc) = Cardinality(Party \ {p})
    BY <1>4, <2>1, <2>2, <2>3, OneToOne
  <2> QED
    BY <1>4, <2>4
<1>7. IsFiniteSet(B) /\ Cardinality(B) \in Nat
  <2>1. B \in SUBSET Party
    BY DEF Blamers
  <2> QED
    BY <1>3, <2>1, FS_Subset, FS_CardinalityType
<1>8. /\ IsFiniteSet(B \ {p})
      /\ Cardinality(B \ {p}) = IF p \in B THEN Cardinality(B) - 1 ELSE Cardinality(B)
  BY <1>7, FS_RemoveElement
<1>9. Cardinality(A) = Cardinality(B \ {p})
  <2> DEFINE f == [i \in A |-> inbox[p][i].from]
  <2>1. f \in [A -> B \ {p}]
    BY <1>2, <1>5 DEF Blamers
  <2>2. \A a, b \in A : f[a] = f[b] => a = b
    BY <1>1
  <2>3. \A r \in B \ {p} : \E i \in A : f[i] = r
    <3> SUFFICES ASSUME NEW r \in B \ {p} PROVE \E i \in A : f[i] = r
      OBVIOUS
    <3>1. r \in Party \ {p} /\ report[r].blamed = q
      BY DEF Blamers
    <3>2. PICK i \in acc : inbox[p][i].from = r
      BY <1>5, <3>1
    <3>3. i \in A
      BY <1>2, <3>1, <3>2
    <3> QED
      BY <3>2, <3>3
  <2> HIDE DEF f, A, B
  <2> QED
    BY <1>8, <2>1, <2>2, <2>3, OneToOne
<1>10. report[p].blamed = q <=> p \in B
  BY DEF Blamers
<1>11. Count(p, acc, q) = Cardinality(A) + (IF report[p].blamed = q THEN 1 ELSE 0)
  BY DEF Count
<1>12. Cardinality(A) + (IF p \in B THEN 1 ELSE 0) = Cardinality(B)
  <2> HIDE DEF A, B
  <2> QED
    BY <1>7, <1>8, <1>9
<1> HIDE DEF A
<1> QED
  BY <1>6, <1>7, <1>10, <1>11, <1>12

\* Two parties are not both blamed by more than half of all.
LEMMA OneWinner ==
    ASSUME NEW q \in Party, NEW r \in Party, IsFiniteSet(Blamers(q)), IsFiniteSet(Blamers(r)),
           Cardinality(Blamers(q)) \in Nat, Cardinality(Blamers(r)) \in Nat,
           2 * Cardinality(Blamers(q)) > N, 2 * Cardinality(Blamers(r)) > N
    PROVE  q = r
<1>1. Blamers(q) \subseteq Party /\ Blamers(r) \subseteq Party
  BY DEF Blamers
<1>2. N \in Nat /\ IsFiniteSet(Party) /\ Cardinality(Party) = N
  BY FiniteParties, BlameAssumption
<1>3. Cardinality(Blamers(q)) + Cardinality(Blamers(r)) > Cardinality(Party)
  BY <1>2
<1>4. Blamers(q) \cap Blamers(r) # {}
  BY <1>1, <1>2, <1>3, FS_MajoritiesIntersect
<1> QED
  BY <1>4 DEF Blamers

\* In a tally that has everybody's report, who has two of them is faulty; if nobody has,
\* each of them is the first report of its sender.
LEMMA WhoRepeats ==
    ASSUME Shape, Settled, NEW p \in Party, Complete(p)
    PROVE  /\ accepted[p] # {} /\ Repeaters(p) \subseteq Faulty
           /\ Repeaters(p) = {} =>
                /\ \A i, j \in accepted[p] : inbox[p][i].from = inbox[p][j].from => i = j
                /\ \A i \in accepted[p] : inbox[p][i].seq = 1
<1>1. PICK acc : acc = accepted[p]
  OBVIOUS
<1>2. {inbox[p][i].from : i \in acc} = Party \ {p} /\ pc[p] = "done"
  BY <1>1 DEF Complete
<1>3. acc # {}
  <2>1. 1 \in Party /\ 2 \in Party
    BY BlameAssumption DEF Party
  <2> QED
    BY <1>2, <2>1
<1>4. Counted(p, acc)
  BY <1>1, <1>2, <1>3 DEF Settled, Tallied
<1>5. \A i \in acc : inbox[p][i] \in TrueReport /\ i \in DOMAIN inbox[p]
  BY <1>1, SenderType DEF Shape, CountedOnce
<1>6. Repeaters(p) \subseteq Faulty
  <2> SUFFICES ASSUME NEW i \in acc, NEW j \in acc, i # j, inbox[p][i].from = inbox[p][j].from,
                      inbox[p][i].from \notin Faulty
               PROVE  FALSE
    BY <1>1 DEF Repeaters
  <2>1. inbox[p][i].seq = 1 /\ inbox[p][j].seq = 1
    BY <1>5 DEF TrueReport
  <2>2. SameKey(inbox[p][i], inbox[p][j])
    BY <2>1 DEF SameKey
  <2> QED
    BY <1>1, <2>2 DEF Shape, CountedOnce
<1>7. ASSUME Repeaters(p) = {}, NEW i \in acc, NEW j \in acc,
             inbox[p][i].from = inbox[p][j].from
      PROVE  i = j
  BY <1>1, <1>7 DEF Repeaters
<1>8. ASSUME Repeaters(p) = {}, NEW i \in acc PROVE inbox[p][i].seq = 1
  <2>1. inbox[p][i].from \in Party \ {p}
    BY <1>2
  <2>2. PICK j \in acc : inbox[p][j].from = inbox[p][i].from /\ inbox[p][j].seq = 1
    BY <1>4, <2>1 DEF Counted
  <2>3. i = j
    BY <1>7, <1>8, <2>2
  <2> QED
    BY <2>2, <2>3
<1> QED
  BY <1>1, <1>3, <1>6, <1>7, <1>8

\* A settled result over all the reports is the party more than half of all blame.
LEMMA SettledMajority == Shape /\ Settled => TallyIsMajority
<1> SUFFICES ASSUME Shape, Settled, NEW p \in Party, Complete(p), Repeaters(p) = {},
                    NEW q \in Party
             PROVE  result[p].party = q <=> 2 * Cardinality(Blamers(q)) > N
  BY WhoRepeats DEF TallyIsMajority
<1>1. PICK acc : acc = accepted[p]
  OBVIOUS
<1>2. {inbox[p][i].from : i \in acc} = Party \ {p} /\ pc[p] = "done"
  BY <1>1 DEF Complete
<1>3. /\ acc # {} /\ \A i \in acc : inbox[p][i].seq = 1
      /\ \A i, j \in acc : inbox[p][i].from = inbox[p][j].from => i = j
  BY <1>1, WhoRepeats
<1>4. result[p] = Tally(p, acc)
  BY <1>1, <1>2, <1>3 DEF Settled, Tallied
<1>5. \A r \in Party : /\ Count(p, acc, r) = Cardinality(Blamers(r))
                       /\ Cardinality(acc) = N - 1
                       /\ IsFiniteSet(Blamers(r)) /\ Cardinality(Blamers(r)) \in Nat
  BY <1>1, <1>2, <1>3, CountBlamers
<1>6. Majority(acc) = N \div 2 + 1 /\ N \in Nat
  <2>1. N \in Nat /\ Cardinality(acc) = N - 1
    BY <1>5, BlameAssumption
  <2>2. 1 + Cardinality(acc) = N
    BY <2>1
  <2> QED
    BY <2>1, <2>2 DEF Majority
<1>7. \A r \in Party : r \in Winners(p, acc) <=> 2 * Cardinality(Blamers(r)) > N
  <2> TAKE r \in Party
  <2>1. Cardinality(Blamers(r)) >= N \div 2 + 1 <=> 2 * Cardinality(Blamers(r)) > N
    BY <1>5, <1>6, MajorityIsMore
  <2> QED
    BY <1>5, <1>6, <2>1 DEF Winners
<1>8. \A r \in Winners(p, acc) : r \in Party
  BY DEF Winners
<1>9. CASE Winners(p, acc) = {}
  <2>1. result[p].party = 0
    BY <1>4, <1>9 DEF Tally, NoAgreement
  <2>2. 0 \notin Party
    BY BlameAssumption DEF Party
  <2> QED
    BY <1>7, <1>9, <2>1, <2>2
<1>10. CASE Winners(p, acc) # {}
  <2>1. result[p].party \in Winners(p, acc)
    BY <1>4, <1>10 DEF Tally
  <2>2. q \in Winners(p, acc) => q = result[p].party
    BY <1>5, <1>7, <1>8, <2>1, OneWinner
  <2> QED
    BY <1>7, <2>1, <2>2
<1> QED
  BY <1>9, <1>10

\* For any number of parties, duplicates and additional reports, a party that has
\* everyone's report has one of each party that is not faulty; and when nobody has more,
\* it agrees on exactly the party that more than half of all the parties blame.
THEOREM TallyIsMajorityAlways == Spec => []TallyIsMajority
BY BlameInvariant, SettledMajority, PTL
=============================================================================
