--------------------------- MODULE DeliveryProofs ---------------------------
(***************************************************************************)
(* Session, continued: what a receive loop that counts messages has heard. *)
(*                                                                         *)
(* The receive loops of the *_run functions count messages and do not look *)
(* at senders, the relay may list a message twice and may lose one, and a  *)
(* round of one party overlaps the next round of another.  That a finished *)
(* loop has heard every peer rests on four facts about the session as a    *)
(* whole, which Delivery states: an outbox holds nothing twice, the relay  *)
(* lists one message of a kind and a sender, a task was fed only what is   *)
(* marked as seen, and the loop's counter is the number of its senders.    *)
(* The agreement on metadata, the check of the group key and the absence   *)
(* of a stall follow; with the order in which messages are listed, that    *)
(* two parties do not fail.                                                *)
(***************************************************************************)
EXTENDS SessionProofs, FiniteSetTheorems
-----------------------------------------------------------------------------
\* A sequence with the elements of s and then those of t is their concatenation.
LEMMA ConcatIs ==
    ASSUME NEW S, NEW s \in Seq(S), NEW t \in Seq(S), NEW u \in Seq(S),
           Len(u) = Len(s) + Len(t),
           \A i \in 1..Len(s) : u[i] = s[i],
           \A i \in 1..Len(t) : u[Len(s) + i] = t[i]
    PROVE  s \o t = u
<1>1. /\ s \o t \in Seq(S) /\ Len(s \o t) = Len(s) + Len(t)
      /\ \A i \in 1..(Len(s) + Len(t)) :
            (s \o t)[i] = IF i <= Len(s) THEN s[i] ELSE t[i - Len(s)]
  BY ConcatProperties
<1>2. Len(s) \in Nat /\ Len(t) \in Nat
  BY LenProperties
<1>3. ASSUME NEW i \in 1..(Len(s) + Len(t)) PROVE (s \o t)[i] = u[i]
  <2>1. CASE i <= Len(s)
    BY <1>1, <1>2, <2>1
  <2>2. CASE ~(i <= Len(s))
    <3>1. i - Len(s) \in 1..Len(t) /\ Len(s) + (i - Len(s)) = i
      BY <1>2, <2>2
    <3> QED
      BY <1>1, <2>2, <3>1
  <2> QED
    BY <2>1, <2>2
<1> QED
  BY <1>1, <1>3, SeqEqual

\* The tuples that the scripts are written with.
LEMMA ConcatTuples ==
    /\ \A a, b : <<a>> \o <<b>> = <<a, b>>
    /\ \A a, b, c : <<a>> \o <<b, c>> = <<a, b, c>>
    /\ \A a, b, c : <<a, b>> \o <<c>> = <<a, b, c>>
    /\ \A a, b, c, d : <<a, b>> \o <<c, d>> = <<a, b, c, d>>
    /\ \A a, b, c, d : <<a, b, c>> \o <<d>> = <<a, b, c, d>>
    /\ \A a, b, c, d, e : <<a, b, c, d>> \o <<e>> = <<a, b, c, d, e>>
    /\ \A a, b, c, d, e, f : <<a, b, c, d>> \o <<e, f>> = <<a, b, c, d, e, f>>
<1>1. ASSUME NEW a, NEW b
      PROVE  <<a>> \o <<b>> = <<a, b>>
  <2> DEFINE S == {a, b}
             s == <<a>>
             t == <<b>>
             u == <<a, b>>
  <2>1. s \in Seq(S) /\ t \in Seq(S) /\ u \in Seq(S)
    OBVIOUS
  <2>2. Len(s) = 1 /\ Len(t) = 1 /\ Len(u) = 2
    OBVIOUS
  <2>3. /\ s[1] = a
        /\ t[1] = b
        /\ u[1] = a /\ u[2] = b
    OBVIOUS
  <2> HIDE DEF s, t, u, S
  <2>4. \A i \in 1..Len(s) : u[i] = s[i]
    BY <2>2, <2>3
  <2>5. \A i \in 1..Len(t) : u[Len(s) + i] = t[i]
    BY <2>2, <2>3
  <2>6. Len(u) = Len(s) + Len(t)
    BY <2>2
  <2>7. s \o t = u
    BY <2>1, <2>4, <2>5, <2>6, ConcatIs
  <2> QED
    BY <2>7 DEF s, t, u
<1>2. ASSUME NEW a, NEW b, NEW c
      PROVE  <<a>> \o <<b, c>> = <<a, b, c>>
  <2> DEFINE S == {a, b, c}
             s == <<a>>
             t == <<b, c>>
             u == <<a, b, c>>
  <2>1. s \in Seq(S) /\ t \in Seq(S) /\ u \in Seq(S)
    OBVIOUS
  <2>2. Len(s) = 1 /\ Len(t) = 2 /\ Len(u) = 3
    OBVIOUS
  <2>3. /\ s[1] = a
        /\ t[1] = b /\ t[2] = c
        /\ u[1] = a /\ u[2] = b /\ u[3] = c
    OBVIOUS
  <2> HIDE DEF s, t, u, S
  <2>4. \A i \in 1..Len(s) : u[i] = s[i]
    BY <2>2, <2>3
  <2>5. \A i \in 1..Len(t) : u[Len(s) + i] = t[i]
    BY <2>2, <2>3
  <2>6. Len(u) = Len(s) + Len(t)
    BY <2>2
  <2>7. s \o t = u
    BY <2>1, <2>4, <2>5, <2>6, ConcatIs
  <2> QED
    BY <2>7 DEF s, t, u
<1>3. ASSUME NEW a, NEW b, NEW c
      PROVE  <<a, b>> \o <<c>> = <<a, b, c>>
  <2> DEFINE S == {a, b, c}
             s == <<a, b>>
             t == <<c>>
             u == <<a, b, c>>
  <2>1. s \in Seq(S) /\ t \in Seq(S) /\ u \in Seq(S)
    OBVIOUS
  <2>2. Len(s) = 2 /\ Len(t) = 1 /\ Len(u) = 3
    OBVIOUS
  <2>3. /\ s[1] = a /\ s[2] = b
        /\ t[1] = c
        /\ u[1] = a /\ u[2] = b /\ u[3] = c
    OBVIOUS
  <2> HIDE DEF s, t, u, S
  <2>4. \A i \in 1..Len(s) : u[i] = s[i]
    BY <2>2, <2>3
  <2>5. \A i \in 1..Len(t) : u[Len(s) + i] = t[i]
    BY <2>2, <2>3
  <2>6. Len(u) = Len(s) + Len(t)
    BY <2>2
  <2>7. s \o t = u
    BY <2>1, <2>4, <2>5, <2>6, ConcatIs
  <2> QED
    BY <2>7 DEF s, t, u
<1>4. ASSUME NEW a, NEW b, NEW c, NEW d
      PROVE  <<a, b>> \o <<c, d>> = <<a, b, c, d>>
  <2> DEFINE S == {a, b, c, d}
             s == <<a, b>>
             t == <<c, d>>
             u == <<a, b, c, d>>
  <2>1. s \in Seq(S) /\ t \in Seq(S) /\ u \in Seq(S)
    OBVIOUS
  <2>2. Len(s) = 2 /\ Len(t) = 2 /\ Len(u) = 4
    OBVIOUS
  <2>3. /\ s[1] = a /\ s[2] = b
        /\ t[1] = c /\ t[2] = d
        /\ u[1] = a /\ u[2] = b /\ u[3] = c /\ u[4] = d
    OBVIOUS
  <2> HIDE DEF s, t, u, S
  <2>4. \A i \in 1..Len(s) : u[i] = s[i]
    BY <2>2, <2>3
  <2>5. \A i \in 1..Len(t) : u[Len(s) + i] = t[i]
    BY <2>2, <2>3
  <2>6. Len(u) = Len(s) + Len(t)
    BY <2>2
  <2>7. s \o t = u
    BY <2>1, <2>4, <2>5, <2>6, ConcatIs
  <2> QED
    BY <2>7 DEF s, t, u
<1>5. ASSUME NEW a, NEW b, NEW c, NEW d
      PROVE  <<a, b, c>> \o <<d>> = <<a, b, c, d>>
  <2> DEFINE S == {a, b, c, d}
             s == <<a, b, c>>
             t == <<d>>
             u == <<a, b, c, d>>
  <2>1. s \in Seq(S) /\ t \in Seq(S) /\ u \in Seq(S)
    OBVIOUS
  <2>2. Len(s) = 3 /\ Len(t) = 1 /\ Len(u) = 4
    OBVIOUS
  <2>3. /\ s[1] = a /\ s[2] = b /\ s[3] = c
        /\ t[1] = d
        /\ u[1] = a /\ u[2] = b /\ u[3] = c /\ u[4] = d
    OBVIOUS
  <2> HIDE DEF s, t, u, S
  <2>4. \A i \in 1..Len(s) : u[i] = s[i]
    BY <2>2, <2>3
  <2>5. \A i \in 1..Len(t) : u[Len(s) + i] = t[i]
    BY <2>2, <2>3
  <2>6. Len(u) = Len(s) + Len(t)
    BY <2>2
  <2>7. s \o t = u
    BY <2>1, <2>4, <2>5, <2>6, ConcatIs
  <2> QED
    BY <2>7 DEF s, t, u
<1>6. ASSUME NEW a, NEW b, NEW c, NEW d, NEW e
      PROVE  <<a, b, c, d>> \o <<e>> = <<a, b, c, d, e>>
  <2> DEFINE S == {a, b, c, d, e}
             s == <<a, b, c, d>>
             t == <<e>>
             u == <<a, b, c, d, e>>
  <2>1. s \in Seq(S) /\ t \in Seq(S) /\ u \in Seq(S)
    OBVIOUS
  <2>2. Len(s) = 4 /\ Len(t) = 1 /\ Len(u) = 5
    OBVIOUS
  <2>3. /\ s[1] = a /\ s[2] = b /\ s[3] = c /\ s[4] = d
        /\ t[1] = e
        /\ u[1] = a /\ u[2] = b /\ u[3] = c /\ u[4] = d /\ u[5] = e
    OBVIOUS
  <2> HIDE DEF s, t, u, S
  <2>4. \A i \in 1..Len(s) : u[i] = s[i]
    BY <2>2, <2>3
  <2>5. \A i \in 1..Len(t) : u[Len(s) + i] = t[i]
    BY <2>2, <2>3
  <2>6. Len(u) = Len(s) + Len(t)
    BY <2>2
  <2>7. s \o t = u
    BY <2>1, <2>4, <2>5, <2>6, ConcatIs
  <2> QED
    BY <2>7 DEF s, t, u
<1>7. ASSUME NEW a, NEW b, NEW c, NEW d, NEW e, NEW f
      PROVE  <<a, b, c, d>> \o <<e, f>> = <<a, b, c, d, e, f>>
  <2> DEFINE S == {a, b, c, d, e, f}
             s == <<a, b, c, d>>
             t == <<e, f>>
             u == <<a, b, c, d, e, f>>
  <2>1. s \in Seq(S) /\ t \in Seq(S) /\ u \in Seq(S)
    OBVIOUS
  <2>2. Len(s) = 4 /\ Len(t) = 2 /\ Len(u) = 6
    OBVIOUS
  <2>3. /\ s[1] = a /\ s[2] = b /\ s[3] = c /\ s[4] = d
        /\ t[1] = e /\ t[2] = f
        /\ u[1] = a /\ u[2] = b /\ u[3] = c /\ u[4] = d /\ u[5] = e /\ u[6] = f
    OBVIOUS
  <2> HIDE DEF s, t, u, S
  <2>4. \A i \in 1..Len(s) : u[i] = s[i]
    BY <2>2, <2>3
  <2>5. \A i \in 1..Len(t) : u[Len(s) + i] = t[i]
    BY <2>2, <2>3
  <2>6. Len(u) = Len(s) + Len(t)
    BY <2>2
  <2>7. s \o t = u
    BY <2>1, <2>4, <2>5, <2>6, ConcatIs
  <2> QED
    BY <2>7 DEF s, t, u
<1> QED
  BY <1>1, <1>2, <1>3, <1>4, <1>5, <1>6, <1>7

\* The browser's copies of the functions have the same rounds.
LEMMA ScriptSame ==
    ASSUME NEW c \in CeremonyName, NEW p \in Party
    PROVE  Scripts[c][p] = Script(c, p)
<1>1. WasmScript(c, p) = Script(c, p)
  BY DEF WasmScript, Script, WasmFroztDkg, WasmFroztKeyImport, WasmFroztSign,
         WasmFromtDkg, WasmFromtKeyImport, WasmKeyImage, CeremonyName
<1> QED
  BY <1>1 DEF Scripts

\* The order in which the kinds of a ceremony are awaited.
Level(k) ==
    CASE k \in {"r1", "commit", "partials"} -> 1
      [] k \in {"r2", "package"}            -> 2
      [] k \in {"meta", "share"}            -> 3
      [] k = "hash"                         -> 4
      [] k = "vk"                           -> 5
      [] OTHER                              -> 0

\* The levels of the kinds.
LEMMA Levels ==
    /\ Level("r1") = 1 /\ Level("commit") = 1 /\ Level("partials") = 1
    /\ Level("r2") = 2 /\ Level("package") = 2 /\ Level("meta") = 3
    /\ Level("share") = 3 /\ Level("hash") = 4 /\ Level("vk") = 5 /\ Level("none") = 0
    /\ \A k : Level(k) \in Nat
BY DEF Level

\* The kinds a round sends, and the order of what a script sends and awaits: no kind
\* twice, and nothing like another round.
Sends(r) == {r.send[j] : j \in 1..Len(r.send)}
Proper(r) ==
    /\ \A i, j \in 1..Len(r.send) : i # j => r.send[i] # r.send[j]
    /\ \A i, j \in 1..Len(r.send) : i < j => Level(r.send[i]) < Level(r.send[j])
    /\ r.recv = "meta" => "hash" \notin Sends(r)
Precedes(r, s) ==
    /\ r.recv # s.recv /\ Sends(r) \cap Sends(s) = {}
    /\ s.recv = "meta" => r.recv # "hash" /\ "hash" \notin Sends(r)
    /\ s.recv # "r1"
    /\ \A k \in Sends(r), l \in Sends(s) : Level(k) < Level(l)
    /\ s.need # 0 => Level(r.recv) < Level(s.recv)
Orderly(s) ==
    /\ \A i \in 1..Len(s) : Proper(s[i])
    /\ \A i, j \in 1..Len(s) : i < j => Precedes(s[i], s[j])

\* The rounds of the scripts send nothing, one kind or two.
LEMMA SendsNothing ==
    ASSUME NEW recv, NEW need, NEW err
    PROVE  /\ Sends(Round(<<>>, recv, need, err)) = {}
           /\ Proper(Round(<<>>, recv, need, err))
BY DEF Sends, Round, Proper

\* One kind, in a round that does not await metadata.
LEMMA SendsOne ==
    ASSUME NEW k, NEW recv, recv # "meta", NEW need, NEW err
    PROVE  /\ Sends(Round(<<k>>, recv, need, err)) = {k}
           /\ Proper(Round(<<k>>, recv, need, err))
BY DEF Sends, Round, Proper

\* Two kinds, as the creator of the metadata and the signing coordinator send.
LEMMA SendsTwo ==
    ASSUME NEW k, NEW l, Level(k) < Level(l), NEW recv, recv # "meta", NEW need, NEW err
    PROVE  /\ Sends(Round(<<k, l>>, recv, need, err)) = {k, l}
           /\ Proper(Round(<<k, l>>, recv, need, err))
BY Levels DEF Sends, Round, Proper

\* Of 2 rounds.
LEMMA Orderly2 ==
    ASSUME NEW a, NEW b,
           Proper(a) /\ Proper(b),
           Precedes(a, b)
    PROVE  Orderly(<<a, b>>)
BY DEF Orderly

\* Of 3 rounds.
LEMMA Orderly3 ==
    ASSUME NEW a, NEW b, NEW c,
           Proper(a) /\ Proper(b) /\ Proper(c),
           Precedes(a, b) /\ Precedes(a, c),
           Precedes(b, c)
    PROVE  Orderly(<<a, b, c>>)
BY DEF Orderly

\* Of 4 rounds.
LEMMA Orderly4 ==
    ASSUME NEW a, NEW b, NEW c, NEW d,
           Proper(a) /\ Proper(b) /\ Proper(c) /\ Proper(d),
           Precedes(a, b) /\ Precedes(a, c) /\ Precedes(a, d),
           Precedes(b, c) /\ Precedes(b, d),
           Precedes(c, d)
    PROVE  Orderly(<<a, b, c, d>>)
BY DEF Orderly

\* Of 5 rounds.
LEMMA Orderly5 ==
    ASSUME NEW a, NEW b, NEW c, NEW d, NEW e,
           Proper(a) /\ Proper(b) /\ Proper(c) /\ Proper(d) /\ Proper(e),
           Precedes(a, b) /\ Precedes(a, c) /\ Precedes(a, d) /\ Precedes(a, e),
           Precedes(b, c) /\ Precedes(b, d) /\ Precedes(b, e),
           Precedes(c, d) /\ Precedes(c, e),
           Precedes(d, e)
    PROVE  Orderly(<<a, b, c, d, e>>)
BY DEF Orderly

\* Of 6 rounds.
LEMMA Orderly6 ==
    ASSUME NEW a, NEW b, NEW c, NEW d, NEW e, NEW f,
           Proper(a) /\ Proper(b) /\ Proper(c) /\ Proper(d) /\ Proper(e) /\ Proper(f),
           Precedes(a, b) /\ Precedes(a, c) /\ Precedes(a, d) /\ Precedes(a, e) /\ Precedes(a, f),
           Precedes(b, c) /\ Precedes(b, d) /\ Precedes(b, e) /\ Precedes(b, f),
           Precedes(c, d) /\ Precedes(c, e) /\ Precedes(c, f),
           Precedes(d, e) /\ Precedes(d, f),
           Precedes(e, f)
    PROVE  Orderly(<<a, b, c, d, e, f>>)
BY DEF Orderly

\* What the proofs use of a script s of ceremony c.
Metadata == {"FroztDkg", "FroztKeyImport"}
GoodScript(c, s) ==
    /\ Orderly(s)
    /\ IF c \in Metadata
       THEN \E i \in 1..(Len(s) - 1) : s[i].recv = "hash" /\ s[i].need = N - 1
       ELSE \A i \in 1..Len(s) : s[i].recv # "meta"
    /\ c = "Reshare" => Len(s) = 3 /\ s[2].recv = "r2"

\* The kinds every party sends in ceremony c, and those the coordinator does.
FromAll(c) ==
    CASE c \in {"FroztDkg", "FroztKeyImport"}           -> {"r1", "r2", "hash"}
      [] c \in {"FromtDkg", "Reshare", "FromtKeyImport"} -> {"r1", "r2"}
      [] c \in {"FroztSign", "FromtSign"}                -> {"commit", "share"}
      [] c = "KeyImage"                                  -> {"partials"}
FromOne(c) ==
    CASE c = "FroztDkg"       -> {"meta"}
      [] c = "FroztKeyImport" -> {"meta", "vk"}
      [] c = "FromtKeyImport" -> {"vk"}
      [] c = "FroztSign"      -> {"package"}
      [] OTHER                -> {}

\* A script that sends kind k, before it awaits k or anything later.
SendsInTime(s, k) ==
    \E j \in 1..Len(s) :
        k \in Sends(s[j]) /\ \A i \in 1..(j - 1) : Level(s[i].recv) < Level(k)

\* Without a second seed holder, party p sends in script s of ceremony c only what
\* is awaited of it, and awaits whatever is sent to it.
Awaits(s, k) == \E i \in 1..Len(s) : s[i].recv = k /\ s[i].need # 0
Expected(c, p, s) ==
    /\ \A i \in 1..Len(s) : \A k \in Sends(s[i]) :
         k \in FromAll(c) \/ (p = Coordinator /\ k \in FromOne(c))
    /\ \A k \in FromAll(c) : Awaits(s, k)
    /\ p # Coordinator => \A k \in FromOne(c) : Awaits(s, k)

\* Party p awaits in script s of ceremony c nothing that is not sent, and sends in
\* time what is awaited of it.
Complete(c, p, s) ==
    /\ s[1].need # 0
    /\ \A i \in 1..Len(s) : s[i].need # 0 =>
         \/ s[i].need = N - 1 /\ s[i].recv \in FromAll(c)
         \/ s[i].need = 1 /\ s[i].recv \in FromOne(c) /\ p # Coordinator
    /\ \A k \in FromAll(c) : SendsInTime(s, k)
    /\ p = Coordinator => \A k \in FromOne(c) : SendsInTime(s, k)
    /\ Misconfigured = {} => Expected(c, p, s)

\* A kind that is sent in the j-th of at most four rounds.
LEMMA InTime ==
    ASSUME NEW s, NEW k, NEW j \in 1..4, j <= Len(s), Len(s) \in Nat, k \in Sends(s[j]),
           j > 1 => Level(s[1].recv) < Level(k),
           j > 2 => Level(s[2].recv) < Level(k),
           j > 3 => Level(s[3].recv) < Level(k)
    PROVE  SendsInTime(s, k)
<1>1. j \in 1..Len(s)
  OBVIOUS
<1>2. ASSUME NEW i \in 1..(j - 1) PROVE Level(s[i].recv) < Level(k)
  <2>1. i \in {1, 2, 3} /\ i < j
    OBVIOUS
  <2> QED
    BY <2>1
<1> QED
  BY <1>1, <1>2 DEF SendsInTime

\* A kind that is awaited in the j-th of at most six rounds.
LEMMA AwaitsAt ==
    ASSUME NEW s, NEW k, NEW j \in 1..6, j <= Len(s), Len(s) \in Nat, s[j].recv = k,
           s[j].need # 0
    PROVE  Awaits(s, k)
<1>1. j \in 1..Len(s)
  OBVIOUS
<1> QED
  BY <1>1 DEF Awaits

\* Every *_run function, native or of a browser build, is such a script.
LEMMA ScriptsGood ==
    ASSUME NEW c \in CeremonyName, NEW p \in Party
    PROVE  GoodScript(c, Scripts[c][p]) /\ Complete(c, p, Scripts[c][p])
<1> DEFINE R(send, recv) == Round(send, recv, N - 1, "LIB_SERIALIZATION_ERROR")
           A == R(<<"r1">>, "r1")
           B == R(<<"r2">>, "r2")
           C(err) == Round(<<"meta", "hash">>, "hash", N - 1, err)
           M == Round(<<>>, "meta", 1, "LIB_INVALID_BUFFER_SIZE")
           H(err) == Round(<<"hash">>, "hash", N - 1, err)
           V == Round(<<>>, "vk", 1, "LIB_KEY_IMPORT_ERROR")
           F == Finish(<<>>)
           G == Finish(<<"vk">>)
<1>1. Scripts[c][p] = Script(c, p)
  BY ScriptSame
<1>2. /\ Proper(A) /\ Sends(A) = {"r1"} /\ Proper(B) /\ Sends(B) = {"r2"}
      /\ Proper(M) /\ Sends(M) = {} /\ Proper(V) /\ Sends(V) = {}
      /\ Proper(F) /\ Sends(F) = {} /\ Proper(G) /\ Sends(G) = {"vk"}
      /\ \A err : Proper(C(err)) /\ Sends(C(err)) = {"meta", "hash"}
      /\ \A err : Proper(H(err)) /\ Sends(H(err)) = {"hash"}
  <2>1. Proper(A) /\ Sends(A) = {"r1"} /\ Proper(B) /\ Sends(B) = {"r2"}
    BY SendsOne
  <2>2. Proper(M) /\ Sends(M) = {} /\ Proper(V) /\ Sends(V) = {}
    BY SendsNothing
  <2>3. Proper(F) /\ Sends(F) = {} /\ Proper(G) /\ Sends(G) = {"vk"}
    BY SendsNothing, SendsOne DEF Finish
  <2>4. ASSUME NEW err PROVE Proper(C(err)) /\ Sends(C(err)) = {"meta", "hash"}
    BY SendsTwo, Levels
  <2>5. ASSUME NEW err PROVE Proper(H(err)) /\ Sends(H(err)) = {"hash"}
    BY SendsOne
  <2> QED
    BY <2>1, <2>2, <2>3, <2>4, <2>5
<1>3. /\ A.recv = "r1" /\ B.recv = "r2" /\ M.recv = "meta" /\ V.recv = "vk"
      /\ F.recv = "none" /\ G.recv = "none"
      /\ \A err : /\ C(err).recv = "hash" /\ C(err).need = N - 1
                  /\ H(err).recv = "hash" /\ H(err).need = N - 1
  BY DEF Round, Finish
<1>3a. /\ A.need = N - 1 /\ B.need = N - 1 /\ M.need = 1 /\ V.need = 1
       /\ F.need = 0 /\ G.need = 0 /\ N - 1 # 0
  BY CeremonyAssumption DEF Round, Finish
<1>4. /\ DkgRounds = <<A, B>>
      /\ \A b, err : MetadataRounds(b, err) = IF b THEN <<C(err)>> ELSE <<M, H(err)>>
      /\ \A b : VkRounds(b) = IF b THEN <<G>> ELSE <<V, F>>
  BY DEF DkgRounds, MetadataRounds, VkRounds
<1> HIDE DEF A, B, C, M, H, V, F, G
<1>5. CASE c = "FroztDkg"
  <2> DEFINE e == "LIB_DKG_ERROR"
  <2>1. Scripts[c][p] = (DkgRounds \o MetadataRounds(p = Coordinator, e)) \o <<F>>
    BY <1>1, <1>5 DEF Script, FroztDkg, F
  <2> HIDE DEF e
  <2>2. CASE p = Coordinator
    <3>1. MetadataRounds(p = Coordinator, e) = <<C(e)>>
      BY <1>4, <2>2
    <3>2. <<A, B>> \o <<C(e)>> = <<A, B, C(e)>>
      BY ConcatTuples
    <3>3. <<A, B, C(e)>> \o <<F>> = <<A, B, C(e), F>>
      BY ConcatTuples
    <3>4. Scripts[c][p] = <<A, B, C(e), F>>
      BY <1>4, <2>1, <3>1, <3>2, <3>3
    <3>5. Orderly(<<A, B, C(e), F>>)
      BY <1>2, <1>3, <1>3a, Levels, Orderly4 DEF Precedes
    <3>6. Complete(c, p, <<A, B, C(e), F>>)
      <4> DEFINE t == <<A, B, C(e), F>>
      <4>1. Len(t) = 4 /\ t[1] = A /\ t[2] = B /\ t[3] = C(e) /\ t[4] = F
        OBVIOUS
      <4> HIDE DEF t
      <4>2. /\ t[1].recv = "r1" /\ t[1].need = N - 1 /\ Sends(t[1]) = {"r1"}
            /\ t[2].recv = "r2" /\ t[2].need = N - 1 /\ Sends(t[2]) = {"r2"}
            /\ t[3].recv = "hash" /\ t[3].need = N - 1 /\ Sends(t[3]) = {"meta", "hash"}
            /\ t[4].recv = "none" /\ t[4].need = 0 /\ Sends(t[4]) = {}
            /\ N - 1 # 0
        BY <1>2, <1>3, <1>3a, <4>1
      <4>3. Len(t) = 4
        BY <4>1
      <4>4. FromAll(c) = {"r1", "r2", "hash"} /\ FromOne(c) = {"meta"}
        BY <1>5 DEF FromAll, FromOne
      <4>5. SendsInTime(t, "r1")
        BY <4>2, <4>3, Levels, InTime
      <4>6. SendsInTime(t, "r2")
        BY <4>2, <4>3, Levels, InTime
      <4>7. SendsInTime(t, "hash")
        BY <4>2, <4>3, Levels, InTime
      <4>8. SendsInTime(t, "meta")
        BY <4>2, <4>3, Levels, InTime
      <4>9. \A i \in 1..4 : t[i].need # 0 =>
               \/ t[i].need = N - 1 /\ t[i].recv \in FromAll(c)
               \/ t[i].need = 1 /\ t[i].recv \in FromOne(c) /\ p # Coordinator
        BY <4>2, <4>4, <2>2
      <4>10. ASSUME Misconfigured = {} PROVE Expected(c, p, t)
        <5>1. \A i \in 1..4 : \A k \in Sends(t[i]) :
                 k \in FromAll(c) \/ (p = Coordinator /\ k \in FromOne(c))
          BY <1>5, <2>2, <4>2, <4>4, <4>10
        <5>2. /\ t[1].recv = "r1" /\ t[1].need # 0
              /\ t[2].recv = "r2" /\ t[2].need # 0
              /\ t[3].recv = "hash" /\ t[3].need # 0
          BY <4>2
        <5>3. Awaits(t, "r1")
          BY <4>3, <5>2, AwaitsAt
        <5>4. Awaits(t, "r2")
          BY <4>3, <5>2, AwaitsAt
        <5>5. Awaits(t, "hash")
          BY <4>3, <5>2, AwaitsAt
        <5> QED
          BY <1>5, <2>2, <4>3, <4>4, <4>10, <5>1, <5>3, <5>4, <5>5 DEF Expected
      <4> QED
        BY <1>5, <2>2, <4>2, <4>3, <4>4, <4>5, <4>6, <4>7, <4>8, <4>9, <4>10 DEF Complete, t
    <3> QED
      BY <1>3, <1>5, <3>4, <3>5, <3>6 DEF GoodScript, Metadata
  <2>3. CASE p # Coordinator
    <3>1. MetadataRounds(p = Coordinator, e) = <<M, H(e)>>
      BY <1>4, <2>3
    <3>2. <<A, B>> \o <<M, H(e)>> = <<A, B, M, H(e)>>
      BY ConcatTuples
    <3>3. <<A, B, M, H(e)>> \o <<F>> = <<A, B, M, H(e), F>>
      BY ConcatTuples
    <3>4. Scripts[c][p] = <<A, B, M, H(e), F>>
      BY <1>4, <2>1, <3>1, <3>2, <3>3
    <3>5. Orderly(<<A, B, M, H(e), F>>)
      BY <1>2, <1>3, <1>3a, Levels, Orderly5 DEF Precedes
    <3>6. Complete(c, p, <<A, B, M, H(e), F>>)
      <4> DEFINE t == <<A, B, M, H(e), F>>
      <4>1. Len(t) = 5 /\ t[1] = A /\ t[2] = B /\ t[3] = M /\ t[4] = H(e) /\ t[5] = F
        OBVIOUS
      <4> HIDE DEF t
      <4>2. /\ t[1].recv = "r1" /\ t[1].need = N - 1 /\ Sends(t[1]) = {"r1"}
            /\ t[2].recv = "r2" /\ t[2].need = N - 1 /\ Sends(t[2]) = {"r2"}
            /\ t[3].recv = "meta" /\ t[3].need = 1 /\ Sends(t[3]) = {}
            /\ t[4].recv = "hash" /\ t[4].need = N - 1 /\ Sends(t[4]) = {"hash"}
            /\ t[5].recv = "none" /\ t[5].need = 0 /\ Sends(t[5]) = {}
            /\ N - 1 # 0
        BY <1>2, <1>3, <1>3a, <4>1
      <4>3. Len(t) = 5
        BY <4>1
      <4>4. FromAll(c) = {"r1", "r2", "hash"} /\ FromOne(c) = {"meta"}
        BY <1>5 DEF FromAll, FromOne
      <4>5. SendsInTime(t, "r1")
        BY <4>2, <4>3, Levels, InTime
      <4>6. SendsInTime(t, "r2")
        BY <4>2, <4>3, Levels, InTime
      <4>7. SendsInTime(t, "hash")
        BY <4>2, <4>3, Levels, InTime
      <4>8. \A i \in 1..5 : t[i].need # 0 =>
               \/ t[i].need = N - 1 /\ t[i].recv \in FromAll(c)
               \/ t[i].need = 1 /\ t[i].recv \in FromOne(c) /\ p # Coordinator
        BY <4>2, <4>4, <2>3
      <4>9. ASSUME Misconfigured = {} PROVE Expected(c, p, t)
        <5>1. \A i \in 1..5 : \A k \in Sends(t[i]) :
                 k \in FromAll(c) \/ (p = Coordinator /\ k \in FromOne(c))
          BY <1>5, <2>3, <4>2, <4>4, <4>9
        <5>2. /\ t[1].recv = "r1" /\ t[1].need # 0
              /\ t[2].recv = "r2" /\ t[2].need # 0
              /\ t[3].recv = "meta" /\ t[3].need # 0
              /\ t[4].recv = "hash" /\ t[4].need # 0
          BY <4>2
        <5>3. Awaits(t, "r1")
          BY <4>3, <5>2, AwaitsAt
        <5>4. Awaits(t, "r2")
          BY <4>3, <5>2, AwaitsAt
        <5>5. Awaits(t, "hash")
          BY <4>3, <5>2, AwaitsAt
        <5>6. Awaits(t, "meta")
          BY <4>3, <5>2, AwaitsAt
        <5> QED
          BY <1>5, <2>3, <4>3, <4>4, <4>9, <5>1, <5>3, <5>4, <5>5, <5>6 DEF Expected
      <4> QED
        BY <1>5, <2>3, <4>2, <4>3, <4>4, <4>5, <4>6, <4>7, <4>8, <4>9 DEF Complete, t
    <3> QED
      BY <1>3, <1>5, <3>4, <3>5, <3>6 DEF GoodScript, Metadata
  <2> QED
    BY <2>2, <2>3
<1>6. CASE c \in {"FromtDkg", "Reshare"}
  <2>1. Scripts[c][p] = DkgRounds \o <<F>>
    BY <1>1, <1>6 DEF Script, FromtDkg, Reshare, F
  <2>2. <<A, B>> \o <<F>> = <<A, B, F>>
    BY ConcatTuples
  <2>3. Scripts[c][p] = <<A, B, F>>
    BY <1>4, <2>1, <2>2
  <2>4. Orderly(<<A, B, F>>)
    BY <1>2, <1>3, <1>3a, Levels, Orderly3 DEF Precedes
  <2>5. Complete(c, p, <<A, B, F>>)
    <3> DEFINE t == <<A, B, F>>
    <3>1. Len(t) = 3 /\ t[1] = A /\ t[2] = B /\ t[3] = F
      OBVIOUS
    <3> HIDE DEF t
    <3>2. /\ t[1].recv = "r1" /\ t[1].need = N - 1 /\ Sends(t[1]) = {"r1"}
          /\ t[2].recv = "r2" /\ t[2].need = N - 1 /\ Sends(t[2]) = {"r2"}
          /\ t[3].recv = "none" /\ t[3].need = 0 /\ Sends(t[3]) = {}
          /\ N - 1 # 0
      BY <1>2, <1>3, <1>3a, <3>1
    <3>3. Len(t) = 3
      BY <3>1
    <3>4. FromAll(c) = {"r1", "r2"} /\ FromOne(c) = {}
      BY <1>6 DEF FromAll, FromOne
    <3>5. SendsInTime(t, "r1")
      BY <3>2, <3>3, Levels, InTime
    <3>6. SendsInTime(t, "r2")
      BY <3>2, <3>3, Levels, InTime
    <3>7. \A i \in 1..3 : t[i].need # 0 =>
             \/ t[i].need = N - 1 /\ t[i].recv \in FromAll(c)
             \/ t[i].need = 1 /\ t[i].recv \in FromOne(c) /\ p # Coordinator
      BY <3>2, <3>4
    <3>8. ASSUME Misconfigured = {} PROVE Expected(c, p, t)
      <4>1. \A i \in 1..3 : \A k \in Sends(t[i]) :
               k \in FromAll(c) \/ (p = Coordinator /\ k \in FromOne(c))
        BY <1>6, <3>2, <3>4, <3>8
      <4>2. /\ t[1].recv = "r1" /\ t[1].need # 0
            /\ t[2].recv = "r2" /\ t[2].need # 0
        BY <3>2
      <4>3. Awaits(t, "r1")
        BY <3>3, <4>2, AwaitsAt
      <4>4. Awaits(t, "r2")
        BY <3>3, <4>2, AwaitsAt
      <4> QED
        BY <1>6, <3>3, <3>4, <3>8, <4>1, <4>3, <4>4 DEF Expected
    <3> QED
      BY <1>6, <3>2, <3>3, <3>4, <3>5, <3>6, <3>7, <3>8 DEF Complete, t
  <2> QED
    BY <1>3, <1>6, <2>3, <2>4, <2>5 DEF GoodScript, Metadata
<1>7. CASE c = "FroztKeyImport"
  <2> DEFINE e == "LIB_KEY_IMPORT_ERROR"
             b == SeedHolder(p)
  <2>1. Scripts[c][p] = (DkgRounds \o MetadataRounds(b, e)) \o VkRounds(b)
    BY <1>1, <1>7 DEF Script, FroztKeyImport
  <2>1a. (~b => p # Coordinator) /\ (b /\ Misconfigured = {} => p = Coordinator)
    BY DEF SeedHolder
  <2> HIDE DEF e, b
  <2>2. CASE b
    <3>1. MetadataRounds(b, e) = <<C(e)>> /\ VkRounds(b) = <<G>>
      BY <1>4, <2>2
    <3>2. <<A, B>> \o <<C(e)>> = <<A, B, C(e)>>
      BY ConcatTuples
    <3>3. <<A, B, C(e)>> \o <<G>> = <<A, B, C(e), G>>
      BY ConcatTuples
    <3>4. Scripts[c][p] = <<A, B, C(e), G>>
      BY <1>4, <2>1, <3>1, <3>2, <3>3
    <3>5. Orderly(<<A, B, C(e), G>>)
      BY <1>2, <1>3, <1>3a, Levels, Orderly4 DEF Precedes
    <3>6. Complete(c, p, <<A, B, C(e), G>>)
      <4> DEFINE t == <<A, B, C(e), G>>
      <4>1. Len(t) = 4 /\ t[1] = A /\ t[2] = B /\ t[3] = C(e) /\ t[4] = G
        OBVIOUS
      <4> HIDE DEF t
      <4>2. /\ t[1].recv = "r1" /\ t[1].need = N - 1 /\ Sends(t[1]) = {"r1"}
            /\ t[2].recv = "r2" /\ t[2].need = N - 1 /\ Sends(t[2]) = {"r2"}
            /\ t[3].recv = "hash" /\ t[3].need = N - 1 /\ Sends(t[3]) = {"meta", "hash"}
            /\ t[4].recv = "none" /\ t[4].need = 0 /\ Sends(t[4]) = {"vk"}
            /\ N - 1 # 0
        BY <1>2, <1>3, <1>3a, <4>1
      <4>3. Len(t) = 4
        BY <4>1
      <4>4. FromAll(c) = {"r1", "r2", "hash"} /\ FromOne(c) = {"meta", "vk"}
        BY <1>7 DEF FromAll, FromOne
      <4>5. SendsInTime(t, "r1")
        BY <4>2, <4>3, Levels, InTime
      <4>6. SendsInTime(t, "r2")
        BY <4>2, <4>3, Levels, InTime
      <4>7. SendsInTime(t, "hash")
        BY <4>2, <4>3, Levels, InTime
      <4>8. SendsInTime(t, "meta")
        BY <4>2, <4>3, Levels, InTime
      <4>9. SendsInTime(t, "vk")
        BY <4>2, <4>3, Levels, InTime
      <4>10. \A i \in 1..4 : t[i].need # 0 =>
               \/ t[i].need = N - 1 /\ t[i].recv \in FromAll(c)
               \/ t[i].need = 1 /\ t[i].recv \in FromOne(c) /\ p # Coordinator
        BY <4>2, <4>4
      <4>11. ASSUME Misconfigured = {} PROVE Expected(c, p, t)
        <5>1. \A i \in 1..4 : \A k \in Sends(t[i]) :
                 k \in FromAll(c) \/ (p = Coordinator /\ k \in FromOne(c))
          BY <1>7, <2>1a, <2>2, <4>2, <4>4, <4>11
        <5>2. /\ t[1].recv = "r1" /\ t[1].need # 0
              /\ t[2].recv = "r2" /\ t[2].need # 0
              /\ t[3].recv = "hash" /\ t[3].need # 0
          BY <4>2
        <5>3. Awaits(t, "r1")
          BY <4>3, <5>2, AwaitsAt
        <5>4. Awaits(t, "r2")
          BY <4>3, <5>2, AwaitsAt
        <5>5. Awaits(t, "hash")
          BY <4>3, <5>2, AwaitsAt
        <5> QED
          BY <1>7, <2>1a, <2>2, <4>3, <4>4, <4>11, <5>1, <5>3, <5>4, <5>5 DEF Expected
      <4> QED
        BY <1>7, <4>2, <4>3, <4>4, <4>5, <4>6, <4>7, <4>8, <4>9, <4>10, <4>11 DEF Complete, t
    <3> QED
      BY <1>3, <1>7, <3>4, <3>5, <3>6 DEF GoodScript, Metadata
  <2>3. CASE ~b
    <3>1. MetadataRounds(b, e) = <<M, H(e)>> /\ VkRounds(b) = <<V, F>>
      BY <1>4, <2>3
    <3>2. <<A, B>> \o <<M, H(e)>> = <<A, B, M, H(e)>>
      BY ConcatTuples
    <3>3. <<A, B, M, H(e)>> \o <<V, F>> = <<A, B, M, H(e), V, F>>
      BY ConcatTuples
    <3>4. Scripts[c][p] = <<A, B, M, H(e), V, F>>
      BY <1>4, <2>1, <3>1, <3>2, <3>3
    <3>5. Orderly(<<A, B, M, H(e), V, F>>)
      BY <1>2, <1>3, <1>3a, Levels, Orderly6 DEF Precedes
    <3>6. Complete(c, p, <<A, B, M, H(e), V, F>>)
      <4> DEFINE t == <<A, B, M, H(e), V, F>>
      <4>1. Len(t) = 6 /\ t[1] = A /\ t[2] = B /\ t[3] = M /\ t[4] = H(e) /\ t[5] = V /\ t[6] = F
        OBVIOUS
      <4> HIDE DEF t
      <4>2. /\ t[1].recv = "r1" /\ t[1].need = N - 1 /\ Sends(t[1]) = {"r1"}
            /\ t[2].recv = "r2" /\ t[2].need = N - 1 /\ Sends(t[2]) = {"r2"}
            /\ t[3].recv = "meta" /\ t[3].need = 1 /\ Sends(t[3]) = {}
            /\ t[4].recv = "hash" /\ t[4].need = N - 1 /\ Sends(t[4]) = {"hash"}
            /\ t[5].recv = "vk" /\ t[5].need = 1 /\ Sends(t[5]) = {}
            /\ t[6].recv = "none" /\ t[6].need = 0 /\ Sends(t[6]) = {}
            /\ N - 1 # 0
        BY <1>2, <1>3, <1>3a, <4>1
      <4>3. Len(t) = 6
        BY <4>1
      <4>4. FromAll(c) = {"r1", "r2", "hash"} /\ FromOne(c) = {"meta", "vk"}
        BY <1>7 DEF FromAll, FromOne
      <4>5. SendsInTime(t, "r1")
        BY <4>2, <4>3, Levels, InTime
      <4>6. SendsInTime(t, "r2")
        BY <4>2, <4>3, Levels, InTime
      <4>7. SendsInTime(t, "hash")
        BY <4>2, <4>3, Levels, InTime
      <4>8. \A i \in 1..6 : t[i].need # 0 =>
               \/ t[i].need = N - 1 /\ t[i].recv \in FromAll(c)
               \/ t[i].need = 1 /\ t[i].recv \in FromOne(c) /\ p # Coordinator
        BY <4>2, <4>4, <2>3, <2>1a
      <4>9. ASSUME Misconfigured = {} PROVE Expected(c, p, t)
        <5>1. \A i \in 1..6 : \A k \in Sends(t[i]) :
                 k \in FromAll(c) \/ (p = Coordinator /\ k \in FromOne(c))
          BY <1>7, <2>3, <2>1a, <4>2, <4>4, <4>9
        <5>2. /\ t[1].recv = "r1" /\ t[1].need # 0
              /\ t[2].recv = "r2" /\ t[2].need # 0
              /\ t[3].recv = "meta" /\ t[3].need # 0
              /\ t[4].recv = "hash" /\ t[4].need # 0
              /\ t[5].recv = "vk" /\ t[5].need # 0
          BY <4>2
        <5>3. Awaits(t, "r1")
          BY <4>3, <5>2, AwaitsAt
        <5>4. Awaits(t, "r2")
          BY <4>3, <5>2, AwaitsAt
        <5>5. Awaits(t, "hash")
          BY <4>3, <5>2, AwaitsAt
        <5>6. Awaits(t, "meta")
          BY <4>3, <5>2, AwaitsAt
        <5>7. Awaits(t, "vk")
          BY <4>3, <5>2, AwaitsAt
        <5> QED
          BY <1>7, <2>3, <2>1a, <4>3, <4>4, <4>9, <5>1, <5>3, <5>4, <5>5, <5>6, <5>7 DEF Expected
      <4> QED
        BY <1>7, <2>3, <2>1a, <4>2, <4>3, <4>4, <4>5, <4>6, <4>7, <4>8, <4>9 DEF Complete, t
    <3> QED
      BY <1>3, <1>7, <3>4, <3>5, <3>6 DEF GoodScript, Metadata
  <2> QED
    BY <2>2, <2>3
<1>8. CASE c = "FromtKeyImport"
  <2> DEFINE b == SeedHolder(p)
  <2>1. Scripts[c][p] = DkgRounds \o VkRounds(b)
    BY <1>1, <1>8 DEF Script, FromtKeyImport
  <2>1a. (~b => p # Coordinator) /\ (b /\ Misconfigured = {} => p = Coordinator)
    BY DEF SeedHolder
  <2> HIDE DEF b
  <2>2. CASE b
    <3>1. VkRounds(b) = <<G>>
      BY <1>4, <2>2
    <3>2. <<A, B>> \o <<G>> = <<A, B, G>>
      BY ConcatTuples
    <3>3. Scripts[c][p] = <<A, B, G>>
      BY <1>4, <2>1, <3>1, <3>2
    <3>4. Orderly(<<A, B, G>>)
      BY <1>2, <1>3, <1>3a, Levels, Orderly3 DEF Precedes
    <3>5. Complete(c, p, <<A, B, G>>)
      <4> DEFINE t == <<A, B, G>>
      <4>1. Len(t) = 3 /\ t[1] = A /\ t[2] = B /\ t[3] = G
        OBVIOUS
      <4> HIDE DEF t
      <4>2. /\ t[1].recv = "r1" /\ t[1].need = N - 1 /\ Sends(t[1]) = {"r1"}
            /\ t[2].recv = "r2" /\ t[2].need = N - 1 /\ Sends(t[2]) = {"r2"}
            /\ t[3].recv = "none" /\ t[3].need = 0 /\ Sends(t[3]) = {"vk"}
            /\ N - 1 # 0
        BY <1>2, <1>3, <1>3a, <4>1
      <4>3. Len(t) = 3
        BY <4>1
      <4>4. FromAll(c) = {"r1", "r2"} /\ FromOne(c) = {"vk"}
        BY <1>8 DEF FromAll, FromOne
      <4>5. SendsInTime(t, "r1")
        BY <4>2, <4>3, Levels, InTime
      <4>6. SendsInTime(t, "r2")
        BY <4>2, <4>3, Levels, InTime
      <4>7. SendsInTime(t, "vk")
        BY <4>2, <4>3, Levels, InTime
      <4>8. \A i \in 1..3 : t[i].need # 0 =>
               \/ t[i].need = N - 1 /\ t[i].recv \in FromAll(c)
               \/ t[i].need = 1 /\ t[i].recv \in FromOne(c) /\ p # Coordinator
        BY <4>2, <4>4
      <4>9. ASSUME Misconfigured = {} PROVE Expected(c, p, t)
        <5>1. \A i \in 1..3 : \A k \in Sends(t[i]) :
                 k \in FromAll(c) \/ (p = Coordinator /\ k \in FromOne(c))
          BY <1>8, <2>1a, <2>2, <4>2, <4>4, <4>9
        <5>2. /\ t[1].recv = "r1" /\ t[1].need # 0
              /\ t[2].recv = "r2" /\ t[2].need # 0
          BY <4>2
        <5>3. Awaits(t, "r1")
          BY <4>3, <5>2, AwaitsAt
        <5>4. Awaits(t, "r2")
          BY <4>3, <5>2, AwaitsAt
        <5> QED
          BY <1>8, <2>1a, <2>2, <4>3, <4>4, <4>9, <5>1, <5>3, <5>4 DEF Expected
      <4> QED
        BY <1>8, <4>2, <4>3, <4>4, <4>5, <4>6, <4>7, <4>8, <4>9 DEF Complete, t
    <3> QED
      BY <1>3, <1>8, <3>3, <3>4, <3>5 DEF GoodScript, Metadata
  <2>3. CASE ~b
    <3>1. VkRounds(b) = <<V, F>>
      BY <1>4, <2>3
    <3>2. <<A, B>> \o <<V, F>> = <<A, B, V, F>>
      BY ConcatTuples
    <3>3. Scripts[c][p] = <<A, B, V, F>>
      BY <1>4, <2>1, <3>1, <3>2
    <3>4. Orderly(<<A, B, V, F>>)
      BY <1>2, <1>3, <1>3a, Levels, Orderly4 DEF Precedes
    <3>5. Complete(c, p, <<A, B, V, F>>)
      <4> DEFINE t == <<A, B, V, F>>
      <4>1. Len(t) = 4 /\ t[1] = A /\ t[2] = B /\ t[3] = V /\ t[4] = F
        OBVIOUS
      <4> HIDE DEF t
      <4>2. /\ t[1].recv = "r1" /\ t[1].need = N - 1 /\ Sends(t[1]) = {"r1"}
            /\ t[2].recv = "r2" /\ t[2].need = N - 1 /\ Sends(t[2]) = {"r2"}
            /\ t[3].recv = "vk" /\ t[3].need = 1 /\ Sends(t[3]) = {}
            /\ t[4].recv = "none" /\ t[4].need = 0 /\ Sends(t[4]) = {}
            /\ N - 1 # 0
        BY <1>2, <1>3, <1>3a, <4>1
      <4>3. Len(t) = 4
        BY <4>1
      <4>4. FromAll(c) = {"r1", "r2"} /\ FromOne(c) = {"vk"}
        BY <1>8 DEF FromAll, FromOne
      <4>5. SendsInTime(t, "r1")
        BY <4>2, <4>3, Levels, InTime
      <4>6. SendsInTime(t, "r2")
        BY <4>2, <4>3, Levels, InTime
      <4>7. \A i \in 1..4 : t[i].need # 0 =>
               \/ t[i].need = N - 1 /\ t[i].recv \in FromAll(c)
               \/ t[i].need = 1 /\ t[i].recv \in FromOne(c) /\ p # Coordinator
        BY <4>2, <4>4, <2>3, <2>1a
      <4>8. ASSUME Misconfigured = {} PROVE Expected(c, p, t)
        <5>1. \A i \in 1..4 : \A k \in Sends(t[i]) :
                 k \in FromAll(c) \/ (p = Coordinator /\ k \in FromOne(c))
          BY <1>8, <2>3, <2>1a, <4>2, <4>4, <4>8
        <5>2. /\ t[1].recv = "r1" /\ t[1].need # 0
              /\ t[2].recv = "r2" /\ t[2].need # 0
              /\ t[3].recv = "vk" /\ t[3].need # 0
          BY <4>2
        <5>3. Awaits(t, "r1")
          BY <4>3, <5>2, AwaitsAt
        <5>4. Awaits(t, "r2")
          BY <4>3, <5>2, AwaitsAt
        <5>5. Awaits(t, "vk")
          BY <4>3, <5>2, AwaitsAt
        <5> QED
          BY <1>8, <2>3, <2>1a, <4>3, <4>4, <4>8, <5>1, <5>3, <5>4, <5>5 DEF Expected
      <4> QED
        BY <1>8, <2>3, <2>1a, <4>2, <4>3, <4>4, <4>5, <4>6, <4>7, <4>8 DEF Complete, t
    <3> QED
      BY <1>3, <1>8, <3>3, <3>4, <3>5 DEF GoodScript, Metadata
  <2> QED
    BY <2>2, <2>3
<1>9. CASE c \in {"FroztSign", "FromtSign", "KeyImage"}
  <2> DEFINE X == R(<<"commit">>, "commit")
             Y == R(<<"share">>, "share")
             Z == R(<<"package", "share">>, "share")
             Q == Round(<<>>, "package", 1, "LIB_SERIALIZATION_ERROR")
             W == R(<<"partials">>, "partials")
  <2>1. /\ Proper(X) /\ Sends(X) = {"commit"} /\ Proper(Y) /\ Sends(Y) = {"share"}
        /\ Proper(W) /\ Sends(W) = {"partials"}
    BY SendsOne
  <2>2. Proper(Z) /\ Sends(Z) = {"package", "share"} /\ Proper(Q) /\ Sends(Q) = {}
    <3>1. Proper(Z) /\ Sends(Z) = {"package", "share"}
      <4>1. Level("package") < Level("share")
        BY Levels
      <4> QED
        BY <4>1, SendsTwo
    <3> QED
      BY <3>1, SendsNothing
  <2>3. /\ X.recv = "commit" /\ Y.recv = "share" /\ Z.recv = "share"
        /\ Q.recv = "package" /\ W.recv = "partials"
    BY DEF Round
  <2>3a. /\ X.need = N - 1 /\ Y.need = N - 1 /\ Z.need = N - 1 /\ W.need = N - 1
         /\ Q.need = 1
    BY DEF Round
  <2>4. /\ c = "FroztSign" =>
              Scripts[c][p] = (<<X>> \o (IF p = Coordinator THEN <<Z>> ELSE <<Q, Y>>)) \o <<F>>
        /\ c = "FromtSign" => Scripts[c][p] = <<X, Y, F>>
        /\ c = "KeyImage" => Scripts[c][p] = <<W, F>>
    BY <1>1 DEF Script, FroztSign, FromtSign, KeyImage, F
  <2> HIDE DEF X, Y, Z, Q, W
  <2>5. <<X>> \o <<Z>> = <<X, Z>> /\ <<X>> \o <<Q, Y>> = <<X, Q, Y>>
    BY ConcatTuples
  <2>6. <<X, Z>> \o <<F>> = <<X, Z, F>> /\ <<X, Q, Y>> \o <<F>> = <<X, Q, Y, F>>
    BY ConcatTuples
  <2>7. Scripts[c][p] \in {<<X, Z, F>>, <<X, Q, Y, F>>, <<X, Y, F>>, <<W, F>>}
    BY <1>9, <2>4, <2>5, <2>6
  <2>8. /\ Orderly(<<X, Z, F>>) /\ Orderly(<<X, Y, F>>)
    BY <1>2, <1>3, <1>3a, <2>1, <2>2, <2>3, Levels, Orderly3 DEF Precedes
  <2>9. Orderly(<<X, Q, Y, F>>)
    BY <1>2, <1>3, <1>3a, <2>1, <2>2, <2>3, Levels, Orderly4 DEF Precedes
  <2>10. Orderly(<<W, F>>)
    BY <1>2, <1>3, <1>3a, <2>1, <2>3, Levels, Orderly2 DEF Precedes
  <2>11. ASSUME NEW s \in {<<X, Z, F>>, <<X, Q, Y, F>>, <<X, Y, F>>, <<W, F>>}
         PROVE  Orderly(s) /\ \A i \in 1..Len(s) : s[i].recv # "meta"
    <3>1. F.recv # "meta" /\ X.recv # "meta" /\ Y.recv # "meta" /\ Z.recv # "meta"
          /\ Q.recv # "meta" /\ W.recv # "meta"
      BY <1>3, <2>3
    <3>2. \A i \in 1..Len(s) : s[i] \in {F, X, Y, Z, Q, W}
      BY <2>11
    <3> QED
      BY <2>8, <2>9, <2>10, <2>11, <3>1, <3>2
  <2>12. ASSUME c = "FroztSign", p = Coordinator PROVE Complete(c, p, Scripts[c][p])
    <3>1. Scripts[c][p] = <<X, Z, F>>
      BY <2>4, <2>5, <2>6, <2>12
    <3>2. Complete(c, p, <<X, Z, F>>)
      <4> DEFINE t == <<X, Z, F>>
      <4>1. Len(t) = 3 /\ t[1] = X /\ t[2] = Z /\ t[3] = F
        OBVIOUS
      <4> HIDE DEF t
      <4>2. /\ t[1].recv = "commit" /\ t[1].need = N - 1 /\ Sends(t[1]) = {"commit"}
            /\ t[2].recv = "share" /\ t[2].need = N - 1 /\ Sends(t[2]) = {"package", "share"}
            /\ t[3].recv = "none" /\ t[3].need = 0 /\ Sends(t[3]) = {}
            /\ N - 1 # 0
        BY <1>2, <1>3, <1>3a, <2>1, <2>2, <2>3, <2>3a, <4>1
      <4>3. Len(t) = 3
        BY <4>1
      <4>4. FromAll(c) = {"commit", "share"} /\ FromOne(c) = {"package"}
        BY <2>12 DEF FromAll, FromOne
      <4>5. SendsInTime(t, "commit")
        BY <4>2, <4>3, Levels, InTime
      <4>6. SendsInTime(t, "share")
        BY <4>2, <4>3, Levels, InTime
      <4>7. SendsInTime(t, "package")
        BY <4>2, <4>3, Levels, InTime
      <4>8. \A i \in 1..3 : t[i].need # 0 =>
               \/ t[i].need = N - 1 /\ t[i].recv \in FromAll(c)
               \/ t[i].need = 1 /\ t[i].recv \in FromOne(c) /\ p # Coordinator
        BY <4>2, <4>4, <2>12
      <4>9. ASSUME Misconfigured = {} PROVE Expected(c, p, t)
        <5>1. \A i \in 1..3 : \A k \in Sends(t[i]) :
                 k \in FromAll(c) \/ (p = Coordinator /\ k \in FromOne(c))
          BY <2>12, <4>2, <4>4, <4>9
        <5>2. /\ t[1].recv = "commit" /\ t[1].need # 0
              /\ t[2].recv = "share" /\ t[2].need # 0
          BY <4>2
        <5>3. Awaits(t, "commit")
          BY <4>3, <5>2, AwaitsAt
        <5>4. Awaits(t, "share")
          BY <4>3, <5>2, AwaitsAt
        <5> QED
          BY <2>12, <4>3, <4>4, <4>9, <5>1, <5>3, <5>4 DEF Expected
      <4> QED
        BY <2>12, <4>2, <4>3, <4>4, <4>5, <4>6, <4>7, <4>8, <4>9 DEF Complete, t
    <3> QED
      BY <3>1, <3>2
  <2>13. ASSUME c = "FroztSign", p # Coordinator PROVE Complete(c, p, Scripts[c][p])
    <3>1. Scripts[c][p] = <<X, Q, Y, F>>
      BY <2>4, <2>5, <2>6, <2>13
    <3>2. Complete(c, p, <<X, Q, Y, F>>)
      <4> DEFINE t == <<X, Q, Y, F>>
      <4>1. Len(t) = 4 /\ t[1] = X /\ t[2] = Q /\ t[3] = Y /\ t[4] = F
        OBVIOUS
      <4> HIDE DEF t
      <4>2. /\ t[1].recv = "commit" /\ t[1].need = N - 1 /\ Sends(t[1]) = {"commit"}
            /\ t[2].recv = "package" /\ t[2].need = 1 /\ Sends(t[2]) = {}
            /\ t[3].recv = "share" /\ t[3].need = N - 1 /\ Sends(t[3]) = {"share"}
            /\ t[4].recv = "none" /\ t[4].need = 0 /\ Sends(t[4]) = {}
            /\ N - 1 # 0
        BY <1>2, <1>3, <1>3a, <2>1, <2>2, <2>3, <2>3a, <4>1
      <4>3. Len(t) = 4
        BY <4>1
      <4>4. FromAll(c) = {"commit", "share"} /\ FromOne(c) = {"package"}
        BY <2>13 DEF FromAll, FromOne
      <4>5. SendsInTime(t, "commit")
        BY <4>2, <4>3, Levels, InTime
      <4>6. SendsInTime(t, "share")
        BY <4>2, <4>3, Levels, InTime
      <4>7. \A i \in 1..4 : t[i].need # 0 =>
               \/ t[i].need = N - 1 /\ t[i].recv \in FromAll(c)
               \/ t[i].need = 1 /\ t[i].recv \in FromOne(c) /\ p # Coordinator
        BY <4>2, <4>4, <2>13
      <4>8. ASSUME Misconfigured = {} PROVE Expected(c, p, t)
        <5>1. \A i \in 1..4 : \A k \in Sends(t[i]) :
                 k \in FromAll(c) \/ (p = Coordinator /\ k \in FromOne(c))
          BY <2>13, <4>2, <4>4, <4>8
        <5>2. /\ t[1].recv = "commit" /\ t[1].need # 0
              /\ t[2].recv = "package" /\ t[2].need # 0
              /\ t[3].recv = "share" /\ t[3].need # 0
          BY <4>2
        <5>3. Awaits(t, "commit")
          BY <4>3, <5>2, AwaitsAt
        <5>4. Awaits(t, "share")
          BY <4>3, <5>2, AwaitsAt
        <5>5. Awaits(t, "package")
          BY <4>3, <5>2, AwaitsAt
        <5> QED
          BY <2>13, <4>3, <4>4, <4>8, <5>1, <5>3, <5>4, <5>5 DEF Expected
      <4> QED
        BY <2>13, <4>2, <4>3, <4>4, <4>5, <4>6, <4>7, <4>8 DEF Complete, t
    <3> QED
      BY <3>1, <3>2
  <2>14. ASSUME c = "FromtSign" PROVE Complete(c, p, Scripts[c][p])
    <3>1. Scripts[c][p] = <<X, Y, F>>
      BY <2>4, <2>14
    <3>2. Complete(c, p, <<X, Y, F>>)
      <4> DEFINE t == <<X, Y, F>>
      <4>1. Len(t) = 3 /\ t[1] = X /\ t[2] = Y /\ t[3] = F
        OBVIOUS
      <4> HIDE DEF t
      <4>2. /\ t[1].recv = "commit" /\ t[1].need = N - 1 /\ Sends(t[1]) = {"commit"}
            /\ t[2].recv = "share" /\ t[2].need = N - 1 /\ Sends(t[2]) = {"share"}
            /\ t[3].recv = "none" /\ t[3].need = 0 /\ Sends(t[3]) = {}
            /\ N - 1 # 0
        BY <1>2, <1>3, <1>3a, <2>1, <2>2, <2>3, <2>3a, <4>1
      <4>3. Len(t) = 3
        BY <4>1
      <4>4. FromAll(c) = {"commit", "share"} /\ FromOne(c) = {}
        BY <2>14 DEF FromAll, FromOne
      <4>5. SendsInTime(t, "commit")
        BY <4>2, <4>3, Levels, InTime
      <4>6. SendsInTime(t, "share")
        BY <4>2, <4>3, Levels, InTime
      <4>7. \A i \in 1..3 : t[i].need # 0 =>
               \/ t[i].need = N - 1 /\ t[i].recv \in FromAll(c)
               \/ t[i].need = 1 /\ t[i].recv \in FromOne(c) /\ p # Coordinator
        BY <4>2, <4>4
      <4>8. ASSUME Misconfigured = {} PROVE Expected(c, p, t)
        <5>1. \A i \in 1..3 : \A k \in Sends(t[i]) :
                 k \in FromAll(c) \/ (p = Coordinator /\ k \in FromOne(c))
          BY <2>14, <4>2, <4>4, <4>8
        <5>2. /\ t[1].recv = "commit" /\ t[1].need # 0
              /\ t[2].recv = "share" /\ t[2].need # 0
          BY <4>2
        <5>3. Awaits(t, "commit")
          BY <4>3, <5>2, AwaitsAt
        <5>4. Awaits(t, "share")
          BY <4>3, <5>2, AwaitsAt
        <5> QED
          BY <2>14, <4>3, <4>4, <4>8, <5>1, <5>3, <5>4 DEF Expected
      <4> QED
        BY <2>14, <4>2, <4>3, <4>4, <4>5, <4>6, <4>7, <4>8 DEF Complete, t
    <3> QED
      BY <3>1, <3>2
  <2>15. ASSUME c = "KeyImage" PROVE Complete(c, p, Scripts[c][p])
    <3>1. Scripts[c][p] = <<W, F>>
      BY <2>4, <2>15
    <3>2. Complete(c, p, <<W, F>>)
      <4> DEFINE t == <<W, F>>
      <4>1. Len(t) = 2 /\ t[1] = W /\ t[2] = F
        OBVIOUS
      <4> HIDE DEF t
      <4>2. /\ t[1].recv = "partials" /\ t[1].need = N - 1 /\ Sends(t[1]) = {"partials"}
            /\ t[2].recv = "none" /\ t[2].need = 0 /\ Sends(t[2]) = {}
            /\ N - 1 # 0
        BY <1>2, <1>3, <1>3a, <2>1, <2>2, <2>3, <2>3a, <4>1
      <4>3. Len(t) = 2
        BY <4>1
      <4>4. FromAll(c) = {"partials"} /\ FromOne(c) = {}
        BY <2>15 DEF FromAll, FromOne
      <4>5. SendsInTime(t, "partials")
        BY <4>2, <4>3, Levels, InTime
      <4>6. \A i \in 1..2 : t[i].need # 0 =>
               \/ t[i].need = N - 1 /\ t[i].recv \in FromAll(c)
               \/ t[i].need = 1 /\ t[i].recv \in FromOne(c) /\ p # Coordinator
        BY <4>2, <4>4
      <4>7. ASSUME Misconfigured = {} PROVE Expected(c, p, t)
        <5>1. \A i \in 1..2 : \A k \in Sends(t[i]) :
                 k \in FromAll(c) \/ (p = Coordinator /\ k \in FromOne(c))
          BY <2>15, <4>2, <4>4, <4>7
        <5>2. /\ t[1].recv = "partials" /\ t[1].need # 0
          BY <4>2
        <5>3. Awaits(t, "partials")
          BY <4>3, <5>2, AwaitsAt
        <5> QED
          BY <2>15, <4>3, <4>4, <4>7, <5>1, <5>3 DEF Expected
      <4> QED
        BY <2>15, <4>2, <4>3, <4>4, <4>5, <4>6, <4>7 DEF Complete, t
    <3> QED
      BY <3>1, <3>2
  <2>16. Complete(c, p, Scripts[c][p])
    BY <1>9, <2>12, <2>13, <2>14, <2>15
  <2> QED
    BY <1>9, <2>7, <2>11, <2>16 DEF GoodScript, Metadata
<1> QED
  BY <1>5, <1>6, <1>7, <1>8, <1>9 DEF CeremonyName

-----------------------------------------------------------------------------
(***************************************************************************)
(* The members of a list, and lists whose envelopes all differ.            *)
(***************************************************************************)
Elements(s) == {s[i] : i \in 1..Len(s)}
Distinct(s) ==
    \A i, j \in 1..Len(s) : i # j => s[i].to # s[j].to \/ s[i].kind # s[j].kind

\* What appending adds.
LEMMA AppendElements ==
    ASSUME NEW S, NEW s \in Seq(S), NEW m \in S
    PROVE  Elements(Append(s, m)) = Elements(s) \cup {m}
<1>1. /\ Len(Append(s, m)) = Len(s) + 1 /\ Len(s) \in Nat
      /\ \A i \in 1..Len(s) : Append(s, m)[i] = s[i]
      /\ Append(s, m)[Len(s) + 1] = m
  BY AppendProperties, LenProperties
<1> QED
  BY <1>1 DEF Elements

\* What taking the head off leaves.
LEMMA TailElements ==
    ASSUME NEW S, NEW s \in Seq(S), s # <<>>
    PROVE  /\ Head(s) \in Elements(s)
           /\ Elements(Tail(s)) \subseteq Elements(s)
           /\ Distinct(s) =>
                /\ Distinct(Tail(s))
                /\ \A e \in Elements(Tail(s)) : e.to # Head(s).to \/ e.kind # Head(s).kind
<1>1. /\ Len(s) \in Nat \ {0} /\ Len(Tail(s)) = Len(s) - 1 /\ Head(s) = s[1]
      /\ \A i \in 1..(Len(s) - 1) : Tail(s)[i] = s[i + 1]
  <2>1. Len(s) \in Nat /\ Len(s) # 0
    BY LenProperties, EmptySeq
  <2>2. /\ Len(Tail(s)) = Len(s) - 1
        /\ \A i \in 1..Len(Tail(s)) : Tail(s)[i] = s[i + 1]
    BY HeadTailProperties
  <2> QED
    BY <2>1, <2>2
<1> DEFINE n == Len(s)
<1>2. n \in Nat \ {0} /\ 1 \in 1..n /\ \A i \in 1..(n - 1) : i + 1 \in 1..n /\ i + 1 # 1
  BY <1>1
<1>3. \A i, j \in 1..(n - 1) : i # j => i + 1 # j + 1
  BY <1>2
<1> HIDE DEF n
<1>4. /\ Len(Tail(s)) = n - 1 /\ Head(s) = s[1] /\ Len(s) = n
      /\ \A i \in 1..(n - 1) : Tail(s)[i] = s[i + 1]
  BY <1>1 DEF n
<1>5. Head(s) \in Elements(s) /\ Elements(Tail(s)) \subseteq Elements(s)
  BY <1>2, <1>4 DEF Elements
<1>6. ASSUME Distinct(s) PROVE Distinct(Tail(s))
  BY <1>2, <1>3, <1>4, <1>6 DEF Distinct
<1>7. ASSUME Distinct(s), NEW e \in Elements(Tail(s))
      PROVE  e.to # Head(s).to \/ e.kind # Head(s).kind
  <2>1. PICK i \in 1..(n - 1) : e = s[i + 1]
    BY <1>4, <1>7 DEF Elements
  <2> QED
    BY <1>2, <1>4, <1>7, <2>1 DEF Distinct
<1> QED
  BY <1>5, <1>6, <1>7

\* What concatenating two lists gives.
LEMMA ConcatElements ==
    ASSUME NEW S, NEW s \in Seq(S), NEW t \in Seq(S)
    PROVE  /\ Elements(s \o t) = Elements(s) \cup Elements(t)
           /\ /\ Distinct(s) /\ Distinct(t)
              /\ \A d \in Elements(s), e \in Elements(t) : d.kind # e.kind
              => Distinct(s \o t)
<1> DEFINE n == Len(s)
           k == Len(t)
           u == s \o t
<1>1. /\ Len(u) = n + k /\ n \in Nat /\ k \in Nat
      /\ \A i \in 1..(n + k) : u[i] = IF i <= n THEN s[i] ELSE t[i - n]
  BY ConcatProperties, LenProperties
<1> HIDE DEF n, k, u
<1>2. ASSUME NEW i \in 1..(n + k)
      PROVE  \/ i \in 1..n /\ u[i] = s[i]
             \/ i - n \in 1..k /\ u[i] = t[i - n] /\ i \notin 1..n
  BY <1>1
<1>3. /\ \A i \in 1..n : i \in 1..(n + k) /\ u[i] = s[i]
      /\ \A i \in 1..k : n + i \in 1..(n + k) /\ u[n + i] = t[i]
  <2>1. ASSUME NEW i \in 1..k PROVE n + i \in 1..(n + k) /\ u[n + i] = t[i]
    <3>1. n + i \in 1..(n + k) /\ ~(n + i <= n) /\ (n + i) - n = i
      BY <1>1
    <3> QED
      BY <1>1, <3>1
  <2> QED
    BY <1>1, <2>1
<1>4. Elements(u) = Elements(s) \cup Elements(t)
  <2>1. Elements(u) = {u[i] : i \in 1..(n + k)} /\ Elements(s) = {s[i] : i \in 1..n}
        /\ Elements(t) = {t[i] : i \in 1..k}
    BY <1>1 DEF Elements, n, k
  <2> QED
    BY <1>2, <1>3, <2>1
<1>5. ASSUME Distinct(s), Distinct(t),
             \A d \in Elements(s), e \in Elements(t) : d.kind # e.kind,
             NEW i \in 1..(n + k), NEW j \in 1..(n + k), i # j
      PROVE  u[i].to # u[j].to \/ u[i].kind # u[j].kind
  <2>1. /\ \A a \in 1..n : s[a] \in Elements(s)
        /\ \A a \in 1..k : t[a] \in Elements(t)
    BY DEF Elements, n, k
  <2>2. CASE i \in 1..n /\ j \in 1..n
    BY <1>3, <1>5, <2>2 DEF Distinct, n
  <2>3. CASE i \notin 1..n /\ j \notin 1..n
    <3>1. i - n \in 1..k /\ j - n \in 1..k /\ u[i] = t[i - n] /\ u[j] = t[j - n]
      BY <1>2, <2>3
    <3>2. i - n # j - n
      BY <1>1, <1>5
    <3> QED
      BY <1>5, <3>1, <3>2 DEF Distinct, k
  <2>4. CASE i \in 1..n /\ j \notin 1..n
    BY <1>2, <1>5, <2>1, <2>4
  <2>5. CASE i \notin 1..n /\ j \in 1..n
    BY <1>2, <1>5, <2>1, <2>5
  <2> QED
    BY <2>2, <2>3, <2>4, <2>5
<1> QED
  BY <1>1, <1>4, <1>5 DEF Distinct, u

\* Two POSTs of a broadcast with the same message and recipient are one.
LEMMA DivSplit ==
    ASSUME NEW L \in Nat, NEW M \in Nat \ {0}, NEW i \in 1..(L * M), NEW j \in 1..(L * M),
           (i - 1) \div M = (j - 1) \div M, (i - 1) % M = (j - 1) % M
    PROVE  i = j
<1>1. L * M \in Nat
  OBVIOUS
<1>2. i - 1 = M * ((i - 1) \div M) + ((i - 1) % M)
  OBVIOUS
<1>3. j - 1 = M * ((j - 1) \div M) + ((j - 1) % M)
  OBVIOUS
<1> QED
  BY <1>1, <1>2, <1>3

\* A broadcast addresses every other party once with every kind.
LEMMA EnvelopesOnce ==
    ASSUME NEW p \in Party, NEW ks \in Seq(Kind), NEW h, NEW b,
           \A i, j \in 1..Len(ks) : i # j => ks[i] # ks[j]
    PROVE  LET env == Envelopes(p, ks, h, b)
           IN  /\ Distinct(env)
               /\ \A e \in Elements(env) :
                    /\ e.to # p /\ e.kind \in {ks[i] : i \in 1..Len(ks)}
                    /\ e.val = Payload(p, e.kind, h, b)
<1> DEFINE M == N - 1
           n == Len(ks) * M
           q(j) == ((j - 1) \div M) + 1
           r(j) == ((j - 1) % M) + 1
           env == Envelopes(p, ks, h, b)
<1>1. M \in Nat \ {0} /\ Len(ks) \in Nat /\ n \in Nat
  BY CeremonyAssumption, LenProperties
<1>2. env = [j \in 1..n |-> [to |-> Recipient(p, r(j)), kind |-> ks[q(j)],
                             val |-> Payload(p, ks[q(j)], h, b)]]
  BY DEF Envelopes
<1>3. ASSUME NEW j \in 1..n
      PROVE  q(j) \in 1..Len(ks) /\ r(j) \in 1..M
  <2>1. (j - 1) \div M \in 0..(Len(ks) - 1) /\ (j - 1) % M \in 0..(M - 1)
    BY <1>1, DivRange
  <2> QED
    BY <1>1, <2>1
<1>4. ASSUME NEW i \in 1..n, NEW j \in 1..n, q(i) = q(j), r(i) = r(j) PROVE i = j
  <2> DEFINE a == (i - 1) \div M
             c == (j - 1) \div M
             d == (i - 1) % M
             e == (j - 1) % M
  <2>1. a \in 0..(Len(ks) - 1) /\ c \in 0..(Len(ks) - 1)
        /\ d \in 0..(M - 1) /\ e \in 0..(M - 1)
    BY <1>1, DivRange
  <2>2. a + 1 = c + 1 /\ d + 1 = e + 1
    BY <1>4
  <2> HIDE DEF a, c, d, e
  <2>3. a = c /\ d = e
    BY <1>1, <2>1, <2>2
  <2> QED
    BY <1>1, <2>3, DivSplit DEF a, c, d, e
<1> HIDE DEF q, r, n
<1>5. Len(env) = n /\ \A j \in 1..n : /\ env[j].to = Recipient(p, r(j)) /\ env[j].kind = ks[q(j)]
                                      /\ env[j].val = Payload(p, ks[q(j)], h, b)
  BY <1>1, <1>2
<1> HIDE DEF env
<1>6. ASSUME NEW i \in 1..n, NEW j \in 1..n, i # j
      PROVE  env[i].to # env[j].to \/ env[i].kind # env[j].kind
  <2>1. CASE q(i) = q(j)
    <3>1. r(i) # r(j)
      BY <1>6, <1>4, <2>1
    <3>2. Recipient(p, r(i)) # Recipient(p, r(j))
      BY <1>3, <3>1 DEF Recipient, Party
    <3> QED
      BY <1>5, <3>2
  <2>2. CASE q(i) # q(j)
    BY <1>3, <1>5, <2>2
  <2> QED
    BY <2>1, <2>2
<1>7. ASSUME NEW j \in 1..n
      PROVE  /\ env[j].to # p /\ env[j].kind \in {ks[i] : i \in 1..Len(ks)}
             /\ env[j].val = Payload(p, env[j].kind, h, b)
  <2>1. Recipient(p, r(j)) # p
    BY <1>3, RecipientType
  <2> QED
    BY <1>3, <1>5, <2>1
<1> QED
  BY <1>5, <1>6, <1>7 DEF Distinct, Elements, env

-----------------------------------------------------------------------------
(***************************************************************************)
(* Nothing is delivered twice and nobody sends a kind twice.               *)
(***************************************************************************)
\* The kinds a party's task has handed to its runner so far.
SentBy(q) == UNION {Sends(ScriptOf(q)[i]) : i \in 1..round[q]}

Pending(q) == Elements(outbox[q])
Posted(p) == Elements(relay[p])

\* What is still to be posted: nothing to the party itself, and nothing twice.
OutboxOnce ==
    \A q \in Party :
        /\ Distinct(outbox[q])
        /\ \A e \in Pending(q) : e.to # q /\ e.kind \in SentBy(q)

\* What the relay lists: of each kind one message of a sender, perhaps several
\* times, and what is listed is not still to be posted.
RelayOnce ==
    \A p \in Party : \A m \in Posted(p) :
        /\ m.from # p /\ m.kind \in SentBy(m.from)
        /\ \A e \in Pending(m.from) : e.to # p \/ e.kind # m.kind
        /\ \A n \in Posted(p) : n.from = m.from /\ n.kind = m.kind => n = m

\* What a task has accepted was listed, is marked as seen, and is of a kind its
\* rounds so far await.
HeardOnce ==
    \A p \in Party : \A x \in heard[p] :
        /\ \E m \in Posted(p) :
             /\ SeenKey(m) \in seen[p]
             /\ m.from = x.from /\ m.kind = x.kind /\ m.val = x.val
        /\ \E i \in 1..round[p] : x.kind = ScriptOf(p)[i].recv

\* A runner goes on only while its task has no result; until then the task has
\* counted the senders of the kind it awaits.
Counted ==
    \A p \in Party :
        /\ pc[p] \in {"drain", "feed"} => outcome[p] = "none"
        /\ outcome[p] = "none" => Cardinality(Senders(p, Current(p).recv)) = count[p]
        /\ outcome[p] = "ok" => round[p] = Len(ScriptOf(p)) /\ round[p] # 1

Delivery == OutboxOnce /\ RelayOnce /\ HeardOnce /\ Counted /\ EveryPeerHeard

\* The types of what is pending and posted.
LEMMA ListTypes ==
    ASSUME TypeOK, NEW q \in Party
    PROVE  /\ outbox[q] \in Seq(Envelope) /\ Pending(q) \subseteq Envelope
           /\ relay[q] \in Seq(Message) /\ Posted(q) \subseteq Message
<1>1. outbox[q] \in Seq(Envelope) /\ relay[q] \in Seq(Message)
  BY DEF TypeOK
<1> QED
  BY <1>1, ElementOfSeq DEF Pending, Posted, Elements

\* Every script of the running ceremony is a good one.
LEMMA ScriptGood ==
    ASSUME TypeOK, NEW p \in Party
    PROVE  /\ ceremony \in CeremonyName /\ GoodScript(ceremony, ScriptOf(p))
           /\ Complete(ceremony, p, ScriptOf(p))
<1>1. ceremony \in CeremonyName
  BY SessionAssumption DEF TypeOK
<1> QED
  BY <1>1, ScriptsGood DEF ScriptOf

\* Initially every party is to post the messages of its first round.
LEMMA InitDelivery == Init => Delivery
<1> SUFFICES ASSUME Init PROVE Delivery
  OBVIOUS
<1>1. TypeOK
  BY InitShape DEF Shape
<1>2. ASSUME NEW q \in Party
      PROVE  /\ Distinct(outbox[q])
             /\ \A e \in Pending(q) : e.to # q /\ e.kind \in SentBy(q)
  <2> DEFINE s == ScriptOf(q)
             env == Envelopes(q, s[1].send, {}, OwnBlob(q))
  <2>1. 1 \in 1..Len(s) /\ s[1].send \in Seq(Kind) /\ round[q] = 1
    BY <1>1, CurrentType DEF Init, Current, RoundRecord
  <2>2. Proper(s[1])
    BY <1>1, <2>1, ScriptGood DEF GoodScript, Orderly
  <2>3. /\ Distinct(env)
        /\ \A e \in Elements(env) : e.to # q /\ e.kind \in {s[1].send[i] : i \in 1..Len(s[1].send)}
    BY <2>1, <2>2, EnvelopesOnce DEF Proper
  <2>4. Sends(s[1]) \subseteq SentBy(q)
    BY <2>1 DEF SentBy
  <2>5. outbox[q] = env
    BY DEF Init
  <2> HIDE DEF env
  <2> QED
    BY <2>3, <2>4, <2>5 DEF Pending, Sends
<1>3. \A p \in Party : Posted(p) = {} /\ heard[p] = {} /\ round[p] = 1 /\ count[p] = 0
                       /\ outcome[p] = "none"
  BY DEF Init, Posted, Elements
<1>4. \A p \in Party : \A k : Senders(p, k) = {}
  BY <1>3 DEF Senders
<1>5. OutboxOnce /\ RelayOnce /\ HeardOnce
  BY <1>2, <1>3 DEF OutboxOnce, RelayOnce, HeardOnce
<1>6. Counted
  BY <1>3, <1>4, FS_EmptySet DEF Counted
<1>7. EveryPeerHeard
  BY <1>3 DEF EveryPeerHeard
<1> QED
  BY <1>5, <1>6, <1>7 DEF Delivery

\* A POST moves one message from the outbox to the relay, or loses it.
LEMMA PostDelivery ==
    ASSUME TypeOK, Delivery, NEW p \in Party, Post(p) \/ PostLost(p)
    PROVE  Delivery'
<1> DEFINE e == Head(outbox[p])
           d == e.to
<1>1. /\ outbox[p] # <<>> /\ outbox' = [outbox EXCEPT ![p] = Tail(@)]
      /\ UNCHANGED <<ceremony, task, pc, batch, seen>>
  BY DEF Post, PostLost
<1>2. /\ \A q \in Party : /\ SentBy(q)' = SentBy(q) /\ ScriptOf(q)' = ScriptOf(q)
                          /\ Current(q)' = Current(q) /\ round'[q] = round[q]
      /\ \A q, k : Senders(q, k)' = Senders(q, k)
  BY <1>1 DEF task, SentBy, ScriptOf, Current, Senders
<1>3. outbox[p] \in Seq(Envelope) /\ e \in Envelope
  BY <1>1, ListTypes, HeadTailProperties
<1>4. /\ outbox'[p] = Tail(outbox[p])
      /\ \A q \in Party : q # p => outbox'[q] = outbox[q]
  BY <1>1 DEF TypeOK
<1>5. /\ e \in Pending(p) /\ Pending(p)' \subseteq Pending(p) /\ Distinct(outbox'[p])
      /\ \A f \in Pending(p)' : f.to # e.to \/ f.kind # e.kind
  <2>1. Distinct(outbox[p])
    BY DEF Delivery, OutboxOnce
  <2> QED
    BY <1>1, <1>3, <1>4, <2>1, TailElements DEF Pending
<1>6. \A q \in Party : Pending(q)' \subseteq Pending(q)
  BY <1>4, <1>5 DEF Pending
<1> HIDE DEF e
<1>7. OutboxOnce'
  BY <1>2, <1>4, <1>5, <1>6 DEF Delivery, OutboxOnce, Pending
<1>8. d \in Party /\ d # p /\ e.kind \in SentBy(p)
  BY <1>3, <1>5 DEF Delivery, OutboxOnce, Envelope
<1>9. ASSUME Post(p)
      PROVE  RelayOnce' /\ \A q \in Party : Posted(q) \subseteq Posted(q)'
  <2>1. PICK v \in Sendable(p, e) :
           relay' = [relay EXCEPT ![d] =
                       Append(@, [from |-> p, seq |-> seq[p] + 1, kind |-> e.kind, val |-> v])]
    BY <1>9 DEF Post, e
  <2> DEFINE m == [from |-> p, seq |-> seq[p] + 1, kind |-> e.kind, val |-> v]
  <2>2. v \in Val
    BY <1>3, <2>1 DEF Sendable, Envelope, Val
  <2>3. m \in Message /\ m.from = p /\ m.kind = e.kind
    BY <1>3, <2>2 DEF Message, Envelope, TypeOK
  <2> HIDE DEF m
  <2>4. /\ relay'[d] = Append(relay[d], m)
        /\ \A q \in Party : q # d => relay'[q] = relay[q]
    BY <1>8, <2>1 DEF TypeOK, m
  <2>5. \A q \in Party : Posted(q)' = IF q = d THEN Posted(q) \cup {m} ELSE Posted(q)
    <3> SUFFICES ASSUME NEW q \in Party
                 PROVE  Posted(q)' = IF q = d THEN Posted(q) \cup {m} ELSE Posted(q)
      OBVIOUS
    <3>1. relay[q] \in Seq(Message)
      BY ListTypes
    <3>2. Elements(Append(relay[q], m)) = Elements(relay[q]) \cup {m}
      BY <2>3, <3>1, AppendElements
    <3>3. relay'[q] = IF q = d THEN Append(relay[q], m) ELSE relay[q]
      BY <2>4
    <3> QED
      BY <3>2, <3>3 DEF Posted
  <2>6. \A n \in Posted(d) : n.from # p \/ n.kind # e.kind
    BY <1>5, <1>8 DEF Delivery, RelayOnce
  <2>7. ASSUME NEW q \in Party, NEW n \in Posted(q)'
        PROVE  /\ n.from # q /\ n.kind \in SentBy(n.from)'
               /\ \A f \in Pending(n.from)' : f.to # q \/ f.kind # n.kind
               /\ \A o \in Posted(q)' : o.from = n.from /\ o.kind = n.kind => o = n
    <3>1. CASE n \in Posted(q)
      <4>1. n.from \in Party
        BY <3>1, ListTypes DEF Message
      <4>2. /\ n.from # q /\ n.kind \in SentBy(n.from)
            /\ \A f \in Pending(n.from) : f.to # q \/ f.kind # n.kind
            /\ \A o \in Posted(q) : o.from = n.from /\ o.kind = n.kind => o = n
        BY <3>1 DEF Delivery, RelayOnce
      <4>3. \A o \in Posted(q)' : o.from = n.from /\ o.kind = n.kind => o = n
        BY <2>3, <2>5, <2>6, <3>1, <4>2
      <4> QED
        BY <1>2, <1>6, <4>1, <4>2, <4>3
    <3>2. CASE n \notin Posted(q)
      <4>1. q = d /\ n = m
        BY <2>5, <2>7, <3>2
      <4>2. n.from = p /\ n.kind = e.kind
        BY <2>3, <4>1
      <4>3. \A o \in Posted(q)' : o.from = n.from /\ o.kind = n.kind => o = n
        BY <2>5, <2>6, <4>1, <4>2
      <4> QED
        BY <1>2, <1>5, <1>8, <4>1, <4>2, <4>3
    <3> QED
      BY <3>1, <3>2
  <2>8. \A q \in Party : Posted(q) \subseteq Posted(q)'
    BY <2>5
  <2> QED
    BY <2>7, <2>8 DEF RelayOnce
<1>10. ASSUME PostLost(p)
       PROVE  RelayOnce' /\ \A q \in Party : Posted(q) \subseteq Posted(q)'
  <2>1. relay' = relay
    BY <1>10 DEF PostLost
  <2>2. \A q \in Party : Posted(q)' = Posted(q)
    BY <2>1 DEF Posted
  <2>3. \A q \in Party : \A n \in Posted(q) : n.from \in Party
    BY ListTypes DEF Message
  <2> QED
    BY <1>2, <1>6, <2>2, <2>3 DEF Delivery, RelayOnce
<1>11. HeardOnce'
  BY <1>1, <1>2, <1>9, <1>10 DEF Delivery, HeardOnce, task, SeenKey
<1>12. Counted' /\ EveryPeerHeard'
  BY <1>1, <1>2 DEF Delivery, Counted, EveryPeerHeard, task, Others
<1> QED
  BY <1>7, <1>9, <1>10, <1>11, <1>12 DEF Delivery

\* A message listed twice is listed.
LEMMA DuplicateLists ==
    ASSUME TypeOK, NEW p \in Party, Duplicate(p)
    PROVE  \A q \in Party : Posted(q)' = Posted(q)
<1>1. PICK i \in DOMAIN relay[p] : relay' = [relay EXCEPT ![p] = Append(@, @[i])]
  BY DEF Duplicate
<1>2. relay[p] \in Seq(Message) /\ i \in 1..Len(relay[p])
  BY <1>1, ListTypes, LenProperties
<1>3. relay[p][i] \in Message /\ relay[p][i] \in Elements(relay[p])
  BY <1>2, ElementOfSeq DEF Elements
<1>4. Elements(Append(relay[p], relay[p][i])) = Elements(relay[p]) \cup {relay[p][i]}
  BY <1>2, <1>3, AppendElements
<1>5. /\ relay'[p] = Append(relay[p], relay[p][i])
      /\ \A q \in Party : q # p => relay'[q] = relay[q]
  BY <1>1 DEF TypeOK
<1> QED
  BY <1>3, <1>4, <1>5 DEF Posted

\* Steps of a runner that move no message.
LEMMA RunnerDelivery ==
    ASSUME TypeOK, Delivery, NEW p \in Party,
           GetMessages(p) \/ Return(p) \/ RunFails(p) \/ Duplicate(p)
    PROVE  Delivery'
<1>1. /\ UNCHANGED <<ceremony, task, outbox, seen>>
      /\ \A q \in Party : pc'[q] \in {"drain", "feed"} => pc[q] \in {"drain", "feed"}
  BY DEF GetMessages, Return, RunFails, Duplicate, TypeOK
<1>2. /\ \A q \in Party : /\ SentBy(q)' = SentBy(q) /\ ScriptOf(q)' = ScriptOf(q)
                          /\ Current(q)' = Current(q) /\ round'[q] = round[q]
                          /\ Pending(q)' = Pending(q)
      /\ \A q, k : Senders(q, k)' = Senders(q, k)
  BY <1>1 DEF task, SentBy, ScriptOf, Current, Senders, Pending
<1>3. \A q \in Party : Posted(q)' = Posted(q)
  <2>1. CASE GetMessages(p) \/ Return(p) \/ RunFails(p)
    BY <2>1 DEF GetMessages, Return, RunFails, Posted
  <2>2. CASE Duplicate(p)
    BY <2>2, DuplicateLists
  <2> QED
    BY <2>1, <2>2
<1>4. \A q \in Party : \A n \in Posted(q) : n.from \in Party
  BY ListTypes DEF Message
<1>5. OutboxOnce'
  BY <1>1, <1>2 DEF Delivery, OutboxOnce
<1>6. RelayOnce'
  BY <1>2, <1>3, <1>4 DEF Delivery, RelayOnce
<1>7. HeardOnce'
  BY <1>1, <1>2, <1>3 DEF Delivery, HeardOnce, task, SeenKey
<1>8. Counted' /\ EveryPeerHeard'
  BY <1>1, <1>2 DEF Delivery, Counted, EveryPeerHeard, task, Others
<1> QED
  BY <1>5, <1>6, <1>7, <1>8 DEF Delivery

\* What FeedNext does, and with which message: one that was posted and that the
\* runner has not seen.
Fed(p, m) ==
    /\ pc[p] = "feed" /\ outcome[p] = "none"
    /\ m \in Posted(p) /\ m \in Message /\ SeenKey(m) \notin seen[p]
    /\ seen' = [seen EXCEPT ![p] = @ \cup {SeenKey(m)}]
    /\ Feed(p, m)
    /\ \A q \in Party : q # p => pc'[q] = pc[q]
    /\ outcome'[p] # "none" => pc'[p] = "final"
    /\ UNCHANGED <<ceremony, seq, relay, dups, drops>>

\* FeedNext feeds such a message.
LEMMA FedOnce ==
    ASSUME Shape, Delivery, NEW p \in Party, FeedNext(p)
    PROVE  \E m \in Message : Fed(p, m)
<1> DEFINE i == First(Unseen(p, batch[p]))
           m == relay[p][i]
<1>1. pc[p] = "feed"
  BY DEF FeedNext
<1>2. i \in Unseen(p, batch[p]) /\ i \in 1..Len(relay[p]) /\ m \in Message
  BY <1>1, FedMessage
<1>3. m \in Posted(p) /\ SeenKey(m) \notin seen[p]
  BY <1>2 DEF Posted, Elements, Unseen
<1>4. outcome[p] = "none"
  BY <1>1 DEF Delivery, Counted
<1>5. /\ seen' = [seen EXCEPT ![p] = @ \cup {SeenKey(m)}] /\ Feed(p, m)
      /\ UNCHANGED <<ceremony, seq, relay, dups, drops>>
  BY DEF FeedNext
<1>6. /\ \A q \in Party : q # p => pc'[q] = pc[q]
      /\ outcome'[p] # "none" => pc'[p] = "final"
  BY DEF FeedNext, Shape, TypeOK
<1> QED
  BY <1>1, <1>2, <1>3, <1>4, <1>5, <1>6 DEF Fed

\* The sender of an acceptable message is new, and is added to those heard.
LEMMA HeardGrows ==
    ASSUME Shape, Delivery, NEW p \in Party, NEW m, Fed(p, m)
    PROVE  LET x == [from |-> m.from, kind |-> m.kind, val |-> m.val]
           IN  /\ Record(heard[p], m) = heard[p] \cup {x}
               /\ x \in Heard
               /\ m.from \in Party \ {p} /\ m.from \notin Senders(p, m.kind)
<1>1. \A x \in heard[p] : ~(x.from = m.from /\ x.kind = m.kind)
  <2> SUFFICES ASSUME NEW x \in heard[p], x.from = m.from, x.kind = m.kind
               PROVE  FALSE
    OBVIOUS
  <2>1. PICK n \in Posted(p) : SeenKey(n) \in seen[p] /\ n.from = x.from /\ n.kind = x.kind
    BY DEF Delivery, HeardOnce
  <2>2. n = m
    BY <2>1 DEF Delivery, RelayOnce, Fed
  <2> QED
    BY <2>1, <2>2 DEF Fed
<1>2. m \in Message /\ m.from # p
  BY DEF Fed, Delivery, RelayOnce
<1>3. [from |-> m.from, kind |-> m.kind, val |-> m.val] \in Heard /\ m.from \in Party
  BY <1>2 DEF Message, Heard
<1>4. Record(heard[p], m)
        = heard[p] \cup {[from |-> m.from, kind |-> m.kind, val |-> m.val]}
  BY <1>1 DEF Record
<1> QED
  BY <1>1, <1>2, <1>3, <1>4 DEF Senders

\* A party has N - 1 peers.
LEMMA OthersCard ==
    ASSUME NEW p \in Party
    PROVE  IsFiniteSet(Others(p)) /\ Cardinality(Others(p)) = N - 1
<1>1. IsFiniteSet(Party) /\ Cardinality(Party) = N
  BY CeremonyAssumption, FS_Interval DEF Party
<1> QED
  BY <1>1, FS_RemoveElement DEF Others

\* The senders a task has heard are other parties, and finitely many.
LEMMA SendersType ==
    ASSUME Shape, Delivery, NEW p \in Party, NEW k
    PROVE  /\ Senders(p, k) \subseteq Others(p)
           /\ IsFiniteSet(Senders(p, k)) /\ Cardinality(Senders(p, k)) \in Nat
           /\ Cardinality(Senders(p, k)) = N - 1 => Senders(p, k) = Others(p)
<1>1. Senders(p, k) \subseteq Others(p)
  <2> SUFFICES ASSUME NEW x \in heard[p] PROVE x.from \in Others(p)
    BY DEF Senders
  <2>1. PICK n \in Posted(p) : n.from = x.from
    BY DEF Delivery, HeardOnce
  <2>2. n.from # p
    BY <2>1 DEF Delivery, RelayOnce
  <2>3. n.from \in Party
    BY <2>1, ListTypes DEF Shape, Message
  <2> QED
    BY <2>1, <2>2, <2>3 DEF Others
<1>2. IsFiniteSet(Others(p)) /\ Cardinality(Others(p)) = N - 1
  BY OthersCard
<1> QED
  BY <1>1, <1>2, FS_Subset, FS_CardinalityType

\* How the senders change when a task stores an acceptable message.
LEMMA SendersGrow ==
    ASSUME Shape, Delivery, NEW p \in Party, NEW m, Fed(p, m),
           heard' = [heard EXCEPT ![p] = Record(heard[p], m)]
    PROVE  /\ \A k : Senders(p, k)' = IF k = m.kind THEN Senders(p, k) \cup {m.from}
                                      ELSE Senders(p, k)
           /\ \A q \in Party : \A k : q # p => Senders(q, k)' = Senders(q, k)
           /\ Cardinality(Senders(p, m.kind)') = Cardinality(Senders(p, m.kind)) + 1
<1> DEFINE x == [from |-> m.from, kind |-> m.kind, val |-> m.val]
<1>1. heard \in [Party -> SUBSET Heard]
  BY DEF Shape, TypeOK
<1>2. heard'[p] = heard[p] \cup {x} /\ \A q \in Party : q # p => heard'[q] = heard[q]
  BY <1>1, HeardGrows
<1>3. x.kind = m.kind /\ x.from = m.from
  OBVIOUS
<1> HIDE DEF x
<1>4. \A k : Senders(p, k)' = IF k = m.kind THEN Senders(p, k) \cup {m.from}
                              ELSE Senders(p, k)
  BY <1>2, <1>3 DEF Senders
<1>5. \A q \in Party : \A k : q # p => Senders(q, k)' = Senders(q, k)
  BY <1>2 DEF Senders
<1>6. m.from \notin Senders(p, m.kind) /\ IsFiniteSet(Senders(p, m.kind))
  BY HeardGrows, SendersType
<1> QED
  BY <1>4, <1>5, <1>6, FS_AddElement

\* A message that is not the last of its loop, or that is refused: the task stays
\* in its round and sends nothing.
LEMMA StayDelivery ==
    ASSUME Shape, Delivery, NEW p \in Party, NEW m, Fed(p, m),
           Reject(p, m) \/ Collect(p, m) \/ FailCheck(p, m)
    PROVE  Delivery'
<1> DEFINE k == Current(p).recv
           s == ScriptOf(p)
<1>1. UNCHANGED <<ceremony, round, blob, outbox, relay>>
  BY DEF Fed, Reject, Collect, FailCheck
<1>2. \A q \in Party : /\ SentBy(q)' = SentBy(q) /\ ScriptOf(q)' = ScriptOf(q)
                       /\ Current(q)' = Current(q) /\ Pending(q)' = Pending(q)
                       /\ Posted(q)' = Posted(q)
  BY <1>1 DEF SentBy, ScriptOf, Current, Pending, Posted
<1>3. \A q \in Party : \A n \in Posted(q) : n.from \in Party
  BY ListTypes DEF Message, Shape
<1>4. OutboxOnce' /\ RelayOnce'
  BY <1>1, <1>2, <1>3 DEF Delivery, OutboxOnce, RelayOnce
<1>5. \A q \in Party : seen[q] \subseteq seen'[q]
  BY DEF Fed, Shape, TypeOK
<1>6. /\ outcome \in [Party -> {"none", "ok"} \cup Error] /\ count \in [Party -> 0..(N - 1)]
      /\ pc[p] = "feed" /\ outcome[p] = "none" /\ m \in Message
      /\ heard \in [Party -> SUBSET Heard] /\ count[p] \in Nat
  BY DEF Fed, Shape, TypeOK
<1>7. ASSUME Reject(p, m) PROVE HeardOnce' /\ Counted' /\ EveryPeerHeard'
  <2>1. /\ UNCHANGED <<heard, count>> /\ outcome' = [outcome EXCEPT ![p] = Current(p).err]
    BY <1>7 DEF Reject
  <2>2. Current(p).err \in Error \cup {"none"}
    BY CurrentType DEF Shape, RoundRecord
  <2>3. outcome'[p] # "ok" /\ \A q \in Party : q # p => outcome'[q] = outcome[q]
    BY <1>6, <2>1, <2>2 DEF Error
  <2>4. \A q, l : Senders(q, l)' = Senders(q, l)
    BY <2>1 DEF Senders
  <2>5. HeardOnce'
    BY <1>1, <1>2, <1>5, <2>1 DEF Delivery, HeardOnce
  <2>6. Counted'
    BY <1>1, <1>2, <1>6, <2>1, <2>3, <2>4 DEF Delivery, Counted, Fed
  <2> QED
    BY <1>1, <1>2, <2>4, <2>5, <2>6 DEF Delivery, EveryPeerHeard, Others
<1>8. ASSUME Collect(p, m) \/ FailCheck(p, m) PROVE HeardOnce' /\ Counted' /\ EveryPeerHeard'
  <2>1. /\ heard' = [heard EXCEPT ![p] = Record(heard[p], m)] /\ m.kind = k
    BY <1>8 DEF Collect, FailCheck, Acceptable
  <2>2. /\ \A l : Senders(p, l)' = IF l = m.kind THEN Senders(p, l) \cup {m.from}
                                   ELSE Senders(p, l)
        /\ \A q \in Party : \A l : q # p => Senders(q, l)' = Senders(q, l)
        /\ Cardinality(Senders(p, m.kind)') = Cardinality(Senders(p, m.kind)) + 1
    BY <2>1, SendersGrow
  <2>3. HeardOnce'
    <3> SUFFICES ASSUME NEW q \in Party, NEW x \in heard'[q]
                 PROVE  /\ \E n \in Posted(q)' : SeenKey(n) \in seen'[q] /\ n.from = x.from
                                                 /\ n.kind = x.kind /\ n.val = x.val
                        /\ \E i \in 1..round'[q] : x.kind = ScriptOf(q)'[i].recv
      BY DEF HeardOnce, SeenKey
    <3>1. CASE x \in heard[q]
      BY <1>1, <1>2, <1>5, <3>1 DEF Delivery, HeardOnce
    <3>2. CASE x \notin heard[q]
      <4>1. q = p /\ x = [from |-> m.from, kind |-> m.kind, val |-> m.val]
        <5>1. Record(heard[p], m)
                = heard[p] \cup {[from |-> m.from, kind |-> m.kind, val |-> m.val]}
          BY HeardGrows
        <5>2. /\ heard'[p] = Record(heard[p], m)
              /\ \A r \in Party : r # p => heard'[r] = heard[r]
          BY <1>6, <2>1
        <5> QED
          BY <3>2, <5>1, <5>2
      <4>2. m \in Posted(p) /\ SeenKey(m) \in seen'[p]
        BY DEF Fed, Shape, TypeOK
      <4>3. round[p] \in 1..round[p] /\ k = s[round[p]].recv
        BY DEF Shape, TypeOK, Current
      <4> QED
        BY <1>1, <1>2, <2>1, <4>1, <4>2, <4>3
    <3> QED
      BY <3>1, <3>2
  <2>4. ASSUME NEW q \in Party, NEW i \in 1..(round[q] - 1), ScriptOf(q)[i].need = N - 1,
               NEW l, l = ScriptOf(q)[i].recv
        PROVE  Senders(q, l)' = Others(q)
    <3>2. Senders(q, l) = Others(q)
      BY <2>4 DEF Delivery, EveryPeerHeard
    <3>3. CASE q = p
      <4>1. /\ round[p] \in 1..Len(s) /\ i \in 1..Len(s) /\ i < round[p]
        BY <2>4, <3>3, CurrentType DEF Shape
      <4>2. s[i].recv # k
        BY <4>1, ScriptGood DEF Shape, GoodScript, Orderly, Precedes, Current
      <4> QED
        BY <2>1, <2>2, <2>4, <3>2, <3>3, <4>2
    <3>4. CASE q # p
      BY <2>2, <3>2, <3>4
    <3> QED
      BY <3>3, <3>4
  <2>5. EveryPeerHeard'
    BY <1>1, <1>2, <2>4 DEF EveryPeerHeard, Others
  <2>6. Counted'
    <3>1. CASE Collect(p, m)
      <4>1. /\ count'[p] = count[p] + 1 /\ outcome' = outcome
            /\ \A q \in Party : q # p => count'[q] = count[q]
        BY <1>6, <3>1 DEF Collect
      <4>2. Cardinality(Senders(p, m.kind)) = count[p]
        BY <1>6, <2>1 DEF Delivery, Counted
      <4>3. Cardinality(Senders(p, m.kind)') = count'[p]
        BY <2>2, <4>1, <4>2
      <4> QED
        BY <1>1, <1>2, <1>6, <2>1, <2>2, <4>1, <4>3 DEF Delivery, Counted, Fed
    <3>2. CASE FailCheck(p, m)
      <4>1. UNCHANGED count /\ outcome'[p] \notin {"none", "ok"}
            /\ \A q \in Party : q # p => outcome'[q] = outcome[q]
        BY <1>6, <3>2 DEF FailCheck, LoopError
      <4> QED
        BY <1>1, <1>2, <1>6, <2>2, <4>1 DEF Delivery, Counted, Fed
    <3> QED
      BY <1>8, <3>1, <3>2
  <2> QED
    BY <2>3, <2>5, <2>6
<1> QED
  BY <1>4, <1>7, <1>8 DEF Delivery

\* The last message of a loop: what the next round sends is of kinds that the party
\* has not sent before, and the loop has heard as many senders as it needed.
LEMMA AdvanceDelivery ==
    ASSUME Shape, Delivery, NEW p \in Party, NEW m, Fed(p, m), Advance(p, m)
    PROVE  Delivery'
<1> DEFINE s == ScriptOf(p)
           r == round[p]
           h == Record(heard[p], m)
           b == IF m.kind = "meta" THEN m.val ELSE blob[p]
           env == Envelopes(p, s[r + 1].send, h, b)
<1>1. /\ heard' = [heard EXCEPT ![p] = h] /\ m.kind = Current(p).recv
      /\ count[p] + 1 = Current(p).need
      /\ round' = [round EXCEPT ![p] = @ + 1] /\ count' = [count EXCEPT ![p] = 0]
      /\ outbox' = [outbox EXCEPT ![p] = @ \o env]
      /\ outcome' = [outcome EXCEPT ![p] = IF s[r + 1].need = 0 THEN "ok" ELSE "none"]
      /\ UNCHANGED <<ceremony, relay>>
  BY DEF Fed, Advance, Acceptable
<1>2. /\ round \in [Party -> Nat \ {0}] /\ count \in [Party -> 0..(N - 1)]
      /\ outbox \in [Party -> Seq(Envelope)] /\ heard \in [Party -> SUBSET Heard]
      /\ outcome \in [Party -> {"none", "ok"} \cup Error] /\ blob[p] \in Val
      /\ count[p] \in Nat /\ r \in Nat \ {0} /\ m \in Message
  BY DEF Fed, Shape, TypeOK
<1>3. /\ r \in 1..Len(s) /\ r + 1 \in 1..Len(s) /\ s[r + 1] \in RoundRecord
      /\ WellFormed(s)
  <2>1. Current(p).need # 0
    BY <1>1, <1>2
  <2> QED
    BY <2>1, CurrentType DEF Shape
<1>4. GoodScript(ceremony, s) /\ Current(p) = s[r]
  BY ScriptGood DEF Shape, Current
<1>5. /\ \A q \in Party : ScriptOf(q)' = ScriptOf(q)
      /\ \A q \in Party : Posted(q)' = Posted(q)
      /\ round'[p] = r + 1 /\ \A q \in Party : q # p => round'[q] = round[q]
  BY <1>1, <1>2 DEF ScriptOf, Posted
<1>6. /\ SentBy(p)' = SentBy(p) \cup Sends(s[r + 1])
      /\ \A q \in Party : q # p => SentBy(q)' = SentBy(q)
      /\ SentBy(p) \cap Sends(s[r + 1]) = {}
  <2>1. 1..(r + 1) = (1..r) \cup {r + 1}
    BY <1>2
  <2>2. SentBy(p)' = UNION {Sends(s[i]) : i \in 1..(r + 1)}
    BY <1>5 DEF SentBy, Sends
  <2>3. SentBy(p)' = SentBy(p) \cup Sends(s[r + 1])
    BY <2>1, <2>2 DEF SentBy
  <2>4. \A i \in 1..r : i \in 1..Len(s) /\ i < r + 1
    BY <1>3
  <2>5. \A i \in 1..r : Sends(s[i]) \cap Sends(s[r + 1]) = {}
    BY <1>3, <1>4, <2>4 DEF GoodScript, Orderly, Precedes
  <2>6. \A q \in Party : q # p => SentBy(q)' = SentBy(q)
    BY <1>5 DEF SentBy, Sends
  <2> QED
    BY <2>3, <2>5, <2>6 DEF SentBy
<1>7. /\ Distinct(env) /\ env \in Seq(Envelope)
      /\ \A e \in Elements(env) : e.to # p /\ e.kind \in Sends(s[r + 1])
  <2>1. s[r + 1].send \in Seq(Kind) /\ Proper(s[r + 1])
    BY <1>3, <1>4 DEF RoundRecord, GoodScript, Orderly
  <2>2. b \in Val
    BY <1>2 DEF Message
  <2>3. env \in Seq(Envelope)
    BY <2>1, <2>2, EnvelopesType
  <2> QED
    BY <2>1, <2>3, EnvelopesOnce DEF Proper, Sends
<1> HIDE DEF env, h, b
<1>8. /\ Pending(p)' = Pending(p) \cup Elements(env) /\ Distinct(outbox'[p])
      /\ \A q \in Party : q # p => outbox'[q] = outbox[q] /\ Pending(q)' = Pending(q)
  <2>1. /\ outbox'[p] = outbox[p] \o env /\ outbox[p] \in Seq(Envelope)
        /\ \A q \in Party : q # p => outbox'[q] = outbox[q]
    BY <1>1, <1>2
  <2>2. Distinct(outbox[p]) /\ \A e \in Elements(outbox[p]) : e.kind \in SentBy(p)
    BY DEF Delivery, OutboxOnce, Pending
  <2>3. \A d \in Elements(outbox[p]), e \in Elements(env) : d.kind # e.kind
    BY <1>6, <1>7, <2>2
  <2>4. /\ Elements(outbox[p] \o env) = Elements(outbox[p]) \cup Elements(env)
        /\ Distinct(outbox[p] \o env)
    BY <1>7, <2>1, <2>2, <2>3, ConcatElements
  <2> QED
    BY <2>1, <2>4 DEF Pending
<1>9. OutboxOnce'
  <2> SUFFICES ASSUME NEW q \in Party
               PROVE  Distinct(outbox'[q])
                      /\ \A e \in Pending(q)' : e.to # q /\ e.kind \in SentBy(q)'
    BY DEF OutboxOnce
  <2>1. CASE q = p
    BY <1>6, <1>7, <1>8, <2>1 DEF Delivery, OutboxOnce
  <2>2. CASE q # p
    BY <1>6, <1>8, <2>2 DEF Delivery, OutboxOnce
  <2> QED
    BY <2>1, <2>2
<1>10. RelayOnce'
  <2> SUFFICES ASSUME NEW q \in Party, NEW n \in Posted(q)
               PROVE  /\ n.from # q /\ n.kind \in SentBy(n.from)'
                      /\ \A e \in Pending(n.from)' : e.to # q \/ e.kind # n.kind
                      /\ \A o \in Posted(q) : o.from = n.from /\ o.kind = n.kind => o = n
    BY <1>5 DEF RelayOnce
  <2>1. n.from \in Party
    BY ListTypes DEF Message, Shape
  <2>2. /\ n.from # q /\ n.kind \in SentBy(n.from)
        /\ \A e \in Pending(n.from) : e.to # q \/ e.kind # n.kind
        /\ \A o \in Posted(q) : o.from = n.from /\ o.kind = n.kind => o = n
    BY DEF Delivery, RelayOnce
  <2>3. CASE n.from = p
    BY <1>6, <1>7, <1>8, <2>2, <2>3
  <2>4. CASE n.from # p
    BY <1>6, <1>8, <2>1, <2>2, <2>4
  <2> QED
    BY <2>3, <2>4
<1>11. HeardOnce'
  <2> SUFFICES ASSUME NEW q \in Party, NEW x \in heard'[q]
               PROVE  /\ \E n \in Posted(q)' : SeenKey(n) \in seen'[q] /\ n.from = x.from
                                               /\ n.kind = x.kind /\ n.val = x.val
                      /\ \E i \in 1..round'[q] : x.kind = ScriptOf(q)'[i].recv
    BY DEF HeardOnce, SeenKey
  <2>1. seen[q] \subseteq seen'[q]
    BY DEF Fed, Shape, TypeOK
  <2>2. 1..round[q] \subseteq 1..round'[q]
    <3>1. round[q] \in Nat /\ round'[q] \in {round[q], round[q] + 1}
      BY <1>2, <1>5
    <3> QED
      BY <3>1
  <2>3. CASE x \in heard[q]
    BY <1>5, <2>1, <2>2, <2>3 DEF Delivery, HeardOnce
  <2>4. CASE x \notin heard[q]
    <3>1. q = p /\ x = [from |-> m.from, kind |-> m.kind, val |-> m.val]
      <4>1. h = heard[p] \cup {[from |-> m.from, kind |-> m.kind, val |-> m.val]}
        BY HeardGrows DEF h
      <4>2. heard'[p] = h /\ \A o \in Party : o # p => heard'[o] = heard[o]
        BY <1>1, <1>2
      <4> QED
        BY <2>4, <4>1, <4>2
    <3>2. m \in Posted(p) /\ SeenKey(m) \in seen'[p]
      BY DEF Fed, Shape, TypeOK
    <3>3. r \in 1..round'[p] /\ m.kind = s[r].recv
      BY <1>1, <1>2, <1>4, <1>5
    <3> QED
      BY <1>5, <3>1, <3>2, <3>3
  <2> QED
    BY <2>3, <2>4
<1>12. /\ \A l : Senders(p, l)' = IF l = m.kind THEN Senders(p, l) \cup {m.from}
                                  ELSE Senders(p, l)
       /\ \A q \in Party : \A l : q # p => Senders(q, l)' = Senders(q, l)
       /\ Cardinality(Senders(p, m.kind)') = Cardinality(Senders(p, m.kind)) + 1
  BY <1>1, SendersGrow DEF h
<1>13. Cardinality(Senders(p, m.kind)') = s[r].need
  <2>1. Cardinality(Senders(p, m.kind)) = count[p]
    BY <1>1 DEF Delivery, Counted, Fed
  <2> QED
    BY <1>1, <1>4, <1>12, <2>1
<1>14. ASSUME NEW q \in Party, NEW i \in 1..(round'[q] - 1), ScriptOf(q)[i].need = N - 1,
              NEW l, l = ScriptOf(q)[i].recv
       PROVE  Senders(q, l)' = Others(q)
  <2>1. CASE q # p
    <3>1. Senders(q, l) = Others(q)
      BY <1>5, <1>14, <2>1 DEF Delivery, EveryPeerHeard
    <3> QED
      BY <1>12, <2>1, <3>1
  <2>2. CASE q = p /\ i = r
    <3>1. l = m.kind
      BY <1>1, <1>4, <1>14, <2>2
    <3>2. Cardinality(Senders(p, m.kind)') = N - 1
      BY <1>13, <1>14, <2>2
    <3>3. Senders(p, m.kind)' \subseteq Others(p)
      <4>1. m.from \in Others(p)
        BY HeardGrows DEF Others
      <4>2. Senders(p, m.kind) \subseteq Others(p)
        BY SendersType
      <4> QED
        BY <1>12, <3>1, <4>1, <4>2
    <3>4. IsFiniteSet(Others(p)) /\ Cardinality(Others(p)) = N - 1
      BY OthersCard
    <3> QED
      BY <2>2, <3>1, <3>2, <3>3, <3>4, FS_Subset
  <2>3. CASE q = p /\ i # r
    <3>1. i \in 1..(r - 1)
      BY <1>2, <1>5, <1>14, <2>3
    <3>2. Senders(p, l) = Others(p)
      BY <1>14, <2>3, <3>1 DEF Delivery, EveryPeerHeard
    <3>3. i \in 1..Len(s) /\ i < r
      BY <1>3, <3>1
    <3>4. l # m.kind
      BY <1>1, <1>3, <1>4, <1>14, <2>3, <3>3 DEF GoodScript, Orderly, Precedes
    <3> QED
      BY <1>12, <2>3, <3>2, <3>4
  <2> QED
    BY <2>1, <2>2, <2>3
<1>15. EveryPeerHeard'
  BY <1>5, <1>14 DEF EveryPeerHeard, Others
<1>16. ASSUME NEW l, l = s[r + 1].recv PROVE Senders(p, l)' = {}
  <2>1. \A i \in 1..r : i \in 1..Len(s) /\ i < r + 1
    BY <1>3
  <2>2. \A i \in 1..r : s[i].recv # l
    BY <1>3, <1>4, <1>16, <2>1 DEF GoodScript, Orderly, Precedes
  <2>3. \A x \in heard[p] : x.kind # l
    BY <2>2 DEF Delivery, HeardOnce
  <2>4. m.kind # l
    <3>1. m.kind = s[r].recv
      BY <1>1, <1>4
    <3>2. r \in 1..r
      BY <1>2
    <3> QED
      BY <2>2, <3>1, <3>2
  <2> QED
    BY <1>12, <2>3, <2>4 DEF Senders
<1>17. Counted'
  <2> SUFFICES ASSUME NEW q \in Party
               PROVE  /\ pc'[q] \in {"drain", "feed"} => outcome'[q] = "none"
                      /\ outcome'[q] = "none" =>
                           Cardinality(Senders(q, Current(q).recv)') = count'[q]
                      /\ outcome'[q] = "ok" =>
                           round'[q] = Len(ScriptOf(q)') /\ round'[q] # 1
    BY DEF Counted
  <2>1. CASE q = p
    <3>1. Current(p)' = s[r + 1]
      BY <1>5 DEF Current
    <3>2. Cardinality(Senders(p, Current(p).recv)') = 0
      <4>1. PICK l : l = s[r + 1].recv
        OBVIOUS
      <4>2. Senders(p, l)' = {} /\ (Current(p).recv)' = l
        BY <1>16, <3>1, <4>1
      <4>3. Senders(p, Current(p).recv)' = {}
        BY <4>2 DEF Senders
      <4> QED
        BY <4>3, FS_EmptySet
    <3>3. s[r + 1].need = 0 => r + 1 = Len(s)
      BY <1>3 DEF WellFormed, Waiting
    <3>4. /\ count'[p] = 0 /\ (outcome'[p] = "ok" => s[r + 1].need = 0)
          /\ (pc'[p] \in {"drain", "feed"} => outcome'[p] = "none")
      BY <1>1, <1>2 DEF Fed
    <3> QED
      BY <1>2, <1>5, <2>1, <3>2, <3>3, <3>4
  <2>2. CASE q # p
    <3>1. Current(q)' = Current(q)
      BY <1>5, <2>2 DEF Current
    <3>2. count'[q] = count[q] /\ outcome'[q] = outcome[q]
      BY <1>1, <1>2, <2>2
    <3>3. pc'[q] = pc[q]
      BY <2>2 DEF Fed
    <3>4. Senders(q, Current(q).recv)' = Senders(q, Current(q).recv)
      BY <1>12, <2>2, <3>1 DEF Senders
    <3> QED
      BY <1>5, <2>2, <3>1, <3>2, <3>3, <3>4 DEF Delivery, Counted
  <2> QED
    BY <2>1, <2>2
<1> QED
  BY <1>9, <1>10, <1>11, <1>15, <1>17 DEF Delivery

\* Every step keeps the invariant.
LEMMA NextDelivery == Shape /\ Delivery /\ [Next]_vars => Delivery'
<1> SUFFICES ASSUME Shape, Delivery, [Next]_vars PROVE Delivery'
  OBVIOUS
<1>1. CASE UNCHANGED vars
  <2>1. UNCHANGED <<ceremony, task, outbox, pc, batch, seen, relay, seq>>
    BY <1>1 DEF vars, task
  <2>2. /\ \A q \in Party : /\ SentBy(q)' = SentBy(q) /\ ScriptOf(q)' = ScriptOf(q)
                            /\ Current(q)' = Current(q) /\ round'[q] = round[q]
                            /\ Pending(q)' = Pending(q) /\ Posted(q)' = Posted(q)
        /\ \A q, k : Senders(q, k)' = Senders(q, k)
    BY <2>1 DEF task, SentBy, ScriptOf, Current, Senders, Pending, Posted
  <2>3. \A q \in Party : \A n \in Posted(q) : n.from \in Party
    BY ListTypes DEF Message, Shape
  <2>4. OutboxOnce' /\ RelayOnce'
    BY <2>1, <2>2, <2>3 DEF Delivery, OutboxOnce, RelayOnce
  <2>5. HeardOnce'
    BY <2>1, <2>2 DEF Delivery, HeardOnce, task, SeenKey
  <2>6. Counted' /\ EveryPeerHeard'
    BY <2>1, <2>2 DEF Delivery, Counted, EveryPeerHeard, task, Others
  <2> QED
    BY <2>4, <2>5, <2>6 DEF Delivery
<1>2. ASSUME NEW p \in Party, FeedNext(p) PROVE Delivery'
  <2>1. PICK m \in Message : Fed(p, m)
    BY <1>2, FedOnce
  <2>2. Reject(p, m) \/ Collect(p, m) \/ FailCheck(p, m) \/ Advance(p, m)
    BY <2>1 DEF Fed, Feed
  <2> QED
    BY <2>1, <2>2, StayDelivery, AdvanceDelivery
<1>3. ASSUME NEW p \in Party, Post(p) \/ PostLost(p) PROVE Delivery'
  BY <1>3, PostDelivery DEF Shape
<1>4. ASSUME NEW p \in Party, GetMessages(p) \/ Return(p) \/ RunFails(p) \/ Duplicate(p)
      PROVE  Delivery'
  BY <1>4, RunnerDelivery DEF Shape
<1> QED
  BY <1>1, <1>2, <1>3, <1>4 DEF Next, Step, PollEmpty, Done

\* The receive loops count messages and not senders, the relay may list a message
\* twice, a POST may be lost and the payloads of faulty parties may be any: still a
\* loop of N - 1 iterations that is over has heard from every other party, for any
\* number of parties, as long as every party posts a kind once.  A party that posts a
\* kind twice under two numbers would end a loop early; the code does not prevent
\* it, and no party of the model does it.
THEOREM EveryPeerHeardAlways == Spec => []EveryPeerHeard
<1>1. Spec => [](Shape /\ Delivery)
  BY InitShape, NextShape, InitDelivery, NextDelivery, PTL DEF Spec
<1>2. Delivery => EveryPeerHeard
  BY DEF Delivery
<1> QED
  BY <1>1, <1>2, PTL

-----------------------------------------------------------------------------
(***************************************************************************)
(* What the steps do to the data: messages on their way keep their payload *)
(* or are a faulty party's, and a task adds what it accepts and what it    *)
(* sends next.                                                             *)
(***************************************************************************)
\* A step that feeds nothing.
Moved ==
    /\ UNCHANGED <<ceremony, task>>
    /\ \A q \in Party :
         /\ Pending(q)' \subseteq Pending(q)
         /\ \A m \in Posted(q)' :
              \/ m \in Posted(q)
              \/ \E e \in Pending(m.from) : m.kind = e.kind /\ m.val \in Sendable(m.from, e)

\* A POST takes the payload out of the outbox, or a faulty party's instead.
LEMMA PostMoves ==
    ASSUME TypeOK, NEW p \in Party, Post(p) \/ PostLost(p)
    PROVE  Moved
<1> DEFINE e == Head(outbox[p])
           d == e.to
<1>1. /\ outbox[p] # <<>> /\ outbox' = [outbox EXCEPT ![p] = Tail(@)]
      /\ UNCHANGED <<ceremony, task>>
  BY DEF Post, PostLost
<1>2. outbox[p] \in Seq(Envelope) /\ e \in Envelope
  BY <1>1, ListTypes, HeadTailProperties
<1>3. /\ outbox'[p] = Tail(outbox[p])
      /\ \A q \in Party : q # p => outbox'[q] = outbox[q]
  BY <1>1 DEF TypeOK
<1>4. e \in Pending(p) /\ Pending(p)' \subseteq Pending(p)
  BY <1>1, <1>2, <1>3, TailElements DEF Pending
<1> HIDE DEF e
<1>5. \A q \in Party : Pending(q)' \subseteq Pending(q)
  BY <1>3, <1>4 DEF Pending
<1>6. CASE PostLost(p)
  <2>1. \A q \in Party : Posted(q)' = Posted(q)
    BY <1>6 DEF PostLost, Posted
  <2> QED
    BY <1>1, <1>5, <2>1 DEF Moved
<1>7. CASE Post(p)
  <2>1. PICK v \in Sendable(p, e) :
           relay' = [relay EXCEPT ![d] =
                       Append(@, [from |-> p, seq |-> seq[p] + 1, kind |-> e.kind, val |-> v])]
    BY <1>7 DEF Post, e
  <2> DEFINE m == [from |-> p, seq |-> seq[p] + 1, kind |-> e.kind, val |-> v]
  <2>2. v \in Val
    BY <1>2, <2>1 DEF Sendable, Envelope, Val
  <2>3. m \in Message /\ m.from = p /\ m.kind = e.kind /\ m.val = v
    BY <1>2, <2>2 DEF Message, Envelope, TypeOK
  <2> HIDE DEF m
  <2>4. d \in Party
    BY <1>2 DEF Envelope
  <2>5. /\ relay'[d] = Append(relay[d], m)
        /\ \A q \in Party : q # d => relay'[q] = relay[q]
    BY <2>1, <2>4 DEF TypeOK, m
  <2>6. ASSUME NEW q \in Party
        PROVE  Posted(q)' \subseteq Posted(q) \cup {m}
    <3>1. relay[q] \in Seq(Message)
      BY ListTypes
    <3>2. Elements(Append(relay[q], m)) = Elements(relay[q]) \cup {m}
      BY <2>3, <3>1, AppendElements
    <3>3. relay'[q] = IF q = d THEN Append(relay[q], m) ELSE relay[q]
      BY <2>5
    <3> QED
      BY <3>2, <3>3 DEF Posted
  <2>7. \E f \in Pending(m.from) : m.kind = f.kind /\ m.val \in Sendable(m.from, f)
    BY <1>4, <2>1, <2>3
  <2> QED
    BY <1>1, <1>5, <2>6, <2>7 DEF Moved
<1> QED
  BY <1>6, <1>7

\* Every step moves messages or feeds one.
LEMMA Steps ==
    ASSUME Shape, Delivery, [Next]_vars
    PROVE  Moved \/ \E p \in Party : \E m \in Message : Fed(p, m)
<1>1. CASE UNCHANGED vars
  <2>1. UNCHANGED <<ceremony, task, outbox, relay>>
    BY <1>1 DEF vars, task
  <2> QED
    BY <2>1 DEF Moved, Pending, Posted
<1>2. ASSUME NEW p \in Party, FeedNext(p) PROVE \E m \in Message : Fed(p, m)
  BY <1>2, FedOnce
<1>3. ASSUME NEW p \in Party, Post(p) \/ PostLost(p) PROVE Moved
  BY <1>3, PostMoves DEF Shape
<1>4. ASSUME NEW p \in Party, GetMessages(p) \/ Return(p) \/ RunFails(p) PROVE Moved
  BY <1>4 DEF GetMessages, Return, RunFails, Moved, Pending, Posted
<1>5. ASSUME NEW p \in Party, Duplicate(p) PROVE Moved
  <2>1. UNCHANGED <<ceremony, task, outbox>>
    BY <1>5 DEF Duplicate
  <2>2. \A q \in Party : Posted(q)' = Posted(q)
    BY <1>5, DuplicateLists DEF Shape
  <2> QED
    BY <2>1, <2>2 DEF Moved, Pending
<1> QED
  BY <1>1, <1>2, <1>3, <1>4, <1>5 DEF Next, Step, PollEmpty, Done

\* A task that is fed adds the message to what it has heard, if it is acceptable,
\* and sends what its next round starts with.
LEMMA FedEffect ==
    ASSUME Shape, Delivery, NEW p \in Party, NEW m \in Message, Fed(p, m)
    PROVE  /\ ceremony' = ceremony /\ \A q \in Party : Posted(q)' = Posted(q)
           /\ \A q \in Party \ {p} :
                /\ Pending(q)' = Pending(q) /\ heard'[q] = heard[q] /\ blob'[q] = blob[q]
                /\ round'[q] = round[q]
           /\ \A x \in heard'[p] :
                \/ x \in heard[p]
                \/ Acceptable(p, m) /\ x.from = m.from /\ x.kind = m.kind /\ x.val = m.val
           /\ \A e \in Pending(p)' :
                e \in Pending(p) \/ e.val = Payload(p, e.kind, heard'[p], blob'[p])
           /\ \/ blob'[p] = blob[p]
              \/ Current(p).recv = "meta" /\ m.kind = "meta"
           /\ \/ round'[p] = round[p]
              \/ round'[p] = round[p] + 1 /\ LoopError(p, heard'[p]) = "none"
<1> DEFINE h == Record(heard[p], m)
<1>1. /\ UNCHANGED <<ceremony, relay>> /\ Feed(p, m)
      /\ heard \in [Party -> SUBSET Heard] /\ blob \in [Party -> Val]
      /\ round \in [Party -> Nat \ {0}] /\ outbox \in [Party -> Seq(Envelope)]
  BY DEF Fed, Shape, TypeOK
<1>2. ceremony' = ceremony /\ \A q \in Party : Posted(q)' = Posted(q)
  BY <1>1 DEF Posted
<1>3. h = heard[p] \cup {[from |-> m.from, kind |-> m.kind, val |-> m.val]}
  BY HeardGrows
<1>4. \A x \in h : x \in heard[p] \/ (x.from = m.from /\ x.kind = m.kind /\ x.val = m.val)
  BY <1>3
<1> HIDE DEF h
<1>5. CASE Reject(p, m)
  BY <1>1, <1>2, <1>5 DEF Reject, Pending
<1>6. CASE Collect(p, m) \/ FailCheck(p, m)
  <2>1. /\ Acceptable(p, m) /\ UNCHANGED <<round, blob, outbox>>
        /\ heard' = [heard EXCEPT ![p] = h]
    BY <1>6 DEF Collect, FailCheck, h
  <2>2. heard'[p] = h /\ \A q \in Party \ {p} : heard'[q] = heard[q]
    BY <1>1, <2>1
  <2> QED
    BY <1>2, <1>4, <2>1, <2>2 DEF Pending
<1>7. CASE Advance(p, m)
  <2> DEFINE b == IF m.kind = "meta" THEN m.val ELSE blob[p]
             ks == ScriptOf(p)[round[p] + 1].send
             env == Envelopes(p, ks, h, b)
  <2>1. /\ Acceptable(p, m) /\ heard' = [heard EXCEPT ![p] = h]
        /\ blob' = [blob EXCEPT ![p] = b] /\ round' = [round EXCEPT ![p] = @ + 1]
        /\ outbox' = [outbox EXCEPT ![p] = @ \o env]
        /\ LoopError(p, h) = "none" /\ count[p] + 1 = Current(p).need
    BY <1>7 DEF Advance, h
  <2>2. /\ heard'[p] = h /\ blob'[p] = b /\ round'[p] = round[p] + 1
        /\ outbox'[p] = outbox[p] \o env
        /\ \A q \in Party \ {p} : /\ heard'[q] = heard[q] /\ blob'[q] = blob[q]
                                  /\ round'[q] = round[q] /\ outbox'[q] = outbox[q]
    BY <1>1, <2>1
  <2>3. ks \in Seq(Kind) /\ Proper(ScriptOf(p)[round[p] + 1])
    <3>1. count[p] \in Nat /\ Current(p).need = count[p] + 1
      BY <2>1 DEF Shape, TypeOK
    <3>2. Current(p).need # 0
      BY <3>1
    <3>3. /\ round[p] + 1 \in 1..Len(ScriptOf(p))
          /\ ScriptOf(p)[round[p] + 1] \in RoundRecord
      BY <3>2, CurrentType DEF Shape
    <3> QED
      BY <3>3, ScriptGood DEF RoundRecord, GoodScript, Orderly, Shape
  <2>4. b \in Val
    BY <1>1 DEF Message
  <2>5. m.kind = Current(p).recv
    BY <2>1 DEF Acceptable
  <2>6. b = blob[p] \/ (Current(p).recv = "meta" /\ m.kind = "meta")
    BY <2>5
  <2> HIDE DEF b, ks
  <2>7. env \in Seq(Envelope) /\ \A e \in Elements(env) : e.val = Payload(p, e.kind, h, b)
    BY <2>3, <2>4, EnvelopesType, EnvelopesOnce DEF Proper, ks
  <2> HIDE DEF env
  <2>8. Pending(p)' = Pending(p) \cup Elements(env)
    BY <1>1, <2>2, <2>7, ConcatElements DEF Pending
  <2>9. \A q \in Party \ {p} : Pending(q)' = Pending(q)
    BY <2>2 DEF Pending
  <2>10. \A e \in Pending(p)' : e \in Pending(p) \/ e.val = Payload(p, e.kind, heard'[p], blob'[p])
    BY <2>2, <2>7, <2>8
  <2> QED
    BY <1>2, <1>4, <2>1, <2>2, <2>6, <2>9, <2>10
<1> QED
  BY <1>1, <1>5, <1>6, <1>7 DEF Feed

-----------------------------------------------------------------------------
(***************************************************************************)
(* Parties that complete with metadata hold the same.                      *)
(***************************************************************************)
\* The hashes on their way are of the sender's blob unless it is faulty, and those
\* accepted are of the own blob.  A ceremony without metadata has no blob.
Hashed ==
    /\ \A q \in Party : \A e \in Pending(q) : e.kind = "hash" => e.val = blob[q]
    /\ \A p \in Party : \A m \in Posted(p) :
         m.kind = "hash" /\ m.from \notin Faulty => m.val = blob[m.from]
    /\ \A p \in Party : \A x \in heard[p] : x.kind = "hash" => x.val = blob[p]
    /\ ceremony \notin Metadata => \A p \in Party : blob[p] = "none"

\* A party adopts a blob before it sends or accepts a hash.
LEMMA NoHashYet ==
    ASSUME Shape, Delivery, NEW p \in Party, Current(p).recv = "meta"
    PROVE  /\ "hash" \notin SentBy(p)
           /\ \A x \in heard[p] : x.kind # "hash"
           /\ ceremony \in Metadata
<1> DEFINE s == ScriptOf(p)
           r == round[p]
<1>1. r \in 1..Len(s) /\ r \in Nat /\ Current(p) = s[r]
  BY CurrentType DEF Shape, TypeOK, Current
<1>2. GoodScript(ceremony, s)
  BY ScriptGood DEF Shape
<1>3. ASSUME NEW i \in 1..r PROVE "hash" \notin Sends(s[i]) /\ s[i].recv # "hash"
  <2>1. CASE i = r
    BY <1>1, <1>2, <2>1 DEF GoodScript, Orderly, Proper
  <2>2. CASE i # r
    <3>1. i \in 1..Len(s) /\ i < r
      BY <1>1, <2>2
    <3> QED
      BY <1>1, <1>2, <3>1 DEF GoodScript, Orderly, Precedes
  <2> QED
    BY <2>1, <2>2
<1>4. \A x \in heard[p] : \E i \in 1..r : x.kind = s[i].recv
  BY DEF Delivery, HeardOnce
<1>5. ceremony \in Metadata
  BY <1>1, <1>2 DEF GoodScript
<1> QED
  BY <1>3, <1>4, <1>5 DEF SentBy

\* What the first round of a script sends.
LEMMA InitPayload ==
    ASSUME Init, NEW q \in Party, NEW e \in Pending(q)
    PROVE  e.val = Payload(q, e.kind, {}, blob[q])
<1> DEFINE s == ScriptOf(q)
           b == OwnBlob(q)
           env == Envelopes(q, s[1].send, {}, b)
<1>1. Shape
  BY InitShape
<1>2. 1 \in 1..Len(s) /\ s[1].send \in Seq(Kind)
  BY <1>1, CurrentType DEF Init, Current, RoundRecord, Shape
<1>3. Proper(s[1])
  BY <1>1, <1>2, ScriptGood DEF GoodScript, Orderly, Shape
<1>4. blob[q] = b /\ outbox[q] = env
  BY DEF Init
<1> HIDE DEF b
<1>5. \A f \in Elements(env) : f.val = Payload(q, f.kind, {}, b)
  BY <1>2, <1>3, EnvelopesOnce DEF Proper
<1> HIDE DEF env
<1> QED
  BY <1>4, <1>5 DEF Pending

\* Whoever posted a message is a party.
LEMMA NextSenders ==
    ASSUME Shape, [Next]_vars
    PROVE  \A p \in Party : \A m \in Posted(p)' : m.from \in Party
<1>1. relay' \in [Party -> Seq(Message)]
  BY NextShape DEF Shape, TypeOK
<1>2. ASSUME NEW p \in Party, NEW m \in Posted(p)' PROVE m \in Message
  <2>1. relay'[p] \in Seq(Message)
    BY <1>1
  <2>2. PICK i \in 1..Len(relay'[p]) : m = relay'[p][i]
    BY DEF Posted, Elements
  <2> QED
    BY <2>1, <2>2, ElementOfSeq
<1> QED
  BY <1>2 DEF Message

\* Initially nobody has sent or accepted a hash of another blob.
LEMMA InitHashed == Init => Hashed
<1> SUFFICES ASSUME Init PROVE Hashed
  OBVIOUS
<1>1. Shape
  BY InitShape
<1>2. ASSUME NEW q \in Party, NEW e \in Pending(q) PROVE e.val = Payload(q, e.kind, {}, blob[q])
  BY InitPayload
<1>3. \A p \in Party : Posted(p) = {} /\ heard[p] = {}
  BY DEF Init, Posted, Elements
<1>4. ceremony \notin Metadata => \A p \in Party : blob[p] = "none"
  BY DEF Init, OwnBlob, Metadata
<1> QED
  BY <1>2, <1>3, <1>4 DEF Hashed, Payload

\* Every step keeps the hashes true: a blob changes only before its hash is sent.
LEMMA NextHashed == Shape /\ Delivery /\ Hashed /\ [Next]_vars => Hashed'
<1> SUFFICES ASSUME Shape, Delivery, Hashed, [Next]_vars PROVE Hashed'
  OBVIOUS
<1>1. CASE Moved
  <2>1. /\ ceremony' = ceremony /\ heard' = heard /\ blob' = blob
        /\ \A q \in Party : Pending(q)' \subseteq Pending(q)
    BY <1>1 DEF Moved, task
  <2>2. ASSUME NEW p \in Party, NEW m \in Posted(p)', m.kind = "hash", m.from \notin Faulty,
               m.from \in Party
        PROVE  m.val = blob[m.from]
    <3>1. CASE m \in Posted(p)
      BY <2>2, <3>1 DEF Hashed
    <3>2. ASSUME NEW e \in Pending(m.from), m.kind = e.kind, m.val \in Sendable(m.from, e)
          PROVE  m.val = blob[m.from]
      BY <2>2, <3>2 DEF Sendable, Hashed
    <3> QED
      BY <1>1, <3>1, <3>2 DEF Moved
  <2>3. \A p \in Party : \A m \in Posted(p)' : m.from \in Party
    BY NextSenders
  <2> QED
    BY <2>1, <2>2, <2>3 DEF Hashed
<1>2. ASSUME NEW p \in Party, NEW m \in Message, Fed(p, m) PROVE Hashed'
  <2>1. /\ ceremony' = ceremony /\ \A q \in Party : Posted(q)' = Posted(q)
        /\ \A q \in Party \ {p} : Pending(q)' = Pending(q) /\ heard'[q] = heard[q]
                                  /\ blob'[q] = blob[q]
        /\ \A x \in heard'[p] :
             \/ x \in heard[p]
             \/ Acceptable(p, m) /\ x.from = m.from /\ x.kind = m.kind /\ x.val = m.val
        /\ \A e \in Pending(p)' :
             e \in Pending(p) \/ e.val = Payload(p, e.kind, heard'[p], blob'[p])
        /\ blob'[p] = blob[p] \/ (Current(p).recv = "meta" /\ m.kind = "meta")
    BY <1>2, FedEffect
  <2>2. blob'[p] # blob[p] => /\ m.kind = "meta" /\ "hash" \notin SentBy(p)
                              /\ \A x \in heard[p] : x.kind # "hash"
                              /\ ceremony \in Metadata
    BY <2>1, NoHashYet
  <2>3. ASSUME NEW q \in Party, NEW e \in Pending(q)', e.kind = "hash" PROVE e.val = blob'[q]
    <3>1. CASE q # p
      BY <2>1, <2>3, <3>1 DEF Hashed
    <3>2. CASE q = p /\ e \in Pending(p)
      BY <2>2, <2>3, <3>2 DEF Hashed, Delivery, OutboxOnce
    <3>3. CASE q = p /\ e.val = Payload(p, e.kind, heard'[p], blob'[p])
      BY <2>3, <3>3 DEF Payload
    <3> QED
      BY <2>1, <2>3, <3>1, <3>2, <3>3
  <2>4. ASSUME NEW q \in Party, NEW n \in Posted(q), n.kind = "hash", n.from \notin Faulty
        PROVE  n.val = blob'[n.from]
    <3>1. n.from \in Party /\ n.val = blob[n.from] /\ n.kind \in SentBy(n.from)
      BY <2>4, ListTypes DEF Hashed, Shape, Message, Delivery, RelayOnce
    <3> QED
      BY <2>1, <2>2, <2>4, <3>1
  <2>5. ASSUME NEW q \in Party, NEW x \in heard'[q], x.kind = "hash" PROVE x.val = blob'[q]
    <3>1. CASE q # p
      BY <2>1, <2>5, <3>1 DEF Hashed
    <3>2. CASE q = p /\ x \in heard[p]
      BY <2>2, <2>5, <3>2 DEF Hashed
    <3>3. CASE q = p /\ Acceptable(p, m) /\ x.kind = m.kind /\ x.val = m.val
      BY <2>2, <2>5, <3>3 DEF Acceptable
    <3> QED
      BY <2>1, <2>5, <3>1, <3>2, <3>3
  <2>6. ceremony' \notin Metadata => \A q \in Party : blob'[q] = "none"
    BY <2>1, <2>2 DEF Hashed
  <2> QED
    BY <2>1, <2>3, <2>4, <2>5, <2>6 DEF Hashed
<1> QED
  BY <1>1, <1>2, Steps

\* A complete party's hash round has heard every other party, each hash is of the
\* own blob, and an honest peer's hash is of that peer's blob.
LEMMA HashedAgrees == Shape /\ Delivery /\ Hashed => MetadataAgreement
<1> SUFFICES ASSUME Shape, Delivery, Hashed, NEW p \in Party \ Faulty, NEW q \in Party \ Faulty,
                    outcome[p] = "ok", outcome[q] = "ok"
             PROVE  blob[p] = blob[q]
  BY DEF MetadataAgreement
<1>1. CASE ceremony \notin Metadata
  BY <1>1 DEF Hashed
<1>2. CASE ceremony \in Metadata /\ p # q
  <2> DEFINE s == ScriptOf(p)
  <2>1. PICK i \in 1..(Len(s) - 1) : s[i].recv = "hash" /\ s[i].need = N - 1
    BY <1>2, ScriptGood DEF Shape, GoodScript
  <2>2. round[p] = Len(s)
    BY DEF Delivery, Counted
  <2>3. Senders(p, "hash") = Others(p)
    BY <2>1, <2>2 DEF Delivery, EveryPeerHeard
  <2>4. PICK x \in heard[p] : x.kind = "hash" /\ x.from = q
    BY <1>2, <2>3 DEF Senders, Others
  <2>5. PICK n \in Posted(p) : n.from = x.from /\ n.kind = x.kind /\ n.val = x.val
    BY DEF Delivery, HeardOnce
  <2> QED
    BY <2>4, <2>5 DEF Hashed
<1> QED
  BY <1>1, <1>2

\* Whatever blobs and hashes a faulty party hands to whom, each of them once, in
\* whatever order they arrive and for any number of parties: two parties that follow the protocol and complete a
\* frozt key generation or import have stored the same metadata.
THEOREM MetadataAgreementAlways == Spec => []MetadataAgreement
<1>1. Spec => [](Shape /\ Delivery /\ Hashed)
  BY InitShape, NextShape, InitDelivery, NextDelivery, InitHashed, NextHashed, PTL DEF Spec
<1> QED
  BY <1>1, HashedAgrees, PTL
-----------------------------------------------------------------------------
(***************************************************************************)
(* A party that completes has the group key it was to have.                *)
(***************************************************************************)
\* The round-1 packages on their way and accepted hold their sender's term, or are
\* invalid.  After the first round none of those accepted is invalid, and after
\* the second round of a resharing the task has compared the key.
Terms ==
    /\ \A q \in Party : \A e \in Pending(q) : e.kind = "r1" => e.val = Term(ceremony, q)
    /\ \A p \in Party : \A m \in Posted(p) :
         m.kind = "r1" => m.val \in {Term(ceremony, m.from), "invalid"}
    /\ \A p \in Party : \A x \in heard[p] : x.kind = "r1" =>
         x.val \in {Term(ceremony, x.from), "invalid"} /\ (round[p] # 1 => x.val # "invalid")
    /\ ceremony = "Reshare" =>
         \A p \in Party : round[p] = 3 => KeyIsRight(p, heard[p])

\* Initially the packages hold their sender's term.
LEMMA InitTerms == Init => Terms
<1> SUFFICES ASSUME Init PROVE Terms
  OBVIOUS
<1>1. Shape
  BY InitShape
<1>2. ASSUME NEW q \in Party, NEW e \in Pending(q) PROVE e.val = Payload(q, e.kind, {}, blob[q])
  BY InitPayload
<1>3. \A p \in Party : Posted(p) = {} /\ heard[p] = {} /\ round[p] = 1
  BY DEF Init, Posted, Elements
<1> QED
  BY <1>2, <1>3 DEF Terms, Payload

\* Every step keeps it: the check after the loop rejects an invalid package.
LEMMA NextTerms == Shape /\ Delivery /\ Terms /\ [Next]_vars => Terms'
<1> SUFFICES ASSUME Shape, Delivery, Terms, [Next]_vars PROVE Terms'
  OBVIOUS
<1>1. CASE Moved
  <2>1. /\ ceremony' = ceremony /\ heard' = heard /\ round' = round
        /\ \A q \in Party : Pending(q)' \subseteq Pending(q)
    BY <1>1 DEF Moved, task
  <2>2. ASSUME NEW p \in Party, NEW m \in Posted(p)', m.kind = "r1", m.from \in Party
        PROVE  m.val \in {Term(ceremony, m.from), "invalid"}
    <3>1. CASE m \in Posted(p)
      BY <2>2, <3>1 DEF Terms
    <3>2. ASSUME NEW e \in Pending(m.from), m.kind = e.kind, m.val \in Sendable(m.from, e)
          PROVE  m.val \in {Term(ceremony, m.from), "invalid"}
      BY <2>2, <3>2 DEF Sendable, Terms
    <3> QED
      BY <1>1, <3>1, <3>2 DEF Moved
  <2>3. \A p \in Party : \A m \in Posted(p)' : m.from \in Party
    BY NextSenders
  <2> QED
    BY <2>1, <2>2, <2>3 DEF Terms, Term, KeyIsRight
<1>2. ASSUME NEW p \in Party, NEW m \in Message, Fed(p, m) PROVE Terms'
  <2>1. /\ ceremony' = ceremony /\ \A q \in Party : Posted(q)' = Posted(q)
        /\ \A q \in Party \ {p} : Pending(q)' = Pending(q) /\ heard'[q] = heard[q]
                                  /\ round'[q] = round[q]
        /\ \A x \in heard'[p] :
             \/ x \in heard[p]
             \/ Acceptable(p, m) /\ x.from = m.from /\ x.kind = m.kind /\ x.val = m.val
        /\ \A e \in Pending(p)' :
             e \in Pending(p) \/ e.val = Payload(p, e.kind, heard'[p], blob'[p])
        /\ \/ round'[p] = round[p]
           \/ round'[p] = round[p] + 1 /\ LoopError(p, heard'[p]) = "none"
    BY <1>2, FedEffect
  <2>2. /\ \A q \in Party : Term(ceremony, q)' = Term(ceremony, q)
        /\ round[p] \in 1..Len(ScriptOf(p)) /\ round[p] \in Nat
        /\ GoodScript(ceremony, ScriptOf(p))
    BY <2>1, CurrentType, ScriptGood DEF Term, Shape, TypeOK
  <2>3. ASSUME NEW q \in Party, NEW e \in Pending(q)', e.kind = "r1"
        PROVE  e.val = Term(ceremony, q)
    <3>1. CASE e \in Pending(q)
      BY <2>3, <3>1 DEF Terms
    <3>2. CASE q = p /\ e.val = Payload(p, e.kind, heard'[p], blob'[p])
      BY <2>3, <3>2 DEF Payload
    <3> QED
      BY <2>1, <2>3, <3>1, <3>2
  <2>4. m.val \in {Term(ceremony, m.from), "invalid"} \/ m.kind # "r1"
    BY <1>2 DEF Fed, Terms
  <2>5. Acceptable(p, m) /\ m.kind = "r1" => round[p] = 1
    <3> SUFFICES ASSUME Acceptable(p, m), m.kind = "r1", round[p] # 1 PROVE FALSE
      OBVIOUS
    <3>1. 1 \in 1..Len(ScriptOf(p)) /\ 1 < round[p]
      BY <2>2
    <3>2. Current(p).recv # "r1"
      BY <2>2, <3>1 DEF GoodScript, Orderly, Precedes, Current
    <3> QED
      BY <3>2 DEF Acceptable
  <2>6. ASSUME NEW x \in heard'[p], x.kind = "r1"
        PROVE  x.val \in {Term(ceremony, x.from), "invalid"}
    BY <2>1, <2>4, <2>6 DEF Terms
  <2>7. ASSUME NEW x \in heard'[p], x.kind = "r1", round'[p] # 1 PROVE x.val # "invalid"
    <3>1. CASE round[p] # 1
      BY <2>1, <2>5, <2>7, <3>1 DEF Terms
    <3>2. CASE round[p] = 1
      <4>1. LoopError(p, heard'[p]) = "none"
        BY <2>1, <2>7, <3>2
      <4>2. Current(p).recv = "r1"
        <5>1. CASE x \in heard[p]
          <6>1. PICK i \in 1..round[p] : x.kind = ScriptOf(p)[i].recv
            BY <5>1 DEF Delivery, HeardOnce
          <6>2. i = 1
            BY <3>2
          <6> QED
            BY <2>7, <3>2, <6>1, <6>2 DEF Current
        <5>2. CASE x \notin heard[p]
          BY <2>1, <2>7, <5>2 DEF Acceptable
        <5> QED
          BY <5>1, <5>2
      <4>3. Culprits(heard'[p], "r1") = {}
        BY <4>1, <4>2 DEF LoopError
      <4> QED
        BY <2>7, <4>3 DEF Culprits, Fails
    <3> QED
      BY <3>1, <3>2
  <2>8. ASSUME ceremony = "Reshare", round'[p] = 3 PROVE KeyIsRight(p, heard'[p])
    <3>1. CASE round[p] = 3
      <4>1. KeyIsRight(p, heard[p])
        BY <2>8, <3>1 DEF Terms
      <4> QED
        BY <2>1, <2>5, <3>1, <4>1 DEF KeyIsRight
    <3>2. CASE round[p] # 3
      <4>1. round[p] = 2 /\ LoopError(p, heard'[p]) = "none"
        BY <2>1, <2>2, <2>8, <3>2
      <4>2. Current(p).recv = "r2"
        BY <2>2, <2>8, <4>1 DEF GoodScript, Current
      <4> QED
        BY <2>8, <4>1, <4>2 DEF LoopError
    <3> QED
      BY <3>1, <3>2
  <2>9. \A q \in Party : \A x \in heard'[q] : x.kind = "r1" =>
          x.val \in {Term(ceremony, x.from), "invalid"} /\ (round'[q] # 1 => x.val # "invalid")
    BY <2>1, <2>6, <2>7 DEF Terms
  <2>10. ceremony' = "Reshare" => \A q \in Party : round'[q] = 3 => KeyIsRight(q, heard'[q])
    BY <2>1, <2>8 DEF Terms
  <2>11. \A q \in Party : KeyIsRight(q, heard[q])' = KeyIsRight(q, heard'[q])
    BY <2>1, <2>2 DEF KeyIsRight
  <2>12. \A q \in Party : \A n \in Posted(q) : n.from \in Party
    BY ListTypes DEF Shape, Message
  <2> QED
    BY <2>1, <2>3, <2>9, <2>10, <2>11, <2>12 DEF Terms, Term
<1> QED
  BY <1>1, <1>2, Steps

\* The ceremonies in which a second seed holder is not noticed.
Import == {"FroztKeyImport", "FromtKeyImport"}

\* A resharing has compared the key; elsewhere every term is the right one when no
\* import has a second seed holder.
LEMMA TermsAgree ==
    ASSUME Misconfigured = {} \/ Running \cap Import = {}
    PROVE  Shape /\ Delivery /\ Terms => GroupKeyChecked
<1> SUFFICES ASSUME Shape, Delivery, Terms, NEW p \in Party, outcome[p] = "ok"
             PROVE  KeyIsRight(p, heard[p])
  BY DEF GroupKeyChecked
<1>1. round[p] = Len(ScriptOf(p)) /\ round[p] # 1 /\ ceremony \in Running
  BY DEF Delivery, Counted, Shape, TypeOK
<1>2. CASE ceremony = "Reshare"
  <2>1. Len(ScriptOf(p)) = 3
    BY <1>2, ScriptGood DEF Shape, GoodScript
  <2> QED
    BY <1>1, <1>2, <2>1 DEF Terms
<1>3. CASE ceremony # "Reshare"
  <2>1. \A q : Term(ceremony, q) = "term"
    BY <1>1, <1>3 DEF Term, Import
  <2> QED
    BY <1>1, <2>1 DEF Terms, KeyIsRight
<1> QED
  BY <1>2, <1>3

\* A party that completes a resharing has the group key it was to keep, whichever
\* parties come with a wrong share, and a party that completes another ceremony has
\* the sum of everyone's terms, as long as no import has a second seed holder and no
\* party deals one peer another valid package than the others.
THEOREM GroupKeyCheckedAlways ==
    ASSUME Misconfigured = {} \/ Running \cap Import = {}
    PROVE  Spec => []GroupKeyChecked
<1>1. Spec => [](Shape /\ Delivery /\ Terms)
  BY InitShape, NextShape, InitDelivery, NextDelivery, InitTerms, NextTerms, PTL DEF Spec
<1>2. Shape /\ Delivery /\ Terms => GroupKeyChecked
  BY TermsAgree
<1> QED
  BY <1>1, <1>2, PTL
-----------------------------------------------------------------------------
(***************************************************************************)
(* Nobody waits for what nobody is going to send.                          *)
(***************************************************************************)
\* Unless the relay lost something, what a task has handed to its runner is still
\* to be posted or is listed.
AllSent ==
    drops = 0 =>
        \A q \in Party : \A p \in Others(q) : \A k \in SentBy(q) :
            \/ \E e \in Pending(q) : e.to = p /\ e.kind = k
            \/ \E m \in Posted(p) : m.from = q /\ m.kind = k

\* The runner's key of a message is its own, and is of a message that was posted.
Keys ==
    \A p \in Party :
        /\ \A m \in Posted(p) : m.seq <= seq[m.from]
        /\ \A m, n \in Posted(p) : SeenKey(m) = SeenKey(n) => m = n
        /\ \A key \in seen[p] : key[2] <= seq[key[1]]

\* A task without a result has accepted whatever its runner has seen.
AllHeard ==
    \A p \in Party : outcome[p] = "none" =>
        \A m \in Posted(p) : SeenKey(m) \in seen[p] => m.from \in Senders(p, m.kind)

\* A task without a result waits for more, and Ok is returned for a result.
Awaiting == \A p \in Party : outcome[p] = "none" => count[p] < Current(p).need
Returned == \A p \in Party : pc[p] = "ok" => outcome[p] = "ok"

Progress == AllSent /\ Keys /\ AllHeard /\ Awaiting /\ Returned

\* What taking the head off a list takes out.
LEMMA HeadOrTail ==
    ASSUME NEW S, NEW s \in Seq(S), s # <<>>
    PROVE  Elements(s) \subseteq Elements(Tail(s)) \cup {Head(s)}
<1> DEFINE n == Len(s)
<1>1. /\ n \in Nat \ {0} /\ Len(Tail(s)) = n - 1 /\ Head(s) = s[1]
      /\ \A i \in 1..(n - 1) : Tail(s)[i] = s[i + 1]
  <2>1. Len(s) \in Nat /\ Len(s) # 0
    BY LenProperties, EmptySeq
  <2>2. /\ Len(Tail(s)) = Len(s) - 1 /\ Head(s) = s[1]
        /\ \A i \in 1..Len(Tail(s)) : Tail(s)[i] = s[i + 1]
    BY HeadTailProperties
  <2> QED
    BY <2>1, <2>2
<1> SUFFICES ASSUME NEW i \in 1..n, i # 1 PROVE s[i] \in Elements(Tail(s))
  BY <1>1 DEF Elements
<1>2. i - 1 \in 1..(n - 1) /\ (i - 1) + 1 = i
  BY <1>1
<1>3. Tail(s)[i - 1] = s[i] /\ i - 1 \in 1..Len(Tail(s))
  BY <1>1, <1>2
<1> QED
  BY <1>3 DEF Elements

\* Every index of a kind and every index of a recipient is the split of a POST.
LEMMA DivJoin ==
    ASSUME NEW L \in Nat, NEW M \in Nat \ {0}, NEW i \in 1..L, NEW r \in 1..M
    PROVE  LET j == (i - 1) * M + r
           IN  /\ j \in 1..(L * M)
               /\ (j - 1) \div M = i - 1 /\ (j - 1) % M = r - 1
<1> DEFINE x == (i - 1) * M
           j == x + r
<1>1. x \in Nat /\ L * M \in Nat
  OBVIOUS
<1>2. x + M <= L * M
  <2>1. x + M = i * M
    OBVIOUS
  <2>2. i * M <= L * M
    OBVIOUS
  <2> QED
    BY <2>1, <2>2
<1>3. j \in 1..(L * M)
  <2> HIDE DEF x
  <2> QED
    BY <1>1, <1>2
<1>4. j - 1 = M * (i - 1) + (r - 1)
  OBVIOUS
<1>5. (j - 1) \div M = i - 1 /\ (j - 1) % M = r - 1
  <2> DEFINE a == i - 1
             b == r - 1
             y == j - 1
             q == y \div M
             d == y % M
  <2>1. a \in Nat /\ b \in 0..(M - 1) /\ y = M * a + b /\ y \in Nat
    BY <1>1, <1>4
  <2>2. y = M * q + d /\ d \in 0..(M - 1) /\ q \in Int
    BY <2>1
  <2> HIDE DEF a, b, y, q, d
  <2>3. M * (a - q) = d - b
    BY <2>1, <2>2
  <2>4. d - b < M /\ b - d < M
    BY <2>1, <2>2
  <2>5. a = q
    <3>1. CASE a - q >= 1
      <4>1. M * (a - q) >= M
        BY <2>1, <2>2, <3>1
      <4> QED
        BY <2>1, <2>2, <2>3, <2>4, <4>1
    <3>2. CASE q - a >= 1
      <4>1. M * (q - a) >= M /\ M * (q - a) = b - d
        BY <2>1, <2>2, <2>3, <3>2
      <4> QED
        BY <2>1, <2>2, <2>4, <4>1
    <3> QED
      BY <2>1, <2>2, <3>1, <3>2
  <2>6. d = b
    BY <2>1, <2>2, <2>5
  <2> QED
    BY <2>5, <2>6 DEF a, b, y, q, d
<1> QED
  BY <1>3, <1>5

\* A broadcast has an envelope for every kind and every other party.
LEMMA EnvelopesAll ==
    ASSUME NEW p \in Party, NEW ks \in Seq(Kind), NEW h, NEW b,
           NEW i \in 1..Len(ks), NEW d \in Others(p)
    PROVE  \E e \in Elements(Envelopes(p, ks, h, b)) : e.to = d /\ e.kind = ks[i]
<1> DEFINE M == N - 1
           r == IF d < p THEN d ELSE d - 1
           L == Len(ks)
           j == (i - 1) * M + r
           env == Envelopes(p, ks, h, b)
<1>1. M \in Nat \ {0} /\ Len(ks) \in Nat
  BY CeremonyAssumption, LenProperties
<1>2. r \in 1..M /\ Recipient(p, r) = d
  BY CeremonyAssumption DEF Others, Party, Recipient
<1>3. L \in Nat /\ i \in 1..L
  BY <1>1
<1> HIDE DEF r, M, L
<1>4. j \in 1..(L * M) /\ (j - 1) \div M = i - 1 /\ (j - 1) % M = r - 1
  BY <1>1, <1>2, <1>3, DivJoin
<1> HIDE DEF j
<1>5. ((j - 1) \div M) + 1 = i /\ ((j - 1) % M) + 1 = r
  BY <1>1, <1>2, <1>3, <1>4
<1>6. L * M \in Nat
  BY <1>1, <1>3
<1>7. Len(env) = L * M /\ env[j].to = Recipient(p, ((j - 1) % M) + 1)
      /\ env[j].kind = ks[((j - 1) \div M) + 1]
  BY <1>4, <1>6 DEF Envelopes, L, M
<1> QED
  BY <1>2, <1>4, <1>5, <1>7 DEF Elements

\* Initially the first round's messages are to be posted.
LEMMA InitProgress == Init => Progress
<1> SUFFICES ASSUME Init PROVE Progress
  OBVIOUS
<1>1. TypeOK
  BY InitShape DEF Shape
<1>2. \A p \in Party : Posted(p) = {} /\ seen[p] = {} /\ round[p] = 1 /\ count[p] = 0
                       /\ pc[p] = "drain"
  BY DEF Init, Posted, Elements
<1>3. ASSUME NEW q \in Party, NEW d \in Others(q), NEW k \in SentBy(q)
      PROVE  \E e \in Pending(q) : e.to = d /\ e.kind = k
  <2> DEFINE s == ScriptOf(q)
             ks == s[1].send
             env == Envelopes(q, ks, {}, OwnBlob(q))
  <2>1. 1 \in 1..Len(s) /\ ks \in Seq(Kind) /\ 1..round[q] = {1}
    BY <1>1, <1>2, CurrentType DEF Init, Current, RoundRecord
  <2>2. PICK i \in 1..Len(ks) : k = ks[i]
    BY <1>3, <2>1 DEF SentBy, Sends
  <2>3. outbox[q] = env
    BY DEF Init
  <2> HIDE DEF ks
  <2> QED
    BY <1>3, <2>1, <2>2, <2>3, EnvelopesAll DEF Pending
<1>4. Awaiting
  <2> SUFFICES ASSUME NEW p \in Party PROVE 0 < Current(p).need
    BY <1>2 DEF Awaiting
  <2>1. Current(p) \in RoundRecord /\ Current(p) = ScriptOf(p)[1]
    BY <1>1, <1>2, CurrentType DEF Current
  <2>2. Current(p).need # 0
    BY <1>1, <2>1, ScriptGood DEF Complete
  <2> QED
    BY <2>1, <2>2 DEF RoundRecord
<1> QED
  BY <1>2, <1>3, <1>4 DEF Progress, AllSent, Keys, AllHeard, Returned

\* One POST of p takes envelope e out of its outbox and lists message m.
Posts(p, e, m) ==
    /\ e \in Pending(p) /\ e.to \in Others(p)
    /\ m \in Message /\ m.from = p /\ m.seq = seq[p] + 1 /\ m.kind = e.kind
    /\ Pending(p) \subseteq Pending(p)' \cup {e}
    /\ \A q \in Party : q # p => Pending(q)' = Pending(q)
    /\ \A q \in Party : Posted(q)' = IF q = e.to THEN Posted(q) \cup {m} ELSE Posted(q)

\* That is what Post does.
LEMMA PostEffect ==
    ASSUME TypeOK, Delivery, NEW p \in Party, Post(p)
    PROVE  \E e \in Envelope, m \in Message : Posts(p, e, m)
<1> DEFINE e == Head(outbox[p])
           d == e.to
<1>1. outbox[p] # <<>> /\ outbox' = [outbox EXCEPT ![p] = Tail(@)]
  BY DEF Post
<1>2. outbox[p] \in Seq(Envelope) /\ e \in Envelope
  BY <1>1, ListTypes, HeadTailProperties
<1>3. /\ outbox'[p] = Tail(outbox[p])
      /\ \A q \in Party : q # p => outbox'[q] = outbox[q]
  BY <1>1 DEF TypeOK
<1>4. e \in Pending(p) /\ Pending(p) \subseteq Pending(p)' \cup {e}
  BY <1>1, <1>2, <1>3, TailElements, HeadOrTail DEF Pending
<1>5. PICK v \in Sendable(p, e) :
         relay' = [relay EXCEPT ![d] =
                     Append(@, [from |-> p, seq |-> seq[p] + 1, kind |-> e.kind, val |-> v])]
  BY DEF Post
<1> HIDE DEF e
<1> DEFINE m == [from |-> p, seq |-> seq[p] + 1, kind |-> e.kind, val |-> v]
<1>6. v \in Val
  BY <1>2, <1>5 DEF Sendable, Envelope, Val
<1>7. m \in Message /\ m.from = p /\ m.kind = e.kind /\ m.seq = seq[p] + 1
  BY <1>2, <1>6 DEF Message, Envelope, TypeOK
<1> HIDE DEF m
<1>8. d \in Party /\ d # p
  BY <1>2, <1>4 DEF Envelope, Delivery, OutboxOnce
<1>9. /\ relay'[d] = Append(relay[d], m)
      /\ \A q \in Party : q # d => relay'[q] = relay[q]
  BY <1>5, <1>8 DEF TypeOK, m
<1>10. ASSUME NEW q \in Party
       PROVE  Posted(q)' = IF q = d THEN Posted(q) \cup {m} ELSE Posted(q)
  <2>1. relay[q] \in Seq(Message)
    BY ListTypes
  <2>2. Elements(Append(relay[q], m)) = Elements(relay[q]) \cup {m}
    BY <1>7, <2>1, AppendElements
  <2>3. relay'[q] = IF q = d THEN Append(relay[q], m) ELSE relay[q]
    BY <1>9
  <2> QED
    BY <2>2, <2>3 DEF Posted
<1>11. \A q \in Party : q # p => Pending(q)' = Pending(q)
  BY <1>3 DEF Pending
<1>12. Posts(p, e, m)
  BY <1>4, <1>7, <1>8, <1>10, <1>11 DEF Posts, Others
<1> QED
  BY <1>2, <1>7, <1>12

\* A POST keeps what Progress says: its message has a key nobody has seen.
LEMMA PostProgress ==
    ASSUME TypeOK, Delivery, Progress, NEW p \in Party, Post(p)
    PROVE  AllSent' /\ Keys' /\ AllHeard'
<1>1. PICK e \in Envelope, m \in Message : Posts(p, e, m)
  BY PostEffect
<1>2. /\ UNCHANGED <<ceremony, round, heard, outcome, seen, drops>>
      /\ seq' = [seq EXCEPT ![p] = @ + 1]
  BY DEF Post, task
<1>3. /\ seq \in [Party -> Nat] /\ seq'[p] = seq[p] + 1
      /\ \A q \in Party : q # p => seq'[q] = seq[q]
  BY <1>2 DEF TypeOK
<1>4. \A q \in Party : seq[q] \in Nat /\ seq'[q] \in Nat /\ seq[q] <= seq'[q]
  BY <1>3
<1>5. /\ \A q \in Party : SentBy(q)' = SentBy(q)
      /\ \A q, k : Senders(q, k)' = Senders(q, k)
  BY <1>2 DEF SentBy, ScriptOf, Senders
<1>6. \A q \in Party : \A n \in Posted(q) :
         n \in Message /\ n.from \in Party /\ n.seq \in Nat /\ n.seq <= seq[n.from]
  BY ListTypes DEF Message, Progress, Keys
<1>7. \A q \in Party : \A key \in seen[q] :
         key[1] \in Party /\ key[2] \in Nat /\ key[2] <= seq[key[1]]
  BY DEF Progress, Keys, TypeOK
<1>8. m.from = p /\ m.seq = seq[p] + 1 /\ m.kind = e.kind
  BY <1>1 DEF Posts
<1>9. ASSUME NEW q \in Party PROVE SeenKey(m) \notin seen[q]
  <2> SUFFICES ASSUME SeenKey(m) \in seen[q] PROVE FALSE
    OBVIOUS
  <2>1. SeenKey(m)[1] = p /\ SeenKey(m)[2] = seq[p] + 1
    BY <1>8 DEF SeenKey
  <2>2. seq[p] + 1 <= seq[p]
    BY <1>7, <2>1
  <2> QED
    BY <1>3, <2>2
<1>10. AllSent'
  <2> SUFFICES ASSUME drops = 0, NEW q \in Party, NEW d \in Others(q), NEW k \in SentBy(q)
               PROVE  \/ \E f \in Pending(q)' : f.to = d /\ f.kind = k
                      \/ \E n \in Posted(d)' : n.from = q /\ n.kind = k
    BY <1>2, <1>5 DEF AllSent, Others
  <2>1. d \in Party
    BY DEF Others
  <2>2. CASE \E n \in Posted(d) : n.from = q /\ n.kind = k
    BY <1>1, <2>1, <2>2 DEF Posts
  <2>3. ASSUME NEW f \in Pending(q), f.to = d, f.kind = k
        PROVE  \/ f \in Pending(q)'
               \/ m \in Posted(d)' /\ m.from = q /\ m.kind = k
    BY <1>1, <2>1, <2>3 DEF Posts
  <2> QED
    BY <2>2, <2>3 DEF Progress, AllSent
<1>11. ASSUME NEW q \in Party, NEW n \in Posted(q)'
       PROVE  n.seq <= seq'[n.from]
  <2>1. CASE n \in Posted(q)
    BY <1>4, <1>6, <2>1
  <2>2. CASE n = m
    BY <1>3, <1>8, <2>2
  <2> QED
    BY <1>1, <2>1, <2>2 DEF Posts
<1>12. ASSUME NEW q \in Party, NEW n \in Posted(q) PROVE SeenKey(n) # SeenKey(m)
  <2>1. n.from = p => n.seq # m.seq
    BY <1>3, <1>6, <1>8
  <2> QED
    BY <1>8, <2>1 DEF SeenKey
<1>13. ASSUME NEW q \in Party, NEW n \in Posted(q)', NEW o \in Posted(q)',
              SeenKey(n) = SeenKey(o)
       PROVE  n = o
  BY <1>1, <1>12, <1>13 DEF Posts, Progress, Keys
<1>14. Keys'
  <2>1. \A q \in Party : \A key \in seen'[q] : key[2] <= seq'[key[1]]
    BY <1>2, <1>4, <1>7
  <2> QED
    BY <1>11, <1>13, <2>1 DEF Keys, SeenKey
<1>15. AllHeard'
  BY <1>1, <1>2, <1>5, <1>9 DEF AllHeard, Progress, Posts, SeenKey
<1> QED
  BY <1>10, <1>14, <1>15

\* A task that is fed is the only one to move; without a result it has accepted m.
LEMMA FedMove ==
    ASSUME Shape, Delivery, Awaiting, NEW p \in Party, NEW m \in Message, Fed(p, m)
    PROVE  /\ \A q \in Party \ {p} :
                /\ round'[q] = round[q] /\ count'[q] = count[q]
                /\ outcome'[q] = outcome[q] /\ outbox'[q] = outbox[q]
           /\ outcome'[p] = "none" =>
                /\ heard' = [heard EXCEPT ![p] = Record(heard[p], m)]
                /\ Collect(p, m) \/ Advance(p, m)
<1>1. /\ round \in [Party -> Nat \ {0}] /\ count \in [Party -> 0..(N - 1)]
      /\ outcome \in [Party -> {"none", "ok"} \cup Error]
      /\ outbox \in [Party -> Seq(Envelope)] /\ count[p] \in Nat
  BY DEF Shape, TypeOK
<1>2. Current(p).need # 0
  BY <1>1 DEF Awaiting, Fed
<1>3. Current(p).err \in Error /\ "none" \notin Error
  BY <1>2, CurrentType DEF Shape, Error
<1>4. CASE Reject(p, m)
  <2>1. outcome'[p] = Current(p).err /\ \A q \in Party \ {p} : outcome'[q] = outcome[q]
    BY <1>1, <1>4 DEF Reject
  <2> QED
    BY <1>3, <1>4, <2>1 DEF Reject
<1>5. CASE Collect(p, m)
  BY <1>1, <1>5 DEF Collect
<1>6. CASE FailCheck(p, m)
  <2>1. outcome'[p] # "none" /\ \A q \in Party \ {p} : outcome'[q] = outcome[q]
    BY <1>1, <1>6 DEF FailCheck
  <2> QED
    BY <1>6, <2>1 DEF FailCheck
<1>7. CASE Advance(p, m)
  BY <1>1, <1>7 DEF Advance
<1> QED
  BY <1>4, <1>5, <1>6, <1>7 DEF Fed, Feed

\* What a task sends when it goes on is for everyone.
LEMMA FedSent ==
    ASSUME Shape, Delivery, AllSent, Awaiting, NEW p \in Party, NEW m \in Message, Fed(p, m)
    PROVE  AllSent'
<1>1. /\ UNCHANGED <<ceremony, relay, drops>> /\ Feed(p, m)
      /\ round \in [Party -> Nat \ {0}] /\ outbox \in [Party -> Seq(Envelope)]
  BY DEF Fed, Shape, TypeOK
<1>2. \A q \in Party : Posted(q)' = Posted(q) /\ ScriptOf(q)' = ScriptOf(q)
  BY <1>1 DEF Posted, ScriptOf
<1>3. CASE Reject(p, m) \/ Collect(p, m) \/ FailCheck(p, m)
  <2>1. UNCHANGED <<round, outbox>>
    BY <1>3 DEF Reject, Collect, FailCheck
  <2>2. \A q \in Party : SentBy(q)' = SentBy(q) /\ Pending(q)' = Pending(q)
    BY <1>2, <2>1 DEF SentBy, Pending
  <2> QED
    BY <1>1, <1>2, <2>2 DEF AllSent, Others
<1>4. CASE Advance(p, m)
  <2> DEFINE s == ScriptOf(p)
             r == round[p]
             ks == s[r + 1].send
             h == Record(heard[p], m)
             b == IF m.kind = "meta" THEN m.val ELSE blob[p]
             env == Envelopes(p, ks, h, b)
  <2>1. /\ round' = [round EXCEPT ![p] = @ + 1] /\ outbox' = [outbox EXCEPT ![p] = @ \o env]
        /\ count[p] + 1 = Current(p).need
    BY <1>4 DEF Advance
  <2>2. count[p] \in Nat /\ r \in Nat
    BY <1>1 DEF Shape, TypeOK
  <2>3. Current(p).need # 0
    BY <2>1, <2>2
  <2>4. r + 1 \in 1..Len(s) /\ s[r + 1] \in RoundRecord
    BY <2>3, CurrentType DEF Shape
  <2>5. ks \in Seq(Kind)
    BY <2>4 DEF RoundRecord
  <2>6. b \in Val
    BY DEF Message, Shape, TypeOK
  <2> HIDE DEF b, h
  <2>7. env \in Seq(Envelope)
    BY <2>5, <2>6, EnvelopesType
  <2>8. ASSUME NEW d \in Others(p), NEW k \in Sends(s[r + 1])
        PROVE  \E e \in Elements(env) : e.to = d /\ e.kind = k
    <3>1. PICK i \in 1..Len(ks) : k = ks[i]
      BY <2>8 DEF Sends
    <3> HIDE DEF ks
    <3> QED
      BY <2>5, <3>1, EnvelopesAll
  <2> HIDE DEF env
  <2>9. outbox'[p] = outbox[p] \o env /\ \A q \in Party : q # p => outbox'[q] = outbox[q]
    BY <1>1, <2>1
  <2>10. /\ Pending(p)' = Pending(p) \cup Elements(env)
         /\ \A q \in Party : q # p => Pending(q)' = Pending(q)
    BY <1>1, <2>7, <2>9, ConcatElements DEF Pending
  <2>11. /\ round'[p] = r + 1 /\ \A q \in Party : q # p => round'[q] = round[q]
    BY <1>1, <2>1
  <2>12. /\ SentBy(p)' = SentBy(p) \cup Sends(s[r + 1])
         /\ \A q \in Party : q # p => SentBy(q)' = SentBy(q)
    <3>1. 1..(r + 1) = (1..r) \cup {r + 1}
      BY <2>2
    <3>2. SentBy(p)' = UNION {Sends(s[i]) : i \in 1..(r + 1)}
      BY <1>2, <2>11 DEF SentBy, Sends
    <3>3. SentBy(p)' = SentBy(p) \cup Sends(s[r + 1])
      BY <3>1, <3>2 DEF SentBy
    <3>4. \A q \in Party : q # p => SentBy(q)' = SentBy(q)
      BY <1>2, <2>11 DEF SentBy, Sends
    <3> QED
      BY <3>3, <3>4
  <2> SUFFICES ASSUME drops = 0, NEW q \in Party, NEW d \in Others(q), NEW k \in SentBy(q)'
               PROVE  \/ \E e \in Pending(q)' : e.to = d /\ e.kind = k
                      \/ \E n \in Posted(d)' : n.from = q /\ n.kind = k
    BY <1>1 DEF AllSent, Others
  <2>13. d \in Party /\ Posted(d)' = Posted(d)
    BY <1>2 DEF Others
  <2>14. CASE k \in SentBy(q)
    <3>1. Pending(q) \subseteq Pending(q)'
      BY <2>10
    <3>2. \/ \E e \in Pending(q) : e.to = d /\ e.kind = k
          \/ \E n \in Posted(d) : n.from = q /\ n.kind = k
      BY <2>14 DEF AllSent
    <3> QED
      BY <2>13, <3>1, <3>2
  <2>15. CASE k \notin SentBy(q)
    <3>1. q = p /\ k \in Sends(s[r + 1])
      BY <2>12, <2>15
    <3> QED
      BY <2>8, <2>10, <3>1
  <2> QED
    BY <2>14, <2>15
<1> QED
  BY <1>1, <1>3, <1>4 DEF Feed

\* A task that goes on has accepted the message it was fed, and waits for more.
LEMMA FedProgress ==
    ASSUME Shape, Delivery, Progress, NEW p \in Party, NEW m \in Message, Fed(p, m)
    PROVE  AllSent' /\ Keys' /\ AllHeard' /\ Awaiting'
<1>1. AllSent /\ Keys /\ AllHeard /\ Awaiting
  BY DEF Progress
<1>2. /\ UNCHANGED <<ceremony, relay, seq>> /\ m \in Posted(p)
      /\ seen' = [seen EXCEPT ![p] = @ \cup {SeenKey(m)}] /\ outcome[p] = "none"
      /\ seen \in [Party -> SUBSET (Party \X Nat)]
  BY DEF Fed, Shape, TypeOK
<1>3. /\ \A q \in Party : Posted(q)' = Posted(q) /\ ScriptOf(q)' = ScriptOf(q)
      /\ seen'[p] = seen[p] \cup {SeenKey(m)}
      /\ \A q \in Party : q # p => seen'[q] = seen[q]
  BY <1>2 DEF Posted, ScriptOf
<1>4. /\ \A q \in Party \ {p} :
            /\ round'[q] = round[q] /\ count'[q] = count[q] /\ outcome'[q] = outcome[q]
      /\ outcome'[p] = "none" =>
            /\ heard' = [heard EXCEPT ![p] = Record(heard[p], m)]
            /\ Collect(p, m) \/ Advance(p, m)
  BY <1>1, FedMove
<1>5. \A q \in Party \ {p} : heard'[q] = heard[q]
  BY FedEffect
<1>6. AllSent'
  BY <1>1, FedSent
<1>7. Keys'
  <2>1. SeenKey(m)[2] <= seq[SeenKey(m)[1]]
    BY <1>1, <1>2 DEF Keys, SeenKey
  <2>2. \A q \in Party : \A key \in seen'[q] : key[2] <= seq[key[1]]
    BY <1>1, <1>3, <2>1 DEF Keys
  <2> QED
    BY <1>1, <1>2, <1>3, <2>2 DEF Keys, SeenKey
<1>8. ASSUME NEW q \in Party, outcome'[q] = "none", NEW n \in Posted(q), SeenKey(n) \in seen'[q]
      PROVE  n.from \in Senders(q, n.kind)'
  <2>1. CASE q # p
    <3>1. outcome[q] = "none" /\ SeenKey(n) \in seen[q]
      BY <1>3, <1>4, <1>8, <2>1
    <3>2. n.from \in Senders(q, n.kind)
      BY <1>1, <1>8, <3>1 DEF AllHeard
    <3> QED
      BY <1>5, <2>1, <3>2 DEF Senders
  <2>2. CASE q = p
    <3>1. \A k : Senders(p, k)' = IF k = m.kind THEN Senders(p, k) \cup {m.from}
                                  ELSE Senders(p, k)
      BY <1>4, <1>8, <2>2, SendersGrow
    <3>2. CASE SeenKey(n) \in seen[p]
      BY <1>1, <1>2, <1>8, <2>2, <3>1, <3>2 DEF AllHeard
    <3>3. CASE SeenKey(n) = SeenKey(m)
      <4>1. n = m
        BY <1>1, <1>2, <1>8, <2>2, <3>3 DEF Keys
      <4> QED
        BY <2>2, <3>1, <4>1
    <3> QED
      BY <1>3, <1>8, <2>2, <3>2, <3>3
  <2> QED
    BY <2>1, <2>2
<1>9. AllHeard'
  BY <1>3, <1>8 DEF AllHeard, SeenKey
<1>10. ASSUME NEW q \in Party, outcome'[q] = "none" PROVE count'[q] < Current(q)'.need
  <2>1. CASE q # p
    BY <1>1, <1>3, <1>4, <1>10, <2>1 DEF Awaiting, Current
  <2>2. CASE q = p /\ Collect(p, m)
    BY <1>3, <2>2 DEF Collect, Current, Shape, TypeOK
  <2>3. CASE q = p /\ Advance(p, m)
    <3>1. count[p] \in Nat /\ count[p] + 1 = Current(p).need
      BY <2>3 DEF Advance, Shape, TypeOK
    <3>2. Current(p).need # 0
      BY <3>1
    <3>3. ScriptOf(p)[round[p] + 1] \in RoundRecord
      BY <3>2, CurrentType DEF Shape
    <3>4. count'[p] = 0 /\ round'[p] = round[p] + 1 /\ ScriptOf(p)[round[p] + 1].need # 0
      BY <1>10, <2>3 DEF Advance, Shape, TypeOK
    <3>5. Current(p)' = ScriptOf(p)[round[p] + 1]
      BY <1>3, <3>4 DEF Current
    <3> QED
      BY <2>3, <3>3, <3>4, <3>5 DEF RoundRecord
  <2> QED
    BY <1>4, <1>10, <2>1, <2>2, <2>3
<1> QED
  BY <1>6, <1>7, <1>9, <1>10 DEF Awaiting

\* A runner returns Ok only for the task's Ok, and a result stays.
LEMMA NextReturned == Shape /\ Delivery /\ Returned /\ [Next]_vars => Returned'
<1> SUFFICES ASSUME Shape, Delivery, Returned, [Next]_vars PROVE Returned'
  OBVIOUS
<1>1. /\ pc \in [Party -> {"drain", "feed", "final", "ok", "error", "blame"}]
      /\ outcome \in [Party -> {"none", "ok"} \cup Error]
  BY DEF Shape, TypeOK
<1>2. CASE UNCHANGED vars
  BY <1>2 DEF vars, Returned
<1>3. ASSUME NEW p \in Party, FeedNext(p) PROVE Returned'
  <2>1. /\ pc'[p] # "ok" /\ \A q \in Party : q # p => pc'[q] = pc[q]
    BY <1>1, <1>3 DEF FeedNext
  <2>2. PICK m \in Message : Feed(p, m)
    BY <1>3, FedOnce DEF Fed
  <2>3. \A q \in Party : q # p => outcome'[q] = outcome[q]
    BY <1>1, <2>2 DEF Feed, Reject, Collect, FailCheck, Advance
  <2> QED
    BY <2>1, <2>3 DEF Returned
<1>4. ASSUME NEW p \in Party, Return(p) PROVE Returned'
  BY <1>1, <1>4 DEF Return, task, Returned
<1>5. ASSUME NEW p \in Party,
             Post(p) \/ PostLost(p) \/ GetMessages(p) \/ RunFails(p) \/ Duplicate(p)
      PROVE  Returned'
  BY <1>1, <1>5 DEF Post, PostLost, GetMessages, RunFails, Duplicate, task, Returned
<1> QED
  BY <1>2, <1>3, <1>4, <1>5 DEF Next, Step, PollEmpty, Done

\* Steps that neither post nor feed.
LEMMA IdleProgress ==
    ASSUME Progress, UNCHANGED <<ceremony, task, outbox, seen, seq, drops>>,
           \A q \in Party : Posted(q)' = Posted(q)
    PROVE  AllSent' /\ Keys' /\ AllHeard' /\ Awaiting'
<1>1. /\ \A q \in Party : /\ SentBy(q)' = SentBy(q) /\ Pending(q)' = Pending(q)
                          /\ Current(q)' = Current(q)
      /\ \A q, k : Senders(q, k)' = Senders(q, k)
  BY DEF task, SentBy, ScriptOf, Current, Senders, Pending
<1>2. AllSent'
  <2>1. \A q \in Party : \A p \in Others(q) : p \in Party
    BY DEF Others
  <2> QED
    BY <1>1, <2>1 DEF Progress, AllSent, Others
<1>3. Keys'
  BY DEF Progress, Keys, SeenKey
<1>4. AllHeard' /\ Awaiting'
  BY <1>1 DEF Progress, AllHeard, Awaiting, task, SeenKey
<1> QED
  BY <1>2, <1>3, <1>4

\* Progress is inductive.
LEMMA NextProgress == Shape /\ Delivery /\ Progress /\ [Next]_vars => Progress'
<1> SUFFICES ASSUME Shape, Delivery, Progress, [Next]_vars PROVE Progress'
  OBVIOUS
<1> USE DEF Shape
<1>1. Returned'
  BY NextReturned DEF Progress
<1>2. CASE UNCHANGED vars
  <2>1. UNCHANGED <<ceremony, task, outbox, seen, seq, drops, relay>>
    BY <1>2 DEF vars, task
  <2>2. \A q \in Party : Posted(q)' = Posted(q)
    BY <2>1 DEF Posted
  <2> QED
    BY <1>1, <2>1, <2>2, IdleProgress DEF Progress
<1>3. ASSUME NEW p \in Party, FeedNext(p) PROVE Progress'
  <2>1. PICK m \in Message : Fed(p, m)
    BY <1>3, FedOnce
  <2> QED
    BY <1>1, <2>1, FedProgress DEF Progress
<1>4. ASSUME NEW p \in Party, Post(p) PROVE Progress'
  <2>1. AllSent' /\ Keys' /\ AllHeard'
    BY <1>4, PostProgress
  <2>2. Awaiting'
    BY <1>4 DEF Post, task, Progress, Awaiting, Current, ScriptOf
  <2> QED
    BY <1>1, <2>1, <2>2 DEF Progress
<1>5. ASSUME NEW p \in Party, PostLost(p) PROVE Progress'
  <2>1. /\ UNCHANGED <<ceremony, task, seen, relay>> /\ drops' = drops + 1
        /\ seq' = [seq EXCEPT ![p] = @ + 1] /\ drops \in Nat /\ seq \in [Party -> Nat]
    BY <1>5 DEF PostLost, TypeOK
  <2>2. \A q \in Party : seq[q] \in Nat /\ seq'[q] \in Nat /\ seq[q] <= seq'[q]
    BY <2>1
  <2>3. \A q \in Party : Posted(q)' = Posted(q)
    BY <2>1 DEF Posted
  <2>4. AllSent'
    BY <2>1 DEF AllSent
  <2>5. Keys'
    <3>1. \A q \in Party : \A n \in Posted(q) :
             n.from \in Party /\ n.seq \in Nat /\ n.seq <= seq[n.from]
      BY ListTypes DEF Message, Progress, Keys
    <3>2. \A q \in Party : \A key \in seen[q] :
             key[1] \in Party /\ key[2] \in Nat /\ key[2] <= seq[key[1]]
      BY DEF Progress, Keys, TypeOK
    <3>3. \A q \in Party : \A n \in Posted(q) : n.seq <= seq'[n.from]
      BY <2>2, <3>1
    <3>4. \A q \in Party : \A key \in seen[q] : key[2] <= seq'[key[1]]
      BY <2>2, <3>2
    <3> QED
      BY <2>1, <2>3, <3>3, <3>4 DEF Progress, Keys, SeenKey
  <2>6. AllHeard' /\ Awaiting'
    BY <2>1, <2>3 DEF task, Progress, AllHeard, Awaiting, Current, ScriptOf, Senders, SeenKey
  <2> QED
    BY <1>1, <2>4, <2>5, <2>6 DEF Progress
<1>6. ASSUME NEW p \in Party, GetMessages(p) \/ Return(p) \/ RunFails(p) \/ Duplicate(p)
      PROVE  Progress'
  <2>1. UNCHANGED <<ceremony, task, outbox, seen, seq, drops>>
    BY <1>6 DEF GetMessages, Return, RunFails, Duplicate
  <2>2. \A q \in Party : Posted(q)' = Posted(q)
    <3>1. CASE GetMessages(p) \/ Return(p) \/ RunFails(p)
      BY <3>1 DEF GetMessages, Return, RunFails, Posted
    <3>2. CASE Duplicate(p)
      BY <3>2, DuplicateLists
    <3> QED
      BY <1>6, <3>1, <3>2
  <2> QED
    BY <1>1, <2>1, <2>2, IdleProgress DEF Progress
<1> QED
  BY <1>2, <1>3, <1>4, <1>5, <1>6 DEF Next, Step, PollEmpty, Done

\* When all is quiet, a party that still waits misses a message of a party that
\* waits for something earlier.
LEMMA Blocked ==
    ASSUME Shape, Delivery, Progress, drops = 0,
           \A q \in Party : pc[q] \in {"drain", "ok"} /\ Quiet(q),
           NEW p \in Party, pc[p] = "drain"
    PROVE  \E q \in Party : pc[q] = "drain" /\ Level(Current(q).recv) < Level(Current(p).recv)
<1> DEFINE k == Current(p).recv
           s == ScriptOf(p)
<1>1. /\ outcome[p] = "none" /\ count[p] < Current(p).need /\ count[p] \in Nat
      /\ Cardinality(Senders(p, k)) = count[p]
  BY DEF Delivery, Counted, Progress, Awaiting, Shape, TypeOK
<1>2. round[p] \in 1..Len(s) /\ Current(p) = s[round[p]]
  BY CurrentType DEF Shape, Current
<1>3. /\ Complete(ceremony, p, s)
      /\ \A q \in Party : Complete(ceremony, q, ScriptOf(q))
  BY ScriptGood DEF Shape
<1>4. Current(p).need # 0
  BY <1>1
<1>5. /\ Senders(p, k) \subseteq Others(p) /\ Cardinality(Others(p)) = N - 1
      /\ IsFiniteSet(Senders(p, k))
  BY SendersType, OthersCard
<1>6. PICK q \in Others(p) : q \notin Senders(p, k) /\ SendsInTime(ScriptOf(q), k)
  <2>1. \/ Current(p).need = N - 1 /\ k \in FromAll(ceremony)
        \/ Current(p).need = 1 /\ k \in FromOne(ceremony) /\ p # Coordinator
    BY <1>2, <1>3, <1>4 DEF Complete
  <2>2. CASE Current(p).need = N - 1 /\ k \in FromAll(ceremony)
    <3>1. Senders(p, k) # Others(p)
      BY <1>1, <1>5, <2>2, CeremonyAssumption
    <3>2. PICK q \in Others(p) : q \notin Senders(p, k)
      BY <1>5, <3>1
    <3>3. q \in Party
      BY DEF Others
    <3> QED
      BY <1>3, <2>2, <3>2, <3>3 DEF Complete
  <2>3. CASE Current(p).need = 1 /\ k \in FromOne(ceremony) /\ p # Coordinator
    <3>1. Cardinality(Senders(p, k)) = 0
      BY <1>1, <2>3
    <3>2. Senders(p, k) = {}
      BY <1>5, <3>1, FS_EmptySet
    <3>3. Coordinator \in Others(p) /\ Coordinator \in Party
      BY <2>3, PartyType DEF Others
    <3> QED
      BY <1>3, <2>3, <3>2, <3>3 DEF Complete
  <2> QED
    BY <2>1, <2>2, <2>3
<1>7. q \in Party /\ p \in Others(q)
  BY <1>6 DEF Others
<1>8. k \notin SentBy(q)
  <2> SUFFICES ASSUME k \in SentBy(q) PROVE FALSE
    OBVIOUS
  <2>1. Pending(q) = {}
    BY <1>7 DEF Quiet, Pending, Elements
  <2>2. PICK m \in Posted(p) : m.from = q /\ m.kind = k
    BY <1>7, <2>1 DEF Progress, AllSent
  <2>3. PICK i \in 1..Len(relay[p]) : m = relay[p][i]
    BY <2>2 DEF Posted, Elements
  <2>4. Unseen(p, Len(relay[p])) = {}
    BY DEF Quiet
  <2>5. SeenKey(m) \in seen[p]
    BY <2>3, <2>4 DEF Unseen
  <2> QED
    BY <1>1, <1>6, <2>2, <2>5 DEF Progress, AllHeard
<1>9. PICK j \in 1..Len(ScriptOf(q)) :
         k \in Sends(ScriptOf(q)[j]) /\ \A i \in 1..(j - 1) : Level(ScriptOf(q)[i].recv) < Level(k)
  BY <1>6 DEF SendsInTime
<1>10. round[q] \in 1..Len(ScriptOf(q)) /\ Current(q) = ScriptOf(q)[round[q]]
  BY <1>7, CurrentType DEF Shape, Current
<1>11. j \notin 1..round[q]
  BY <1>8, <1>9 DEF SentBy
<1>12. round[q] \in 1..(j - 1) /\ round[q] # Len(ScriptOf(q))
  BY <1>9, <1>10, <1>11
<1>13. pc[q] # "ok"
  BY <1>7, <1>12 DEF Progress, Returned, Delivery, Counted
<1> QED
  BY <1>7, <1>9, <1>10, <1>12, <1>13

\* The party that waits for the earliest kind misses nothing.
LEMMA ProgressNoStall == Shape /\ Delivery /\ Progress => NoStall
<1> SUFFICES ASSUME Shape, Delivery, Progress, drops = 0,
                    \A p \in Party : pc[p] \in {"drain", "feed", "ok"} /\ Quiet(p),
                    ~ \A p \in Party : pc[p] = "ok"
             PROVE  FALSE
  BY DEF NoStall
<1>1. ASSUME NEW p \in Party PROVE pc[p] \in {"drain", "ok"}
  <2> SUFFICES ASSUME pc[p] = "feed" PROVE FALSE
    OBVIOUS
  <2>1. PICK i \in 1..batch[p] : SeenKey(relay[p][i]) \notin seen[p]
    BY DEF Shape, FeedPending, Unseen
  <2>2. batch[p] \in Nat /\ Len(relay[p]) \in Nat /\ batch[p] <= Len(relay[p])
    BY LenProperties DEF Shape, TypeOK
  <2>3. i \in 1..Len(relay[p])
    BY <2>2
  <2> QED
    BY <2>1, <2>3 DEF Quiet, Unseen
<1> DEFINE D == {p \in Party : pc[p] = "drain"}
           S == {Level(Current(p).recv) : p \in D}
<1>2. S \in SUBSET Nat
  BY Levels
<1>3. S # {}
  BY <1>1
<1>4. First(S) \in S /\ \A l \in S : First(S) <= l
  <2> HIDE DEF S
  <2> QED
    BY <1>2, <1>3, FirstExists
<1> DEFINE f == First(S)
<1>5. f \in S /\ \A l \in S : f <= l
  BY <1>4
<1> HIDE DEF f
<1>6. PICK p \in Party : pc[p] = "drain" /\ f = Level(Current(p).recv)
  BY <1>5
<1>7. PICK q \in Party : pc[q] = "drain" /\ Level(Current(q).recv) < Level(Current(p).recv)
  BY <1>1, <1>6, Blocked
<1>8. Level(Current(q).recv) \in S
  BY <1>7
<1>9. Level(Current(p).recv) <= Level(Current(q).recv)
  BY <1>5, <1>6, <1>8
<1>10. Level(Current(p).recv) \in Nat /\ Level(Current(q).recv) \in Nat
  BY Levels
<1> QED
  BY <1>7, <1>9, <1>10

\* Whatever order the POSTs, polls and feeds of any number of parties take, and
\* whatever payloads faulty parties post: as long as the relay lost nothing and nobody
\* failed, a session in which nothing is left to send, fetch or feed is one in which
\* every RunSession has returned Ok.
THEOREM NoStallAlways == Spec => []NoStall
<1>1. Spec => [](Shape /\ Delivery /\ Progress)
  BY InitShape, NextShape, InitDelivery, NextDelivery, InitProgress, NextProgress, PTL DEF Spec
<1> QED
  BY <1>1, ProgressNoStall, PTL

-----------------------------------------------------------------------------
(***************************************************************************)
(* With two parties nothing fails: what a party gets from its one peer     *)
(* comes in the order in which it is awaited.                              *)
(***************************************************************************)
\* A list in the order of the levels, and one in which an entry of a sender that
\* comes too late is a duplicate of an earlier one.
Rising(s) ==
    \A i, j \in 1..Len(s) : i < j => Level(s[i].kind) <= Level(s[j].kind)
Overtaken(l, n, m) ==
    \A i \in 1..n : l[i].from = m.from /\ Level(m.kind) < Level(l[i].kind) =>
        \E x \in 1..(i - 1) : l[x] = m
InOrder(l) == \A j \in 1..Len(l) : Overtaken(l, j - 1, l[j])

\* Messages are posted and listed in the order in which the scripts send them,
\* except for duplicates, and none is listed before what is still to be posted.
Sequenced ==
    /\ \A q \in Party : Rising(outbox[q]) /\ InOrder(relay[q])
    /\ \A p \in Party : \A m \in Posted(p) : \A e \in Pending(m.from) :
         e.to = p => Level(m.kind) <= Level(e.kind)

\* What taking the head off a list in order leaves.
LEMMA TailRising ==
    ASSUME NEW S, NEW s \in Seq(S), s # <<>>, Rising(s)
    PROVE  /\ Rising(Tail(s))
           /\ \A e \in Elements(Tail(s)) : Level(Head(s).kind) <= Level(e.kind)
<1>1. /\ Len(s) \in Nat \ {0} /\ Len(Tail(s)) = Len(s) - 1 /\ Head(s) = s[1]
      /\ \A i \in 1..(Len(s) - 1) : Tail(s)[i] = s[i + 1]
  <2>1. Len(s) \in Nat /\ Len(s) # 0
    BY LenProperties, EmptySeq
  <2>2. /\ Len(Tail(s)) = Len(s) - 1 /\ Head(s) = s[1]
        /\ \A i \in 1..Len(Tail(s)) : Tail(s)[i] = s[i + 1]
    BY HeadTailProperties
  <2> QED
    BY <2>1, <2>2
<1> DEFINE n == Len(s)
           t == Tail(s)
           h == Head(s)
<1>2. n \in Nat \ {0} /\ 1 \in 1..n
  BY <1>1
<1>3. /\ \A i \in 1..(n - 1) : i + 1 \in 1..n /\ 1 < i + 1
      /\ \A i, j \in 1..(n - 1) : i < j => i + 1 < j + 1
  BY <1>2
<1>4. Len(t) = n - 1 /\ h = s[1] /\ Len(s) = n /\ \A i \in 1..(n - 1) : t[i] = s[i + 1]
  BY <1>1
<1> HIDE DEF n, t, h
<1>5. Rising(t)
  BY <1>3, <1>4 DEF Rising
<1>6. \A e \in Elements(t) : Level(h.kind) <= Level(e.kind)
  BY <1>2, <1>3, <1>4 DEF Rising, Elements
<1> QED
  BY <1>5, <1>6 DEF t, h

\* Two lists in order, one after the other.
LEMMA ConcatRising ==
    ASSUME NEW S, NEW s \in Seq(S), NEW t \in Seq(S), Rising(s), Rising(t),
           \A d \in Elements(s), e \in Elements(t) : Level(d.kind) <= Level(e.kind)
    PROVE  Rising(s \o t)
<1> DEFINE n == Len(s)
           k == Len(t)
           u == s \o t
<1>1. /\ Len(u) = n + k /\ n \in Nat /\ k \in Nat
      /\ \A i \in 1..(n + k) : u[i] = IF i <= n THEN s[i] ELSE t[i - n]
  BY ConcatProperties, LenProperties
<1> HIDE DEF n, k, u
<1>2. ASSUME NEW i \in 1..(n + k)
      PROVE  \/ i \in 1..n /\ u[i] = s[i]
             \/ i - n \in 1..k /\ u[i] = t[i - n] /\ i > n
  BY <1>1
<1>3. ASSUME NEW i \in 1..(n + k), NEW j \in 1..(n + k), i < j
      PROVE  Level(u[i].kind) <= Level(u[j].kind)
  <2>1. CASE j \in 1..n /\ u[j] = s[j]
    <3>1. i \in 1..n /\ u[i] = s[i]
      BY <1>1, <1>3, <2>1
    <3> QED
      BY <1>3, <2>1, <3>1 DEF Rising, n
  <2>2. CASE j - n \in 1..k /\ u[j] = t[j - n] /\ i \in 1..n /\ u[i] = s[i]
    <3>1. u[i] \in Elements(s) /\ u[j] \in Elements(t)
      BY <2>2 DEF Elements, n, k
    <3> QED
      BY <3>1
  <2>3. CASE j - n \in 1..k /\ u[j] = t[j - n] /\ i - n \in 1..k /\ u[i] = t[i - n]
    <3>1. i - n < j - n
      BY <1>1, <1>3
    <3> QED
      BY <2>3, <3>1 DEF Rising, k
  <2> QED
    BY <1>2, <2>1, <2>2, <2>3
<1> QED
  BY <1>1, <1>3 DEF Rising, u

\* A message at the end of a list that is in order.
LEMMA AppendInOrder ==
    ASSUME NEW S, NEW l \in Seq(S), NEW m \in S, InOrder(l), Overtaken(l, Len(l), m)
    PROVE  InOrder(Append(l, m))
<1> DEFINE n == Len(l)
           u == Append(l, m)
<1>1. n \in Nat /\ Len(u) = n + 1 /\ u[n + 1] = m /\ \A i \in 1..n : u[i] = l[i]
  BY AppendProperties, LenProperties
<1> HIDE DEF n, u
<1>2. ASSUME NEW j \in 0..n, NEW o, Overtaken(l, j, o) PROVE Overtaken(u, j, o)
  <2>1. \A i \in 1..j : i \in 1..n /\ \A x \in 1..(i - 1) : x \in 1..n
    BY <1>1
  <2> QED
    BY <1>1, <1>2, <2>1 DEF Overtaken
<1>3. ASSUME NEW j \in 1..(n + 1) PROVE Overtaken(u, j - 1, u[j])
  <2>1. CASE j \in 1..n
    <3>1. j - 1 \in 0..n
      BY <1>1
    <3>2. Overtaken(l, j - 1, l[j])
      BY <2>1 DEF InOrder, n
    <3> QED
      BY <1>1, <1>2, <2>1, <3>1, <3>2
  <2>2. CASE j = n + 1
    <3>1. n \in 0..n /\ j - 1 = n
      BY <1>1, <2>2
    <3>2. Overtaken(l, n, m)
      BY DEF n
    <3> QED
      BY <1>1, <1>2, <2>2, <3>1, <3>2
  <2> QED
    BY <1>1, <2>1, <2>2
<1> QED
  BY <1>1, <1>3 DEF InOrder, u

\* An entry of the list that is listed again is a duplicate, or not late.
LEMMA CopyInOrder ==
    ASSUME NEW S, NEW l \in Seq(S), InOrder(l), NEW a \in 1..Len(l)
    PROVE  InOrder(Append(l, l[a]))
<1> DEFINE n == Len(l)
<1>1. n \in Nat /\ l[a] \in S
  BY LenProperties, ElementOfSeq
<1>2. ASSUME NEW i \in 1..n, l[i].from = l[a].from, Level(l[a].kind) < Level(l[i].kind)
      PROVE  \E x \in 1..(i - 1) : l[x] = l[a]
  <2>1. CASE a < i
    <3>1. a \in 1..(i - 1)
      BY <2>1
    <3> QED
      BY <3>1
  <2>2. CASE i < a
    <3>1. i \in 1..(a - 1) /\ a \in 1..Len(l)
      BY <2>2
    <3> QED
      BY <1>2, <3>1 DEF InOrder, Overtaken
  <2>3. i # a
    <3>1. Level(l[a].kind) \in Nat
      BY Levels
    <3> QED
      BY <1>2, <3>1
  <2> QED
    BY <1>1, <2>1, <2>2, <2>3
<1>3. Overtaken(l, Len(l), l[a])
  BY <1>2 DEF Overtaken
<1> QED
  BY <1>1, <1>3, AppendInOrder

\* The quotient grows with the index.
LEMMA DivGrows ==
    ASSUME NEW M \in Nat \ {0}, NEW x \in Nat, NEW y \in Nat, x <= y
    PROVE  x \div M <= y \div M
<1> DEFINE a == x \div M
           b == y \div M
           c == x % M
           d == y % M
<1>1. /\ x = M * a + c /\ y = M * b + d /\ c \in 0..(M - 1) /\ d \in 0..(M - 1)
      /\ a \in Int /\ b \in Int
  OBVIOUS
<1> HIDE DEF a, b, c, d
<1>2. CASE a - b >= 1
  <2>1. M * (a - b) >= M
    BY <1>1, <1>2
  <2>2. M * (a - b) = M * a - M * b
    BY <1>1
  <2> QED
    BY <1>1, <2>1, <2>2
<1>3. CASE a <= b
  BY <1>3 DEF a, b
<1> QED
  BY <1>1, <1>2, <1>3

\* A broadcast of kinds in order is a list of POSTs in order.
LEMMA EnvelopesRising ==
    ASSUME NEW p \in Party, NEW ks \in Seq(Kind), NEW h, NEW b,
           \A i, j \in 1..Len(ks) : i < j => Level(ks[i]) < Level(ks[j])
    PROVE  Rising(Envelopes(p, ks, h, b))
<1> DEFINE M == N - 1
           L == Len(ks)
           n == L * M
           q(j) == ((j - 1) \div M) + 1
           r(j) == ((j - 1) % M) + 1
           env == Envelopes(p, ks, h, b)
<1>1. M \in Nat \ {0} /\ L \in Nat /\ n \in Nat
  BY CeremonyAssumption, LenProperties
<1>2. env = [j \in 1..n |-> [to |-> Recipient(p, r(j)), kind |-> ks[q(j)],
                             val |-> Payload(p, ks[q(j)], h, b)]]
  BY DEF Envelopes
<1>3. ASSUME NEW j \in 1..n PROVE q(j) \in 1..L
  <2>1. (j - 1) \div M \in 0..(L - 1)
    BY <1>1, DivRange
  <2> QED
    BY <1>1, <2>1
<1>4. ASSUME NEW i \in 1..n, NEW j \in 1..n, i < j PROVE q(i) <= q(j)
  <2>1. i - 1 \in Nat /\ j - 1 \in Nat /\ i - 1 <= j - 1
    BY <1>1, <1>4
  <2>2. (i - 1) \div M <= (j - 1) \div M
    BY <1>1, <2>1, DivGrows
  <2>3. (i - 1) \div M \in 0..(L - 1) /\ (j - 1) \div M \in 0..(L - 1)
    BY <1>1, DivRange
  <2> QED
    BY <1>1, <2>2, <2>3
<1> HIDE DEF q, r, n
<1>5. Len(env) = n /\ \A j \in 1..n : env[j].kind = ks[q(j)]
  BY <1>1, <1>2
<1> HIDE DEF env
<1>6. ASSUME NEW i \in 1..n, NEW j \in 1..n, i < j
      PROVE  Level(env[i].kind) <= Level(env[j].kind)
  <2>1. q(i) \in 1..L /\ q(j) \in 1..L /\ q(i) <= q(j)
    BY <1>3, <1>4, <1>6
  <2>2. Level(ks[q(i)]) \in Nat /\ Level(ks[q(j)]) \in Nat
    BY Levels
  <2>3. q(i) = q(j) \/ q(i) < q(j)
    BY <1>1, <2>1
  <2>4. Level(ks[q(i)]) <= Level(ks[q(j)])
    BY <2>1, <2>2, <2>3
  <2> QED
    BY <1>5, <2>4
<1> QED
  BY <1>5, <1>6 DEF Rising, env

\* What the next round sends comes after all that was sent before.
LEMMA SentBelow ==
    ASSUME TypeOK, NEW p \in Party, round[p] + 1 \in 1..Len(ScriptOf(p)),
           NEW k \in SentBy(p), NEW l \in Sends(ScriptOf(p)[round[p] + 1])
    PROVE  Level(k) < Level(l)
<1> DEFINE s == ScriptOf(p)
           r == round[p]
<1>1. PICK i \in 1..r : k \in Sends(s[i])
  BY DEF SentBy
<1>2. r \in Nat /\ Len(s) \in Nat
  BY CurrentType, LenProperties DEF TypeOK, WellFormed
<1>3. i \in 1..Len(s) /\ i < r + 1 /\ r + 1 \in 1..Len(s)
  BY <1>2
<1>4. Orderly(s)
  BY ScriptGood DEF GoodScript
<1> HIDE DEF s
<1>5. Precedes(s[i], s[r + 1])
  BY <1>3, <1>4 DEF Orderly
<1> QED
  BY <1>1, <1>5 DEF Precedes, s

\* What a task that is fed does to its outbox.
LEMMA FedBox ==
    ASSUME Shape, Delivery, NEW p \in Party, NEW m \in Message, Fed(p, m)
    PROVE  /\ relay' = relay /\ \A q \in Party : q # p => outbox'[q] = outbox[q]
           /\ \/ outbox'[p] = outbox[p]
              \/ \E env \in Seq(Envelope) :
                   /\ outbox'[p] = outbox[p] \o env /\ Rising(env)
                   /\ \A e \in Elements(env) : \A k \in SentBy(p) : Level(k) <= Level(e.kind)
<1>1. relay' = relay /\ Feed(p, m) /\ outbox \in [Party -> Seq(Envelope)]
  BY DEF Fed, Shape, TypeOK
<1>2. CASE Reject(p, m) \/ Collect(p, m) \/ FailCheck(p, m)
  BY <1>1, <1>2 DEF Reject, Collect, FailCheck
<1>3. CASE Advance(p, m)
  <2> DEFINE s == ScriptOf(p)
             ks == s[round[p] + 1].send
             h == Record(heard[p], m)
             b == IF m.kind = "meta" THEN m.val ELSE blob[p]
             env == Envelopes(p, ks, h, b)
  <2>1. outbox' = [outbox EXCEPT ![p] = @ \o env] /\ count[p] + 1 = Current(p).need
    BY <1>3 DEF Advance
  <2>2. count[p] \in Nat
    BY DEF Shape, TypeOK
  <2>3. Current(p).need # 0
    BY <2>1, <2>2
  <2>4. round[p] + 1 \in 1..Len(s) /\ s[round[p] + 1] \in RoundRecord
    BY <2>3, CurrentType DEF Shape
  <2>5. ks \in Seq(Kind) /\ Proper(s[round[p] + 1])
    BY <2>4, ScriptGood DEF RoundRecord, GoodScript, Orderly, Shape
  <2>6. b \in Val
    BY DEF Message, Shape, TypeOK
  <2>7. \A e \in Elements(env) : e.kind \in Sends(s[round[p] + 1])
    <3>1. \A e \in Elements(env) : e.kind \in {ks[i] : i \in 1..Len(ks)}
      <4>1. \A i, j \in 1..Len(ks) : i # j => ks[i] # ks[j]
        BY <2>5 DEF Proper
      <4> HIDE DEF ks, h, b
      <4> QED
        BY <2>5, <4>1, EnvelopesOnce
    <3> QED
      BY <3>1 DEF Sends
  <2>8. Rising(env)
    <3>1. \A i, j \in 1..Len(ks) : i < j => Level(ks[i]) < Level(ks[j])
      BY <2>5 DEF Proper
    <3> HIDE DEF ks, h, b
    <3> QED
      BY <2>5, <3>1, EnvelopesRising
  <2>9. env \in Seq(Envelope)
    <3> HIDE DEF ks, h, b
    <3> QED
      BY <2>5, <2>6, EnvelopesType
  <2>10. ASSUME NEW e \in Elements(env), NEW k \in SentBy(p)
         PROVE  Level(k) <= Level(e.kind)
    <3>1. e.kind \in Sends(s[round[p] + 1])
      BY <2>7
    <3>2. Level(k) < Level(e.kind)
      <4> HIDE DEF env
      <4> QED
        BY <2>4, <3>1, SentBelow DEF Shape
    <3>3. Level(k) \in Nat /\ Level(e.kind) \in Nat
      BY Levels
    <3> QED
      BY <3>2, <3>3
  <2> HIDE DEF env
  <2>11. outbox'[p] = outbox[p] \o env /\ \A q \in Party : q # p => outbox'[q] = outbox[q]
    BY <1>1, <2>1
  <2> QED
    BY <1>1, <2>8, <2>9, <2>10, <2>11
<1> QED
  BY <1>1, <1>2, <1>3 DEF Feed

\* Initially only the first round's messages are to be posted.
LEMMA InitSequenced == Init => Sequenced
<1> SUFFICES ASSUME Init PROVE Sequenced
  OBVIOUS
<1>1. TypeOK
  BY InitShape DEF Shape
<1>2. \A p \in Party : relay[p] = <<>> /\ Posted(p) = {}
  BY DEF Init, Posted, Elements
<1>3. ASSUME NEW q \in Party PROVE Rising(outbox[q])
  <2> DEFINE s == ScriptOf(q)
             ks == s[1].send
  <2>1. 1 \in 1..Len(s) /\ ks \in Seq(Kind)
    BY <1>1, CurrentType DEF Init, Current, RoundRecord
  <2>2. Proper(s[1])
    BY <1>1, <2>1, ScriptGood DEF GoodScript, Orderly
  <2>3. outbox[q] = Envelopes(q, ks, {}, OwnBlob(q))
    BY DEF Init
  <2>4. \A i, j \in 1..Len(ks) : i < j => Level(ks[i]) < Level(ks[j])
    BY <2>2 DEF Proper
  <2> HIDE DEF ks
  <2> QED
    BY <2>1, <2>3, <2>4, EnvelopesRising
<1>4. \A q \in Party : InOrder(relay[q])
  BY <1>2 DEF InOrder
<1> QED
  BY <1>2, <1>3, <1>4 DEF Sequenced

\* A POST takes the first message that is to be posted.
LEMMA PostSequenced ==
    ASSUME Shape, Delivery, Sequenced, NEW p \in Party, Post(p) \/ PostLost(p)
    PROVE  Sequenced'
<1> DEFINE e == Head(outbox[p])
           d == e.to
<1>1. outbox[p] # <<>> /\ outbox' = [outbox EXCEPT ![p] = Tail(@)]
  BY DEF Post, PostLost
<1>2. outbox[p] \in Seq(Envelope) /\ e \in Envelope
  BY <1>1, ListTypes, HeadTailProperties DEF Shape
<1>3. /\ outbox'[p] = Tail(outbox[p])
      /\ \A q \in Party : q # p => outbox'[q] = outbox[q]
  BY <1>1 DEF Shape, TypeOK
<1>4. /\ Rising(outbox'[p]) /\ e \in Pending(p) /\ Pending(p)' \subseteq Pending(p)
      /\ \A f \in Pending(p)' : Level(e.kind) <= Level(f.kind)
  BY <1>1, <1>2, <1>3, TailElements, TailRising DEF Pending, Sequenced
<1> HIDE DEF e
<1>5. \A q \in Party : Rising(outbox'[q]) /\ Pending(q)' \subseteq Pending(q)
  BY <1>3, <1>4 DEF Pending, Sequenced
<1>6. \A q \in Party : \A m \in Posted(q) : m.from \in Party
  BY ListTypes DEF Shape, Message
<1>7. CASE PostLost(p)
  <2>1. relay' = relay /\ \A q \in Party : Posted(q)' = Posted(q)
    BY <1>7 DEF PostLost, Posted
  <2> QED
    BY <1>5, <1>6, <2>1 DEF Sequenced
<1>8. CASE Post(p)
  <2>1. PICK v \in Sendable(p, e) :
           relay' = [relay EXCEPT ![d] =
                       Append(@, [from |-> p, seq |-> seq[p] + 1, kind |-> e.kind, val |-> v])]
    BY <1>8 DEF Post, e
  <2> DEFINE m == [from |-> p, seq |-> seq[p] + 1, kind |-> e.kind, val |-> v]
  <2>2. v \in Val
    BY <1>2, <2>1 DEF Sendable, Envelope, Val
  <2>3. m \in Message /\ m.from = p /\ m.kind = e.kind
    BY <1>2, <2>2 DEF Message, Envelope, Shape, TypeOK
  <2>4. d \in Party
    BY <1>2 DEF Envelope
  <2>5. relay'[d] = Append(relay[d], m) /\ \A q \in Party : q # d => relay'[q] = relay[q]
    BY <2>1, <2>4 DEF Shape, TypeOK, m
  <2> HIDE DEF m
  <2>6. relay[d] \in Seq(Message) /\ Len(relay[d]) \in Nat
    BY <2>4, ListTypes, LenProperties DEF Shape
  <2>7. \A n \in Posted(d) : n.from = p => Level(n.kind) <= Level(m.kind)
    BY <1>4, <2>3, <2>4 DEF Sequenced
  <2>8. Overtaken(relay[d], Len(relay[d]), m)
    <3> SUFFICES ASSUME NEW i \in 1..Len(relay[d]), relay[d][i].from = m.from,
                        Level(m.kind) < Level(relay[d][i].kind)
                 PROVE  FALSE
      BY DEF Overtaken
    <3>1. relay[d][i] \in Posted(d)
      BY DEF Posted, Elements
    <3>2. Level(m.kind) \in Nat /\ Level(relay[d][i].kind) \in Nat
      BY Levels
    <3>3. Level(relay[d][i].kind) <= Level(m.kind)
      BY <2>3, <2>7, <3>1
    <3> QED
      BY <3>2, <3>3
  <2>9. InOrder(relay'[d])
    <3>1. InOrder(relay[d])
      BY <2>4 DEF Sequenced
    <3> QED
      BY <2>3, <2>5, <2>6, <2>8, <3>1, AppendInOrder
  <2>10. \A q \in Party : InOrder(relay'[q])
    BY <2>5, <2>9 DEF Sequenced
  <2>11. ASSUME NEW q \in Party
         PROVE  Posted(q)' = IF q = d THEN Posted(q) \cup {m} ELSE Posted(q)
    <3>1. Elements(Append(relay[d], m)) = Elements(relay[d]) \cup {m}
      BY <2>3, <2>6, AppendElements
    <3> QED
      BY <2>5, <3>1 DEF Posted
  <2>12. ASSUME NEW q \in Party, NEW n \in Posted(q)', NEW f \in Pending(n.from)', f.to = q
         PROVE  Level(n.kind) <= Level(f.kind)
    <3>1. CASE n \in Posted(q)
      BY <1>5, <1>6, <2>12, <3>1 DEF Sequenced
    <3>2. CASE n = m
      BY <1>4, <2>3, <2>12, <3>2
    <3> QED
      BY <2>11, <2>12, <3>1, <3>2
  <2> QED
    BY <1>5, <2>10, <2>12 DEF Sequenced
<1> QED
  BY <1>7, <1>8

\* What a task sends next comes after all it has sent.
LEMMA FedSequenced ==
    ASSUME Shape, Delivery, Sequenced, NEW p \in Party, NEW m \in Message, Fed(p, m)
    PROVE  Sequenced'
<1>1. /\ relay' = relay /\ \A q \in Party : q # p => outbox'[q] = outbox[q]
      /\ \/ outbox'[p] = outbox[p]
         \/ \E env \in Seq(Envelope) :
              /\ outbox'[p] = outbox[p] \o env /\ Rising(env)
              /\ \A e \in Elements(env) : \A k \in SentBy(p) : Level(k) <= Level(e.kind)
  BY FedBox
<1>2. \A q \in Party : Posted(q)' = Posted(q) /\ \A n \in Posted(q) : n.from \in Party
  BY <1>1, ListTypes DEF Posted, Shape, Message
<1>3. CASE outbox'[p] = outbox[p]
  <2>1. \A q \in Party : outbox'[q] = outbox[q] /\ Pending(q)' = Pending(q)
    BY <1>1, <1>3 DEF Pending
  <2> QED
    BY <1>1, <1>2, <2>1 DEF Sequenced
<1>4. ASSUME NEW env \in Seq(Envelope), outbox'[p] = outbox[p] \o env, Rising(env),
             \A e \in Elements(env) : \A k \in SentBy(p) : Level(k) <= Level(e.kind)
      PROVE  Sequenced'
  <2>1. outbox[p] \in Seq(Envelope) /\ \A e \in Pending(p) : e.kind \in SentBy(p)
    BY ListTypes DEF Shape, Delivery, OutboxOnce
  <2>2. Rising(outbox'[p])
    <3>1. \A x \in Elements(outbox[p]), e \in Elements(env) : Level(x.kind) <= Level(e.kind)
      BY <1>4, <2>1 DEF Pending
    <3> QED
      BY <1>4, <2>1, <3>1, ConcatRising DEF Sequenced
  <2>3. Pending(p)' = Pending(p) \cup Elements(env)
    BY <1>4, <2>1, ConcatElements DEF Pending
  <2>4. \A q \in Party : q # p => Pending(q)' = Pending(q)
    BY <1>1 DEF Pending
  <2>5. ASSUME NEW q \in Party, NEW n \in Posted(q), NEW f \in Pending(n.from)', f.to = q
        PROVE  Level(n.kind) <= Level(f.kind)
    <3>1. CASE f \in Pending(n.from)
      BY <2>5, <3>1 DEF Sequenced
    <3>2. CASE n.from = p /\ f \in Elements(env)
      BY <1>4, <3>2 DEF Delivery, RelayOnce
    <3> QED
      BY <1>2, <2>3, <2>4, <2>5, <3>1, <3>2
  <2> QED
    BY <1>1, <1>2, <2>2, <2>5 DEF Sequenced
<1> QED
  BY <1>1, <1>3, <1>4

\* Every step keeps the order.
LEMMA NextSequenced == Shape /\ Delivery /\ Sequenced /\ [Next]_vars => Sequenced'
<1> SUFFICES ASSUME Shape, Delivery, Sequenced, [Next]_vars PROVE Sequenced'
  OBVIOUS
<1>1. CASE UNCHANGED <<outbox, relay>>
  BY <1>1 DEF Sequenced, Posted, Pending
<1>2. ASSUME NEW p \in Party, FeedNext(p) PROVE Sequenced'
  BY <1>2, FedOnce, FedSequenced
<1>3. ASSUME NEW p \in Party, Post(p) \/ PostLost(p) PROVE Sequenced'
  BY <1>3, PostSequenced
<1>4. ASSUME NEW p \in Party, Duplicate(p) PROVE Sequenced'
  <2>1. PICK i \in DOMAIN relay[p] : relay' = [relay EXCEPT ![p] = Append(@, @[i])]
    BY <1>4 DEF Duplicate
  <2>2. relay[p] \in Seq(Message) /\ i \in 1..Len(relay[p])
    BY <2>1, ListTypes, LenProperties DEF Shape
  <2>3. InOrder(Append(relay[p], relay[p][i]))
    BY <2>2, CopyInOrder DEF Sequenced
  <2>4. \A q \in Party : InOrder(relay'[q])
    BY <2>1, <2>3 DEF Sequenced, Shape, TypeOK
  <2>5. outbox' = outbox /\ \A q \in Party : Posted(q)' = Posted(q)
    BY <1>4, DuplicateLists DEF Duplicate, Shape
  <2> QED
    BY <2>4, <2>5 DEF Sequenced, Pending
<1>5. ASSUME NEW p \in Party, GetMessages(p) \/ Return(p) \/ RunFails(p)
      PROVE  UNCHANGED <<outbox, relay>>
  BY <1>5 DEF GetMessages, Return, RunFails
<1>6. UNCHANGED vars => UNCHANGED <<outbox, relay>>
  BY DEF vars
<1> QED
  BY <1>1, <1>2, <1>3, <1>4, <1>5, <1>6 DEF Next, Step, PollEmpty, Done

\* The blob and the verifying key that are on their way are the right ones, and a
\* party has the blob once it is past the round that awaits it.
Truthful ==
    /\ \A q \in Party : \A e \in Pending(q) :
         (e.kind = "meta" => e.val = "blob") /\ (e.kind = "vk" => e.val = "right")
    /\ \A p \in Party : \A m \in Posted(p) :
         (m.kind = "meta" => m.val = "blob") /\ (m.kind = "vk" => m.val = "right")
    /\ ceremony \in Metadata => \A p \in Party :
         p = Coordinator \/ (\E i \in 1..(round[p] - 1) : ScriptOf(p)[i].recv = "meta")
         => blob[p] = "blob"

\* Nobody follows another protocol, and every setup is right.
Harmless == Faulty = {} /\ Misconfigured = {}

\* Only the coordinator sends a blob, where there is metadata.
LEMMA BlobSender ==
    ASSUME Harmless, NEW c \in CeremonyName, NEW q \in Party,
           NEW i \in 1..Len(Scripts[c][q]), "meta" \in Sends(Scripts[c][q][i])
    PROVE  q = Coordinator /\ c \in Metadata
<1>1. Expected(c, q, Scripts[c][q])
  BY ScriptsGood DEF Complete, Harmless
<1>2. "meta" \in FromAll(c) \/ (q = Coordinator /\ "meta" \in FromOne(c))
  BY <1>1 DEF Expected
<1>3. "meta" \notin FromAll(c)
  BY DEF FromAll, CeremonyName
<1>4. "meta" \in FromOne(c) => c \in Metadata
  BY DEF FromOne, CeremonyName, Metadata
<1> QED
  BY <1>2, <1>3, <1>4

\* Every term is right.
LEMMA TermsRight ==
    ASSUME Harmless
    PROVE  /\ \A c, q : Term(c, q) = "term"
           /\ Shape /\ NoForgery /\ Terms => \A p \in Party : KeyIsRight(p, heard[p])
<1>1. \A c, q : Term(c, q) = "term"
  BY DEF Term, Harmless
<1>2. ASSUME Shape, NoForgery, Terms, NEW p \in Party PROVE KeyIsRight(p, heard[p])
  <2>1. ASSUME NEW x \in heard[p], x.kind = "r1" PROVE x.val = "term"
    <3>1. x.val \in {Term(ceremony, x.from), "invalid"}
      BY <1>2, <2>1 DEF Terms
    <3>2. x \in HonestHeard
      BY <1>2 DEF NoForgery
    <3>3. x.val # "invalid"
      BY <3>2 DEF HonestHeard, Altered, Harmless
    <3> QED
      BY <1>1, <3>1, <3>3
  <2> QED
    BY <1>1, <2>1 DEF KeyIsRight
<1> QED
  BY <1>1, <1>2

\* Initially the coordinator has the blob where there is one.
LEMMA InitTruthful == Harmless /\ Init => Truthful
<1> SUFFICES ASSUME Harmless, Init PROVE Truthful
  OBVIOUS
<1>1. Shape /\ Delivery /\ TypeOK
  BY InitShape, InitDelivery DEF Shape
<1>2. \A p \in Party : Posted(p) = {} /\ round[p] = 1 /\ blob[p] = OwnBlob(p)
  BY DEF Init, Posted, Elements
<1>3. ceremony \in Metadata => OwnBlob(Coordinator) = "blob"
  BY DEF OwnBlob, Metadata, SeedHolder
<1>4. ASSUME NEW q \in Party, NEW e \in Pending(q)
      PROVE  (e.kind = "meta" => e.val = "blob") /\ (e.kind = "vk" => e.val = "right")
  <2>1. e.val = Payload(q, e.kind, {}, blob[q]) /\ e.kind \in SentBy(q)
    BY <1>1, InitPayload DEF Delivery, OutboxOnce
  <2>2. ASSUME e.kind = "meta" PROVE e.val = "blob"
    <3>1. PICK i \in 1..round[q] : "meta" \in Sends(ScriptOf(q)[i])
      BY <2>1, <2>2 DEF SentBy
    <3>2. ceremony \in CeremonyName /\ i \in 1..Len(ScriptOf(q))
      BY <1>1, <1>2, CurrentType, ScriptGood
    <3>3. q = Coordinator /\ ceremony \in Metadata
      BY <3>1, <3>2, BlobSender DEF ScriptOf
    <3> QED
      BY <1>2, <1>3, <2>1, <2>2, <3>3 DEF Payload
  <2>3. ASSUME e.kind = "vk" PROVE e.val = "right"
    <3>1. KeyIsRight(q, {})
      BY TermsRight DEF KeyIsRight
    <3> QED
      BY <2>1, <2>3, <3>1 DEF Payload
  <2> QED
    BY <2>2, <2>3
<1>5. \A p \in Party : 1..(round[p] - 1) = {}
  BY <1>2
<1> QED
  BY <1>2, <1>3, <1>4, <1>5 DEF Truthful

\* A task changes its blob only for one it was sent, and is past the round that
\* awaits a blob only with it.
LEMMA FedBlob ==
    ASSUME Shape, NEW p \in Party, NEW m \in Message, Fed(p, m)
    PROVE  \/ blob'[p] = m.val /\ m.kind = "meta"
           \/ blob'[p] = blob[p] /\ round'[p] = round[p]
           \/ blob'[p] = blob[p] /\ round'[p] = round[p] + 1 /\ Current(p).recv # "meta"
<1>1. Feed(p, m) /\ round \in [Party -> Nat \ {0}] /\ blob \in [Party -> Val]
  BY DEF Fed, Shape, TypeOK
<1>2. CASE Reject(p, m) \/ Collect(p, m) \/ FailCheck(p, m)
  BY <1>2 DEF Reject, Collect, FailCheck
<1>3. CASE Advance(p, m)
  <2>1. /\ Acceptable(p, m) /\ round' = [round EXCEPT ![p] = @ + 1]
        /\ blob' = [blob EXCEPT ![p] = IF m.kind = "meta" THEN m.val ELSE blob[p]]
    BY <1>3 DEF Advance
  <2>2. m.kind = Current(p).recv
    BY <2>1 DEF Acceptable
  <2> QED
    BY <1>1, <2>1, <2>2
<1> QED
  BY <1>1, <1>2, <1>3 DEF Feed

\* Every step keeps it.
LEMMA NextTruthful ==
    Harmless /\ Shape /\ Delivery /\ NoForgery /\ Terms /\ Truthful /\ [Next]_vars => Truthful'
<1> SUFFICES ASSUME Harmless, Shape, Delivery, NoForgery, Terms, Truthful, [Next]_vars
             PROVE  Truthful'
  OBVIOUS
<1> DEFINE Right(x) == (x.kind = "meta" => x.val = "blob") /\ (x.kind = "vk" => x.val = "right")
<1>1. CASE Moved
  <2>1. /\ ceremony' = ceremony /\ blob' = blob /\ round' = round
        /\ \A q \in Party : Pending(q)' \subseteq Pending(q)
    BY <1>1 DEF Moved, task
  <2>2. ASSUME NEW p \in Party, NEW m \in Posted(p)' PROVE Right(m)
    <3>1. CASE m \in Posted(p)
      BY <3>1 DEF Truthful
    <3>2. ASSUME NEW e \in Pending(m.from), m.kind = e.kind, m.val \in Sendable(m.from, e)
          PROVE  Right(m)
      <4>1. m.from \in Party
        BY NextSenders
      <4>2. m.val = e.val
        BY <3>2 DEF Sendable, Harmless
      <4> QED
        BY <3>2, <4>1, <4>2 DEF Truthful
    <3> QED
      BY <1>1, <2>2, <3>1, <3>2 DEF Moved
  <2>3. \A p \in Party : ScriptOf(p)' = ScriptOf(p)
    BY <2>1 DEF ScriptOf
  <2> QED
    BY <2>1, <2>2, <2>3 DEF Truthful
<1>2. ASSUME NEW p \in Party, NEW m \in Message, Fed(p, m) PROVE Truthful'
  <2>1. /\ ceremony' = ceremony
        /\ \A q \in Party : Posted(q)' = Posted(q) /\ ScriptOf(q)' = ScriptOf(q)
        /\ \A q \in Party \ {p} : Pending(q)' = Pending(q) /\ blob'[q] = blob[q]
                                  /\ round'[q] = round[q]
        /\ \A e \in Pending(p)' :
             e \in Pending(p) \/ e.val = Payload(p, e.kind, heard'[p], blob'[p])
    BY <1>2, FedEffect DEF ScriptOf
  <2>2. Shape' /\ Delivery' /\ NoForgery' /\ Terms'
    BY NextShape, NextDelivery, NextNoForgery, NextTerms
  <2>3. \/ blob'[p] = m.val /\ m.kind = "meta"
        \/ blob'[p] = blob[p] /\ round'[p] = round[p]
        \/ blob'[p] = blob[p] /\ round'[p] = round[p] + 1 /\ Current(p).recv # "meta"
    BY <1>2, FedBlob
  <2>4. m.kind = "meta" => m.val = "blob"
    BY <1>2 DEF Fed, Truthful
  <2>5. ceremony \in Metadata /\ p = Coordinator => blob'[p] = "blob"
    BY <2>3, <2>4 DEF Truthful
  <2>6. ASSUME ceremony \in Metadata,
               NEW i \in 1..(round'[p] - 1), ScriptOf(p)[i].recv = "meta"
        PROVE  blob'[p] = "blob"
    <3>1. CASE blob'[p] = m.val /\ m.kind = "meta"
      BY <2>4, <3>1
    <3>2. CASE blob'[p] = blob[p] /\ round'[p] = round[p]
      BY <2>6, <3>2 DEF Truthful
    <3>3. CASE blob'[p] = blob[p] /\ round'[p] = round[p] + 1 /\ Current(p).recv # "meta"
      <4>1. i # round[p]
        BY <2>6, <3>3 DEF Current
      <4>2. i \in 1..(round[p] - 1)
        BY <2>6, <3>3, <4>1 DEF Shape, TypeOK
      <4> QED
        BY <2>6, <3>3, <4>2 DEF Truthful
    <3> QED
      BY <2>3, <3>1, <3>2, <3>3
  <2>7. KeyIsRight(p, heard'[p])
    <3>1. \A x \in heard'[p] : x.kind = "r1" => x.val \in {"term", "invalid"}
      BY <2>2, TermsRight DEF Terms
    <3>2. heard'[p] \subseteq HonestHeard
      BY <2>2 DEF NoForgery
    <3>3. \A x \in HonestHeard : x.val # "invalid"
      BY DEF HonestHeard, Altered, Harmless
    <3> QED
      BY <3>1, <3>2, <3>3, TermsRight DEF KeyIsRight
  <2>8. ASSUME NEW e \in Pending(p)' PROVE Right(e)
    <3>1. CASE e \in Pending(p)
      BY <3>1 DEF Truthful
    <3>2. CASE e.val = Payload(p, e.kind, heard'[p], blob'[p])
      <4>1. ASSUME e.kind = "meta" PROVE e.val = "blob"
        <5>1. "meta" \in SentBy(p)'
          BY <2>2, <2>8, <4>1 DEF Delivery, OutboxOnce
        <5>2. PICK i \in 1..round'[p] : "meta" \in Sends(ScriptOf(p)[i])
          BY <2>1, <5>1 DEF SentBy, Sends
        <5>3. i \in 1..Len(ScriptOf(p)) /\ ceremony \in CeremonyName
          <6>1. round'[p] \in Nat /\ round'[p] <= Len(ScriptOf(p))
            BY <2>1, <2>2 DEF Shape, TypeOK
          <6>2. Len(ScriptOf(p)) \in Nat /\ ceremony \in CeremonyName
            BY CurrentType, ScriptGood, LenProperties DEF Shape, WellFormed
          <6> QED
            BY <6>1, <6>2
        <5>4. p = Coordinator /\ ceremony \in Metadata
          BY <5>2, <5>3, BlobSender DEF ScriptOf
        <5> QED
          BY <2>1, <2>5, <3>2, <4>1, <5>4 DEF Payload
      <4>2. ASSUME e.kind = "vk" PROVE e.val = "right"
        BY <2>7, <3>2, <4>2 DEF Payload
      <4> QED
        BY <4>1, <4>2
    <3> QED
      BY <2>1, <2>8, <3>1, <3>2
  <2>9. \A q \in Party : \A e \in Pending(q)' : Right(e)
    BY <2>1, <2>8 DEF Truthful
  <2>10. \A q \in Party : \A n \in Posted(q)' : Right(n)
    BY <2>1 DEF Truthful
  <2>11. ASSUME ceremony \in Metadata, NEW q \in Party,
                q = Coordinator \/ \E i \in 1..(round'[q] - 1) : ScriptOf(q)[i].recv = "meta"
         PROVE  blob'[q] = "blob"
    BY <2>1, <2>5, <2>6, <2>11 DEF Truthful
  <2> QED
    BY <2>1, <2>9, <2>10, <2>11 DEF Truthful
<1> QED
  BY <1>1, <1>2, Steps

\* The kinds of a ceremony have different levels.
LEMMA LevelInjective ==
    ASSUME NEW c \in CeremonyName, NEW k \in FromAll(c) \cup FromOne(c),
           NEW l \in FromAll(c) \cup FromOne(c), Level(k) = Level(l)
    PROVE  k = l
<1>1. \/ k \in {"r1", "r2", "meta", "hash", "vk"} /\ l \in {"r1", "r2", "meta", "hash", "vk"}
      \/ k \in {"commit", "package", "share"} /\ l \in {"commit", "package", "share"}
      \/ k = "partials" /\ l = "partials"
  BY DEF FromAll, FromOne, CeremonyName
<1> QED
  BY <1>1, Levels

\* The message a runner feeds next is the first it has not seen.
LEMMA FirstFed ==
    ASSUME Shape, Delivery, NEW p \in Party, FeedNext(p)
    PROVE  \E i \in 1..Len(relay[p]) :
             /\ Fed(p, relay[p][i]) /\ relay[p][i] \in Message
             /\ \A j \in 1..(i - 1) : SeenKey(relay[p][j]) \in seen[p]
<1> DEFINE new == Unseen(p, batch[p])
           i == First(new)
           m == relay[p][i]
<1>1. pc[p] = "feed"
  BY DEF FeedNext
<1>2. i \in new /\ i \in 1..Len(relay[p]) /\ m \in Message
  BY <1>1, FedMessage
<1>3. m \in Posted(p) /\ SeenKey(m) \notin seen[p]
  BY <1>2 DEF Posted, Elements, Unseen
<1>4. outcome[p] = "none"
  BY <1>1 DEF Delivery, Counted
<1>5. /\ seen' = [seen EXCEPT ![p] = @ \cup {SeenKey(m)}] /\ Feed(p, m)
      /\ UNCHANGED <<ceremony, seq, relay, dups, drops>>
  BY DEF FeedNext
<1>6. /\ \A q \in Party : q # p => pc'[q] = pc[q]
      /\ outcome'[p] # "none" => pc'[p] = "final"
  BY DEF FeedNext, Shape, TypeOK
<1>7. Fed(p, m)
  BY <1>1, <1>2, <1>3, <1>4, <1>5, <1>6 DEF Fed
<1>8. ASSUME NEW j \in 1..(i - 1) PROVE SeenKey(relay[p][j]) \in seen[p]
  <2>1. new \subseteq 1..batch[p] /\ new \in SUBSET Nat /\ batch[p] \in Nat
    BY DEF Unseen, Shape, TypeOK
  <2>2. \A l \in new : i <= l
    BY <1>2, <2>1, FirstExists
  <2> HIDE DEF i
  <2>3. j \in 1..batch[p] /\ ~(i <= j)
    BY <1>2, <2>1
  <2>4. j \notin new
    BY <2>2, <2>3
  <2> QED
    BY <2>3, <2>4 DEF Unseen
<1> QED
  BY <1>2, <1>7, <1>8

\* Where the one peer of p and p itself stand when p waits for kind k of q.
Facing(p, q, k) ==
    /\ q \in Party /\ q # p /\ k = Current(p).recv
    /\ Others(p) = {q} /\ (p = Coordinator \/ q = Coordinator)
    /\ Senders(p, k) = {}
    /\ k \in FromAll(ceremony) \/ (q = Coordinator /\ k \in FromOne(ceremony))
    /\ \A i \in 1..Len(ScriptOf(p)) : ScriptOf(p)[i].need # 0 => ScriptOf(p)[i].need = N - 1
    /\ Current(p).need # 0

\* With two parties, the other one is the peer.
LEMMA FacingPeer ==
    ASSUME Harmless, N = 2, Shape, Delivery, Progress, NEW p \in Party, outcome[p] = "none",
           NEW q \in Party, q # p
    PROVE  Facing(p, q, Current(p).recv)
<1> DEFINE s == ScriptOf(p)
           k == Current(p).recv
<1>1. Party = {1, 2} /\ N - 1 = 1
  BY DEF Party
<1>2. Others(p) = {q} /\ (p = Coordinator \/ q = Coordinator)
  BY <1>1 DEF Others, Coordinator
<1>3. /\ round[p] \in 1..Len(s) /\ Len(s) \in Nat /\ Current(p) = s[round[p]]
      /\ s \in Seq(RoundRecord)
  BY CurrentType, LenProperties DEF Shape, WellFormed, Current
<1>4. count[p] \in Nat /\ count[p] < Current(p).need
  BY <1>1 DEF Shape, TypeOK, Progress, Awaiting
<1>5. \A i \in 1..Len(s) : s[i].need # 0 => s[i].need = N - 1
  <2>1. \A i \in 1..Len(s) : s[i] \in RoundRecord
    BY <1>3, ElementOfSeq
  <2> QED
    BY <1>1, <2>1 DEF RoundRecord
<1>6. Current(p).need # 0 /\ Current(p).need = 1 /\ count[p] = 0
  BY <1>1, <1>3, <1>4, <1>5
<1>7. Senders(p, k) = {}
  <2>1. Cardinality(Senders(p, k)) = 0
    BY <1>6 DEF Delivery, Counted
  <2> QED
    BY <2>1, SendersType, FS_EmptySet
<1>8. k \in FromAll(ceremony) \/ (q = Coordinator /\ k \in FromOne(ceremony))
  <2>1. Complete(ceremony, p, s)
    BY ScriptGood DEF Shape
  <2> QED
    BY <1>2, <1>3, <1>6, <2>1 DEF Complete
<1> QED
  BY <1>2, <1>5, <1>6, <1>7, <1>8 DEF Facing

\* The kinds q sends are awaited by p.
LEMMA SentExpected ==
    ASSUME Harmless, Shape, NEW q \in Party, NEW l \in SentBy(q)
    PROVE  \E j \in 1..round[q] :
             /\ j \in 1..Len(ScriptOf(q)) /\ l \in Sends(ScriptOf(q)[j])
             /\ l \in FromAll(ceremony) \/ (q = Coordinator /\ l \in FromOne(ceremony))
<1>1. PICK j \in 1..round[q] : l \in Sends(ScriptOf(q)[j])
  BY DEF SentBy
<1>2. j \in 1..Len(ScriptOf(q))
  BY CurrentType, LenProperties DEF Shape, WellFormed
<1>3. Expected(ceremony, q, ScriptOf(q))
  BY ScriptGood DEF Complete, Harmless, Shape
<1> QED
  BY <1>1, <1>2, <1>3 DEF Expected

\* What p awaited before it has heard.
LEMMA NotEarlier ==
    ASSUME Harmless, Shape, Delivery, NEW p \in Party, NEW q \in Party, NEW k, Facing(p, q, k),
           NEW m \in Posted(p), m.from = q, SeenKey(m) \notin seen[p]
    PROVE  ~(Level(m.kind) < Level(k))
<1> DEFINE s == ScriptOf(p)
           r == round[p]
           l == m.kind
<1> SUFFICES ASSUME Level(l) < Level(k) PROVE FALSE
  OBVIOUS
<1>1. l \in SentBy(q)
  BY DEF Delivery, RelayOnce
<1>2. l \in FromAll(ceremony) \/ (q = Coordinator /\ l \in FromOne(ceremony))
  BY <1>1, SentExpected
<1>3. Expected(ceremony, p, s) /\ Orderly(s)
  BY ScriptGood DEF Complete, Harmless, Shape, GoodScript
<1>4. Awaits(s, l)
  BY <1>2, <1>3 DEF Expected, Facing
<1>5. PICK a \in 1..Len(s) : s[a].recv = l /\ s[a].need # 0
  BY <1>4 DEF Awaits
<1>6. /\ r \in 1..Len(s) /\ Len(s) \in Nat /\ k = s[r].recv /\ s[r].need # 0
      /\ s[a].need = N - 1
  BY <1>5, CurrentType, LenProperties DEF Shape, WellFormed, Current, Facing
<1>7. Level(l) \in Nat /\ Level(k) \in Nat
  BY Levels
<1>8. a \in 1..(r - 1)
  <2>1. CASE a = r
    BY <1>5, <1>6, <1>7, <2>1
  <2>2. CASE r < a
    <3>1. Precedes(s[r], s[a])
      BY <1>3, <1>6, <2>2 DEF Orderly
    <3>2. Level(k) < Level(l)
      BY <1>5, <1>6, <3>1 DEF Precedes
    <3> QED
      BY <1>7, <3>2
  <2> QED
    BY <1>6, <2>1, <2>2
<1>9. Senders(p, l) = Others(p)
  BY <1>5, <1>6, <1>8 DEF Delivery, EveryPeerHeard
<1>10. q \in Senders(p, l)
  BY <1>9 DEF Facing
<1>11. PICK x \in heard[p] : x.kind = l /\ x.from = q
  BY <1>10 DEF Senders
<1>12. PICK n \in Posted(p) : SeenKey(n) \in seen[p] /\ n.from = q /\ n.kind = l
  BY <1>11 DEF Delivery, HeardOnce
<1>13. n = m
  BY <1>12 DEF Delivery, RelayOnce
<1> QED
  BY <1>12, <1>13

\* What p awaits comes before anything later.
LEMMA NotLater ==
    ASSUME Harmless, Shape, Delivery, Progress, Sequenced, drops = 0,
           NEW p \in Party, NEW q \in Party, NEW k, Facing(p, q, k), outcome[p] = "none",
           NEW i \in 1..Len(relay[p]), relay[p][i].from = q,
           \A j \in 1..(i - 1) : SeenKey(relay[p][j]) \in seen[p]
    PROVE  ~(Level(k) < Level(relay[p][i].kind))
<1> DEFINE m == relay[p][i]
           l == m.kind
           s == ScriptOf(q)
<1> SUFFICES ASSUME Level(k) < Level(l) PROVE FALSE
  OBVIOUS
<1>1. m \in Posted(p) /\ l \in SentBy(q)
  BY DEF Posted, Elements, Delivery, RelayOnce
<1>2. PICK b \in 1..round[q] : b \in 1..Len(s) /\ l \in Sends(s[b])
  BY <1>1, SentExpected
<1>3. Orderly(s) /\ Complete(ceremony, q, s)
  BY ScriptGood DEF Shape, GoodScript
<1>4. PICK a \in 1..Len(s) : k \in Sends(s[a])
  BY <1>3 DEF Complete, SendsInTime, Facing
<1>5. Level(l) \in Nat /\ Level(k) \in Nat
  BY Levels
<1>6. k \in SentBy(q)
  <2>1. round[q] \in Nat /\ Len(s) \in Nat
    BY CurrentType, LenProperties DEF Shape, WellFormed, TypeOK
  <2>2. CASE b < a
    <3>1. Precedes(s[b], s[a])
      BY <1>2, <1>3, <2>2 DEF Orderly
    <3>2. Level(l) < Level(k)
      BY <1>2, <1>4, <3>1 DEF Precedes
    <3> QED
      BY <1>5, <3>2
  <2>3. CASE ~(b < a)
    <3>1. a \in 1..round[q]
      BY <1>2, <2>1, <2>3
    <3> QED
      BY <1>4, <3>1 DEF SentBy
  <2> QED
    BY <2>2, <2>3
<1>7. p \in Others(q)
  BY DEF Facing, Others
<1>8. CASE \E e \in Pending(q) : e.to = p /\ e.kind = k
  <2>1. PICK e \in Pending(q) : e.to = p /\ e.kind = k
    BY <1>8
  <2>2. Level(l) <= Level(k)
    BY <1>1, <2>1 DEF Sequenced
  <2> QED
    BY <1>5, <2>2
<1>9. CASE \E n \in Posted(p) : n.from = q /\ n.kind = k
  <2>1. PICK n \in Posted(p) : n.from = q /\ n.kind = k
    BY <1>9
  <2>2. SeenKey(n) \notin seen[p]
    BY <2>1 DEF Progress, AllHeard, Facing
  <2>3. PICK c \in 1..Len(relay[p]) : n = relay[p][c]
    BY DEF Posted, Elements
  <2>4. Len(relay[p]) \in Nat
    BY ListTypes, LenProperties DEF Shape
  <2>5. c # i
    BY <1>5, <2>1, <2>3
  <2>6. ~(c < i)
    <3> SUFFICES ASSUME c < i PROVE FALSE
      OBVIOUS
    <3>1. c \in 1..(i - 1)
      BY <2>4
    <3> QED
      BY <2>2, <2>3, <3>1
  <2>7. i \in 1..(c - 1)
    BY <2>4, <2>5, <2>6
  <2>8. Overtaken(relay[p], c - 1, n)
    BY <2>3 DEF Sequenced, InOrder
  <2>9. PICK x \in 1..(i - 1) : relay[p][x] = n
    BY <2>1, <2>7, <2>8 DEF Overtaken
  <2> QED
    BY <2>2, <2>9
<1> QED
  BY <1>6, <1>7, <1>8, <1>9 DEF Progress, AllSent

\* The message that is fed is of the kind that is awaited.
LEMMA InTurn ==
    ASSUME Harmless, N = 2, Shape, Delivery, Progress, Sequenced, drops = 0,
           NEW p \in Party, outcome[p] = "none", NEW i \in 1..Len(relay[p]),
           SeenKey(relay[p][i]) \notin seen[p],
           \A j \in 1..(i - 1) : SeenKey(relay[p][j]) \in seen[p]
    PROVE  relay[p][i].kind = Current(p).recv
<1> DEFINE m == relay[p][i]
           q == m.from
           k == Current(p).recv
<1>1. m \in Posted(p) /\ q \in Party /\ q # p /\ m.kind \in SentBy(q)
  <2>1. m \in Posted(p)
    BY DEF Posted, Elements
  <2> QED
    BY <2>1, ListTypes DEF Shape, Message, Delivery, RelayOnce
<1>2. Facing(p, q, k)
  BY <1>1, FacingPeer
<1>3. ~(Level(m.kind) < Level(k))
  BY <1>1, <1>2, NotEarlier
<1>4. ~(Level(k) < Level(m.kind))
  BY <1>1, <1>2, NotLater
<1>5. Level(k) = Level(m.kind)
  <2>1. Level(k) \in Nat /\ Level(m.kind) \in Nat
    BY Levels
  <2> QED
    BY <1>3, <1>4, <2>1
<1>6. m.kind \in FromAll(ceremony) \cup FromOne(ceremony)
  BY <1>1, SentExpected
<1>7. k \in FromAll(ceremony) \cup FromOne(ceremony)
  BY <1>2 DEF Facing
<1>8. ceremony \in CeremonyName
  BY ScriptGood, <1>1 DEF Shape
<1> QED
  BY <1>5, <1>6, <1>7, <1>8, LevelInjective

\* Two parties that have sent or await a hash have the same blob.
LEMMA SameBlob ==
    ASSUME Harmless, N = 2, Shape, Delivery, Progress, Truthful,
           NEW p \in Party, outcome[p] = "none", Current(p).recv = "hash",
           NEW q \in Party, q # p, "hash" \in SentBy(q)
    PROVE  blob[p] = blob[q]
<1>1. Facing(p, q, "hash")
  BY FacingPeer
<1>2. ceremony \in Metadata /\ ceremony \in CeremonyName
  <2>1. ceremony \in CeremonyName
    BY ScriptGood DEF Shape
  <2> QED
    BY <1>1, <2>1 DEF Facing, FromAll, FromOne, CeremonyName, Metadata
<1>3. "meta" \in FromOne(ceremony)
  BY <1>2 DEF FromOne, Metadata
<1>4. ASSUME NEW d \in Party, d # Coordinator
      PROVE  \E a \in 1..Len(ScriptOf(d)) : ScriptOf(d)[a].recv = "meta" /\ ScriptOf(d)[a].need # 0
  <2>1. Expected(ceremony, d, ScriptOf(d))
    BY ScriptGood DEF Complete, Harmless, Shape
  <2>2. Awaits(ScriptOf(d), "meta")
    BY <1>3, <1>4, <2>1 DEF Expected
  <2> QED
    BY <2>2 DEF Awaits
<1>5. ASSUME NEW d \in Party
      PROVE  /\ Orderly(ScriptOf(d)) /\ round[d] \in 1..Len(ScriptOf(d)) /\ round[d] \in Nat
             /\ Len(ScriptOf(d)) \in Nat
  BY ScriptGood, CurrentType, LenProperties DEF GoodScript, Shape, WellFormed, TypeOK
<1>6. blob[p] = "blob"
  <2>1. CASE p = Coordinator
    BY <1>2, <2>1 DEF Truthful
  <2>2. CASE p # Coordinator
    <3> DEFINE s == ScriptOf(p)
               r == round[p]
    <3>1. PICK a \in 1..Len(s) : s[a].recv = "meta" /\ s[a].need # 0
      BY <1>4, <2>2
    <3>2. s[r].recv = "hash" /\ r \in 1..Len(s) /\ r \in Nat /\ Orderly(s) /\ Len(s) \in Nat
      BY <1>5 DEF Current
    <3>3. a \in 1..(r - 1)
      <4>1. a # r
        BY <3>1, <3>2
      <4>2. ~(r < a)
        <5> SUFFICES ASSUME r < a PROVE FALSE
          OBVIOUS
        <5>1. Precedes(s[r], s[a])
          BY <3>2 DEF Orderly
        <5> QED
          BY <3>1, <3>2, <5>1 DEF Precedes
      <4> QED
        BY <3>2, <4>1, <4>2
    <3> QED
      BY <1>2, <3>1, <3>3 DEF Truthful
  <2> QED
    BY <2>1, <2>2
<1>7. blob[q] = "blob"
  <2>1. CASE q = Coordinator
    BY <1>2, <2>1 DEF Truthful
  <2>2. CASE q # Coordinator
    <3> DEFINE s == ScriptOf(q)
               r == round[q]
    <3>1. PICK a \in 1..Len(s) : s[a].recv = "meta" /\ s[a].need # 0
      BY <1>4, <2>2
    <3>2. PICK b \in 1..r : "hash" \in Sends(s[b])
      BY DEF SentBy
    <3>3. r \in 1..Len(s) /\ r \in Nat /\ Orderly(s) /\ Len(s) \in Nat /\ b \in 1..Len(s)
      BY <1>5, <3>2
    <3>4. a # b
      BY <3>1, <3>2, <3>3 DEF Orderly, Proper
    <3>5. ~(b < a)
      <4> SUFFICES ASSUME b < a PROVE FALSE
        OBVIOUS
      <4>1. Precedes(s[b], s[a])
        BY <3>3 DEF Orderly
      <4> QED
        BY <3>1, <3>2, <4>1 DEF Precedes
    <3>6. a \in 1..(r - 1)
      BY <3>2, <3>3, <3>4, <3>5
    <3> QED
      BY <1>2, <3>1, <3>6 DEF Truthful
  <2> QED
    BY <2>1, <2>2
<1> QED
  BY <1>6, <1>7

\* What a task of two is fed is acceptable, and passes the check.
LEMMA Accepted ==
    ASSUME Harmless, N = 2, Shape, Delivery, NoForgery, Hashed, Terms, Truthful, Progress,
           NEW p \in Party, outcome[p] = "none",
           NEW m \in Posted(p), m.kind = Current(p).recv,
           Record(heard[p], m) = heard[p] \cup {[from |-> m.from, kind |-> m.kind, val |-> m.val]}
    PROVE  Acceptable(p, m) /\ LoopError(p, Record(heard[p], m)) = "none"
<1> DEFINE q == m.from
           x == [from |-> m.from, kind |-> m.kind, val |-> m.val]
           h == Record(heard[p], m)
<1>1. q \in Party /\ q # p /\ m.kind \in SentBy(q) /\ m \in Message
  BY ListTypes DEF Shape, Message, Delivery, RelayOnce
<1>2. KeyIsRight(p, heard[p]) /\ Term(ceremony, p) = "term"
  BY TermsRight
<1>3. m.kind = "hash" => m.val = blob[p]
  <2> SUFFICES ASSUME m.kind = "hash" PROVE m.val = blob[p]
    OBVIOUS
  <2>1. m.val = blob[q]
    BY DEF Hashed, Harmless
  <2>2. Current(p).recv = "hash" /\ "hash" \in SentBy(q)
    BY <1>1
  <2>3. blob[p] = blob[q]
    BY <1>1, <2>2, SameBlob
  <2> QED
    BY <2>1, <2>3
<1>4. m.kind = "vk" => m.val = "right"
  BY DEF Truthful
<1>5. Acceptable(p, m)
  BY <1>2, <1>3, <1>4 DEF Acceptable
<1>6. m.val \notin Altered
  <2>1. relay[p] \in Seq(HonestMessage)
    BY DEF NoForgery
  <2>2. m \in HonestMessage
    BY <2>1, ElementOfSeq DEF Posted, Elements
  <2> QED
    BY <2>2 DEF HonestMessage, Harmless
<1>7. /\ \A y \in h : y.val \notin Altered
      /\ \A y \in h : y.from \in Party
      /\ \A y \in h : y.kind = "r1" => y.val = "term"
      /\ \A r \in Party : \A y \in heard[r] : y.val \notin Altered
  <2>1. \A r \in Party : \A y \in heard[r] : y.val \notin Altered /\ y.from \in Party
    BY DEF NoForgery, HonestHeard, Heard, Harmless
  <2>2. \A y \in heard[p] : y.kind = "r1" => y.val = "term"
    BY <1>2 DEF KeyIsRight
  <2>3. x.val = m.val /\ x.kind = m.kind /\ x.from = q
    OBVIOUS
  <2>4. m.kind = "r1" => m.val = "term"
    <3>1. m.kind = "r1" => m.val \in {Term(ceremony, q), "invalid"}
      BY DEF Terms
    <3> QED
      BY <1>6, <3>1, TermsRight DEF Altered
  <2> HIDE DEF x
  <2>5. \A y \in h : y \in heard[p] \/ y = x
    BY DEF x
  <2> QED
    BY <1>1, <1>6, <2>1, <2>2, <2>3, <2>4, <2>5
<1> HIDE DEF h
<1>8. \A k : Culprits(h, k) = {}
  <2>1. View(h) = {}
    <3>1. \A y \in h : y.val # "other"
      BY <1>7 DEF Altered
    <3> QED
      BY <3>1 DEF View
  <2>2. \A r \in Party : View(heard[r]) = {}
    <3>1. \A r \in Party : \A y \in heard[r] : y.val # "other"
      BY <1>7 DEF Altered
    <3> QED
      BY <3>1 DEF View
  <2>3. ASSUME NEW y \in h PROVE ~Fails(h, y)
    <3>1. y.val # "invalid" /\ y.from \in Party
      BY <1>7 DEF Altered
    <3> QED
      BY <2>1, <2>2, <3>1 DEF Fails
  <2> QED
    BY <2>3 DEF Culprits
<1>9. KeyIsRight(p, h)
  <2>1. \A y \in h : y.kind = "r1" => y.val = "term"
    BY <1>7
  <2> QED
    BY <1>2, <2>1 DEF KeyIsRight
<1>10. LoopError(p, h) = "none"
  BY <1>8, <1>9 DEF LoopError
<1> QED
  BY <1>5, <1>10 DEF h

\* Every step keeps the parties from failing.
LEMMA NextUnhurt ==
    ASSUME Harmless, N = 2
    PROVE  /\ Shape /\ Delivery /\ NoForgery /\ Hashed /\ Terms /\ Truthful /\ Progress
           /\ Sequenced /\ NoSpuriousFailure /\ [Next]_vars
           => NoSpuriousFailure'
<1> SUFFICES ASSUME Shape, Delivery, NoForgery, Hashed, Terms, Truthful, Progress, Sequenced,
                    NoSpuriousFailure, [Next]_vars
             PROVE  NoSpuriousFailure'
  OBVIOUS
<1>1. CASE UNCHANGED <<outcome, drops>>
  BY <1>1 DEF NoSpuriousFailure
<1>2. ASSUME NEW p \in Party, PostLost(p) PROVE NoSpuriousFailure'
  <2>1. drops \in Nat /\ drops' = drops + 1
    BY <1>2, SessionAssumption DEF PostLost, Shape, TypeOK
  <2> QED
    BY <2>1 DEF NoSpuriousFailure
<1>3. ASSUME NEW p \in Party, FeedNext(p) PROVE NoSpuriousFailure'
  <2> SUFFICES ASSUME drops' = 0, NEW d \in Party PROVE outcome'[d] \in {"none", "ok"}
    BY DEF NoSpuriousFailure
  <2>1. PICK i \in 1..Len(relay[p]) :
          /\ Fed(p, relay[p][i]) /\ relay[p][i] \in Message
          /\ \A j \in 1..(i - 1) : SeenKey(relay[p][j]) \in seen[p]
    BY <1>3, FirstFed
  <2> DEFINE m == relay[p][i]
  <2>2. /\ drops = 0 /\ outcome[p] = "none" /\ m \in Posted(p) /\ SeenKey(m) \notin seen[p]
        /\ Feed(p, m)
    BY <2>1 DEF Fed
  <2>3. m.kind = Current(p).recv
    BY <2>1, <2>2, InTurn
  <2>4. Record(heard[p], m) = heard[p] \cup {[from |-> m.from, kind |-> m.kind, val |-> m.val]}
    BY <2>1, HeardGrows
  <2> HIDE DEF m
  <2>5. Acceptable(p, m) /\ LoopError(p, Record(heard[p], m)) = "none"
    BY <2>2, <2>3, <2>4, Accepted
  <2>6. Collect(p, m) \/ Advance(p, m)
    BY <2>2, <2>5 DEF Feed, Reject, FailCheck
  <2>7. outcome'[d] = outcome[d] \/ outcome'[d] \in {"none", "ok"}
    BY <2>6 DEF Collect, Advance, Shape, TypeOK
  <2> QED
    BY <2>2, <2>7 DEF NoSpuriousFailure
<1>4. ASSUME NEW p \in Party,
             Post(p) \/ GetMessages(p) \/ Return(p) \/ RunFails(p) \/ Duplicate(p)
      PROVE  UNCHANGED <<outcome, drops>>
  BY <1>4 DEF Post, GetMessages, Return, RunFails, Duplicate, task
<1>5. UNCHANGED vars => UNCHANGED <<outcome, drops>>
  BY DEF vars
<1> QED
  BY <1>1, <1>2, <1>3, <1>4, <1>5 DEF Next, Step, PollEmpty, Done

\* Two parties that both follow the protocol, with setups that fit, fail in none of
\* the ceremonies as long as no message is lost, however the runner and the relay
\* interleave and whatever the relay lists twice.  With three this is false: a message
\* of one peer may overtake what is awaited of the other.
THEOREM TwoPartiesSucceed ==
    ASSUME N = 2, Faulty = {}, Misconfigured = {}
    PROVE  Spec => []NoSpuriousFailure
<1>1. Harmless
  BY DEF Harmless
<1>2. Init => NoSpuriousFailure
  BY DEF Init, NoSpuriousFailure
<1>3. /\ Init => Truthful
      /\ Shape /\ Delivery /\ NoForgery /\ Terms /\ Truthful /\ [Next]_vars => Truthful'
  BY <1>1, InitTruthful, NextTruthful
<1>4. /\ Shape /\ Delivery /\ NoForgery /\ Hashed /\ Terms /\ Truthful /\ Progress
      /\ Sequenced /\ NoSpuriousFailure /\ [Next]_vars
      => NoSpuriousFailure'
  BY <1>1, NextUnhurt
<1>5. Spec => [](Shape /\ Delivery /\ NoForgery)
  BY InitShape, NextShape, InitDelivery, NextDelivery, InitNoForgery, NextNoForgery,
     PTL DEF Spec
<1>6. Spec => [](Shape /\ Delivery /\ Hashed /\ Terms /\ Progress /\ Sequenced)
  BY InitShape, NextShape, InitDelivery, NextDelivery, InitHashed, NextHashed, InitTerms,
     NextTerms, InitProgress, NextProgress, InitSequenced, NextSequenced, PTL DEF Spec
<1>7. Spec => [](NoForgery /\ Truthful)
  BY <1>3, <1>5, <1>6, PTL DEF Spec
<1>8. Spec => []NoSpuriousFailure
  BY <1>2, <1>4, <1>5, <1>6, <1>7, PTL DEF Spec
<1> QED
  BY <1>8
=============================================================================
