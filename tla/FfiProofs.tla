------------------------------ MODULE FfiProofs ------------------------------
(***************************************************************************)
(* Proofs about the calls of the libraries for any number of threads and   *)
(* objects and any size of the handle table.  What the provers need of the *)
(* bodies is their shape (WellFormed), which every call of every surface   *)
(* is shown to have; the inductive invariant says where the table and the  *)
(* guards keep an object (Placed), how far a call is (Progress), that a    *)
(* call with only its output left is the last user of its object (LastUse) *)
(* and what an object that gave its output has become (Object).            *)
(***************************************************************************)
EXTENDS Ffi, SequenceTheorems, WellFoundedInduction, TLAPS

Codes == {"refused", "failed"}
Op == {"fails", "alloc", "get", "take", "free", "new", "this", "drop", "feed", "peek",
       "result", "out"}
Kinds == {"", "Session", "Secret1", "Secret2"}
StepType == [op : Op, type : Kinds, errs : SUBSET Codes]
Handle == Obj \cup Table!Id \cup {0}
CallType ==
    [todo : Seq(StepType), arg : Handle, obj : Obj \cup {None}, new : Handle,
     err : {"idle", "ok"} \cup Codes]

\* What the state beside the handle table is made of.
FfiType ==
    /\ surface \in Surfaces
    /\ call \in [Thread -> CallType]
    /\ given \subseteq Handle
    /\ js \subseteq Obj
    /\ proto \in [Obj -> {"none", "plain", "running", "ok", "err", "spent"}]
    /\ outs \in [Obj -> {0, 1}]

\* The table: entries and guards point to live objects, each to its own, and an
\* entry that is in use has its guard.
TableType ==
    /\ DOMAIN hmap \subseteq Table!Id /\ hmap \in [DOMAIN hmap -> Obj \cup {None}]
    /\ guard \in [Thread -> Table!HandleGuard]
    /\ \A t \in Thread : guard[t].handle = 0 => guard[t].ptr = None
    /\ fate \in [Obj -> {"fresh", "live", "consumed", "dropped"}]
    /\ res \in [Thread -> Table!Result]
EntriesLive == \A h \in DOMAIN hmap : hmap[h] # None => fate[hmap[h]] = "live"
GuardsLive == \A t \in Thread : Table!Holds(t) => fate[guard[t].ptr] = "live"
EntriesDiffer == \A h, i \in DOMAIN hmap : hmap[h] # None /\ hmap[h] = hmap[i] => h = i
GuardsDiffer ==
    \A t, u \in Thread : Table!Holds(t) /\ guard[t].ptr = guard[u].ptr => t = u
Apart == \A h \in DOMAIN hmap, t \in Thread : Table!Holds(t) => hmap[h] # guard[t].ptr
Placed ==
    /\ TableType /\ EntriesLive /\ GuardsLive /\ EntriesDiffer /\ GuardsDiffer /\ Apart
    /\ Table!InUseIsHeld

\* The steps that name the object of a call, and those that make it the call's
\* to turn into an output: nobody else can do so afterwards.
Naming == {"get", "take", "free", "this", "drop"}
Claim(s) == s.op = "result" \/ (s.op = "take" /\ s.type # "Session")

\* What is left of a body after its first checks: no further step refuses, the
\* object is named before anything has an effect, nothing fails after an
\* allocation, and an output is the last step.
Shape(p) ==
    \A j \in DOMAIN p :
        /\ p[j].errs \subseteq {"failed"}
        /\ p[j].op \in Naming => \A i \in DOMAIN p : i < j => p[i].op = "fails"
        /\ p[j].op = "out" => \A i \in DOMAIN p : i <= j
        /\ p[j].op \in {"alloc", "new"} =>
              \A k \in DOMAIN p : k > j => p[k].op = "out" /\ p[k].errs = {}

\* A body claims its object before it writes an output, and has named it before
\* it takes the result of a session.
Backed(p) ==
    \A j \in DOMAIN p :
        /\ p[j].op = "out" => \E i \in DOMAIN p : i < j /\ Claim(p[i])
        /\ p[j].op = "result" => \E i \in DOMAIN p : i < j /\ p[i].op \in {"take", "this"}

Rest(p) == IF Checks(p) THEN Tail(p) ELSE p
WellFormed(p) == p \in Seq(StepType) /\ Shape(Rest(p)) /\ Backed(Rest(p))

\* An object that nobody has created.
Unborn(o) == fate[o] = "fresh" /\ proto[o] = "none"

\* A session that has an outcome to give, or will have one.
Unread(o) == proto[o] \in {"running", "ok", "err"}

\* How far a call is, and what that says of its object, guard and new handle.
Progress(t) ==
    LET c == call[t] IN
    /\ c.err # "ok" => c.todo = <<>>
    /\ c.err = "idle" => c = NoCall
    /\ c.err = "refused" => c.obj = None
    /\ c.new # 0 => /\ c.err = "ok"
                    /\ \A j \in DOMAIN c.todo : c.todo[j].op = "out" /\ c.todo[j].errs = {}
    /\ Shape(c.todo)
    /\ \A j \in DOMAIN c.todo :
          /\ c.todo[j].op \in Naming => c.obj = None
          /\ c.todo[j].op = "result" =>
                \/ c.obj \in Obj /\ fate[c.obj] # "live"
                \/ \E i \in DOMAIN c.todo : i < j /\ c.todo[i].op \in {"take", "this"}
    /\ Table!Holds(t) => c.obj = guard[t].ptr /\ c.err # "idle"
    /\ c.arg \in given \cup {0}
    /\ guard[t].handle \in given \cup {0}
    /\ c.obj \in Obj => ~Unborn(c.obj)

\* A call that has only its output left to write is the last user of its object.
Due(t) ==
    /\ call[t].err = "ok"
    /\ \E j \in DOMAIN call[t].todo :
          /\ call[t].todo[j].op = "out"
          /\ \A i \in DOMAIN call[t].todo : i < j => ~Claim(call[t].todo[i])
Final(o) == o \in Obj /\ fate[o] # "live" /\ ~Unread(o) /\ ~Unborn(o)
LastUse ==
    /\ \A t \in Thread : Due(t) => Final(call[t].obj) /\ outs[call[t].obj] = 0
    /\ \A t, u \in Thread : Due(t) /\ Due(u) /\ call[t].obj = call[u].obj => t = u

\* What has given its output can be reached by no further call.
Object(o) ==
    /\ outs[o] = 1 => Final(o)
    /\ o \in js => fate[o] = "fresh" /\ proto[o] # "none"
    /\ Unread(o) => TypeOf[o] = "Session"

Inv ==
    /\ FfiType /\ Placed /\ NoLeak /\ LastUse
    /\ \A t \in Thread : Progress(t)
    /\ \A o \in Obj : Object(o)
-----------------------------------------------------------------------------
\* The steps have their type; only the first checks of a body refuse.
LEMMA StepTypes ==
    \A op \in Op, T \in Kinds : \A errs :
        /\ Step(op, T, errs) \in StepType
        /\ Step(op, T, errs).op = op /\ Step(op, T, errs).type = T
<1> TAKE op \in Op, T \in Kinds
<1> TAKE errs
<1>1. \A e : Kind(e) \in Codes
  BY DEF Kind, Codes
<1>2. {Kind(e) : e \in errs} \in SUBSET Codes
  BY <1>1
<1> QED
  BY <1>2 DEF Step, StepType

LEMMA StepErrors ==
    \A op \in Op, T \in Kinds : \A errs :
        /\ errs \cap Refusals = {} => Step(op, T, errs).errs \subseteq {"failed"}
        /\ errs = {} => Step(op, T, errs).errs = {}
BY DEF Kind, Step

LEMMA StepFacts ==
    /\ \A X : /\ Fails(X) \in StepType /\ Fails(X).op = "fails"
              /\ Out(X) \in StepType /\ Out(X).op = "out"
              /\ X \cap Refusals = {} =>
                    Fails(X).errs \subseteq {"failed"} /\ Out(X).errs \subseteq {"failed"}
    /\ Out({}).errs = {}
    /\ \A T \in Kinds :
          /\ AllocOf(T) \in StepType /\ AllocOf(T).op = "alloc" /\ AllocOf(T).errs = {}
          /\ GetOf(T) \in StepType /\ GetOf(T).op = "get" /\ GetOf(T).errs = {}
          /\ TakeOf(T) \in StepType /\ TakeOf(T).op = "take" /\ TakeOf(T).errs = {}
          /\ TakeOf(T).type = T
          /\ NewOf(T) \in StepType /\ NewOf(T).op = "new" /\ NewOf(T).errs = {}
          /\ ThisOf(T) \in StepType /\ ThisOf(T).op = "this" /\ ThisOf(T).errs = {}
    /\ FreeIt \in StepType /\ FreeIt.op = "free" /\ FreeIt.errs = {}
    /\ Drop \in StepType /\ Drop.op = "drop" /\ Drop.errs = {}
    /\ Feed \in StepType /\ Feed.op = "feed" /\ Feed.errs = {}
    /\ Peek \in StepType /\ Peek.op = "peek" /\ Peek.errs = {}
    /\ Result \in StepType /\ Result.op = "result" /\ Result.errs = {}
<1>1. "" \in Kinds /\ "fails" \in Op /\ "out" \in Op /\ "free" \in Op
  BY DEF Kinds, Op
<1>2. ASSUME NEW X
      PROVE  /\ Fails(X) \in StepType /\ Fails(X).op = "fails"
             /\ X \cap Refusals = {} => Fails(X).errs \subseteq {"failed"}
  <2>1. Fails(X) = Step("fails", "", X)
    BY DEF Fails
  <2>2. Step("fails", "", X) \in StepType
    BY <1>1, StepTypes
  <2>3. Step("fails", "", X).op = "fails"
    BY DEF Step
  <2>4. X \cap Refusals = {} => Step("fails", "", X).errs \subseteq {"failed"}
    BY <1>1, StepErrors
  <2> QED
    BY <2>1, <2>2, <2>3, <2>4
<1>3. ASSUME NEW X
      PROVE  /\ Out(X) \in StepType /\ Out(X).op = "out"
             /\ X \cap Refusals = {} => Out(X).errs \subseteq {"failed"}
  <2>1. Out(X) = Step("out", "", X)
    BY DEF Out
  <2>2. Step("out", "", X) \in StepType
    BY <1>1, StepTypes
  <2>3. Step("out", "", X).op = "out"
    BY DEF Step
  <2>4. X \cap Refusals = {} => Step("out", "", X).errs \subseteq {"failed"}
    BY <1>1, StepErrors
  <2> QED
    BY <2>1, <2>2, <2>3, <2>4
<1>4. Out({}).errs = {}
  BY <1>1, StepErrors DEF Out
<1>5. ASSUME NEW op \in Op, NEW T \in Kinds
      PROVE  /\ Step(op, T, {}) \in StepType /\ Step(op, T, {}).op = op
             /\ Step(op, T, {}).errs = {} /\ Step(op, T, {}).type = T
  BY <1>5, StepTypes, StepErrors
<1>6. ASSUME NEW T \in Kinds
      PROVE  AllocOf(T) \in StepType /\ AllocOf(T).op = "alloc" /\ AllocOf(T).errs = {}
  BY <1>5 DEF AllocOf, Op
<1>7. ASSUME NEW T \in Kinds
      PROVE  GetOf(T) \in StepType /\ GetOf(T).op = "get" /\ GetOf(T).errs = {}
  BY <1>5 DEF GetOf, Op
<1>8. ASSUME NEW T \in Kinds
      PROVE  TakeOf(T) \in StepType /\ TakeOf(T).op = "take" /\ TakeOf(T).errs = {} /\ TakeOf(T).type = T
  BY <1>5 DEF TakeOf, Op
<1>9. ASSUME NEW T \in Kinds
      PROVE  NewOf(T) \in StepType /\ NewOf(T).op = "new" /\ NewOf(T).errs = {}
  BY <1>5 DEF NewOf, Op
<1>10. ASSUME NEW T \in Kinds
      PROVE  ThisOf(T) \in StepType /\ ThisOf(T).op = "this" /\ ThisOf(T).errs = {}
  BY <1>5 DEF ThisOf, Op
<1>11. FreeIt \in StepType /\ FreeIt.op = "free" /\ FreeIt.errs = {}
  BY <1>1, <1>5 DEF FreeIt
<1>12. Drop \in StepType /\ Drop.op = "drop" /\ Drop.errs = {}
  BY <1>1, <1>5 DEF Drop, Op
<1>13. Feed \in StepType /\ Feed.op = "feed" /\ Feed.errs = {}
  BY <1>1, <1>5 DEF Feed, Op
<1>14. Peek \in StepType /\ Peek.op = "peek" /\ Peek.errs = {}
  BY <1>1, <1>5 DEF Peek, Op
<1>15. Result \in StepType /\ Result.op = "result" /\ Result.errs = {}
  BY <1>1, <1>5 DEF Result, Op
<1> QED
  BY <1>2, <1>3, <1>4, <1>6, <1>7, <1>8, <1>9, <1>10,
     <1>11, <1>12, <1>13, <1>14, <1>15

\* The bodies that occur, with any errors E of the first checks and any errors X
\* that are not refusals of the later ones.
LEMMA CheckedBodies ==
    ASSUME NEW E, NEW T \in Kinds, NEW U \in Kinds, NEW X, X \cap Refusals = {}
    PROVE  /\ WellFormed(<<Fails(E)>>)
           /\ WellFormed(<<Fails(E), AllocOf(T)>>)
           /\ WellFormed(<<Fails(E), NewOf(T)>>)
           /\ WellFormed(<<Fails(E), GetOf(T), Feed>>)
           /\ WellFormed(<<Fails(E), GetOf(T), Peek>>)
           /\ WellFormed(<<Fails(E), GetOf(T), Fails(X)>>)
           /\ WellFormed(<<Fails(E), GetOf(T), Fails(X), AllocOf(U)>>)
           /\ WellFormed(<<Fails(E), TakeOf(T), Result, Out(X)>>)
           /\ T # "Session" => WellFormed(<<Fails(E), TakeOf(T), Out(X)>>)
           /\ T # "Session" =>
                 WellFormed(<<Fails(E), TakeOf(T), Fails(X), AllocOf(U), Out({})>>)
<1> USE DEF WellFormed, Rest, Checks, Shape, Backed, Claim, Naming
<1>1. WellFormed(<<Fails(E)>>)
  BY StepFacts
<1>2. WellFormed(<<Fails(E), AllocOf(T)>>)
  BY StepFacts
<1>3. WellFormed(<<Fails(E), NewOf(T)>>)
  BY StepFacts
<1>4. WellFormed(<<Fails(E), GetOf(T), Feed>>)
  BY StepFacts
<1>5. WellFormed(<<Fails(E), GetOf(T), Peek>>)
  BY StepFacts
<1>6. WellFormed(<<Fails(E), GetOf(T), Fails(X)>>)
  BY StepFacts
<1>7. WellFormed(<<Fails(E), GetOf(T), Fails(X), AllocOf(U)>>)
  <2>1. <<Fails(E), GetOf(T), Fails(X), AllocOf(U)>> \in Seq(StepType) /\ Rest(<<Fails(E), GetOf(T), Fails(X), AllocOf(U)>>) = <<GetOf(T), Fails(X), AllocOf(U)>>
    BY StepFacts
  <2>2. Shape(<<GetOf(T), Fails(X), AllocOf(U)>>)
    BY StepFacts
  <2>3. Backed(<<GetOf(T), Fails(X), AllocOf(U)>>)
    BY StepFacts
  <2> QED
    BY <2>1, <2>2, <2>3
<1>8. WellFormed(<<Fails(E), TakeOf(T), Result, Out(X)>>)
  <2>1. <<Fails(E), TakeOf(T), Result, Out(X)>> \in Seq(StepType) /\ Rest(<<Fails(E), TakeOf(T), Result, Out(X)>>) = <<TakeOf(T), Result, Out(X)>>
    BY StepFacts
  <2>2. Shape(<<TakeOf(T), Result, Out(X)>>)
    BY StepFacts
  <2>3. Backed(<<TakeOf(T), Result, Out(X)>>)
    BY StepFacts
  <2> QED
    BY <2>1, <2>2, <2>3
<1>9. T # "Session" => WellFormed(<<Fails(E), TakeOf(T), Out(X)>>)
  BY StepFacts
<1>10. T # "Session" => WellFormed(<<Fails(E), TakeOf(T), Fails(X), AllocOf(U), Out({})>>)
  BY StepFacts
<1> QED
  BY <1>1, <1>2, <1>3, <1>4, <1>5, <1>6, <1>7, <1>8, <1>9, <1>10

LEMMA OtherBodies ==
    ASSUME NEW T \in Kinds, NEW U \in Kinds, NEW X, X \cap Refusals = {}
    PROVE  /\ WellFormed(<<TakeOf(T)>>) /\ WellFormed(<<FreeIt>>) /\ WellFormed(<<Drop>>)
           /\ WellFormed(<<ThisOf(T), Feed>>)
           /\ WellFormed(<<ThisOf(T), Peek>>)
           /\ WellFormed(<<ThisOf(T), Fails(X)>>)
           /\ WellFormed(<<ThisOf(T), Fails(X), NewOf(U)>>)
           /\ WellFormed(<<ThisOf(T), Result, Out(X)>>)
           /\ T # "Session" => WellFormed(<<TakeOf(T), Out(X)>>)
           /\ T # "Session" => WellFormed(<<TakeOf(T), Fails(X), AllocOf(U), Out({})>>)
<1> USE DEF WellFormed, Rest, Checks, Shape, Backed, Claim, Naming
<1>1. WellFormed(<<TakeOf(T)>>) /\ WellFormed(<<FreeIt>>) /\ WellFormed(<<Drop>>)
  BY StepFacts
<1>2. WellFormed(<<ThisOf(T), Feed>>)
  BY StepFacts
<1>3. WellFormed(<<ThisOf(T), Peek>>)
  BY StepFacts
<1>4. WellFormed(<<ThisOf(T), Fails(X)>>)
  BY StepFacts
<1>5. WellFormed(<<ThisOf(T), Fails(X), NewOf(U)>>)
  BY StepFacts
<1>6. WellFormed(<<ThisOf(T), Result, Out(X)>>)
  <2>1. <<ThisOf(T), Result, Out(X)>> \in Seq(StepType) /\ Rest(<<ThisOf(T), Result, Out(X)>>) = <<ThisOf(T), Result, Out(X)>>
    BY StepFacts
  <2>2. Shape(<<ThisOf(T), Result, Out(X)>>)
    BY StepFacts
  <2>3. Backed(<<ThisOf(T), Result, Out(X)>>)
    BY StepFacts
  <2> QED
    BY <2>1, <2>2, <2>3
<1>7. T # "Session" => WellFormed(<<TakeOf(T), Out(X)>>)
  BY StepFacts
<1>8. T # "Session" => WellFormed(<<TakeOf(T), Fails(X), AllocOf(U), Out({})>>)
  BY StepFacts
<1> QED
  BY <1>1, <1>2, <1>3, <1>4, <1>5, <1>6, <1>7, <1>8

\* Every call of a set of calls has the shape.
Good(calls) == \A p \in Bodies(calls) : WellFormed(p)

\* The errors of the later steps are no refusals, and the round secrets no sessions.
LEMMA LateErrors ==
    /\ {} \cap Refusals = {} /\ {Ser} \cap Refusals = {} /\ {Ceremony} \cap Refusals = {}
    /\ {Ser, Ceremony} \cap Refusals = {} /\ {Ser, Ceremony, Panic} \cap Refusals = {}
    /\ {Js} \cap Refusals = {}
    /\ "Session" \in Kinds /\ "Secret1" \in Kinds /\ "Secret2" \in Kinds
BY DEF Refusals, Null, Ser, Ceremony, Panic, Js, Kinds

LEMMA SessionGood ==
    ASSUME NEW decode, NEW keys, NEW packed, packed \cap Refusals = {}
    PROVE  Good(SessionCalls(decode, keys, packed))
<1> DEFINE D == {Null} \cup decode
           K == {Null, Ser, Ident} \cup keys
<1>1. Bodies(SessionCalls(decode, keys, packed)) =
        {<<Fails(D)>>, <<Fails(K), AllocOf("Session")>>,
         <<Fails({Null}), GetOf("Session"), Feed>>, <<Fails({Null}), GetOf("Session"), Peek>>,
         <<Fails({Null}), TakeOf("Session"), Result, Out(packed)>>, <<TakeOf("Session")>>}
  BY DEF Bodies, SessionCalls
<1> HIDE DEF D, K
<1>2. /\ WellFormed(<<Fails(D)>>) /\ WellFormed(<<Fails(K), AllocOf("Session")>>)
      /\ WellFormed(<<Fails({Null}), GetOf("Session"), Feed>>)
      /\ WellFormed(<<Fails({Null}), GetOf("Session"), Peek>>)
  BY LateErrors, CheckedBodies
<1>3. WellFormed(<<Fails({Null}), TakeOf("Session"), Result, Out(packed)>>)
  BY LateErrors, CheckedBodies
<1>4. WellFormed(<<TakeOf("Session")>>)
  BY LateErrors, OtherBodies
<1> QED
  BY <1>1, <1>2, <1>3, <1>4 DEF Good

LEMMA WasmSessionGood ==
    ASSUME NEW E, NEW packed, packed \cap Refusals = {}
    PROVE  Good(WasmSessionCalls(<<Fails(E)>>, packed))
<1>1. Bodies(WasmSessionCalls(<<Fails(E)>>, packed)) =
        {<<Fails(E)>>, <<Fails({Js}), NewOf("Session")>>, <<ThisOf("Session"), Feed>>,
         <<ThisOf("Session"), Peek>>, <<ThisOf("Session"), Result, Out(packed)>>, <<Drop>>}
  BY DEF Bodies, WasmSessionCalls
<1>2. WellFormed(<<Fails(E)>>) /\ WellFormed(<<Fails({Js}), NewOf("Session")>>)
  BY LateErrors, CheckedBodies
<1>3. /\ WellFormed(<<ThisOf("Session"), Feed>>) /\ WellFormed(<<ThisOf("Session"), Peek>>)
      /\ WellFormed(<<Drop>>)
  BY LateErrors, OtherBodies
<1>4. WellFormed(<<ThisOf("Session"), Result, Out(packed)>>)
  BY LateErrors, OtherBodies
<1> QED
  BY <1>1, <1>2, <1>3, <1>4 DEF Good

\* The calls that are written out.
LEMMA WrittenOutGood ==
    /\ Good(FroztSignStart)
    /\ Good(FroztDkgRounds)
    /\ Good(FroztReshareRounds)
    /\ Good(FroztImportRounds)
    /\ Good(FroztSignRounds)
    /\ Good(FromtDkgRounds)
    /\ Good(FromtReshareRounds)
    /\ Good(FromtSignRounds)
    /\ Good(FromtCkdRounds)
    /\ Good(FromtKeyImageRounds)
    /\ Good(FromtSpendRounds)
    /\ Good(FroztTreeCalls)
    /\ Good(FroztWasmSignStart)
    /\ Good(FromtWasmSpend)
    /\ Good(FromtWasmKeyImage)
    /\ Good(FroztWasmTree)
<1>1. Good(FroztSignStart)
  <2>1. Bodies(FroztSignStart) =
        {<<Fails({Null} \cup FroztDecode)>>,
         <<Fails({Null, Ser, Ident}), AllocOf("Session")>>}
    BY DEF Bodies, FroztSignStart
  <2>2. WellFormed(<<Fails({Null} \cup FroztDecode)>>)
    BY LateErrors, CheckedBodies
  <2>3. WellFormed(<<Fails({Null, Ser, Ident}), AllocOf("Session")>>)
    BY LateErrors, CheckedBodies
  <2> QED
    BY <2>1, <2>2, <2>3 DEF Good
<1>2. Good(FroztDkgRounds)
  <2>1. Bodies(FroztDkgRounds) =
        {<<Fails({Null, Ident, Ceremony}), AllocOf("Secret1")>>,
         <<Fails({Null}), TakeOf("Secret1"), Fails({Ser, Ceremony}), AllocOf("Secret2"), Out({})>>,
         <<Fails({Null}), TakeOf("Secret2"), Out({Ser, Ceremony})>>}
    BY DEF Bodies, FroztDkgRounds
  <2>2. WellFormed(<<Fails({Null, Ident, Ceremony}), AllocOf("Secret1")>>)
    BY LateErrors, CheckedBodies
  <2>3. WellFormed(<<Fails({Null}), TakeOf("Secret1"), Fails({Ser, Ceremony}), AllocOf("Secret2"), Out({})>>)
    BY LateErrors, CheckedBodies
  <2>4. WellFormed(<<Fails({Null}), TakeOf("Secret2"), Out({Ser, Ceremony})>>)
    BY LateErrors, CheckedBodies
  <2> QED
    BY <2>1, <2>2, <2>3, <2>4 DEF Good
<1>3. Good(FroztReshareRounds)
  <2>1. Bodies(FroztReshareRounds) =
        {<<Fails({Null, Ser, Ident, Ceremony}), AllocOf("Secret1")>>,
         <<Fails({Null}), TakeOf("Secret2"), Out({Ser, Ceremony})>>}
    BY DEF Bodies, FroztReshareRounds
  <2>2. WellFormed(<<Fails({Null, Ser, Ident, Ceremony}), AllocOf("Secret1")>>)
    BY LateErrors, CheckedBodies
  <2>3. WellFormed(<<Fails({Null}), TakeOf("Secret2"), Out({Ser, Ceremony})>>)
    BY LateErrors, CheckedBodies
  <2> QED
    BY <2>1, <2>2, <2>3 DEF Good
<1>4. Good(FroztImportRounds)
  <2>1. Bodies(FroztImportRounds) =
        {<<Fails({Null, Size, Ser, Ident, Ceremony}), AllocOf("Secret1")>>,
         <<Fails({Null}), TakeOf("Secret2"), Out({Ser, Ceremony})>>}
    BY DEF Bodies, FroztImportRounds
  <2>2. WellFormed(<<Fails({Null, Size, Ser, Ident, Ceremony}), AllocOf("Secret1")>>)
    BY LateErrors, CheckedBodies
  <2>3. WellFormed(<<Fails({Null}), TakeOf("Secret2"), Out({Ser, Ceremony})>>)
    BY LateErrors, CheckedBodies
  <2> QED
    BY <2>1, <2>2, <2>3 DEF Good
<1>5. Good(FroztSignRounds)
  <2>1. Bodies(FroztSignRounds) =
        {<<Fails({Null, Ser}), AllocOf("Secret1")>>, <<Fails({Null, Ser, Ceremony})>>,
         <<Fails({Null, Ser}), TakeOf("Secret1"), Out({Ser, Ceremony})>>}
    BY DEF Bodies, FroztSignRounds
  <2>2. WellFormed(<<Fails({Null, Ser}), AllocOf("Secret1")>>)
    BY LateErrors, CheckedBodies
  <2>3. WellFormed(<<Fails({Null, Ser, Ceremony})>>)
    BY LateErrors, CheckedBodies
  <2>4. WellFormed(<<Fails({Null, Ser}), TakeOf("Secret1"), Out({Ser, Ceremony})>>)
    BY LateErrors, CheckedBodies
  <2> QED
    BY <2>1, <2>2, <2>3, <2>4 DEF Good
<1>6. Good(FromtDkgRounds)
  <2>1. Bodies(FromtDkgRounds) =
        {<<Fails({Null, Ident, Ceremony}), AllocOf("Secret1")>>,
         <<Fails({Null}), TakeOf("Secret1"), Fails({Ser, Ceremony}), AllocOf("Secret2"), Out({})>>,
         <<Fails({Null}), TakeOf("Secret2"), Out({Ser, Ceremony})>>,
         <<Fails({Null, Size, Ident, Ceremony}), AllocOf("Secret1")>>}
    BY DEF Bodies, FromtDkgRounds
  <2>2. WellFormed(<<Fails({Null, Ident, Ceremony}), AllocOf("Secret1")>>)
    BY LateErrors, CheckedBodies
  <2>3. WellFormed(<<Fails({Null}), TakeOf("Secret1"), Fails({Ser, Ceremony}), AllocOf("Secret2"), Out({})>>)
    BY LateErrors, CheckedBodies
  <2>4. WellFormed(<<Fails({Null}), TakeOf("Secret2"), Out({Ser, Ceremony})>>)
    BY LateErrors, CheckedBodies
  <2>5. WellFormed(<<Fails({Null, Size, Ident, Ceremony}), AllocOf("Secret1")>>)
    BY LateErrors, CheckedBodies
  <2> QED
    BY <2>1, <2>2, <2>3, <2>4, <2>5 DEF Good
<1>7. Good(FromtReshareRounds)
  <2>1. Bodies(FromtReshareRounds) =
        {<<Fails({Null, Ser, Ident, Ceremony}), AllocOf("Secret1")>>,
         <<Fails({Null}), TakeOf("Secret2"), Out({Ser, Ceremony})>>}
    BY DEF Bodies, FromtReshareRounds
  <2>2. WellFormed(<<Fails({Null, Ser, Ident, Ceremony}), AllocOf("Secret1")>>)
    BY LateErrors, CheckedBodies
  <2>3. WellFormed(<<Fails({Null}), TakeOf("Secret2"), Out({Ser, Ceremony})>>)
    BY LateErrors, CheckedBodies
  <2> QED
    BY <2>1, <2>2, <2>3 DEF Good
<1>8. Good(FromtSignRounds)
  <2>1. Bodies(FromtSignRounds) =
        {<<Fails({Null, Ser}), AllocOf("Secret1")>>, <<Fails({Null, Ser})>>,
         <<Fails({Null}), TakeOf("Secret1"), Out({Ser, Ceremony})>>,
         <<Fails({Null, Ser, Ceremony})>>}
    BY DEF Bodies, FromtSignRounds
  <2>2. WellFormed(<<Fails({Null, Ser}), AllocOf("Secret1")>>)
    BY LateErrors, CheckedBodies
  <2>3. WellFormed(<<Fails({Null, Ser})>>)
    BY LateErrors, CheckedBodies
  <2>4. WellFormed(<<Fails({Null}), TakeOf("Secret1"), Out({Ser, Ceremony})>>)
    BY LateErrors, CheckedBodies
  <2>5. WellFormed(<<Fails({Null, Ser, Ceremony})>>)
    BY LateErrors, CheckedBodies
  <2> QED
    BY <2>1, <2>2, <2>3, <2>4, <2>5 DEF Good
<1>9. Good(FromtCkdRounds)
  <2>1. Bodies(FromtCkdRounds) =
        {<<Fails({Null, Ser, Ceremony}), AllocOf("Secret1")>>,
         <<Fails({Null}), TakeOf("Secret1"), Out({Ser, Ceremony})>>}
    BY DEF Bodies, FromtCkdRounds
  <2>2. WellFormed(<<Fails({Null, Ser, Ceremony}), AllocOf("Secret1")>>)
    BY LateErrors, CheckedBodies
  <2>3. WellFormed(<<Fails({Null}), TakeOf("Secret1"), Out({Ser, Ceremony})>>)
    BY LateErrors, CheckedBodies
  <2> QED
    BY <2>1, <2>2, <2>3 DEF Good
<1>10. Good(FromtKeyImageRounds)
  <2>1. Bodies(FromtKeyImageRounds) =
        {<<Fails({Null, Ser, Ceremony}), AllocOf("Secret1")>>,
         <<Fails({Null}), TakeOf("Secret1"), Out({Ser, Ceremony})>>}
    BY DEF Bodies, FromtKeyImageRounds
  <2>2. WellFormed(<<Fails({Null, Ser, Ceremony}), AllocOf("Secret1")>>)
    BY LateErrors, CheckedBodies
  <2>3. WellFormed(<<Fails({Null}), TakeOf("Secret1"), Out({Ser, Ceremony})>>)
    BY LateErrors, CheckedBodies
  <2> QED
    BY <2>1, <2>2, <2>3 DEF Good
<1>11. Good(FromtSpendRounds)
  <2>1. Bodies(FromtSpendRounds) =
        {<<Fails({Null, Ser, Ceremony}), AllocOf("Secret1")>>,
         <<Fails({Null}), TakeOf("Secret1"), Fails({Ser, Ceremony, Panic}), AllocOf("Secret2"), Out({})>>,
         <<Fails({Null}), TakeOf("Secret2"), Out({Ser, Ceremony, Panic})>>}
    BY DEF Bodies, FromtSpendRounds
  <2>2. WellFormed(<<Fails({Null, Ser, Ceremony}), AllocOf("Secret1")>>)
    BY LateErrors, CheckedBodies
  <2>3. WellFormed(<<Fails({Null}), TakeOf("Secret1"), Fails({Ser, Ceremony, Panic}), AllocOf("Secret2"), Out({})>>)
    BY LateErrors, CheckedBodies
  <2>4. WellFormed(<<Fails({Null}), TakeOf("Secret2"), Out({Ser, Ceremony, Panic})>>)
    BY LateErrors, CheckedBodies
  <2> QED
    BY <2>1, <2>2, <2>3, <2>4 DEF Good
<1>12. Good(FroztTreeCalls)
  <2> DEFINE progs ==
        {<<Fails({Null, Ser, Ceremony}), AllocOf("Secret1")>>,
         <<Fails({Null, Size, Ceremony}), GetOf("Secret1"), Fails({Ceremony})>>,
         <<Fails({Null}), GetOf("Secret1"), Fails({Ceremony}), AllocOf("Secret2")>>,
         <<Fails({Null, Size, Ceremony}), GetOf("Secret2"), Fails({Ceremony})>>,
         <<Fails({Null}), GetOf("Secret2"), Peek>>,
         <<Fails({Null}), GetOf("Secret2"), Fails({Ser})>>,
         <<Fails({Null, Ceremony}), AllocOf("Secret2")>>, <<Fails({Null, Ser, Ceremony})>>}
  <2>1. Bodies(FroztTreeCalls) \subseteq progs
    <3> SUFFICES ASSUME NEW f \in DOMAIN FroztTreeCalls PROVE FroztTreeCalls[f] \in progs
      BY DEF Bodies
    <3>1. f \in {"tree_from_state", "tree_append", "tree_witness", "witness_append",
                 "witness_root", "witness_serialize", "witness_deserialize", "tree_size"}
      BY DEF FroztTreeCalls
    <3> QED
      BY <3>1 DEF FroztTreeCalls
  <2>2. WellFormed(<<Fails({Null, Ser, Ceremony}), AllocOf("Secret1")>>)
    BY LateErrors, CheckedBodies
  <2>3. WellFormed(<<Fails({Null, Size, Ceremony}), GetOf("Secret1"), Fails({Ceremony})>>)
    BY LateErrors, CheckedBodies
  <2>4. WellFormed(<<Fails({Null}), GetOf("Secret1"), Fails({Ceremony}), AllocOf("Secret2")>>)
    BY LateErrors, CheckedBodies
  <2>5. WellFormed(<<Fails({Null, Size, Ceremony}), GetOf("Secret2"), Fails({Ceremony})>>)
    BY LateErrors, CheckedBodies
  <2>6. WellFormed(<<Fails({Null}), GetOf("Secret2"), Peek>>)
    BY LateErrors, CheckedBodies
  <2>7. WellFormed(<<Fails({Null}), GetOf("Secret2"), Fails({Ser})>>)
    BY LateErrors, CheckedBodies
  <2>8. WellFormed(<<Fails({Null, Ceremony}), AllocOf("Secret2")>>)
    BY LateErrors, CheckedBodies
  <2>9. WellFormed(<<Fails({Null, Ser, Ceremony})>>)
    BY LateErrors, CheckedBodies
  <2> QED
    BY <2>1, <2>2, <2>3, <2>4, <2>5, <2>6, <2>7, <2>8, <2>9 DEF Good
<1>13. Good(FroztWasmSignStart)
  <2>1. Bodies(FroztWasmSignStart) =
        {<<Fails({Js}), NewOf("Session")>>}
    BY DEF Bodies, FroztWasmSignStart
  <2>2. WellFormed(<<Fails({Js}), NewOf("Session")>>)
    BY LateErrors, CheckedBodies
  <2> QED
    BY <2>1, <2>2 DEF Good
<1>14. Good(FromtWasmSpend)
  <2>1. Bodies(FromtWasmSpend) =
        {<<Fails({Js}), AllocOf("Secret1")>>,
         <<TakeOf("Secret1"), Fails({Js}), AllocOf("Secret2"), Out({})>>,
         <<TakeOf("Secret2"), Out({Js})>>, <<FreeIt>>}
    BY DEF Bodies, FromtWasmSpend
  <2>2. WellFormed(<<Fails({Js}), AllocOf("Secret1")>>)
    BY LateErrors, CheckedBodies
  <2>3. WellFormed(<<TakeOf("Secret1"), Fails({Js}), AllocOf("Secret2"), Out({})>>)
    BY LateErrors, OtherBodies
  <2>4. WellFormed(<<TakeOf("Secret2"), Out({Js})>>)
    BY LateErrors, OtherBodies
  <2>5. WellFormed(<<FreeIt>>)
    BY LateErrors, OtherBodies
  <2> QED
    BY <2>1, <2>2, <2>3, <2>4, <2>5 DEF Good
<1>15. Good(FromtWasmKeyImage)
  <2>1. Bodies(FromtWasmKeyImage) =
        {<<Fails({Js}), AllocOf("Secret1")>>, <<TakeOf("Secret1"), Out({Js})>>, <<FreeIt>>}
    BY DEF Bodies, FromtWasmKeyImage
  <2>2. WellFormed(<<Fails({Js}), AllocOf("Secret1")>>)
    BY LateErrors, CheckedBodies
  <2>3. WellFormed(<<TakeOf("Secret1"), Out({Js})>>)
    BY LateErrors, OtherBodies
  <2>4. WellFormed(<<FreeIt>>)
    BY LateErrors, OtherBodies
  <2> QED
    BY <2>1, <2>2, <2>3, <2>4 DEF Good
<1>16. Good(FroztWasmTree)
  <2>1. Bodies(FroztWasmTree) =
        {<<Fails({Js}), NewOf("Secret1")>>, <<ThisOf("Secret1"), Fails({Js})>>,
         <<ThisOf("Secret1"), Fails({Js}), NewOf("Secret2")>>,
         <<ThisOf("Secret2"), Fails({Js})>>, <<ThisOf("Secret2"), Peek>>,
         <<Fails({Js}), NewOf("Secret2")>>, <<Fails({Js})>>, <<Drop>>}
    BY DEF Bodies, FroztWasmTree
  <2>2. WellFormed(<<Fails({Js}), NewOf("Secret1")>>)
    BY LateErrors, CheckedBodies
  <2>3. WellFormed(<<ThisOf("Secret1"), Fails({Js})>>)
    BY LateErrors, OtherBodies
  <2>4. WellFormed(<<ThisOf("Secret1"), Fails({Js}), NewOf("Secret2")>>)
    BY LateErrors, OtherBodies
  <2>5. WellFormed(<<ThisOf("Secret2"), Fails({Js})>>)
    BY LateErrors, OtherBodies
  <2>6. WellFormed(<<ThisOf("Secret2"), Peek>>)
    BY LateErrors, OtherBodies
  <2>7. WellFormed(<<Fails({Js}), NewOf("Secret2")>>)
    BY LateErrors, CheckedBodies
  <2>8. WellFormed(<<Fails({Js})>>)
    BY LateErrors, CheckedBodies
  <2>9. WellFormed(<<Drop>>)
    BY LateErrors, OtherBodies
  <2> QED
    BY <2>1, <2>2, <2>3, <2>4, <2>5, <2>6, <2>7, <2>8, <2>9 DEF Good
<1> QED
  BY <1>1, <1>2, <1>3, <1>4, <1>5, <1>6, <1>7, <1>8,
     <1>9, <1>10, <1>11, <1>12, <1>13, <1>14, <1>15, <1>16

\* Every call of every surface has the shape.
LEMMA SurfacesGood ==
    \A s \in Surfaces : \A p \in s.programs : WellFormed(p)
<1>1. WellFormed(handle_free)
  BY LateErrors, OtherBodies DEF handle_free
<1>2. /\ Good(FroztDkgSession) /\ Good(FroztSignSession) /\ Good(FroztReshareSession)
      /\ Good(FroztKeyImportSession) /\ Good(FromtDkgSession) /\ Good(FromtSignSession)
      /\ Good(FromtReshareSession) /\ Good(FromtKeyImportSession)
      /\ Good(FromtKeyImageSession)
  BY LateErrors, SessionGood
     DEF FroztDkgSession, FroztSignSession, FroztReshareSession, FroztKeyImportSession,
         FromtDkgSession, FromtSignSession, FromtReshareSession, FromtKeyImportSession,
         FromtKeyImageSession
<1>3. /\ Good(FroztWasmDkgSession) /\ Good(FroztWasmKeyImportSession)
      /\ Good(FroztWasmSignSession) /\ Good(FroztWasmReshareSession)
      /\ Good(FromtWasmKeyImportSession) /\ Good(FromtWasmDkgSession)
      /\ Good(FromtWasmSignSession) /\ Good(FromtWasmReshareSession)
      /\ Good(FromtWasmKeyImageSession)
  BY LateErrors, WasmSessionGood
     DEF FroztWasmDkgSession, FroztWasmKeyImportSession, FroztWasmSignSession,
         FroztWasmReshareSession, FromtWasmKeyImportSession, FromtWasmDkgSession,
         FromtWasmSignSession, FromtWasmReshareSession, FromtWasmKeyImageSession,
         FroztWasmSetupMsg, FromtWasmSetupMsg
<1>4. \A b \in Native : \A p \in b : WellFormed(p)
  BY <1>2, WrittenOutGood DEF Native, Good
<1>5. \A b \in Wasm : \A p \in b : WellFormed(p)
  BY <1>3, WrittenOutGood DEF Wasm, Good
<1> QED
  BY <1>1, <1>4, <1>5 DEF Surfaces
-----------------------------------------------------------------------------
\* A nonempty set of naturals has a least element: what Least returns.
LEMMA LeastExists ==
    ASSUME NEW S \in SUBSET Nat, S # {}
    PROVE  Table!Least(S) \in S
<1> DEFINE R == OpToRel(<, Nat)
<1>1. \E x \in S : \A y \in S : ~(<<y, x>> \in R)
  <2>1. IsWellFoundedOn(R, Nat)
    BY NatLessThanWellFounded
  <2> HIDE DEF R
  <2> QED
    BY <2>1, WFMin
<1>2. \A x, y \in Nat : y < x => <<y, x>> \in R
  BY DEF OpToRel
<1> HIDE DEF R
<1>3. PICK x \in S : \A y \in S : ~(<<y, x>> \in R)
  BY <1>1
<1>4. ASSUME NEW y \in S PROVE x <= y
  <2>1. x \in Nat /\ y \in Nat /\ ~(y < x)
    BY <1>2, <1>3
  <2> QED
    BY <2>1
<1> QED
  BY <1>4 DEF Table!Least

\* What the operations of the table do to entries, guards and fates.
LEMMA AllocateEffect ==
    ASSUME Placed, NEW t \in Thread, NEW o \in Obj, Table!Allocate(t, o)
    PROVE  /\ fate[o] = "fresh" /\ guard' = guard
           /\ \A x \in Obj \ {o} : fate'[x] = fate[x]
           /\ \/ /\ res'[t] = "ok"
                 /\ fate'[o] = "live"
                 /\ \E h \in Table!Id \ DOMAIN hmap :
                       hmap' = [i \in DOMAIN hmap \cup {h} |-> IF i = h THEN o ELSE hmap[i]]
              \/ /\ res'[t] = "TableFull"
                 /\ fate'[o] = "dropped" /\ hmap' = hmap
           /\ fate' \in [Obj -> {"fresh", "live", "consumed", "dropped"}]
           /\ res' \in [Thread -> Table!Result]
<1>1. /\ fate[o] = "fresh" /\ guard' = guard
      /\ Table!AllocateOk(t, o) \/ Table!AllocateFull(t, o)
  BY DEF Table!Allocate
<1>2. /\ fate \in [Obj -> {"fresh", "live", "consumed", "dropped"}]
      /\ res \in [Thread -> Table!Result]
  BY DEF Placed, TableType
<1>3. CASE Table!AllocateOk(t, o)
  <2>1. Table!NextFree \in Table!FreeIds
    <3>1. Table!FreeIds \subseteq Nat /\ Table!Ahead \subseteq Table!FreeIds
      BY DEF Table!FreeIds, Table!Ahead, Table!Id
    <3>2. Table!FreeIds # {}
      BY <1>3 DEF Table!AllocateOk
    <3>3. Table!Least(Table!FreeIds) \in Table!FreeIds
      BY <3>1, <3>2, LeastExists
    <3>4. Table!Ahead # {} => Table!Least(Table!Ahead) \in Table!FreeIds
      BY <3>1, LeastExists
    <3> QED
      BY <3>3, <3>4 DEF Table!NextFree
  <2> QED
    BY <1>1, <1>2, <1>3, <2>1 DEF Table!AllocateOk, Table!FreeIds, Table!Insert,
                                  Table!Return, Table!Result
<1>4. CASE Table!AllocateFull(t, o)
  BY <1>1, <1>2, <1>4 DEF Table!AllocateFull, Table!Return, Table!Result
<1> QED
  BY <1>1, <1>3, <1>4

LEMMA LookupOk ==
    ASSUME Placed, NEW h, NEW T, Table!Lookup(h, T) = "ok"
    PROVE  /\ h # 0 /\ h \in DOMAIN hmap /\ h \in Table!Id
           /\ hmap[h] \in Obj /\ hmap[h] # None /\ TypeOf[hmap[h]] = T
<1>1. h # 0 /\ h \in DOMAIN hmap /\ hmap[h] # None /\ TypeOf[hmap[h]] = T
  BY DEF Table!Lookup
<1> QED
  BY <1>1 DEF Placed, TableType

LEMMA GetEffect ==
    ASSUME Placed, NEW t \in Thread, NEW h, NEW T, Table!Get(t, h, T)
    PROVE  /\ ~Table!Holds(t) /\ Table!Lookup(h, T) = "ok"
           /\ DOMAIN hmap' = DOMAIN hmap /\ hmap'[h] = None
           /\ \A i \in DOMAIN hmap \ {h} : hmap'[i] = hmap[i]
           /\ guard'[t].handle = h /\ guard'[t].ptr = hmap[h]
           /\ \A u \in Thread \ {t} : guard'[u] = guard[u]
           /\ fate' = fate
           /\ TableType'
<1>1. /\ ~Table!Holds(t) /\ Table!Lookup(h, T) = "ok" /\ fate' = fate
      /\ guard' = [guard EXCEPT ![t] = [handle |-> h, ptr |-> hmap[h]]]
      /\ hmap' = [hmap EXCEPT ![h] = None]
      /\ res' = [res EXCEPT ![t] = "ok"]
  BY DEF Table!Get, Table!Idle, Table!Return
<1>2. h # 0 /\ h \in DOMAIN hmap /\ h \in Table!Id /\ hmap[h] \in Obj
  BY <1>1, LookupOk
<1>3. TableType
  BY DEF Placed
<1>4. [handle |-> h, ptr |-> hmap[h]] \in Table!HandleGuard
  BY <1>2 DEF Table!HandleGuard, Table!Entry
<1>5. guard' \in [Thread -> Table!HandleGuard]
  BY <1>1, <1>3, <1>4 DEF TableType
<1>6. /\ guard'[t].handle = h /\ guard'[t].ptr = hmap[h]
      /\ \A u \in Thread \ {t} : guard'[u] = guard[u]
  BY <1>1, <1>3 DEF TableType
<1>7. /\ DOMAIN hmap' = DOMAIN hmap /\ hmap'[h] = None
      /\ \A i \in DOMAIN hmap \ {h} : hmap'[i] = hmap[i]
      /\ hmap' \in [DOMAIN hmap' -> Obj \cup {None}]
  BY <1>1, <1>2, <1>3 DEF TableType
<1>8. TableType'
  BY <1>1, <1>2, <1>3, <1>5, <1>6, <1>7 DEF TableType, Table!Result
<1> QED
  BY <1>1, <1>6, <1>7, <1>8

LEMMA TakeEffect ==
    ASSUME Placed, NEW t \in Thread, NEW h, NEW T, Table!Take(t, h, T)
    PROVE  /\ ~Table!Holds(t) /\ Table!Lookup(h, T) = "ok" /\ guard' = guard
           /\ DOMAIN hmap' = DOMAIN hmap \ {h}
           /\ \A i \in DOMAIN hmap \ {h} : hmap'[i] = hmap[i]
           /\ fate'[hmap[h]] = "consumed"
           /\ \A x \in Obj \ {hmap[h]} : fate'[x] = fate[x]
           /\ TableType'
<1>1. /\ ~Table!Holds(t) /\ Table!Lookup(h, T) = "ok" /\ guard' = guard
      /\ fate' = [fate EXCEPT ![hmap[h]] = "consumed"]
      /\ hmap' = [i \in DOMAIN hmap \ {h} |-> hmap[i]]
      /\ res' = [res EXCEPT ![t] = "ok"]
  BY DEF Table!Take, Table!Idle, Table!Return, Table!Remove
<1>2. h \in DOMAIN hmap /\ hmap[h] \in Obj
  BY <1>1, LookupOk
<1>3. TableType
  BY DEF Placed
<1>4. TableType'
  BY <1>1, <1>2, <1>3 DEF TableType, Table!Result
<1> QED
  BY <1>1, <1>2, <1>3, <1>4 DEF TableType

LEMMA FreeEffect ==
    ASSUME Placed, NEW t \in Thread, NEW h, Table!Free(t, h)
    PROVE  /\ ~Table!Holds(t) /\ guard' = guard /\ h \in DOMAIN hmap
           /\ DOMAIN hmap' = DOMAIN hmap \ {h}
           /\ \A i \in DOMAIN hmap \ {h} : hmap'[i] = hmap[i]
           /\ \A x \in Obj : fate'[x] = IF x = hmap[h] THEN "dropped" ELSE fate[x]
           /\ TableType'
<1>1. /\ ~Table!Holds(t) /\ guard' = guard /\ h \in DOMAIN hmap
      /\ fate' = [o \in Obj |-> IF o = hmap[h] THEN "dropped" ELSE fate[o]]
      /\ hmap' = [i \in DOMAIN hmap \ {h} |-> hmap[i]]
      /\ res' = [res EXCEPT ![t] = "ok"]
  BY DEF Table!Free, Table!Idle, Table!Return, Table!Remove, Table!Evicted
<1>2. TableType
  BY DEF Placed
<1>3. TableType'
  BY <1>1, <1>2 DEF TableType, Table!Result
<1> QED
  BY <1>1, <1>3

LEMMA DropGuardEffect ==
    ASSUME Placed, NEW t \in Thread, Table!DropGuard(t)
    PROVE  LET h == guard[t].handle
               p == guard[t].ptr
           IN  /\ Table!Holds(t) /\ p \in Obj /\ h \in Table!Id /\ h # 0
               /\ DOMAIN hmap' = DOMAIN hmap \cup {h} /\ hmap'[h] = p
               /\ \A i \in DOMAIN hmap \ {h} : hmap'[i] = hmap[i]
               /\ \A x \in Obj : fate'[x] = IF h \in DOMAIN hmap /\ x = hmap[h]
                                           THEN "dropped" ELSE fate[x]
               /\ guard'[t].ptr = None /\ guard'[t].handle = 0
               /\ \A u \in Thread \ {t} : guard'[u] = guard[u]
               /\ TableType'
<1> DEFINE h == guard[t].handle
           p == guard[t].ptr
<1>1. /\ p # None
      /\ fate' = [o \in Obj |-> IF h \in DOMAIN hmap /\ o = hmap[h] THEN "dropped" ELSE fate[o]]
      /\ hmap' = [i \in DOMAIN hmap \cup {h} |-> IF i = h THEN p ELSE hmap[i]]
      /\ guard' = [guard EXCEPT ![t] = Table!NoGuard]
      /\ res' = res
  BY DEF Table!DropGuard, Table!Holds, Table!Insert, Table!Evicted
<1>2. TableType /\ guard[t] \in Table!HandleGuard
  BY DEF Placed, TableType
<1>3. p \in Obj /\ h \in Table!Id /\ h # 0
  BY <1>1, <1>2 DEF TableType, Table!HandleGuard, Table!Entry
<1> HIDE DEF h, p
<1>4. Table!NoGuard \in Table!HandleGuard /\ Table!NoGuard.ptr = None /\ Table!NoGuard.handle = 0
  BY DEF Table!NoGuard, Table!HandleGuard, Table!Entry
<1>5. /\ guard' \in [Thread -> Table!HandleGuard]
      /\ guard'[t].ptr = None /\ guard'[t].handle = 0
      /\ \A u \in Thread \ {t} : guard'[u] = guard[u]
  BY <1>1, <1>2, <1>4 DEF TableType
<1>6. /\ DOMAIN hmap' = DOMAIN hmap \cup {h} /\ hmap'[h] = p
      /\ \A i \in DOMAIN hmap \ {h} : hmap'[i] = hmap[i]
      /\ hmap' \in [DOMAIN hmap' -> Obj \cup {None}]
  BY <1>1, <1>2, <1>3 DEF TableType
<1>7. TableType'
  BY <1>1, <1>2, <1>3, <1>5, <1>6 DEF TableType
<1>8. Table!Holds(t)
  BY <1>1 DEF Table!Holds, p
<1> QED
  BY <1>1, <1>3, <1>5, <1>6, <1>7, <1>8 DEF h, p
\* The operations of the table keep every object in its place.
LEMMA PlacedKept ==
    ASSUME Placed, UNCHANGED <<hmap, guard, fate>>, res' \in [Thread -> Table!Result]
    PROVE  Placed'
BY DEF Placed, TableType, EntriesLive, GuardsLive, EntriesDiffer, GuardsDiffer, Apart,
       Table!InUseIsHeld, Table!Holds

LEMMA LookupErrorEffect ==
    ASSUME Placed, NEW t \in Thread, NEW h, NEW T, Table!LookupError(t, h, T)
    PROVE  /\ ~Table!Holds(t) /\ UNCHANGED <<hmap, guard, fate>>
           /\ res'[t] \in {"NullHandle", "NotFound", "InUse", "InvalidType"}
           /\ Placed'
<1>1. /\ ~Table!Holds(t) /\ UNCHANGED <<hmap, guard, fate>>
      /\ Table!Lookup(h, T) # "ok" /\ res' = [res EXCEPT ![t] = Table!Lookup(h, T)]
  BY DEF Table!LookupError, Table!Idle, Table!Return
<1>2. Table!Lookup(h, T) \in {"NullHandle", "NotFound", "InUse", "InvalidType"}
  BY <1>1 DEF Table!Lookup
<1>3. res \in [Thread -> Table!Result]
  BY DEF Placed, TableType
<1>4. res' \in [Thread -> Table!Result] /\ res'[t] = Table!Lookup(h, T)
  BY <1>1, <1>2, <1>3 DEF Table!Result
<1> QED
  BY <1>1, <1>2, <1>4, PlacedKept

LEMMA FreeErrorEffect ==
    ASSUME Placed, NEW t \in Thread, NEW h, Table!FreeError(t, h)
    PROVE  /\ ~Table!Holds(t) /\ UNCHANGED <<hmap, guard, fate>>
           /\ res'[t] = "NotFound"
           /\ Placed'
<1>1. /\ ~Table!Holds(t) /\ UNCHANGED <<hmap, guard, fate>>
      /\ res' = [res EXCEPT ![t] = "NotFound"]
  BY DEF Table!FreeError, Table!Idle, Table!Return
<1>2. res \in [Thread -> Table!Result]
  BY DEF Placed, TableType
<1>3. res' \in [Thread -> Table!Result] /\ res'[t] = "NotFound"
  BY <1>1, <1>2 DEF Table!Result
<1> QED
  BY <1>1, <1>3, PlacedKept

LEMMA AllocatePlaced ==
    ASSUME Placed, NEW t \in Thread, NEW o \in Obj, Table!Allocate(t, o)
    PROVE  Placed'
<1>1. /\ fate[o] = "fresh" /\ guard' = guard
      /\ \A x \in Obj \ {o} : fate'[x] = fate[x]
      /\ fate' \in [Obj -> {"fresh", "live", "consumed", "dropped"}]
      /\ res' \in [Thread -> Table!Result]
  BY AllocateEffect
<1>2. /\ TableType /\ EntriesLive /\ GuardsLive /\ EntriesDiffer /\ GuardsDiffer /\ Apart
      /\ Table!InUseIsHeld
  BY DEF Placed
<1>3. /\ \A h \in DOMAIN hmap : hmap[h] # None => hmap[h] \in Obj \ {o}
      /\ \A u \in Thread : Table!Holds(u) => guard[u].ptr \in Obj \ {o}
  <2>1. ASSUME NEW u \in Thread, Table!Holds(u) PROVE guard[u].ptr \in Obj
    <3>1. guard[u] \in Table!HandleGuard
      BY <1>2 DEF TableType
    <3> QED
      BY <2>1, <3>1 DEF Table!HandleGuard, Table!Entry, Table!Holds
  <2> QED
    BY <1>1, <1>2, <2>1 DEF TableType, EntriesLive, GuardsLive
<1>4. CASE hmap' = hmap
  <2>1. TableType'
    BY <1>1, <1>2, <1>4 DEF TableType
  <2>2. EntriesLive' /\ GuardsLive'
    BY <1>1, <1>2, <1>3, <1>4 DEF EntriesLive, GuardsLive, Table!Holds
  <2> QED
    BY <1>1, <1>2, <1>4, <2>1, <2>2
       DEF Placed, EntriesDiffer, GuardsDiffer, Apart, Table!InUseIsHeld, Table!Holds
<1>5. CASE hmap' # hmap
  <2>1. /\ fate'[o] = "live"
        /\ \E h \in Table!Id \ DOMAIN hmap :
              hmap' = [i \in DOMAIN hmap \cup {h} |-> IF i = h THEN o ELSE hmap[i]]
    BY <1>5, AllocateEffect
  <2>2. PICK h \in Table!Id \ DOMAIN hmap :
              hmap' = [i \in DOMAIN hmap \cup {h} |-> IF i = h THEN o ELSE hmap[i]]
    BY <2>1
  <2>3. /\ DOMAIN hmap' = DOMAIN hmap \cup {h} /\ hmap'[h] = o
        /\ \A i \in DOMAIN hmap : hmap'[i] = hmap[i] /\ i # h
    BY <2>2
  <2>4. TableType'
    BY <1>1, <1>2, <2>2 DEF TableType
  <2>5. EntriesLive'
    BY <1>1, <1>2, <1>3, <2>1, <2>3 DEF EntriesLive
  <2>6. GuardsLive'
    BY <1>1, <1>2, <1>3 DEF GuardsLive, Table!Holds
  <2>7. EntriesDiffer'
    BY <1>2, <1>3, <2>3 DEF EntriesDiffer
  <2>8. GuardsDiffer'
    BY <1>1, <1>2 DEF GuardsDiffer, Table!Holds
  <2>9. Apart'
    BY <1>1, <1>2, <1>3, <2>3 DEF Apart, Table!Holds
  <2>10. Table!InUseIsHeld'
    BY <1>1, <1>2, <2>3, FfiAssumption DEF Table!InUseIsHeld, Table!Holds
  <2> QED
    BY <2>4, <2>5, <2>6, <2>7, <2>8, <2>9, <2>10 DEF Placed
<1> QED
  BY <1>4, <1>5

LEMMA GetPlaced ==
    ASSUME Placed, NEW t \in Thread, NEW h, NEW T, Table!Get(t, h, T)
    PROVE  Placed'
<1>1. /\ ~Table!Holds(t)
      /\ DOMAIN hmap' = DOMAIN hmap /\ hmap'[h] = None
      /\ \A i \in DOMAIN hmap \ {h} : hmap'[i] = hmap[i]
      /\ guard'[t].handle = h /\ guard'[t].ptr = hmap[h]
      /\ \A u \in Thread \ {t} : guard'[u] = guard[u]
      /\ fate' = fate
      /\ TableType'
  BY GetEffect
<1>2. h \in DOMAIN hmap /\ hmap[h] \in Obj /\ hmap[h] # None
  <2>1. Table!Lookup(h, T) = "ok"
    BY DEF Table!Get
  <2> QED
    BY <2>1, LookupOk
<1>3. /\ TableType /\ EntriesLive /\ GuardsLive /\ EntriesDiffer /\ GuardsDiffer /\ Apart
      /\ Table!InUseIsHeld
  BY DEF Placed
<1>4. EntriesLive' /\ EntriesDiffer'
  BY <1>1, <1>2, <1>3 DEF EntriesLive, EntriesDiffer
<1>5. GuardsLive'
  BY <1>1, <1>2, <1>3 DEF EntriesLive, GuardsLive, Table!Holds
<1>6. GuardsDiffer'
  BY <1>1, <1>2, <1>3 DEF GuardsDiffer, Apart, Table!Holds
<1>7. Apart'
  BY <1>1, <1>2, <1>3 DEF EntriesDiffer, Apart, Table!Holds
<1>8. Table!InUseIsHeld'
  BY <1>1, <1>2, <1>3 DEF Table!InUseIsHeld, Table!Holds
<1> QED
  BY <1>1, <1>4, <1>5, <1>6, <1>7, <1>8 DEF Placed

LEMMA TakePlaced ==
    ASSUME Placed, NEW t \in Thread, NEW h, NEW T, Table!Take(t, h, T)
    PROVE  Placed'
<1>1. /\ guard' = guard
      /\ DOMAIN hmap' = DOMAIN hmap \ {h}
      /\ \A i \in DOMAIN hmap \ {h} : hmap'[i] = hmap[i]
      /\ \A x \in Obj \ {hmap[h]} : fate'[x] = fate[x]
      /\ TableType'
  BY TakeEffect
<1>2. h \in DOMAIN hmap /\ hmap[h] \in Obj /\ hmap[h] # None
  <2>1. Table!Lookup(h, T) = "ok"
    BY DEF Table!Take
  <2> QED
    BY <2>1, LookupOk
<1>3. /\ TableType /\ EntriesLive /\ GuardsLive /\ EntriesDiffer /\ GuardsDiffer /\ Apart
      /\ Table!InUseIsHeld
  BY DEF Placed
<1>4. EntriesLive' /\ EntriesDiffer'
  BY <1>1, <1>2, <1>3 DEF EntriesLive, EntriesDiffer, TableType
<1>5. GuardsLive'
  <2>1. ASSUME NEW u \in Thread, Table!Holds(u) PROVE guard[u].ptr \in Obj \ {hmap[h]}
    <3>1. guard[u] \in Table!HandleGuard
      BY <1>3 DEF TableType
    <3> QED
      BY <1>2, <1>3, <2>1, <3>1 DEF Table!HandleGuard, Table!Entry, Table!Holds, Apart
  <2> QED
    BY <1>1, <1>3, <2>1 DEF GuardsLive, Table!Holds
<1>6. GuardsDiffer' /\ Apart'
  BY <1>1, <1>3 DEF GuardsDiffer, Apart, Table!Holds
<1>7. Table!InUseIsHeld'
  BY <1>1, <1>3 DEF Table!InUseIsHeld, Table!Holds
<1> QED
  BY <1>1, <1>4, <1>5, <1>6, <1>7 DEF Placed

LEMMA FreePlaced ==
    ASSUME Placed, NEW t \in Thread, NEW h, Table!Free(t, h)
    PROVE  Placed'
<1>1. /\ guard' = guard /\ h \in DOMAIN hmap
      /\ DOMAIN hmap' = DOMAIN hmap \ {h}
      /\ \A i \in DOMAIN hmap \ {h} : hmap'[i] = hmap[i]
      /\ \A x \in Obj : fate'[x] = IF x = hmap[h] THEN "dropped" ELSE fate[x]
      /\ TableType'
  BY FreeEffect
<1>3. /\ TableType /\ EntriesLive /\ GuardsLive /\ EntriesDiffer /\ GuardsDiffer /\ Apart
      /\ Table!InUseIsHeld
  BY DEF Placed
<1>4. EntriesLive' /\ EntriesDiffer'
  BY <1>1, <1>3 DEF EntriesLive, EntriesDiffer, TableType
<1>5. GuardsLive'
  <2>1. ASSUME NEW u \in Thread, Table!Holds(u) PROVE guard[u].ptr \in Obj \ {hmap[h]}
    <3>1. guard[u] \in Table!HandleGuard
      BY <1>3 DEF TableType
    <3> QED
      BY <1>1, <1>3, <2>1, <3>1 DEF Table!HandleGuard, Table!Entry, Table!Holds, Apart
  <2> QED
    BY <1>1, <1>3, <2>1 DEF GuardsLive, Table!Holds
<1>6. GuardsDiffer' /\ Apart'
  BY <1>1, <1>3 DEF GuardsDiffer, Apart, Table!Holds
<1>7. Table!InUseIsHeld'
  BY <1>1, <1>3 DEF Table!InUseIsHeld, Table!Holds
<1> QED
  BY <1>1, <1>4, <1>5, <1>6, <1>7 DEF Placed

LEMMA DropGuardPlaced ==
    ASSUME Placed, NEW t \in Thread, Table!DropGuard(t)
    PROVE  Placed'
<1> DEFINE h == guard[t].handle
           p == guard[t].ptr
<1>1. /\ Table!Holds(t) /\ p \in Obj
      /\ DOMAIN hmap' = DOMAIN hmap \cup {h} /\ hmap'[h] = p
      /\ \A i \in DOMAIN hmap \ {h} : hmap'[i] = hmap[i]
      /\ \A x \in Obj : fate'[x] = IF h \in DOMAIN hmap /\ x = hmap[h]
                                  THEN "dropped" ELSE fate[x]
      /\ guard'[t].ptr = None /\ guard'[t].handle = 0
      /\ \A u \in Thread \ {t} : guard'[u] = guard[u]
      /\ TableType'
  BY DropGuardEffect
<1>2. p # None /\ p = guard[t].ptr /\ h = guard[t].handle
  BY <1>1, FfiAssumption
<1>3. /\ TableType /\ EntriesLive /\ GuardsLive /\ EntriesDiffer /\ GuardsDiffer /\ Apart
      /\ Table!InUseIsHeld
  BY DEF Placed
<1> HIDE DEF h, p
<1>4. \A u \in Thread : Table!Holds(u) =>
          guard[u].ptr \in Obj /\ \A i \in DOMAIN hmap : hmap[i] # guard[u].ptr
  <2>1. ASSUME NEW u \in Thread, Table!Holds(u) PROVE guard[u].ptr \in Obj
    <3>1. guard[u] \in Table!HandleGuard
      BY <1>3 DEF TableType
    <3> QED
      BY <2>1, <3>1 DEF Table!HandleGuard, Table!Entry, Table!Holds
  <2> QED
    BY <1>3, <2>1 DEF Apart
<1>5. fate'[p] = "live"
  BY <1>1, <1>2, <1>3, <1>4 DEF GuardsLive
<1>6. EntriesLive'
  <2> SUFFICES ASSUME NEW i \in DOMAIN hmap', hmap'[i] # None
               PROVE  fate'[hmap'[i]] = "live"
    BY DEF EntriesLive
  <2>1. CASE i = h
    BY <1>1, <1>5, <2>1
  <2>2. CASE i # h
    <3>1. i \in DOMAIN hmap /\ hmap'[i] = hmap[i] /\ hmap[i] \in Obj
      BY <1>1, <1>3, <2>2 DEF TableType
    <3>2. h \in DOMAIN hmap => hmap[h] # hmap[i]
      BY <1>3, <2>2, <3>1 DEF EntriesDiffer
    <3> QED
      BY <1>1, <1>3, <3>1, <3>2 DEF EntriesLive
  <2> QED
    BY <2>1, <2>2
<1>7. GuardsLive'
  BY <1>1, <1>3, <1>4 DEF GuardsLive, Table!Holds
<1>8. EntriesDiffer'
  BY <1>1, <1>2, <1>3, <1>4 DEF EntriesDiffer
<1>9. GuardsDiffer'
  BY <1>1, <1>3 DEF GuardsDiffer, Table!Holds
<1>10. Apart'
  BY <1>1, <1>2, <1>3, <1>4 DEF GuardsDiffer, Apart, Table!Holds
<1>11. Table!InUseIsHeld'
  BY <1>1, <1>2, <1>3 DEF Table!InUseIsHeld, Table!Holds
<1> QED
  BY <1>1, <1>6, <1>7, <1>8, <1>9, <1>10, <1>11 DEF Placed
-----------------------------------------------------------------------------
\* What is left of a body after its next step.
LEMMA TailOf ==
    ASSUME NEW p \in Seq(StepType), p # <<>>
    PROVE  /\ Len(p) \in Nat /\ Len(p) > 0 /\ DOMAIN p = 1..Len(p)
           /\ Tail(p) \in Seq(StepType)
           /\ DOMAIN Tail(p) = 1..(Len(p) - 1)
           /\ \A j \in 1..(Len(p) - 1) : Tail(p)[j] = p[j + 1] /\ j + 1 \in DOMAIN p
           /\ Head(p) = p[1] /\ 1 \in DOMAIN p /\ Head(p) \in StepType
<1>1. Len(p) \in Nat /\ Len(p) > 0 /\ DOMAIN p = 1..Len(p)
  BY EmptySeq, LenProperties
<1>2. /\ Tail(p) \in Seq(StepType) /\ Len(Tail(p)) = Len(p) - 1
      /\ \A j \in 1..Len(Tail(p)) : Tail(p)[j] = p[j + 1]
      /\ Head(p) = p[1]
  BY HeadTailProperties
<1>3. DOMAIN Tail(p) = 1..(Len(p) - 1)
  BY <1>2, LenProperties
<1> QED
  BY <1>1, <1>2, <1>3

LEMMA ShapeOfTail ==
    ASSUME NEW p \in Seq(StepType), p # <<>>, Shape(p)
    PROVE  /\ Shape(Tail(p))
           /\ Head(p).op # "fails" => \A j \in DOMAIN Tail(p) : Tail(p)[j].op \notin Naming
           /\ Head(p).op = "out" => Tail(p) = <<>>
           /\ Head(p).op \in {"alloc", "new"} =>
                 \A j \in DOMAIN Tail(p) : Tail(p)[j].op = "out" /\ Tail(p)[j].errs = {}
           /\ Head(p).errs \subseteq {"failed"}
<1>1. /\ Len(p) \in Nat /\ Len(p) > 0 /\ DOMAIN p = 1..Len(p)
      /\ Tail(p) \in Seq(StepType)
      /\ DOMAIN Tail(p) = 1..(Len(p) - 1)
      /\ \A j \in 1..(Len(p) - 1) : Tail(p)[j] = p[j + 1] /\ j + 1 \in DOMAIN p
      /\ Head(p) = p[1] /\ 1 \in DOMAIN p
  BY TailOf
<1> DEFINE q == Tail(p)
<1>2. /\ q \in Seq(StepType) /\ DOMAIN q = 1..(Len(p) - 1)
      /\ \A j \in DOMAIN q : q[j] = p[j + 1] /\ j + 1 \in DOMAIN p /\ j \in Nat /\ j >= 1
  BY <1>1
<1>3. \A j \in DOMAIN p : j \in Nat /\ (j = 1 \/ (j - 1 \in DOMAIN q /\ q[j - 1] = p[j]))
  BY <1>1
<1> HIDE DEF q
<1>4. Shape(q)
  <2> SUFFICES ASSUME NEW j \in DOMAIN q
               PROVE  /\ q[j].errs \subseteq {"failed"}
                      /\ q[j].op \in Naming => \A i \in DOMAIN q : i < j => q[i].op = "fails"
                      /\ q[j].op = "out" => \A i \in DOMAIN q : i <= j
                      /\ q[j].op \in {"alloc", "new"} =>
                            \A k \in DOMAIN q : k > j => q[k].op = "out" /\ q[k].errs = {}
    BY DEF Shape
  <2>1. q[j] = p[j + 1] /\ j + 1 \in DOMAIN p /\ j \in Nat
    BY <1>2
  <2>2. \A i \in DOMAIN q : i \in Nat /\ i + 1 \in DOMAIN p /\ q[i] = p[i + 1]
                            /\ (i < j <=> i + 1 < j + 1) /\ (i > j <=> i + 1 > j + 1)
                            /\ (i <= j <=> i + 1 <= j + 1)
    BY <1>2, <2>1
  <2> QED
    BY <2>1, <2>2 DEF Shape
<1>5. Head(p).op # "fails" => \A j \in DOMAIN q : q[j].op \notin Naming
  BY <1>1, <1>2 DEF Shape
<1>6. Head(p).op = "out" => q = <<>>
  <2> SUFFICES ASSUME Head(p).op = "out" PROVE q = <<>>
    OBVIOUS
  <2>1. \A i \in DOMAIN p : i <= 1
    BY <1>1 DEF Shape
  <2>2. DOMAIN q = {}
    BY <1>2, <2>1
  <2>3. Len(q) = 0
    BY <1>2, <2>2, LenProperties
  <2> QED
    BY <1>2, <2>3, EmptySeq
<1>7. Head(p).op \in {"alloc", "new"} => \A j \in DOMAIN q : q[j].op = "out" /\ q[j].errs = {}
  BY <1>1, <1>2 DEF Shape
<1>8. Head(p).errs \subseteq {"failed"}
  BY <1>1 DEF Shape
<1> QED
  BY <1>4, <1>5, <1>6, <1>7, <1>8 DEF q

\* The empty rest of a body has the shape.
LEMMA NothingLeft ==
    /\ Shape(<<>>) /\ DOMAIN <<>> = {} /\ <<>> \in Seq(StepType)
BY DEF Shape

\* A step of thread t makes its call this one and leaves the others alone.
Calls(t, todo, arg, obj, new, err) ==
    /\ call' \in [Thread -> CallType]
    /\ call'[t] = [todo |-> todo, arg |-> arg, obj |-> obj, new |-> new, err |-> err]
    /\ \A u \in Thread \ {t} : call'[u] = call[u]

LEMMA CallFields ==
    ASSUME FfiType, NEW t \in Thread
    PROVE  /\ call[t] \in CallType
           /\ call[t] = [todo |-> call[t].todo, arg |-> call[t].arg, obj |-> call[t].obj,
                         new |-> call[t].new, err |-> call[t].err]
           /\ call[t].todo \in Seq(StepType) /\ call[t].arg \in Handle
           /\ call[t].obj \in Obj \cup {None} /\ call[t].new \in Handle
           /\ call[t].err \in {"idle", "ok"} \cup Codes
<1>1. call[t] \in CallType
  BY DEF FfiType
<1> QED
  BY <1>1 DEF CallType

LEMMA CallSet ==
    ASSUME FfiType, NEW t \in Thread, NEW td \in Seq(StepType), NEW a \in Handle,
           NEW o \in Obj \cup {None}, NEW n \in Handle, NEW e \in {"idle", "ok"} \cup Codes,
           call' = [call EXCEPT ![t] = [todo |-> td, arg |-> a, obj |-> o, new |-> n, err |-> e]]
    PROVE  Calls(t, td, a, o, n, e)
<1> DEFINE d == [todo |-> td, arg |-> a, obj |-> o, new |-> n, err |-> e]
<1>1. d \in CallType
  BY DEF CallType
<1>2. call \in [Thread -> CallType] /\ call' = [call EXCEPT ![t] = d]
  BY DEF FfiType
<1> HIDE DEF d
<1>3. call' \in [Thread -> CallType] /\ call'[t] = d /\ \A u \in Thread \ {t} : call'[u] = call[u]
  BY <1>1, <1>2
<1> QED
  BY <1>3 DEF Calls, d

LEMMA CallOn ==
    ASSUME NEW c \in CallType, NEW d, d = [c EXCEPT !.todo = Tail(@)]
    PROVE  d = [todo |-> Tail(c.todo), arg |-> c.arg, obj |-> c.obj, new |-> c.new,
                err |-> c.err]
BY DEF CallType

LEMMA CallNamed ==
    ASSUME NEW c \in CallType, NEW o \in Obj,
           NEW d, d = [[c EXCEPT !.arg = 0, !.obj = o] EXCEPT !.todo = Tail(@)]
    PROVE  d = [todo |-> Tail(c.todo), arg |-> 0, obj |-> o, new |-> c.new, err |-> c.err]
BY DEF CallType, Handle

LEMMA CallNew ==
    ASSUME NEW c \in CallType, NEW n \in Handle,
           NEW d, d = [[c EXCEPT !.new = n] EXCEPT !.todo = Tail(@)]
    PROVE  d = [todo |-> Tail(c.todo), arg |-> c.arg, obj |-> c.obj, new |-> n, err |-> c.err]
BY DEF CallType

LEMMA CallEnds ==
    ASSUME NEW c \in CallType, NEW k \in Codes,
           NEW d, d = [c EXCEPT !.todo = <<>>, !.arg = 0, !.err = k]
    PROVE  d = [todo |-> <<>>, arg |-> 0, obj |-> c.obj, new |-> c.new, err |-> k]
BY DEF CallType, Handle

LEMMA GoOnCalls ==
    ASSUME FfiType, NEW t \in Thread, call[t].todo # <<>>
    PROVE  /\ GoOn(t, call[t]) =>
                 Calls(t, Tail(call[t].todo), call[t].arg, call[t].obj, call[t].new, call[t].err)
           /\ \A o \in Obj : GoOn(t, [call[t] EXCEPT !.arg = 0, !.obj = o]) =>
                 Calls(t, Tail(call[t].todo), 0, o, call[t].new, call[t].err)
           /\ \A n \in Handle : GoOn(t, [call[t] EXCEPT !.new = n]) =>
                 Calls(t, Tail(call[t].todo), call[t].arg, call[t].obj, n, call[t].err)
           /\ \A k \in Codes : Err(t, k) =>
                 Calls(t, <<>>, 0, call[t].obj, call[t].new, k)
<1> DEFINE c == call[t]
<1>1. /\ c \in CallType /\ c.todo \in Seq(StepType) /\ c.arg \in Handle
      /\ c.obj \in Obj \cup {None} /\ c.new \in Handle
      /\ c.err \in {"idle", "ok"} \cup Codes
      /\ Tail(c.todo) \in Seq(StepType)
  BY CallFields, TailOf
<1>2. 0 \in Handle /\ <<>> \in Seq(StepType) /\ Codes \subseteq {"idle", "ok"} \cup Codes
  BY NothingLeft DEF Handle
<1>3. ASSUME GoOn(t, c)
      PROVE  Calls(t, Tail(c.todo), c.arg, c.obj, c.new, c.err)
  <2> DEFINE d == [c EXCEPT !.todo = Tail(@)]
             x == [todo |-> Tail(c.todo), arg |-> c.arg, obj |-> c.obj, new |-> c.new, err |-> c.err]
  <2>1. call' = [call EXCEPT ![t] = d]
    BY <1>3 DEF GoOn
  <2>2. \A y : y = d => y = x
    BY <1>1, CallOn
  <2> HIDE DEF d
  <2>3. call' = [call EXCEPT ![t] = x]
    BY <2>1, <2>2
  <2> HIDE DEF c
  <2>4. Calls(t, Tail(c.todo), c.arg, c.obj, c.new, c.err)
    BY <1>1, <1>2, <2>3, CallSet
  <2> QED
    BY <2>4 DEF c
<1>4. ASSUME NEW o \in Obj, GoOn(t, [c EXCEPT !.arg = 0, !.obj = o])
      PROVE  Calls(t, Tail(c.todo), 0, o, c.new, c.err)
  <2> DEFINE d == [[c EXCEPT !.arg = 0, !.obj = o] EXCEPT !.todo = Tail(@)]
             x == [todo |-> Tail(c.todo), arg |-> 0, obj |-> o, new |-> c.new, err |-> c.err]
  <2>1. call' = [call EXCEPT ![t] = d]
    BY <1>4 DEF GoOn
  <2>2. \A y : y = d => y = x
    BY <1>1, CallNamed
  <2> HIDE DEF d
  <2>3. call' = [call EXCEPT ![t] = x]
    BY <2>1, <2>2
  <2> HIDE DEF c
  <2>4. Calls(t, Tail(c.todo), 0, o, c.new, c.err)
    BY <1>1, <1>2, <2>3, CallSet
  <2> QED
    BY <2>4 DEF c
<1>5. ASSUME NEW n \in Handle, GoOn(t, [c EXCEPT !.new = n])
      PROVE  Calls(t, Tail(c.todo), c.arg, c.obj, n, c.err)
  <2> DEFINE d == [[c EXCEPT !.new = n] EXCEPT !.todo = Tail(@)]
             x == [todo |-> Tail(c.todo), arg |-> c.arg, obj |-> c.obj, new |-> n, err |-> c.err]
  <2>1. call' = [call EXCEPT ![t] = d]
    BY <1>5 DEF GoOn
  <2>2. \A y : y = d => y = x
    BY <1>1, CallNew
  <2> HIDE DEF d
  <2>3. call' = [call EXCEPT ![t] = x]
    BY <2>1, <2>2
  <2> HIDE DEF c
  <2>4. Calls(t, Tail(c.todo), c.arg, c.obj, n, c.err)
    BY <1>1, <1>2, <2>3, CallSet
  <2> QED
    BY <2>4 DEF c
<1>6. ASSUME NEW k \in Codes, Err(t, k)
      PROVE  Calls(t, <<>>, 0, c.obj, c.new, k)
  <2> DEFINE d == [c EXCEPT !.todo = <<>>, !.arg = 0, !.err = k]
             x == [todo |-> <<>>, arg |-> 0, obj |-> c.obj, new |-> c.new, err |-> k]
  <2>1. call' = [call EXCEPT ![t] = d]
    <3>1. call \in [Thread -> CallType] /\ call' = [call EXCEPT ![t].todo = <<>>, ![t].arg = 0, ![t].err = k]
      BY <1>6 DEF Err, FfiType
    <3> QED
      BY <3>1
  <2>2. \A y : y = d => y = x
    BY <1>1, CallEnds
  <2> HIDE DEF d
  <2>3. call' = [call EXCEPT ![t] = x]
    BY <2>1, <2>2
  <2> HIDE DEF c
  <2>4. Calls(t, <<>>, 0, c.obj, c.new, k)
    BY <1>1, <1>2, <2>3, CallSet
  <2> QED
    BY <2>4 DEF c
<1> QED
  BY <1>3, <1>4, <1>5, <1>6
-----------------------------------------------------------------------------
\* No step brings an object back: what was created is not fresh again, what was
\* taken or freed is not live again, and what is final stays final.
UnbornAfter(o) == fate'[o] = "fresh" /\ proto'[o] = "none"
FinalAfter(o) ==
    /\ o \in Obj /\ fate'[o] # "live" /\ proto'[o] \notin {"running", "ok", "err"}
    /\ ~UnbornAfter(o)
Stays ==
    \A o \in Obj :
        /\ ~Unborn(o) => ~UnbornAfter(o)
        /\ Final(o) => FinalAfter(o)
        /\ ~Unborn(o) /\ fate[o] # "live" => fate'[o] # "live"

\* The call of thread t goes on to its next step: what its progress then needs.
LEMMA ProgressOn ==
    ASSUME Inv, NEW t \in Thread, call[t].todo # <<>>, NEW a, NEW o, NEW n,
           Calls(t, Tail(call[t].todo), a, o, n, call[t].err), Stays,
           o = call[t].obj \/ Head(call[t].todo).op \in Naming,
           n = call[t].new \/ Head(call[t].todo).op \in {"alloc", "new"},
           Head(call[t].todo).op \in {"take", "this"} => o \in Obj /\ fate'[o] # "live",
           Table!Holds(t)' => o = guard'[t].ptr,
           a \in given' \cup {0}, guard'[t].handle \in given' \cup {0},
           o \in Obj => ~UnbornAfter(o)
    PROVE  Progress(t)'
<1> DEFINE p == call[t].todo
           q == Tail(p)
<1>1. /\ call'[t].todo = q /\ call'[t].arg = a /\ call'[t].obj = o /\ call'[t].new = n
      /\ call'[t].err = call[t].err
  BY DEF Calls
<1>2. Progress(t) /\ FfiType
  BY DEF Inv
<1>3. p \in Seq(StepType) /\ p # <<>>
  BY <1>2, CallFields
<1>4. /\ Len(p) \in Nat /\ Len(p) > 0 /\ DOMAIN p = 1..Len(p)
      /\ DOMAIN q = 1..(Len(p) - 1)
      /\ \A j \in DOMAIN q : q[j] = p[j + 1] /\ j + 1 \in DOMAIN p /\ j \in Nat
      /\ Head(p) = p[1] /\ 1 \in DOMAIN p
  BY <1>3, TailOf
<1>5. /\ call[t].err = "ok"
      /\ call[t].new # 0 => \A j \in DOMAIN p : p[j].op = "out" /\ p[j].errs = {}
      /\ Shape(p)
      /\ \A j \in DOMAIN p :
            /\ p[j].op \in Naming => call[t].obj = None
            /\ p[j].op = "result" =>
                  \/ call[t].obj \in Obj /\ fate[call[t].obj] # "live"
                  \/ \E i \in DOMAIN p : i < j /\ p[i].op \in {"take", "this"}
      /\ call[t].obj \in Obj => ~Unborn(call[t].obj)
  BY <1>2, <1>3 DEF Progress
<1>6. /\ Shape(q)
      /\ Head(p).op # "fails" => \A j \in DOMAIN q : q[j].op \notin Naming
      /\ Head(p).op \in {"alloc", "new"} => \A j \in DOMAIN q : q[j].op = "out" /\ q[j].errs = {}
  BY <1>3, <1>5, ShapeOfTail
<1> HIDE DEF p, q
<1>7. n # 0 => \A j \in DOMAIN q : q[j].op = "out" /\ q[j].errs = {}
  BY <1>4, <1>5, <1>6 DEF p
<1>8. \A j \in DOMAIN q : q[j].op \in Naming => o = None
  BY <1>4, <1>5, <1>6 DEF p, Naming
<1>9. ASSUME NEW j \in DOMAIN q, q[j].op = "result"
      PROVE  \/ o \in Obj /\ fate'[o] # "live"
             \/ \E i \in DOMAIN q : i < j /\ q[i].op \in {"take", "this"}
  <2>1. j + 1 \in DOMAIN p /\ p[j + 1].op = "result" /\ j \in Nat
    BY <1>4, <1>9
  <2>2. CASE \E i \in DOMAIN p : i < j + 1 /\ p[i].op \in {"take", "this"}
    <3>1. PICK i \in DOMAIN p : i < j + 1 /\ p[i].op \in {"take", "this"}
      BY <2>2
    <3>2. CASE i = 1
      BY <1>4, <3>1, <3>2 DEF p
    <3>3. CASE i # 1
      <4>1. i - 1 \in DOMAIN q /\ i - 1 < j /\ q[i - 1] = p[i]
        BY <1>4, <2>1, <3>1, <3>3
      <4> QED
        BY <3>1, <4>1
    <3> QED
      BY <3>2, <3>3
  <2>3. CASE call[t].obj \in Obj /\ fate[call[t].obj] # "live"
    <3>1. o = call[t].obj
      BY <1>4, <2>3, <1>5, FfiAssumption DEF p
    <3> QED
      BY <1>5, <2>3, <3>1 DEF Stays
  <2> QED
    BY <1>5, <2>1, <2>2, <2>3
<1>10. /\ call'[t].err # "ok" => call'[t].todo = <<>>
       /\ call'[t].err = "idle" => call'[t] = NoCall
       /\ call'[t].err = "refused" => call'[t].obj = None
       /\ call'[t].err # "idle"
  BY <1>1, <1>5
<1> QED
  BY <1>1, <1>5, <1>6, <1>7, <1>8, <1>9, <1>10 DEF Progress, Unborn, UnbornAfter

\* The call of thread t ends with an error.
LEMMA ProgressEnds ==
    ASSUME Inv, NEW t \in Thread, NEW k \in Codes, Stays,
           Calls(t, <<>>, 0, call[t].obj, call[t].new, k),
           call[t].new = 0, k = "refused" => call[t].obj = None,
           guard'[t] = guard[t], given \subseteq given'
    PROVE  Progress(t)' /\ ~Due(t)'
<1>1. /\ call'[t].todo = <<>> /\ call'[t].arg = 0 /\ call'[t].obj = call[t].obj
      /\ call'[t].new = 0 /\ call'[t].err = k
  BY DEF Calls
<1>2. /\ Table!Holds(t) => call[t].obj = guard[t].ptr
      /\ guard[t].handle \in given \cup {0}
      /\ call[t].obj \in Obj => ~Unborn(call[t].obj)
  BY DEF Inv, Progress
<1>3. k # "ok" /\ k # "idle"
  BY DEF Codes
<1>4. Table!Holds(t)' => Table!Holds(t) /\ call'[t].obj = guard'[t].ptr
  BY <1>1, <1>2 DEF Table!Holds
<1>5. guard'[t].handle \in given' \cup {0}
  BY <1>2
<1>6. call'[t].obj \in Obj => ~UnbornAfter(call'[t].obj)
  BY <1>1, <1>2 DEF Stays
<1> QED
  BY <1>1, <1>3, <1>4, <1>5, <1>6, NothingLeft DEF Progress, Due, Unborn, UnbornAfter

\* A step that claims nothing brings no call nearer to its output.
LEMMA DueOn ==
    ASSUME Inv, NEW t \in Thread, call[t].todo # <<>>, NEW a, NEW o, NEW n,
           Calls(t, Tail(call[t].todo), a, o, n, call[t].err),
           ~Claim(Head(call[t].todo)), Due(t)'
    PROVE  Due(t)
<1> DEFINE p == call[t].todo
           q == Tail(p)
<1>1. call'[t].todo = q /\ call'[t].err = call[t].err
  BY DEF Calls
<1>2. p \in Seq(StepType) /\ p # <<>>
  BY CallFields DEF Inv
<1>3. /\ Len(p) \in Nat /\ Len(p) > 0 /\ DOMAIN p = 1..Len(p)
      /\ DOMAIN q = 1..(Len(p) - 1)
      /\ \A j \in DOMAIN q : q[j] = p[j + 1] /\ j + 1 \in DOMAIN p /\ j \in Nat
      /\ Head(p) = p[1] /\ 1 \in DOMAIN p
  BY <1>2, TailOf
<1>4. ~Claim(p[1])
  BY <1>3
<1> HIDE DEF p, q
<1>5. PICK j \in DOMAIN q :
          q[j].op = "out" /\ \A i \in DOMAIN q : i < j => ~Claim(q[i])
  BY <1>1 DEF Due
<1>6. j + 1 \in DOMAIN p /\ p[j + 1].op = "out" /\ j \in Nat
  BY <1>3, <1>5
<1>7. ASSUME NEW i \in DOMAIN p, i < j + 1 PROVE ~Claim(p[i])
  <2>1. CASE i = 1
    BY <1>4, <2>1
  <2>2. CASE i # 1
    <3>1. i - 1 \in DOMAIN q /\ i - 1 < j /\ q[i - 1] = p[i]
      BY <1>3, <1>6, <1>7, <2>2
    <3> QED
      BY <1>5, <3>1
  <2> QED
    BY <2>1, <2>2
<1>8. call[t].err = "ok"
  BY <1>1 DEF Due
<1> QED
  BY <1>6, <1>7, <1>8 DEF Due, p

\* A step of thread t leaves the progress of the other calls alone.
LEMMA OthersOn ==
    ASSUME Inv, NEW t \in Thread, Stays, given \subseteq given',
           \A u \in Thread \ {t} : call'[u] = call[u] /\ guard'[u] = guard[u]
    PROVE  \A u \in Thread \ {t} : Progress(u)'
<1>1. ASSUME NEW u \in Thread \ {t} PROVE Progress(u)'
  <2>1. Progress(u) /\ call'[u] = call[u] /\ guard'[u] = guard[u]
    BY DEF Inv
  <2>2. \A j \in DOMAIN call[u].todo :
          /\ call[u].todo[j].op \in Naming => call[u].obj = None
          /\ call[u].todo[j].op = "result" =>
                \/ call[u].obj \in Obj /\ fate'[call[u].obj] # "live"
                \/ \E i \in DOMAIN call[u].todo :
                      i < j /\ call[u].todo[i].op \in {"take", "this"}
    BY <2>1 DEF Progress, Stays
  <2>3. /\ call[u].arg \in given' \cup {0} /\ guard[u].handle \in given' \cup {0}
        /\ call[u].obj \in Obj => ~UnbornAfter(call[u].obj)
    BY <2>1 DEF Progress, Stays
  <2>4. /\ call[u].err # "ok" => call[u].todo = <<>>
        /\ call[u].err = "idle" => call[u] = NoCall
        /\ call[u].err = "refused" => call[u].obj = None
        /\ call[u].new # 0 =>
              /\ call[u].err = "ok"
              /\ \A j \in DOMAIN call[u].todo :
                    call[u].todo[j].op = "out" /\ call[u].todo[j].errs = {}
        /\ Shape(call[u].todo)
    BY <2>1 DEF Progress
  <2>5. Table!Holds(u)' => call[u].obj = guard[u].ptr /\ call[u].err # "idle"
    BY <2>1 DEF Progress, Table!Holds
  <2> QED
    BY <2>1, <2>2, <2>3, <2>4, <2>5 DEF Progress, Unborn, UnbornAfter
<1> QED
  BY <1>1

\* What holds of the calls and outputs after a step of thread t, from what holds
\* of its own call: it claims nothing, or it claims what nobody had claimed.
LEMMA Carried ==
    ASSUME Inv, NEW t \in Thread, Stays, outs' = outs, given \subseteq given',
           \A u \in Thread \ {t} : call'[u] = call[u] /\ guard'[u] = guard[u],
           Progress(t)',
           Due(t)' => \/ Due(t) /\ call'[t].obj = call[t].obj
                      \/ /\ FinalAfter(call'[t].obj) /\ ~Final(call'[t].obj)
                         /\ outs[call'[t].obj] = 0
    PROVE  /\ \A u \in Thread : Progress(u)'
           /\ LastUse'
           /\ \A o \in Obj : outs'[o] = 1 => FinalAfter(o)
<1>1. \A u \in Thread \ {t} : Progress(u)'
  BY OthersOn
<1>2. ASSUME NEW u \in Thread, Due(u)'
      PROVE  /\ FinalAfter(call'[u].obj) /\ outs[call'[u].obj] = 0
             /\ Final(call'[u].obj) => Due(u) /\ call'[u].obj = call[u].obj
  <2>1. CASE u = t /\ ~(Due(t) /\ call'[t].obj = call[t].obj)
    BY <1>2, <2>1
  <2>2. CASE ~(u = t /\ ~(Due(t) /\ call'[t].obj = call[t].obj))
    <3>1. Due(u) /\ call'[u].obj = call[u].obj
      BY <1>2, <2>2 DEF Due
    <3>2. Final(call[u].obj) /\ outs[call[u].obj] = 0
      BY <3>1 DEF Inv, LastUse
    <3>3. FinalAfter(call[u].obj)
      BY <3>2 DEF Stays, Final
    <3> QED
      BY <3>1, <3>2, <3>3
  <2> QED
    BY <2>1, <2>2
<1>3. \A u \in Thread \ {t} : Due(u)' => Due(u) /\ call'[u].obj = call[u].obj
  BY DEF Due
<1>4. ASSUME NEW u \in Thread, NEW v \in Thread, Due(u)', Due(v)', call'[u].obj = call'[v].obj
      PROVE  u = v
  <2>1. CASE u # t \/ v # t
    <3>1. Final(call'[u].obj)
      BY <1>3, <1>4, <2>1 DEF Inv, LastUse
    <3>2. Due(u) /\ Due(v) /\ call[u].obj = call[v].obj
      BY <1>2, <1>4, <3>1
    <3> QED
      BY <3>2 DEF Inv, LastUse
  <2> QED
    BY <2>1
<1>5. LastUse'
  <2>1. \A u \in Thread : Due(u)' => Final(call[u].obj)' /\ outs'[call'[u].obj] = 0
    BY <1>2 DEF Final, FinalAfter, Unborn, UnbornAfter, Unread
  <2> QED
    BY <1>4, <2>1 DEF LastUse
<1>6. \A o \in Obj : outs'[o] = 1 => FinalAfter(o)
  BY DEF Inv, Object, Stays
<1> QED
  BY <1>1, <1>5, <1>6
-----------------------------------------------------------------------------
\* A thread at a step: what the invariant says of its call.
LEMMA AtStep ==
    ASSUME Inv, NEW t \in Thread, NEW op, At(t, op)
    PROVE  /\ call[t].todo # <<>> /\ Head(call[t].todo).op = op /\ call[t].err = "ok"
           /\ Here(t) = Head(call[t].todo) /\ Here(t) \in StepType
           /\ Here(t).errs \subseteq {"failed"} /\ "failed" \in Codes
           /\ op \in Naming => call[t].obj = None /\ ~Table!Holds(t)
           /\ op # "out" \/ Here(t).errs # {} => call[t].new = 0
           /\ op = "result" => call[t].obj \in Obj /\ fate[call[t].obj] # "live"
           /\ call[t].obj \in Obj => ~Unborn(call[t].obj)
           /\ call[t].arg \in given \cup {0} /\ guard[t].handle \in given \cup {0}
           /\ Table!Holds(t) => call[t].obj = guard[t].ptr
<1> DEFINE p == call[t].todo
<1>1. /\ p # <<>> /\ Head(p).op = op /\ Here(t) = Head(p) /\ Progress(t)
      /\ p \in Seq(StepType)
  BY CallFields DEF At, Here, Inv
<1>2. /\ Len(p) \in Nat /\ DOMAIN p = 1..Len(p) /\ Head(p) = p[1] /\ 1 \in DOMAIN p
      /\ Head(p) \in StepType
  BY <1>1, TailOf
<1>3. /\ call[t].err = "ok"
      /\ call[t].new # 0 => \A j \in DOMAIN p : p[j].op = "out" /\ p[j].errs = {}
      /\ Shape(p)
      /\ \A j \in DOMAIN p :
            /\ p[j].op \in Naming => call[t].obj = None
            /\ p[j].op = "result" =>
                  \/ call[t].obj \in Obj /\ fate[call[t].obj] # "live"
                  \/ \E i \in DOMAIN p : i < j /\ p[i].op \in {"take", "this"}
      /\ call[t].obj \in Obj => ~Unborn(call[t].obj)
      /\ call[t].arg \in given \cup {0} /\ guard[t].handle \in given \cup {0}
      /\ Table!Holds(t) => call[t].obj = guard[t].ptr
  BY <1>1 DEF Progress
<1>4. Head(p).errs \subseteq {"failed"} /\ "failed" \in Codes
  BY <1>1, <1>3, ShapeOfTail DEF Codes
<1> HIDE DEF p
<1>5. op \in Naming => call[t].obj = None /\ ~Table!Holds(t)
  BY <1>1, <1>2, <1>3 DEF Table!Holds
<1>6. op # "out" \/ Here(t).errs # {} => call[t].new = 0
  BY <1>1, <1>2, <1>3
<1>7. op = "result" => call[t].obj \in Obj /\ fate[call[t].obj] # "live"
  BY <1>1, <1>2, <1>3
<1> QED
  BY <1>1, <1>2, <1>3, <1>4, <1>5, <1>6, <1>7 DEF p

\* What a step leaves of the objects and of the table.
Sound ==
    /\ Stays /\ Placed'
    /\ js' \subseteq Obj
    /\ proto' \in [Obj -> {"none", "plain", "running", "ok", "err", "spent"}]
    /\ \A o \in Obj :
          /\ o \in js' => fate'[o] = "fresh" /\ proto'[o] # "none"
          /\ proto'[o] \in {"running", "ok", "err"} => TypeOf[o] = "Session"

LEMMA SoundQuiet ==
    ASSUME Inv, UNCHANGED <<hmap, guard, fate, js, proto>>, res' \in [Thread -> Table!Result]
    PROVE  Sound
<1>1. Placed'
  BY PlacedKept DEF Inv
<1>2. Stays
  BY DEF Stays, Unborn, UnbornAfter, Final, FinalAfter, Unread
<1>3. \A o \in Obj : Object(o)
  BY DEF Inv
<1> QED
  BY <1>1, <1>2, <1>3 DEF Sound, Inv, FfiType, Object, Unread

LEMMA Assembled ==
    ASSUME Inv, NEW t \in Thread, Sound, surface' = surface, outs' = outs,
           given \subseteq given', given' \subseteq Handle,
           call' \in [Thread -> CallType],
           \A u \in Thread \ {t} : call'[u] = call[u] /\ guard'[u] = guard[u],
           Progress(t)', NoLeak',
           Due(t)' => \/ Due(t) /\ call'[t].obj = call[t].obj
                      \/ /\ FinalAfter(call'[t].obj) /\ ~Final(call'[t].obj)
                         /\ outs[call'[t].obj] = 0
    PROVE  Inv'
<1>1. /\ \A u \in Thread : Progress(u)'
      /\ LastUse'
      /\ \A o \in Obj : outs'[o] = 1 => FinalAfter(o)
  BY Carried DEF Sound
<1>2. FfiType'
  BY DEF Inv, FfiType, Sound
<1>3. \A o \in Obj : Object(o)'
  BY <1>1 DEF Object, Final, FinalAfter, Unborn, UnbornAfter, Unread, Sound
<1>4. Placed'
  BY DEF Sound
<1> QED
  BY <1>1, <1>2, <1>3, <1>4 DEF Inv

\* No handle is lost by a step that allocates nothing.
LEMMA NoLeakKept ==
    ASSUME Inv, DOMAIN hmap' \subseteq DOMAIN hmap \cup given, given \subseteq given',
           \A u \in Thread : call'[u].new = call[u].new \/ call[u].new \in given' \cup {0},
           Placed'
    PROVE  NoLeak'
<1>1. 0 \notin DOMAIN hmap'
  BY DEF Placed, TableType, Table!Id
<1> SUFFICES ASSUME NEW h \in DOMAIN hmap'
             PROVE  h \in given' \/ \E t \in Thread : call'[t].new = h
  BY DEF NoLeak
<1>2. CASE h \in given
  BY <1>2
<1>3. CASE h \in DOMAIN hmap /\ h \notin given
  <2>1. PICK u \in Thread : call[u].new = h
    BY <1>3 DEF Inv, NoLeak
  <2> QED
    BY <1>1, <2>1
<1> QED
  BY <1>2, <1>3

\* A call goes on after a step that neither names nor claims an object.
LEMMA GoesOn ==
    ASSUME Inv, NEW t \in Thread, NEW op, At(t, op), op \notin {"take", "this", "result"},
           GoOn(t, call[t]), Sound, UNCHANGED <<guard, given, surface, outs>>,
           DOMAIN hmap' \subseteq DOMAIN hmap
    PROVE  Inv'
<1>1. /\ call[t].todo # <<>> /\ Head(call[t].todo).op = op
      /\ call[t].arg \in given \cup {0} /\ guard[t].handle \in given \cup {0}
      /\ call[t].obj \in Obj => ~Unborn(call[t].obj)
      /\ Table!Holds(t) => call[t].obj = guard[t].ptr
  BY AtStep
<1>2. FfiType
  BY DEF Inv
<1>3. Calls(t, Tail(call[t].todo), call[t].arg, call[t].obj, call[t].new, call[t].err)
  BY <1>1, <1>2, GoOnCalls
<1>4. call[t].obj \in Obj => ~UnbornAfter(call[t].obj)
  BY <1>1 DEF Sound, Stays
<1>5. Table!Holds(t)' => call[t].obj = guard'[t].ptr
  BY <1>1 DEF Table!Holds
<1>6. Progress(t)'
  BY <1>1, <1>3, <1>4, <1>5, ProgressOn DEF Sound
<1>7. ~Claim(Head(call[t].todo))
  BY <1>1 DEF Claim
<1>8. Due(t)' => Due(t)
  BY <1>1, <1>3, <1>7, DueOn
<1>9. /\ call' \in [Thread -> CallType]
      /\ \A u \in Thread \ {t} : call'[u] = call[u]
      /\ call'[t].new = call[t].new /\ call'[t].obj = call[t].obj
  BY <1>3 DEF Calls
<1>10. NoLeak'
  BY <1>9, NoLeakKept DEF Sound
<1>11. given' \subseteq Handle
  BY <1>2 DEF FfiType
<1> QED
  BY <1>6, <1>8, <1>9, <1>10, <1>11, Assembled

\* A call ends with an error before it has created anything.
LEMMA Ends ==
    ASSUME Inv, NEW t \in Thread, call[t].todo # <<>>, NEW k \in Codes, Err(t, k),
           call[t].new = 0, k = "refused" => call[t].obj = None,
           Sound, UNCHANGED <<guard, given, surface, outs>>,
           DOMAIN hmap' \subseteq DOMAIN hmap
    PROVE  Inv'
<1>1. FfiType
  BY DEF Inv
<1>2. Calls(t, <<>>, 0, call[t].obj, call[t].new, k)
  BY <1>1, GoOnCalls
<1>3. Progress(t)' /\ ~Due(t)'
  BY <1>2, ProgressEnds DEF Sound
<1>4. /\ call' \in [Thread -> CallType]
      /\ \A u \in Thread \ {t} : call'[u] = call[u]
      /\ call'[t].new = call[t].new
  BY <1>2 DEF Calls
<1>5. NoLeak'
  BY <1>4, NoLeakKept DEF Sound
<1>6. given' \subseteq Handle
  BY <1>1 DEF FfiType
<1> QED
  BY <1>3, <1>4, <1>5, <1>6, Assembled
-----------------------------------------------------------------------------
\* The steps of a call keep the invariant.
LEMMA CheckInv ==
    ASSUME Inv, NEW t \in Thread, Check(t)
    PROVE  Inv'
<1>1. At(t, "fails") /\ UNCHANGED <<tableVars, surface, given, js, proto, outs>>
  BY DEF Check
<1>2. /\ call[t].todo # <<>> /\ Here(t).errs \subseteq {"failed"} /\ "failed" \in Codes
      /\ call[t].new = 0
  BY <1>1, AtStep
<1>3. /\ UNCHANGED <<hmap, guard, fate, js, proto, surface, given, outs>>
      /\ res' \in [Thread -> Table!Result]
  BY <1>1 DEF tableVars, Inv, Placed, TableType
<1>4. Sound
  BY <1>3, SoundQuiet
<1>5. CASE GoOn(t, call[t])
  BY <1>1, <1>3, <1>4, <1>5, GoesOn
<1>6. CASE \E e \in Here(t).errs : Err(t, e)
  <2>1. Err(t, "failed")
    BY <1>2, <1>6
  <2> QED
    BY <1>2, <1>3, <1>4, <2>1, Ends
<1> QED
  BY <1>5, <1>6 DEF Check

LEMMA PeekAtInv ==
    ASSUME Inv, NEW t \in Thread, PeekAt(t)
    PROVE  Inv'
<1>1. /\ At(t, "peek") /\ UNCHANGED <<tableVars, surface, given, js, proto, outs>>
      /\ GoOn(t, call[t])
  BY DEF PeekAt
<1>2. /\ UNCHANGED <<hmap, guard, fate, js, proto, surface, given, outs>>
      /\ res' \in [Thread -> Table!Result]
  BY <1>1 DEF tableVars, Inv, Placed, TableType
<1>3. Sound
  BY <1>2, SoundQuiet
<1> QED
  BY <1>1, <1>2, <1>3, GoesOn

\* The errors of the table are refusals, except that it is full.
LEMMA TableErrors ==
    /\ \A r \in {"NullHandle", "NotFound", "InUse", "InvalidType"} :
          Kind(ErrorOf(r)) = "refused"
    /\ Kind(ErrorOf("TableFull")) = "failed" /\ Kind(Js) = "failed"
    /\ Kind(Ceremony) = "failed" /\ Kind("LIB_SESSION_NOT_READY") = "failed"
    /\ "refused" \in Codes /\ "failed" \in Codes
BY DEF Kind, ErrorOf, Refusals, Null, Js, Ceremony, Codes

LEMMA RefuseInv ==
    ASSUME Inv, NEW t \in Thread, Refuse(t)
    PROVE  Inv'
<1>1. /\ At(t, "get") \/ At(t, "take")
      /\ UNCHANGED <<surface, given, js, proto, outs>>
      /\ Table!LookupError(t, call[t].arg, Here(t).type)
      /\ Err(t, Kind(ErrorOf(res'[t])))
  BY DEF Refuse
<1>2. call[t].todo # <<>> /\ call[t].obj = None /\ call[t].new = 0
  BY <1>1, AtStep DEF Naming
<1>3. /\ UNCHANGED <<hmap, guard, fate>>
      /\ res'[t] \in {"NullHandle", "NotFound", "InUse", "InvalidType"}
      /\ Placed'
  BY <1>1, LookupErrorEffect DEF Inv
<1>4. Err(t, "refused") /\ "refused" \in Codes
  <2>1. Kind(ErrorOf(res'[t])) = "refused"
    BY <1>3, TableErrors
  <2> QED
    BY <1>1, <2>1, TableErrors
<1>5. res' \in [Thread -> Table!Result]
  BY <1>3 DEF Placed, TableType
<1>6. Sound
  BY <1>1, <1>3, <1>5, SoundQuiet
<1> QED
  BY <1>1, <1>2, <1>3, <1>4, <1>6, Ends

\* An operation of the table that consumes or drops live objects only.
LEMMA SoundTable ==
    ASSUME Inv, Placed', UNCHANGED <<js, proto>>,
           \A x \in Obj : \/ fate'[x] = fate[x]
                          \/ fate[x] = "live" /\ fate'[x] \in {"consumed", "dropped"}
    PROVE  Sound
<1>1. Stays
  BY DEF Stays, Unborn, UnbornAfter, Final, FinalAfter, Unread
<1>2. \A o \in Obj : Object(o)
  BY DEF Inv
<1> QED
  BY <1>1, <1>2 DEF Sound, Inv, FfiType, Object, Unread

LEMMA GetInv ==
    ASSUME Inv, NEW t \in Thread, Get(t)
    PROVE  Inv'
<1> DEFINE h == call[t].arg
           o == hmap[h]
<1>1. /\ At(t, "get") /\ Table!Get(t, h, Here(t).type)
      /\ GoOn(t, [call[t] EXCEPT !.arg = 0, !.obj = o])
      /\ UNCHANGED <<surface, given, js, proto, outs>>
  BY DEF Get
<1>2. /\ call[t].todo # <<>> /\ Head(call[t].todo).op = "get" /\ call[t].obj = None
      /\ h \in given \cup {0} /\ guard[t].handle \in given \cup {0}
  BY <1>1, AtStep DEF Naming
<1>3. FfiType /\ Placed
  BY DEF Inv
<1>4. /\ Table!Lookup(h, Here(t).type) = "ok"
      /\ DOMAIN hmap' = DOMAIN hmap /\ fate' = fate
      /\ guard'[t].handle = h /\ guard'[t].ptr = o
      /\ \A u \in Thread \ {t} : guard'[u] = guard[u]
  BY <1>1, <1>3, GetEffect
<1>5. o \in Obj /\ h \in DOMAIN hmap /\ o # None
  BY <1>3, <1>4, LookupOk
<1>6. Placed'
  BY <1>1, <1>3, GetPlaced
<1>7. Sound
  BY <1>1, <1>4, <1>6, SoundTable
<1>8. Calls(t, Tail(call[t].todo), 0, o, call[t].new, call[t].err)
  BY <1>1, <1>2, <1>3, <1>5, GoOnCalls
<1>9. ~UnbornAfter(o)
  BY <1>3, <1>4, <1>5 DEF Placed, EntriesLive, UnbornAfter
<1> HIDE DEF h, o
<1>10. Progress(t)'
  BY <1>1, <1>2, <1>4, <1>7, <1>8, <1>9, ProgressOn DEF Sound, Naming
<1>11. ~Due(t)'
  <2>1. ~Claim(Head(call[t].todo))
    BY <1>2 DEF Claim
  <2>2. Due(t)' => Due(t)
    BY <1>2, <1>8, <2>1, DueOn
  <2>3. ~Due(t)
    BY <1>2, FfiAssumption DEF Inv, LastUse, Final
  <2> QED
    BY <2>2, <2>3
<1>12. /\ call' \in [Thread -> CallType]
       /\ \A u \in Thread \ {t} : call'[u] = call[u]
       /\ call'[t].new = call[t].new
  BY <1>8 DEF Calls
<1>13. NoLeak'
  BY <1>1, <1>4, <1>6, <1>12, NoLeakKept
<1>14. given' \subseteq Handle
  BY <1>1, <1>3 DEF FfiType
<1> QED
  BY <1>1, <1>4, <1>7, <1>10, <1>11, <1>12, <1>13, <1>14, Assembled

LEMMA TakeInv ==
    ASSUME Inv, NEW t \in Thread, Take(t)
    PROVE  Inv'
<1> DEFINE h == call[t].arg
           o == hmap[h]
<1>1. /\ At(t, "take") /\ Table!Take(t, h, Here(t).type)
      /\ GoOn(t, [call[t] EXCEPT !.arg = 0, !.obj = o])
      /\ UNCHANGED <<surface, given, js, proto, outs>>
  BY DEF Take
<1>2. /\ call[t].todo # <<>> /\ Head(call[t].todo).op = "take" /\ call[t].obj = None
      /\ Here(t) = Head(call[t].todo)
      /\ h \in given \cup {0} /\ guard[t].handle \in given \cup {0}
  BY <1>1, AtStep DEF Naming
<1>3. FfiType /\ Placed
  BY DEF Inv
<1>4. /\ ~Table!Holds(t) /\ Table!Lookup(h, Here(t).type) = "ok"
      /\ DOMAIN hmap' = DOMAIN hmap \ {h} /\ guard' = guard
      /\ fate'[o] = "consumed"
      /\ \A x \in Obj \ {o} : fate'[x] = fate[x]
  <2> DEFINE T == Here(t).type
  <2>1. Placed /\ Table!Take(t, h, T)
    BY <1>1, <1>3
  <2> HIDE DEF h, T
  <2>2. ~Table!Holds(t) /\ Table!Lookup(h, T) = "ok" /\ guard' = guard
    BY <2>1 DEF Table!Take, Table!Idle
  <2>3. fate'[hmap[h]] = "consumed" /\ \A x \in Obj \ {hmap[h]} : fate'[x] = fate[x]
    BY <2>1, TakeEffect
  <2>4. DOMAIN hmap' = DOMAIN hmap \ {h}
    BY <2>1, TakeEffect
  <2> QED
    BY <2>2, <2>3, <2>4 DEF T
<1>5. o \in Obj /\ h \in DOMAIN hmap /\ o # None /\ TypeOf[o] = Here(t).type
  BY <1>3, <1>4, LookupOk
<1>6. fate[o] = "live"
  BY <1>3, <1>5 DEF Placed, EntriesLive
<1>7. Placed'
  BY <1>1, <1>3, TakePlaced
<1>8. Calls(t, Tail(call[t].todo), 0, o, call[t].new, call[t].err)
  BY <1>1, <1>2, <1>3, <1>5, GoOnCalls
<1> HIDE DEF h, o
<1>9. Sound
  BY <1>1, <1>4, <1>6, <1>7, SoundTable
<1>10. ~UnbornAfter(o) /\ fate'[o] # "live"
  BY <1>4 DEF UnbornAfter
<1>11. Progress(t)'
  <2>1. ~Table!Holds(t)'
    BY <1>4 DEF Table!Holds
  <2> QED
    BY <1>1, <1>2, <1>4, <1>5, <1>8, <1>9, <1>10, <2>1, ProgressOn DEF Sound, Naming
<1>12. ASSUME Due(t)'
       PROVE  /\ FinalAfter(call'[t].obj) /\ ~Final(call'[t].obj) /\ outs[call'[t].obj] = 0
  <2>1. call'[t].obj = o
    BY <1>8 DEF Calls
  <2>2. Claim(Head(call[t].todo))
    <3>1. ~Due(t)
      BY <1>2, FfiAssumption DEF Inv, LastUse, Final
    <3> QED
      BY <1>2, <1>8, <1>12, <3>1, DueOn
  <2>3. TypeOf[o] # "Session"
    BY <1>2, <1>5, <2>2 DEF Claim
  <2>4. ~Final(o)
    BY <1>6 DEF Final
  <2>5. outs[o] = 0
    BY <1>3, <1>5, <2>4 DEF Inv, FfiType, Object
  <2>6. ~Unread(o)
    BY <1>5, <2>3 DEF Inv, Object
  <2>7. FinalAfter(o)
    BY <1>1, <1>5, <1>10, <2>6 DEF FinalAfter, Unread
  <2> QED
    BY <2>1, <2>4, <2>5, <2>7
<1>13. /\ call' \in [Thread -> CallType]
       /\ \A u \in Thread \ {t} : call'[u] = call[u]
       /\ call'[t].new = call[t].new
  BY <1>8 DEF Calls
<1>14. NoLeak'
  BY <1>1, <1>4, <1>7, <1>13, NoLeakKept
<1>15. given' \subseteq Handle
  BY <1>1, <1>3 DEF FfiType
<1> QED
  BY <1>1, <1>4, <1>9, <1>11, <1>12, <1>13, <1>14, <1>15, Assembled

LEMMA HandleFreeInv ==
    ASSUME Inv, NEW t \in Thread, HandleFree(t)
    PROVE  Inv'
<1> DEFINE h == call[t].arg
<1>1. /\ At(t, "free") /\ UNCHANGED <<surface, given, js, proto, outs>>
      /\ \/ Table!Free(t, h) /\ GoOn(t, call[t])
         \/ Table!FreeError(t, h) /\ Err(t, Kind(ErrorOf(res'[t])))
  BY DEF HandleFree
<1>2. Placed
  BY DEF Inv
<1>3. CASE Table!Free(t, h) /\ GoOn(t, call[t])
  <2>1. /\ guard' = guard /\ h \in DOMAIN hmap /\ DOMAIN hmap' = DOMAIN hmap \ {h}
        /\ \A x \in Obj : fate'[x] = IF x = hmap[h] THEN "dropped" ELSE fate[x]
    BY <1>2, <1>3, FreeEffect
  <2>2. Placed'
    BY <1>2, <1>3, FreePlaced
  <2>3. hmap[h] \in Obj => fate[hmap[h]] = "live"
    BY <1>2, <2>1, FfiAssumption DEF Placed, EntriesLive
  <2> HIDE DEF h
  <2>4. Sound
    BY <1>1, <2>1, <2>2, <2>3, SoundTable
  <2> QED
    BY <1>1, <1>3, <2>1, <2>4, GoesOn
<1>4. CASE Table!FreeError(t, h) /\ Err(t, Kind(ErrorOf(res'[t])))
  <2>1. UNCHANGED <<hmap, guard, fate>> /\ res'[t] = "NotFound" /\ Placed'
    BY <1>2, <1>4, FreeErrorEffect
  <2>2. Err(t, "refused") /\ "refused" \in Codes
    <3>1. Kind(ErrorOf(res'[t])) = "refused"
      BY <2>1, TableErrors
    <3> QED
      BY <1>4, <3>1, TableErrors
  <2>3. call[t].todo # <<>> /\ call[t].new = 0 /\ call[t].obj = None
    BY <1>1, AtStep DEF Naming
  <2>4. Sound
    BY <1>1, <2>1, SoundTable
  <2> QED
    BY <1>1, <2>1, <2>2, <2>3, <2>4, Ends
<1> QED
  BY <1>1, <1>3, <1>4

LEMMA BorrowInv ==
    ASSUME Inv, NEW t \in Thread, Borrow(t)
    PROVE  Inv'
<1> DEFINE o == call[t].arg
<1>1. /\ At(t, "this") /\ UNCHANGED <<tableVars, surface, given, js, proto, outs>>
      /\ IF o \in js /\ TypeOf[o] = Here(t).type
         THEN GoOn(t, [call[t] EXCEPT !.arg = 0, !.obj = o])
         ELSE Err(t, Kind(Js))
  BY DEF Borrow
<1>2. /\ call[t].todo # <<>> /\ Head(call[t].todo).op = "this" /\ call[t].obj = None
      /\ call[t].new = 0 /\ ~Table!Holds(t) /\ guard[t].handle \in given \cup {0}
  BY <1>1, AtStep DEF Naming
<1>3. FfiType
  BY DEF Inv
<1>4. /\ UNCHANGED <<hmap, guard, fate, js, proto, surface, given, outs>>
      /\ res' \in [Thread -> Table!Result]
  BY <1>1 DEF tableVars, Inv, Placed, TableType
<1>5. Sound
  BY <1>4, SoundQuiet
<1>6. CASE o \in js /\ TypeOf[o] = Here(t).type
  <2>1. o \in Obj /\ fate[o] = "fresh" /\ proto[o] # "none"
    BY <1>3, <1>6 DEF FfiType, Inv, Object
  <2>2. Calls(t, Tail(call[t].todo), 0, o, call[t].new, call[t].err)
    BY <1>1, <1>2, <1>3, <1>6, <2>1, GoOnCalls
  <2> HIDE DEF o
  <2>3. ~UnbornAfter(o) /\ fate'[o] # "live"
    BY <1>4, <2>1 DEF UnbornAfter
  <2>4. Progress(t)'
    <3>1. ~Table!Holds(t)'
      BY <1>2, <1>4 DEF Table!Holds
    <3> QED
      BY <1>2, <1>4, <1>5, <2>1, <2>2, <2>3, <3>1, ProgressOn DEF Sound, Naming
  <2>5. ~Due(t)'
    <3>1. ~Claim(Head(call[t].todo))
      BY <1>2 DEF Claim
    <3>2. Due(t)' => Due(t)
      BY <1>2, <2>2, <3>1, DueOn
    <3>3. ~Due(t)
      BY <1>2, FfiAssumption DEF Inv, LastUse, Final
    <3> QED
      BY <3>2, <3>3
  <2>6. /\ call' \in [Thread -> CallType]
        /\ \A u \in Thread \ {t} : call'[u] = call[u]
        /\ call'[t].new = call[t].new
    BY <2>2 DEF Calls
  <2>7. NoLeak'
    BY <1>4, <1>5, <2>6, NoLeakKept DEF Sound
  <2>8. given' \subseteq Handle
    BY <1>3, <1>4 DEF FfiType
  <2> QED
    BY <1>4, <1>5, <2>4, <2>5, <2>6, <2>7, <2>8, Assembled
<1>7. CASE ~(o \in js /\ TypeOf[o] = Here(t).type)
  <2>1. Err(t, "failed") /\ "failed" \in Codes
    BY <1>1, <1>7, TableErrors
  <2> QED
    BY <1>2, <1>4, <1>5, <2>1, Ends
<1> QED
  BY <1>6, <1>7

LEMMA FreeObjectInv ==
    ASSUME Inv, NEW t \in Thread, FreeObject(t)
    PROVE  Inv'
<1>1. /\ At(t, "drop") /\ UNCHANGED <<tableVars, surface, given, proto, outs>>
      /\ GoOn(t, call[t]) /\ js' \subseteq js
  BY DEF FreeObject
<1>2. /\ UNCHANGED <<hmap, guard, fate, proto, surface, given, outs>>
      /\ res' \in [Thread -> Table!Result]
  BY <1>1 DEF tableVars, Inv, Placed, TableType
<1>3. Sound
  <2>1. Placed'
    BY <1>2, PlacedKept DEF Inv
  <2>2. Stays
    BY <1>2 DEF Stays, Unborn, UnbornAfter, Final, FinalAfter, Unread
  <2>3. \A o \in Obj : Object(o)
    BY DEF Inv
  <2> QED
    BY <1>1, <1>2, <2>1, <2>2, <2>3 DEF Sound, Inv, FfiType, Object, Unread
<1> QED
  BY <1>1, <1>2, <1>3, GoesOn

\* What Started may make of the Protocol of a new object.
LEMMA StartedEffect ==
    ASSUME FfiType, NEW o \in Obj, Started(o)
    PROVE  /\ proto' \in [Obj -> {"none", "plain", "running", "ok", "err", "spent"}]
           /\ \A x \in Obj \ {o} : proto'[x] = proto[x]
           /\ proto'[o] = proto[o] \/ (TypeOf[o] = "Session" /\ proto'[o] \in {"running", "err"})
           /\ TypeOf[o] = "Session" => proto'[o] \in {"running", "err"}
<1>1. proto \in [Obj -> {"none", "plain", "running", "ok", "err", "spent"}]
  BY DEF FfiType
<1>2. CASE TypeOf[o] = "Session"
  <2>1. PICK p \in {"running", "err"} : proto' = [proto EXCEPT ![o] = p]
    BY <1>2 DEF Started
  <2> QED
    BY <1>1, <1>2, <2>1
<1>3. CASE TypeOf[o] # "Session"
  BY <1>1, <1>3 DEF Started
<1> QED
  BY <1>2, <1>3

\* A step that creates one object and changes no other.
LEMMA SoundCreated ==
    ASSUME Inv, Placed', NEW o \in Obj, Unborn(o), ~UnbornAfter(o),
           proto' \in [Obj -> {"none", "plain", "running", "ok", "err", "spent"}],
           \A x \in Obj \ {o} : fate'[x] = fate[x] /\ proto'[x] = proto[x],
           proto'[o] \in {"running", "ok", "err"} => TypeOf[o] = "Session",
           js' = js \/ (js' = js \cup {o} /\ fate'[o] = "fresh" /\ proto'[o] # "none")
    PROVE  Sound
<1>1. Stays
  BY DEF Stays, Unborn, UnbornAfter, Final, FinalAfter, Unread
<1>2. \A x \in Obj : Object(x)
  BY DEF Inv
<1>3. js \subseteq Obj /\ o \notin js
  BY <1>2 DEF Inv, FfiType, Object, Unborn
<1>4. \A x \in Obj \ {o} :
          /\ x \in js' => fate'[x] = "fresh" /\ proto'[x] # "none"
          /\ proto'[x] \in {"running", "ok", "err"} => TypeOf[x] = "Session"
  BY <1>2, <1>3 DEF Object, Unread
<1>5. js' \subseteq Obj /\ (o \in js' => fate'[o] = "fresh" /\ proto'[o] # "none")
  BY <1>3
<1> QED
  BY <1>1, <1>4, <1>5 DEF Sound

\* A call goes on with what it has created.
LEMMA GoesOnWith ==
    ASSUME Inv, NEW t \in Thread, NEW op \in {"alloc", "new"}, At(t, op), NEW n \in Handle,
           GoOn(t, [call[t] EXCEPT !.new = n]), Sound, UNCHANGED <<guard, given, surface, outs>>,
           DOMAIN hmap' \subseteq DOMAIN hmap \cup {n}
    PROVE  Inv'
<1>1. /\ call[t].todo # <<>> /\ Head(call[t].todo).op = op /\ call[t].new = 0
      /\ call[t].arg \in given \cup {0} /\ guard[t].handle \in given \cup {0}
      /\ call[t].obj \in Obj => ~Unborn(call[t].obj)
      /\ Table!Holds(t) => call[t].obj = guard[t].ptr
  BY AtStep
<1>2. FfiType /\ NoLeak /\ Placed /\ Placed'
  BY DEF Inv, Sound
<1>3. Calls(t, Tail(call[t].todo), call[t].arg, call[t].obj, n, call[t].err)
  BY <1>1, <1>2, GoOnCalls
<1>4. call[t].obj \in Obj => ~UnbornAfter(call[t].obj)
  BY <1>1 DEF Sound, Stays
<1>5. Table!Holds(t)' => call[t].obj = guard'[t].ptr
  BY <1>1 DEF Table!Holds
<1>6. Progress(t)'
  BY <1>1, <1>3, <1>4, <1>5, ProgressOn DEF Sound
<1>7. ~Claim(Head(call[t].todo))
  BY <1>1 DEF Claim
<1>8. Due(t)' => Due(t)
  BY <1>1, <1>3, <1>7, DueOn
<1>9. /\ call' \in [Thread -> CallType]
      /\ \A u \in Thread \ {t} : call'[u] = call[u]
      /\ call'[t].new = n /\ call'[t].obj = call[t].obj
  BY <1>3 DEF Calls
<1>10. NoLeak'
  <2> SUFFICES ASSUME NEW h \in DOMAIN hmap'
               PROVE  h \in given' \/ \E u \in Thread : call'[u].new = h
    BY DEF NoLeak
  <2>1. CASE h = n
    BY <1>9, <2>1
  <2>2. CASE h # n
    <3>1. h \in DOMAIN hmap /\ h # 0
      BY <1>2, <2>2 DEF Placed, TableType, Table!Id
    <3>2. h \in given \/ \E u \in Thread : call[u].new = h
      BY <1>2, <3>1 DEF NoLeak
    <3> QED
      BY <1>1, <1>9, <3>1, <3>2
  <2> QED
    BY <2>1, <2>2
<1>11. given' \subseteq Handle
  BY <1>2 DEF FfiType
<1> QED
  BY <1>6, <1>8, <1>9, <1>10, <1>11, Assembled

LEMMA AllocInv ==
    ASSUME Inv, NEW t \in Thread, Alloc(t)
    PROVE  Inv'
<1>1. At(t, "alloc") /\ UNCHANGED <<surface, given, js, outs>>
  BY DEF Alloc
<1>2. PICK o \in Fresh(Here(t).type) :
          /\ Table!Allocate(t, o)
          /\ IF res'[t] = "ok"
             THEN /\ GoOn(t, [call[t] EXCEPT !.new = CHOOSE h \in DOMAIN hmap' : hmap'[h] = o])
                  /\ Started(o)
             ELSE Err(t, Kind(ErrorOf(res'[t]))) /\ UNCHANGED proto
  BY DEF Alloc
<1>3. o \in Obj /\ Unborn(o)
  BY <1>2 DEF Fresh, Unborn
<1>4. FfiType /\ Placed
  BY DEF Inv
<1>5. Placed'
  BY <1>2, <1>3, <1>4, AllocatePlaced
<1>6. /\ fate[o] = "fresh" /\ guard' = guard
      /\ \A x \in Obj \ {o} : fate'[x] = fate[x]
      /\ \/ /\ res'[t] = "ok"
            /\ fate'[o] = "live"
            /\ \E h \in Table!Id \ DOMAIN hmap :
                  hmap' = [i \in DOMAIN hmap \cup {h} |-> IF i = h THEN o ELSE hmap[i]]
         \/ /\ res'[t] = "TableFull"
            /\ fate'[o] = "dropped" /\ hmap' = hmap
  BY <1>2, <1>3, <1>4, AllocateEffect
<1>7. CASE res'[t] = "ok"
  <2>1. fate'[o] = "live" /\ Started(o)
    BY <1>2, <1>6, <1>7
  <2>2. PICK h \in Table!Id \ DOMAIN hmap :
            hmap' = [i \in DOMAIN hmap \cup {h} |-> IF i = h THEN o ELSE hmap[i]]
    BY <1>6, <1>7
  <2>3. /\ DOMAIN hmap' = DOMAIN hmap \cup {h} /\ hmap'[h] = o
        /\ \A i \in DOMAIN hmap' : hmap'[i] = o => i = h
    BY <1>3, <1>4, <1>6, <2>2, FfiAssumption DEF Placed, EntriesLive
  <2>4. (CHOOSE i \in DOMAIN hmap' : hmap'[i] = o) = h
    BY <2>3
  <2>5. GoOn(t, [call[t] EXCEPT !.new = h])
    BY <1>2, <1>7, <2>4
  <2>6. h \in Handle
    BY DEF Handle
  <2>7. Sound
    <3>1. /\ proto' \in [Obj -> {"none", "plain", "running", "ok", "err", "spent"}]
          /\ \A x \in Obj \ {o} : proto'[x] = proto[x]
          /\ proto'[o] = proto[o] \/ (TypeOf[o] = "Session" /\ proto'[o] \in {"running", "err"})
      BY <1>3, <1>4, <2>1, StartedEffect
    <3>2. proto'[o] \in {"running", "ok", "err"} => TypeOf[o] = "Session"
      BY <1>3, <3>1 DEF Unborn
    <3>3. ~UnbornAfter(o)
      BY <2>1 DEF UnbornAfter
    <3> QED
      BY <1>1, <1>3, <1>5, <1>6, <3>1, <3>2, <3>3, SoundCreated
  <2> QED
    BY <1>1, <1>6, <2>3, <2>5, <2>6, <2>7, GoesOnWith
<1>8. CASE res'[t] # "ok"
  <2>1. res'[t] = "TableFull" /\ fate'[o] = "dropped" /\ hmap' = hmap
    BY <1>6, <1>8
  <2>2. Err(t, "failed") /\ "failed" \in Codes /\ proto' = proto
    <3>1. Kind(ErrorOf(res'[t])) = "failed"
      BY <2>1, TableErrors
    <3> QED
      BY <1>2, <1>8, <3>1, TableErrors
  <2>3. call[t].todo # <<>> /\ call[t].new = 0
    BY <1>1, AtStep
  <2>4. Sound
    <3>1. proto' \in [Obj -> {"none", "plain", "running", "ok", "err", "spent"}]
      BY <1>4, <2>2 DEF FfiType
    <3>2. ~UnbornAfter(o) /\ (proto'[o] \in {"running", "ok", "err"} => TypeOf[o] = "Session")
      BY <1>3, <2>1, <2>2 DEF UnbornAfter, Unborn
    <3> QED
      BY <1>1, <1>3, <1>5, <1>6, <2>2, <3>1, <3>2, SoundCreated
  <2> QED
    BY <1>1, <1>6, <2>1, <2>2, <2>3, <2>4, Ends
<1> QED
  BY <1>7, <1>8

LEMMA ConstructInv ==
    ASSUME Inv, NEW t \in Thread, Construct(t)
    PROVE  Inv'
<1>1. At(t, "new") /\ UNCHANGED <<tableVars, surface, given, outs>>
  BY DEF Construct
<1>2. PICK o \in Fresh(Here(t).type) :
          /\ js' = js \cup {o}
          /\ IF Here(t).type = "Session" THEN Started(o)
             ELSE proto' = [proto EXCEPT ![o] = "plain"]
          /\ GoOn(t, [call[t] EXCEPT !.new = o])
  BY DEF Construct
<1>3. o \in Obj /\ Unborn(o) /\ TypeOf[o] = Here(t).type /\ o \in Handle
  BY <1>2 DEF Fresh, Unborn, Handle
<1>4. FfiType /\ Placed
  BY DEF Inv
<1>5. /\ UNCHANGED <<hmap, guard, fate, surface, given, outs>>
      /\ res' \in [Thread -> Table!Result]
  BY <1>1 DEF tableVars, Inv, Placed, TableType
<1>6. Placed'
  BY <1>4, <1>5, PlacedKept
<1>7. /\ proto' \in [Obj -> {"none", "plain", "running", "ok", "err", "spent"}]
      /\ \A x \in Obj \ {o} : proto'[x] = proto[x]
      /\ proto'[o] # "none"
      /\ proto'[o] \in {"running", "ok", "err"} => TypeOf[o] = "Session"
  <2>1. CASE Here(t).type = "Session"
    <3>1. Started(o)
      BY <1>2, <2>1
    <3> QED
      BY <1>3, <1>4, <2>1, <3>1, StartedEffect
  <2>2. CASE Here(t).type # "Session"
    BY <1>2, <1>3, <1>4, <2>2 DEF FfiType
  <2> QED
    BY <2>1, <2>2
<1>8. ~UnbornAfter(o) /\ fate'[o] = "fresh"
  BY <1>3, <1>5, <1>7 DEF Unborn, UnbornAfter
<1>9. Sound
  BY <1>2, <1>3, <1>5, <1>6, <1>7, <1>8, SoundCreated
<1> QED
  BY <1>1, <1>2, <1>3, <1>5, <1>9, GoesOnWith

\* A step on the Protocol of an existing object.
LEMMA SoundProto ==
    ASSUME Inv, Placed', UNCHANGED <<js, fate>>, NEW o \in Obj, ~Unborn(o),
           NEW p \in {"running", "ok", "err", "spent"}, proto' = [proto EXCEPT ![o] = p],
           p # "spent" => Unread(o)
    PROVE  Sound
<1>1. /\ proto' \in [Obj -> {"none", "plain", "running", "ok", "err", "spent"}]
      /\ \A x \in Obj \ {o} : proto'[x] = proto[x]
      /\ proto'[o] = p
  BY DEF Inv, FfiType
<1>2. Stays
  BY <1>1 DEF Stays, Unborn, UnbornAfter, Final, FinalAfter, Unread
<1>3. \A x \in Obj : Object(x)
  BY DEF Inv
<1>4. \A x \in Obj :
          /\ x \in js' => fate'[x] = "fresh" /\ proto'[x] # "none"
          /\ proto'[x] \in {"running", "ok", "err"} => TypeOf[x] = "Session"
  BY <1>1, <1>3 DEF Object, Unread
<1>5. js' \subseteq Obj
  BY DEF Inv, FfiType
<1> QED
  BY <1>1, <1>2, <1>4, <1>5 DEF Sound

LEMMA FeedItInv ==
    ASSUME Inv, NEW t \in Thread, FeedIt(t)
    PROVE  Inv'
<1> DEFINE o == call[t].obj
<1>1. /\ At(t, "feed") /\ UNCHANGED <<tableVars, surface, given, js, outs>>
      /\ GoOn(t, call[t])
      /\ \/ proto' = proto
         \/ /\ proto[o] = "running"
            /\ \E p \in {"running", "ok", "err"} : proto' = [proto EXCEPT ![o] = p]
  BY DEF FeedIt
<1>2. /\ UNCHANGED <<hmap, guard, fate, js, surface, given, outs>>
      /\ res' \in [Thread -> Table!Result]
  BY <1>1 DEF tableVars, Inv, Placed, TableType
<1>3. Placed'
  BY <1>2, PlacedKept DEF Inv
<1>4. o \in Obj => ~Unborn(o)
  BY <1>1, AtStep
<1>5. proto \in [Obj -> {"none", "plain", "running", "ok", "err", "spent"}]
  BY DEF Inv, FfiType
<1> HIDE DEF o
<1>6. Sound
  <2>1. CASE proto' = proto
    BY <1>2, <2>1, SoundQuiet
  <2>2. CASE o \notin Obj
    <3>1. proto' = proto
      BY <1>1, <1>5, <2>2
    <3> QED
      BY <1>2, <3>1, SoundQuiet
  <2>3. CASE o \in Obj /\ proto' # proto
    <3>1. PICK p \in {"running", "ok", "err"} : proto' = [proto EXCEPT ![o] = p]
      BY <1>1, <2>3
    <3>2. Unread(o)
      BY <1>1, <2>3 DEF Unread
    <3> QED
      BY <1>2, <1>3, <1>4, <2>3, <3>1, <3>2, SoundProto
  <2> QED
    BY <2>1, <2>2, <2>3
<1> QED
  BY <1>1, <1>2, <1>6, GoesOn

LEMMA TakeResultInv ==
    ASSUME Inv, NEW t \in Thread, TakeResult(t)
    PROVE  Inv'
<1> DEFINE o == call[t].obj
<1>1. /\ At(t, "result") /\ UNCHANGED <<tableVars, surface, given, js, outs>>
      /\ proto' = [proto EXCEPT ![o] = "spent"]
      /\ \/ proto[o] = "ok" /\ GoOn(t, call[t])
         \/ Err(t, "failed")
  BY TableErrors DEF TakeResult, Emptied
<1>2. /\ UNCHANGED <<hmap, guard, fate, js, surface, given, outs>>
      /\ res' \in [Thread -> Table!Result]
  BY <1>1 DEF tableVars, Inv, Placed, TableType
<1>3. Placed' /\ FfiType
  BY <1>2, PlacedKept DEF Inv
<1>4. /\ call[t].todo # <<>> /\ Head(call[t].todo).op = "result"
      /\ call[t].arg \in given \cup {0} /\ guard[t].handle \in given \cup {0}
      /\ o \in Obj /\ fate[o] # "live" /\ ~Unborn(o) /\ call[t].new = 0
      /\ Table!Holds(t) => call[t].obj = guard[t].ptr
      /\ "failed" \in Codes
  BY <1>1, AtStep
<1>5. proto' = [proto EXCEPT ![o] = "spent"] /\ proto'[o] = "spent"
  BY <1>1, <1>3, <1>4 DEF FfiType
<1>6. Sound
  <2> HIDE DEF o
  <2> QED
    BY <1>2, <1>3, <1>4, <1>5, SoundProto
<1>7. CASE Err(t, "failed")
  BY <1>2, <1>4, <1>6, <1>7, Ends
<1>8. CASE proto[o] = "ok" /\ GoOn(t, call[t])
  <2>1. Calls(t, Tail(call[t].todo), call[t].arg, call[t].obj, call[t].new, call[t].err)
    BY <1>3, <1>4, <1>8, GoOnCalls
  <2>2. ~UnbornAfter(call[t].obj)
    BY <1>5 DEF UnbornAfter
  <2>3. Table!Holds(t)' => call[t].obj = guard'[t].ptr
    BY <1>2, <1>4 DEF Table!Holds
  <2>4. Progress(t)'
    BY <1>2, <1>4, <1>6, <2>1, <2>2, <2>3, ProgressOn DEF Sound
  <2>5. /\ call' \in [Thread -> CallType]
        /\ \A u \in Thread \ {t} : call'[u] = call[u]
        /\ call'[t].new = call[t].new /\ call'[t].obj = o
    BY <2>1 DEF Calls
  <2>6. NoLeak'
    BY <1>2, <1>3, <2>5, NoLeakKept
  <2>7. given' \subseteq Handle
    BY <1>2, <1>3 DEF FfiType
  <2>8. ~Final(o) /\ outs[o] = 0
    BY <1>3, <1>4, <1>8 DEF Final, Unread, Inv, Object, FfiType
  <2>9. FinalAfter(o)
    BY <1>2, <1>4, <1>5, <2>2 DEF FinalAfter
  <2> QED
    BY <1>2, <1>6, <2>4, <2>5, <2>6, <2>7, <2>8, <2>9, Assembled
<1> QED
  BY <1>1, <1>7, <1>8

\* A call about to write its output is due, and nothing is left after it.
LEMMA AtOut ==
    ASSUME Inv, NEW t \in Thread, At(t, "out")
    PROVE  /\ Due(t) /\ Tail(call[t].todo) = <<>>
           /\ Final(call[t].obj) /\ outs[call[t].obj] = 0
<1> DEFINE p == call[t].todo
<1>1. /\ p # <<>> /\ Head(p).op = "out" /\ call[t].err = "ok"
      /\ p \in Seq(StepType) /\ Shape(p)
  BY AtStep, CallFields DEF Inv, Progress
<1>2. /\ Len(p) \in Nat /\ DOMAIN p = 1..Len(p) /\ Head(p) = p[1] /\ 1 \in DOMAIN p
  BY <1>1, TailOf
<1>3. Tail(p) = <<>>
  BY <1>1, ShapeOfTail
<1> HIDE DEF p
<1>4. p[1].op = "out" /\ \A i \in DOMAIN p : ~(i < 1)
  BY <1>1, <1>2
<1>5. Due(t)
  BY <1>1, <1>2, <1>4 DEF Due, p
<1> QED
  BY <1>3, <1>5 DEF Inv, LastUse, p

LEMMA WriteEffect ==
    ASSUME Inv, NEW t \in Thread, At(t, "out"),
           outs' = [outs EXCEPT ![call[t].obj] = IF @ = 2 THEN 2 ELSE @ + 1]
    PROVE  /\ outs' \in [Obj -> {0, 1}] /\ outs'[call[t].obj] = 1
           /\ \A x \in Obj \ {call[t].obj} : outs'[x] = outs[x]
<1>1. outs \in [Obj -> {0, 1}] /\ call[t].obj \in Obj /\ outs[call[t].obj] = 0
  BY AtOut DEF Inv, FfiType, Final
<1> QED
  BY <1>1

LEMMA WriteInv ==
    ASSUME Inv, NEW t \in Thread, Write(t)
    PROVE  Inv'
<1>1. At(t, "out") /\ UNCHANGED <<tableVars, surface, given, js, proto>>
  BY DEF Write
<1>2. /\ UNCHANGED <<hmap, guard, fate, js, proto, surface, given>>
      /\ res' \in [Thread -> Table!Result]
  BY <1>1 DEF tableVars, Inv, Placed, TableType
<1>3. Sound
  BY <1>2, SoundQuiet
<1>4. CASE outs' = [outs EXCEPT ![call[t].obj] = IF @ = 2 THEN 2 ELSE @ + 1]
           /\ GoOn(t, call[t])
  <2> DEFINE o == call[t].obj
  <2>1. /\ Due(t) /\ Tail(call[t].todo) = <<>> /\ Final(o) /\ outs[o] = 0
    BY <1>1, AtOut
  <2>2. /\ outs' \in [Obj -> {0, 1}] /\ outs'[o] = 1
        /\ \A x \in Obj \ {o} : outs'[x] = outs[x]
    BY <1>1, <1>4, WriteEffect
  <2>3. /\ call[t].todo # <<>> /\ Head(call[t].todo).op = "out"
        /\ call[t].arg \in given \cup {0} /\ guard[t].handle \in given \cup {0}
        /\ Table!Holds(t) => call[t].obj = guard[t].ptr
        /\ call[t].obj \in Obj => ~Unborn(call[t].obj)
    BY <1>1, AtStep
  <2>4. FfiType /\ LastUse
    BY DEF Inv
  <2>5. Calls(t, Tail(call[t].todo), call[t].arg, call[t].obj, call[t].new, call[t].err)
    BY <1>4, <2>3, <2>4, GoOnCalls
  <2>6. Progress(t)'
    <3>1. call[t].obj \in Obj => ~UnbornAfter(call[t].obj)
      BY <1>3, <2>3 DEF Sound, Stays
    <3>2. Table!Holds(t)' => call[t].obj = guard'[t].ptr
      BY <1>2, <2>3 DEF Table!Holds
    <3> QED
      BY <1>2, <1>3, <2>3, <2>5, <3>1, <3>2, ProgressOn DEF Sound
  <2>7. /\ call' \in [Thread -> CallType]
        /\ \A u \in Thread \ {t} : call'[u] = call[u]
        /\ call'[t].new = call[t].new /\ call'[t].todo = <<>>
    BY <2>1, <2>5 DEF Calls
  <2>8. \A u \in Thread : Progress(u)'
    BY <1>2, <1>3, <2>6, <2>7, OthersOn DEF Sound
  <2>9. NoLeak'
    BY <1>2, <1>3, <2>7, NoLeakKept DEF Sound
  <2>10. \A x : Final(x) => FinalAfter(x)
    BY <1>2 DEF Final, FinalAfter, Unborn, UnbornAfter, Unread
  <2>11. ~Due(t)'
    BY <2>7, NothingLeft DEF Due
  <2>12. \A u \in Thread : Due(u)' => /\ u # t /\ Due(u) /\ call'[u].obj = call[u].obj
                                      /\ Final(call[u].obj) /\ outs[call[u].obj] = 0
                                      /\ call[u].obj # o
    BY <2>1, <2>4, <2>7, <2>11 DEF Due, LastUse
  <2>13. LastUse'
    <3>1. \A u \in Thread : Due(u)' => Final(call[u].obj)' /\ outs'[call'[u].obj] = 0
      BY <2>2, <2>10, <2>12 DEF Final, FinalAfter, Unborn, UnbornAfter, Unread
    <3>2. \A u, v \in Thread : Due(u)' /\ Due(v)' /\ call'[u].obj = call'[v].obj => u = v
      BY <2>4, <2>12 DEF LastUse
    <3> QED
      BY <3>1, <3>2 DEF LastUse
  <2>14. \A x \in Obj : Object(x)'
    <3>1. \A x \in Obj : outs'[x] = 1 => FinalAfter(x)
      BY <2>1, <2>2, <2>10 DEF Inv, Object
    <3> QED
      BY <1>3, <3>1 DEF Object, Final, FinalAfter, Unborn, UnbornAfter, Unread, Sound
  <2>15. FfiType'
    BY <1>2, <1>3, <2>2, <2>4, <2>7 DEF FfiType
  <2>16. Placed'
    BY <1>3 DEF Sound
  <2> QED
    BY <2>8, <2>9, <2>13, <2>14, <2>15, <2>16 DEF Inv
<1>5. CASE (\E e \in Here(t).errs : Err(t, e)) /\ UNCHANGED outs
  <2>1. call[t].todo # <<>> /\ Here(t).errs \subseteq {"failed"} /\ call[t].new = 0
        /\ "failed" \in Codes
    BY <1>1, <1>5, AtStep
  <2>2. Err(t, "failed")
    BY <1>5, <2>1
  <2> QED
    BY <1>2, <1>3, <1>5, <2>1, <2>2, Ends
<1> QED
  BY <1>4, <1>5 DEF Write

LEMMA LeaveInv ==
    ASSUME Inv, NEW t \in Thread, Leave(t)
    PROVE  Inv'
<1>1. /\ call[t].err # "idle" /\ call[t].todo = <<>>
      /\ IF Table!Holds(t) THEN Table!DropGuard(t) ELSE UNCHANGED tableVars
      /\ given' = IF call[t].err = "ok" THEN given \cup ({call[t].new} \ {0}) ELSE given
      /\ call' = [call EXCEPT ![t] = NoCall]
      /\ UNCHANGED <<surface, js, proto, outs>>
  BY DEF Leave
<1>2. FfiType /\ Placed /\ Progress(t) /\ call[t].new \in Handle
  BY CallFields DEF Inv
<1>3. Calls(t, <<>>, 0, None, 0, "idle")
  <2>1. call' = [call EXCEPT ![t] = [todo |-> <<>>, arg |-> 0, obj |-> None, new |-> 0, err |-> "idle"]]
    BY <1>1 DEF NoCall
  <2>2. 0 \in Handle /\ <<>> \in Seq(StepType)
    BY NothingLeft DEF Handle
  <2> QED
    BY <1>2, <2>1, <2>2, CallSet
<1>4. /\ call' \in [Thread -> CallType]
      /\ \A u \in Thread \ {t} : call'[u] = call[u]
      /\ call'[t] = NoCall /\ call'[t].todo = <<>> /\ call'[t].arg = 0 /\ call'[t].obj = None
      /\ call'[t].new = 0 /\ call'[t].err = "idle"
  BY <1>3 DEF Calls, NoCall
<1>5. /\ given \subseteq given' /\ given' \subseteq Handle
      /\ call[t].new \in given' \cup {0}
  BY <1>1, <1>2 DEF FfiType, Progress
<1>6. /\ Sound /\ \A u \in Thread \ {t} : guard'[u] = guard[u]
      /\ ~Table!Holds(t)' /\ guard'[t].handle \in given' \cup {0}
      /\ DOMAIN hmap' \subseteq DOMAIN hmap \cup given
  <2>1. CASE Table!Holds(t)
    <3> DEFINE h == guard[t].handle
    <3>1. /\ Table!DropGuard(t) /\ h \in given \cup {0}
      BY <1>1, <1>2, <2>1 DEF Progress
    <3>2. /\ h # 0 /\ DOMAIN hmap' = DOMAIN hmap \cup {h}
          /\ \A x \in Obj : fate'[x] = IF h \in DOMAIN hmap /\ x = hmap[h]
                                      THEN "dropped" ELSE fate[x]
          /\ guard'[t].ptr = None /\ guard'[t].handle = 0
          /\ \A u \in Thread \ {t} : guard'[u] = guard[u]
      BY <1>2, <3>1, DropGuardEffect
    <3>3. Placed'
      BY <1>2, <3>1, DropGuardPlaced
    <3>4. \A x \in Obj : h \in DOMAIN hmap /\ x = hmap[h] => fate[x] = "live"
      BY <1>2, FfiAssumption DEF Placed, EntriesLive
    <3> HIDE DEF h
    <3>5. Sound
      BY <1>1, <3>2, <3>3, <3>4, SoundTable
    <3> QED
      BY <3>1, <3>2, <3>5 DEF Table!Holds
  <2>2. CASE ~Table!Holds(t)
    <3>1. UNCHANGED <<hmap, guard, fate, js, proto>> /\ res' \in [Thread -> Table!Result]
      BY <1>1, <1>2, <2>2 DEF tableVars, Placed, TableType
    <3>2. Sound
      BY <3>1, SoundQuiet
    <3> QED
      BY <1>2, <1>5, <2>2, <3>1, <3>2 DEF Progress, Table!Holds
  <2> QED
    BY <2>1, <2>2
<1>7. Progress(t)'
  BY <1>4, <1>6, NothingLeft, FfiAssumption DEF Progress
<1>8. ~Due(t)'
  BY <1>4 DEF Due
<1>9. NoLeak'
  BY <1>4, <1>5, <1>6, NoLeakKept DEF Sound
<1> QED
  BY <1>1, <1>4, <1>5, <1>6, <1>7, <1>8, <1>9, Assembled

LEMMA NewCalls ==
    ASSUME NEW e, NEW a, NEW q, NEW d
    PROVE  /\ d = [NoCall EXCEPT !.err = e] =>
                 d = [todo |-> <<>>, arg |-> 0, obj |-> None, new |-> 0, err |-> e]
           /\ d = [[NoCall EXCEPT !.arg = a, !.err = "ok"] EXCEPT !.todo = q] =>
                 d = [todo |-> q, arg |-> a, obj |-> None, new |-> 0, err |-> "ok"]
BY DEF NoCall

LEMMA BeginInv ==
    ASSUME Inv, NEW t \in Thread, NEW program \in surface.programs, NEW a \in given \cup {0},
           Begin(t, program, a)
    PROVE  Inv'
<1> DEFINE q == IF Checks(program) THEN Tail(program) ELSE program
           c == [NoCall EXCEPT !.arg = a, !.err = "ok"]
<1>1. /\ call[t] = NoCall
      /\ \/ /\ Checks(program)
            /\ \E e \in Head(program).errs : call' = [call EXCEPT ![t] = [NoCall EXCEPT !.err = e]]
         \/ call' = [call EXCEPT ![t] = [c EXCEPT !.todo = q]]
      /\ UNCHANGED <<tableVars, surface, given, js, proto, outs>>
  BY DEF Begin
<1>2. FfiType /\ Progress(t)
  BY DEF Inv
<1>3. /\ program \in Seq(StepType) /\ Shape(q) /\ Backed(q)
  BY <1>2, SurfacesGood DEF FfiType, WellFormed, Rest
<1>4. /\ UNCHANGED <<hmap, guard, fate, js, proto, surface, given, outs>>
      /\ res' \in [Thread -> Table!Result]
  BY <1>1 DEF tableVars, Inv, Placed, TableType
<1>5. Sound
  BY <1>4, SoundQuiet
<1>6. /\ call[t].new = 0 /\ call[t].err = "idle"
      /\ ~Table!Holds(t) /\ guard[t].handle \in given \cup {0}
  BY <1>1, <1>2 DEF NoCall, Progress
<1>7. ~Table!Holds(t)' /\ guard'[t].handle \in given' \cup {0}
  BY <1>4, <1>6 DEF Table!Holds
<1>8. 0 \in Handle /\ a \in Handle /\ <<>> \in Seq(StepType) /\ None \in Obj \cup {None}
      /\ "ok" \in {"idle", "ok"} \cup Codes
  BY <1>2, NothingLeft DEF Handle, FfiType
<1>9. given' \subseteq Handle
  BY <1>2, <1>4 DEF FfiType
<1>10. ASSUME Progress(t)', ~Due(t)', call' \in [Thread -> CallType],
              \A u \in Thread \ {t} : call'[u] = call[u]
       PROVE  Inv'
  <2>1. NoLeak'
    BY <1>4, <1>5, <1>6, <1>10, NoLeakKept DEF Sound
  <2> QED
    BY <1>4, <1>5, <1>9, <1>10, <2>1, Assembled
<1>11. CASE Checks(program)
            /\ \E e \in Head(program).errs : call' = [call EXCEPT ![t] = [NoCall EXCEPT !.err = e]]
  <2>1. PICK e \in Head(program).errs : call' = [call EXCEPT ![t] = [NoCall EXCEPT !.err = e]]
    BY <1>11
  <2>2. e \in Codes
    <3>1. program # <<>>
      BY <1>11 DEF Checks
    <3>2. Head(program) \in StepType
      BY <1>3, <3>1, TailOf
    <3> QED
      BY <3>2 DEF StepType
  <2> DEFINE d == [NoCall EXCEPT !.err = e]
  <2>3. \A y : y = d => y = [todo |-> <<>>, arg |-> 0, obj |-> None, new |-> 0, err |-> e]
    BY NewCalls
  <2>4. call' = [call EXCEPT ![t] = d]
    BY <2>1
  <2> HIDE DEF d
  <2>5. call' = [call EXCEPT ![t] = [todo |-> <<>>, arg |-> 0, obj |-> None, new |-> 0, err |-> e]]
    BY <2>3, <2>4
  <2>6. Calls(t, <<>>, 0, None, 0, e)
    BY <1>2, <1>8, <2>2, <2>5, CallSet
  <2>7. /\ call' \in [Thread -> CallType]
        /\ \A u \in Thread \ {t} : call'[u] = call[u]
        /\ call'[t].todo = <<>> /\ call'[t].arg = 0 /\ call'[t].obj = None
        /\ call'[t].new = 0 /\ call'[t].err = e
    BY <2>6 DEF Calls
  <2>8. e # "idle" /\ e # "ok"
    BY <2>2 DEF Codes
  <2>9. Progress(t)'
    BY <1>7, <2>7, <2>8, NothingLeft, FfiAssumption DEF Progress
  <2>10. ~Due(t)'
    BY <2>7, <2>8 DEF Due
  <2> QED
    BY <1>10, <2>7, <2>9, <2>10
<1>12. CASE call' = [call EXCEPT ![t] = [c EXCEPT !.todo = q]]
  <2>1. q \in Seq(StepType)
    <3>1. CASE Checks(program)
      <4>1. program # <<>>
        BY <3>1 DEF Checks
      <4> QED
        BY <1>3, <3>1, <4>1, TailOf
    <3> QED
      BY <1>3, <3>1
  <2> HIDE DEF q
  <2> DEFINE d == [c EXCEPT !.todo = q]
  <2>3. \A y : y = d => y = [todo |-> q, arg |-> a, obj |-> None, new |-> 0, err |-> "ok"]
    BY NewCalls
  <2>4. call' = [call EXCEPT ![t] = d]
    BY <1>12
  <2> HIDE DEF d
  <2>5. call' = [call EXCEPT ![t] = [todo |-> q, arg |-> a, obj |-> None, new |-> 0, err |-> "ok"]]
    BY <2>3, <2>4
  <2>6. Calls(t, q, a, None, 0, "ok")
    BY <1>2, <1>8, <2>1, <2>5, CallSet
  <2>7. /\ call' \in [Thread -> CallType]
        /\ \A u \in Thread \ {t} : call'[u] = call[u]
        /\ call'[t].todo = q /\ call'[t].arg = a /\ call'[t].obj = None
        /\ call'[t].new = 0 /\ call'[t].err = "ok"
    BY <2>6 DEF Calls
  <2>8. Progress(t)'
    <3>1. \A j \in DOMAIN q : q[j].op = "result" =>
              \E i \in DOMAIN q : i < j /\ q[i].op \in {"take", "this"}
      BY <1>3 DEF Backed
    <3>2. call'[t].arg \in given' \cup {0}
      BY <1>4, <2>7
    <3> QED
      BY <1>3, <1>7, <2>7, <3>1, <3>2, FfiAssumption DEF Progress
  <2>9. ~Due(t)'
    BY <1>3, <2>7 DEF Due, Backed
  <2> QED
    BY <1>10, <2>7, <2>8, <2>9
<1> QED
  BY <1>1, <1>11, <1>12
-----------------------------------------------------------------------------
LEMMA InitInv ==
    ASSUME Init
    PROVE  Inv
<1>1. /\ Table!Init /\ surface \in Surfaces /\ call = [t \in Thread |-> NoCall]
      /\ given = {} /\ js = {} /\ proto = [o \in Obj |-> "none"]
      /\ outs = [o \in Obj |-> 0]
  BY DEF Init
<1>2. /\ hmap = [i \in {} |-> None] /\ guard = [t \in Thread |-> Table!NoGuard]
      /\ fate = [o \in Obj |-> "fresh"] /\ res = [t \in Thread |-> "none"]
  BY <1>1 DEF Table!Init
<1>3. NoCall \in CallType
  <2>1. 0 \in Handle /\ <<>> \in Seq(StepType)
    BY NothingLeft DEF Handle
  <2> QED
    BY <2>1 DEF NoCall, CallType
<1>4. FfiType
  <2>1. call \in [Thread -> CallType]
    BY <1>1, <1>3
  <2> QED
    BY <1>1, <2>1 DEF FfiType
<1>5. /\ Table!NoGuard \in Table!HandleGuard /\ Table!NoGuard.ptr = None
      /\ Table!NoGuard.handle = 0
  BY DEF Table!NoGuard, Table!HandleGuard, Table!Entry
<1>6. DOMAIN hmap = {} /\ \A t \in Thread : guard[t] = Table!NoGuard /\ ~Table!Holds(t)
  BY <1>2, <1>5 DEF Table!Holds
<1>7. TableType
  <2>1. guard \in [Thread -> Table!HandleGuard]
    BY <1>2, <1>5
  <2>2. \A t \in Thread : guard[t].handle = 0 => guard[t].ptr = None
    BY <1>5, <1>6
  <2> QED
    BY <1>2, <1>6, <2>1, <2>2 DEF TableType, Table!Result
<1>8. Placed
  BY <1>6, <1>7 DEF Placed, EntriesLive, GuardsLive, EntriesDiffer, GuardsDiffer, Apart,
                    Table!InUseIsHeld
<1>9. NoLeak
  BY <1>6 DEF NoLeak
<1>10. \A t \in Thread : /\ call[t] = NoCall /\ call[t].todo = <<>> /\ call[t].arg = 0
                         /\ call[t].obj = None /\ call[t].new = 0 /\ call[t].err = "idle"
  BY <1>1 DEF NoCall
<1>11. \A t \in Thread : Progress(t)
  BY <1>5, <1>6, <1>10, NothingLeft, FfiAssumption DEF Progress
<1>12. LastUse
  BY <1>10 DEF LastUse, Due
<1>13. \A o \in Obj : Object(o)
  BY <1>1, <1>2 DEF Object, Unread
<1> QED
  BY <1>4, <1>8, <1>9, <1>11, <1>12, <1>13 DEF Inv

LEMMA StutterInv ==
    ASSUME Inv, UNCHANGED vars
    PROVE  Inv'
<1>1. UNCHANGED <<hmap, guard, fate, res, surface, call, given, js, proto, outs>>
  BY DEF vars, tableVars
<1>2. FfiType' /\ Placed' /\ NoLeak'
  <2>1. Placed'
    BY <1>1, PlacedKept DEF Inv, Placed, TableType
  <2> QED
    BY <1>1, <2>1 DEF Inv, FfiType, NoLeak
<1>3. LastUse'
  BY <1>1 DEF Inv, LastUse, Due, Final, Unread, Unborn
<1>4. \A t \in Thread : Progress(t)'
  BY <1>1 DEF Inv, Progress, Unborn, Table!Holds
<1>5. \A o \in Obj : Object(o)'
  BY <1>1 DEF Inv, Object, Final, Unread, Unborn
<1> QED
  BY <1>2, <1>3, <1>4, <1>5 DEF Inv

LEMMA NextInv ==
    ASSUME Inv, [Next]_vars
    PROVE  Inv'
<1>1. CASE UNCHANGED vars
  BY <1>1, StutterInv
<1>2. CASE Next
  <2>1. PICK t \in Thread :
          \/ \E program \in surface.programs, a \in given \cup {0} : Begin(t, program, a)
          \/ Run(t)
    BY <1>2 DEF Next
  <2>2. CASE \E program \in surface.programs, a \in given \cup {0} : Begin(t, program, a)
    BY <2>2, BeginInv
  <2>3. CASE Run(t)
    BY <2>3, CheckInv, RefuseInv, GetInv, TakeInv, AllocInv, HandleFreeInv, ConstructInv,
       BorrowInv, FreeObjectInv, FeedItInv, PeekAtInv, TakeResultInv, WriteInv, LeaveInv
       DEF Run
  <2> QED
    BY <2>1, <2>2, <2>3
<1> QED
  BY <1>1, <1>2

\* The inductive invariant: the calls of every surface, on any number of threads,
\* are at a step their bodies allow, the table and the guards keep each object in
\* one place, and a call with only its output left is the last user of its object.
THEOREM FfiInvariant == Spec => []Inv
<1>1. Init => Inv
  BY InitInv
<1>2. Inv /\ [Next]_vars => Inv'
  BY NextInv
<1> QED
  BY <1>1, <1>2, PTL DEF Spec

\* No call of any surface loses what it allocated: whatever fails, and whatever the
\* other threads do, the handle of every object in the table is known to a caller
\* or held by the call that is about to return it.
THEOREM NoLeakAlways == Spec => []NoLeak
<1>1. Inv => NoLeak
  BY DEF Inv
<1> QED
  BY <1>1, FfiInvariant, PTL

\* A call that returns a refusal (null pointer, unknown handle, handle in use or of
\* another type) has consumed, lent and allocated nothing.
THEOREM RefusalIsHarmlessAlways == Spec => []RefusalIsHarmless
<1>1. ASSUME Inv PROVE RefusalIsHarmless
  <2> SUFFICES ASSUME NEW t \in Thread, call[t].err = "refused"
               PROVE  call[t].obj = None /\ call[t].new = 0 /\ ~Table!Holds(t)
    BY DEF RefusalIsHarmless
  <2>1. Progress(t)
    BY <1>1 DEF Inv
  <2> QED
    BY <2>1 DEF Progress, Table!Holds
<1> QED
  BY <1>1, FfiInvariant, PTL

\* An entry of the table that is in use belongs to a call that is running: no
\* caller is told LIB_HANDLE_IN_USE for good, whatever the call that borrowed the
\* object returns.
THEOREM InUseWhileRunningAlways == Spec => []InUseWhileRunning
<1>1. ASSUME Inv PROVE InUseWhileRunning
  <2> SUFFICES ASSUME NEW h \in DOMAIN hmap, hmap[h] = None
               PROVE  \E t \in Busy : Table!Holds(t) /\ guard[t].handle = h
    BY DEF InUseWhileRunning
  <2>1. PICK t \in Thread : Table!Holds(t) /\ guard[t].handle = h
    BY <1>1 DEF Inv, Placed, Table!InUseIsHeld
  <2>2. call[t].err # "idle"
    BY <1>1, <2>1 DEF Inv, Progress
  <2> QED
    BY <2>1, <2>2 DEF Busy
<1> QED
  BY <1>1, FfiInvariant, PTL
-----------------------------------------------------------------------------
\* The stages of the one-shot promise, by what the owner of an object has left.
Alive(o) == fate[o] = "live" \/ o \in js \/ InHand(o)
AliveAfter(o) ==
    fate'[o] = "live" \/ o \in js' \/ \E t \in Thread : call'[t].obj = o /\ call'[t].err = "ok"

LEMMA StageIs ==
    ASSUME Inv, NEW o \in Obj
    PROVE  /\ Alive(o) => ~Unborn(o)
           /\ outs[o] \in {0, 1}
           /\ Stage[o] = IF outs[o] = 1 THEN "used" ELSE IF Alive(o) THEN "issued"
                         ELSE IF Unborn(o) THEN "unborn" ELSE "lost"
<1>1. outs[o] \in {0, 1} /\ Object(o) /\ \A t \in Thread : Progress(t)
  BY DEF Inv, FfiType
<1>2. Alive(o) => ~Unborn(o)
  BY <1>1 DEF Alive, InHand, Object, Progress, Unborn
<1> QED
  BY <1>1, <1>2 DEF Stage, Alive, Unborn

LEMMA StageWillBe ==
    ASSUME Inv', NEW o \in Obj
    PROVE  /\ AliveAfter(o) => ~UnbornAfter(o)
           /\ outs'[o] \in {0, 1}
           /\ Stage'[o] = IF outs'[o] = 1 THEN "used" ELSE IF AliveAfter(o) THEN "issued"
                          ELSE IF UnbornAfter(o) THEN "unborn" ELSE "lost"
<1>1. outs'[o] \in {0, 1} /\ Object(o)' /\ \A t \in Thread : Progress(t)'
  BY DEF Inv, FfiType
<1>2. AliveAfter(o) => ~UnbornAfter(o)
  BY <1>1 DEF AliveAfter, Object, Progress, Unborn, UnbornAfter
<1> QED
  BY <1>1, <1>2 DEF Stage, InHand, AliveAfter, UnbornAfter

\* A step of thread t that creates nothing and writes no output loses what it
\* leaves with no owner, and no more.
LEMMA Loses ==
    ASSUME Inv, Inv', NEW t \in Thread, outs' = outs, js' \subseteq js,
           \A x \in Obj : /\ fate'[x] = "live" => fate[x] = "live"
                          /\ UnbornAfter(x) => Unborn(x),
           \A u \in Thread \ {t} : call'[u] = call[u],
           call'[t].err = "ok" /\ call'[t].obj \in Obj => Alive(call'[t].obj)
    PROVE  Once!Next
<1> DEFINE S == {x \in Obj : Stage'[x] = "lost" /\ Stage[x] # "lost"}
<1>1. \A x \in Obj : AliveAfter(x) => Alive(x)
  BY DEF AliveAfter, Alive, InHand
<1>2. \A s \in S : Stage[s] \in {"unborn", "issued"}
  BY StageIs, StageWillBe
<1>3. \A x \in Obj : Stage'[x] = IF x \in S THEN "lost" ELSE Stage[x]
  BY <1>1, StageIs, StageWillBe
<1>4. Stage' = [x \in Obj |-> IF x \in S THEN "lost" ELSE Stage[x]]
  <2>1. Stage' = [x \in Obj |-> Stage'[x]]
    BY DEF Stage
  <2> QED
    BY <1>3, <2>1
<1>5. S \in SUBSET Obj
  OBVIOUS
<1> HIDE DEF S
<1>6. Once!Lose(S)
  BY <1>2, <1>4 DEF Once!Lose
<1> QED
  BY <1>5, <1>6 DEF Once!Next

\* A step that moves one object on and leaves the others where they are.
LEMMA MovesOne ==
    ASSUME Inv, Inv', NEW o \in Obj, NEW from, NEW to, Stage[o] \in from, Stage'[o] = to,
           \A x \in Obj \ {o} : /\ outs'[x] = outs[x]
                                /\ AliveAfter(x) <=> Alive(x)
                                /\ UnbornAfter(x) <=> Unborn(x)
    PROVE  Once!Move(o, from, to)
<1>1. \A x \in Obj : Stage'[x] = IF x = o THEN to ELSE Stage[x]
  BY StageIs, StageWillBe
<1>2. Stage' = [x \in Obj |-> Stage'[x]] /\ Stage = [x \in Obj |-> Stage[x]]
  BY DEF Stage
<1> HIDE DEF Stage
<1>3. Stage' = [Stage EXCEPT ![o] = to]
  BY <1>1, <1>2
<1> QED
  BY <1>3 DEF Once!Move

\* A call that goes on with the object it has, or ends with an error, keeps alive
\* only what was alive.
LEMMA SameObject ==
    ASSUME Inv, NEW t \in Thread, call[t].todo # <<>>,
           \/ GoOn(t, call[t])
           \/ \E k \in Codes : Err(t, k)
    PROVE  /\ \A u \in Thread \ {t} : call'[u] = call[u]
           /\ call'[t].err = "ok" /\ call'[t].obj \in Obj => Alive(call'[t].obj)
<1>1. FfiType
  BY DEF Inv
<1>2. CASE GoOn(t, call[t])
  <2>1. Calls(t, Tail(call[t].todo), call[t].arg, call[t].obj, call[t].new, call[t].err)
    BY <1>1, <1>2, GoOnCalls
  <2> QED
    BY <2>1 DEF Calls, Alive, InHand
<1>3. CASE \E k \in Codes : Err(t, k)
  <2>1. PICK k \in Codes : Err(t, k)
    BY <1>3
  <2>2. Calls(t, <<>>, 0, call[t].obj, call[t].new, k)
    BY <1>1, <2>1, GoOnCalls
  <2> QED
    BY <2>2 DEF Calls, Codes
<1> QED
  BY <1>2, <1>3

\* A step that changes no table, object or output.
LEMMA QuietOnce ==
    ASSUME Inv, Inv', NEW t \in Thread, UNCHANGED <<fate, proto, outs>>, js' \subseteq js,
           \A u \in Thread \ {t} : call'[u] = call[u],
           call'[t].err = "ok" /\ call'[t].obj \in Obj => Alive(call'[t].obj)
    PROVE  Once!Next
<1>1. \A x \in Obj : /\ fate'[x] = "live" => fate[x] = "live"
                     /\ UnbornAfter(x) => Unborn(x)
  BY DEF Unborn, UnbornAfter
<1> QED
  BY <1>1, Loses

LEMMA BeginOnce ==
    ASSUME Inv, Inv', NEW t \in Thread, NEW program, NEW a, Begin(t, program, a)
    PROVE  Once!Next
<1> DEFINE q == IF Checks(program) THEN Tail(program) ELSE program
           c == [NoCall EXCEPT !.arg = a, !.err = "ok"]
<1>1. /\ \/ \E e : call' = [call EXCEPT ![t] = [NoCall EXCEPT !.err = e]]
         \/ call' = [call EXCEPT ![t] = [c EXCEPT !.todo = q]]
      /\ UNCHANGED <<tableVars, surface, given, js, proto, outs>>
  BY DEF Begin
<1>2. call \in [Thread -> CallType]
  BY DEF Inv, FfiType
<1>3. \E d : call' = [call EXCEPT ![t] = d] /\ d.obj = None
  <2>1. CASE \E e : call' = [call EXCEPT ![t] = [NoCall EXCEPT !.err = e]]
    <3>1. PICK e : call' = [call EXCEPT ![t] = [NoCall EXCEPT !.err = e]]
      BY <2>1
    <3>2. [NoCall EXCEPT !.err = e].obj = None
      BY DEF NoCall
    <3> QED
      BY <3>1, <3>2
  <2>2. CASE call' = [call EXCEPT ![t] = [c EXCEPT !.todo = q]]
    <3> HIDE DEF q
    <3>1. [c EXCEPT !.todo = q].obj = None
      BY DEF NoCall
    <3> QED
      BY <2>2, <3>1
  <2> QED
    BY <1>1, <2>1, <2>2
<1>4. (\A u \in Thread \ {t} : call'[u] = call[u]) /\ call'[t].obj = None
  BY <1>2, <1>3
<1>5. UNCHANGED <<fate, proto, outs, js>>
  BY <1>1 DEF tableVars
<1> QED
  BY <1>4, <1>5, QuietOnce, FfiAssumption

\* The steps that touch neither an object nor an output.
LEMMA QuietStepsOnce ==
    ASSUME Inv, Inv', NEW t \in Thread, Check(t) \/ Refuse(t) \/ FreeObject(t) \/ PeekAt(t)
    PROVE  Once!Next
<1>1. /\ UNCHANGED <<fate, proto, outs>> /\ js' \subseteq js
      /\ call[t].todo # <<>>
      /\ GoOn(t, call[t]) \/ \E k \in Codes : Err(t, k)
  <2>1. CASE Check(t)
    <3>1. /\ At(t, "fails") /\ UNCHANGED <<tableVars, js, proto, outs>>
          /\ GoOn(t, call[t]) \/ \E e \in Here(t).errs : Err(t, e)
      BY <2>1 DEF Check
    <3>2. call[t].todo # <<>> /\ Here(t).errs \subseteq {"failed"} /\ "failed" \in Codes
      BY <3>1, AtStep
    <3> QED
      BY <3>1, <3>2 DEF tableVars
  <2>2. CASE Refuse(t)
    <3>1. /\ At(t, "get") \/ At(t, "take")
          /\ UNCHANGED <<js, proto, outs>>
          /\ Table!LookupError(t, call[t].arg, Here(t).type)
          /\ Err(t, Kind(ErrorOf(res'[t])))
      BY <2>2 DEF Refuse
    <3>2. call[t].todo # <<>>
      BY <3>1, AtStep
    <3>3. fate' = fate
      BY <3>1 DEF Table!LookupError
    <3>4. Kind(ErrorOf(res'[t])) \in Codes
      BY DEF Kind, Codes
    <3> QED
      BY <3>1, <3>2, <3>3, <3>4
  <2>3. CASE FreeObject(t)
    <3>1. At(t, "drop") /\ UNCHANGED <<tableVars, proto, outs>> /\ js' \subseteq js
          /\ GoOn(t, call[t])
      BY <2>3 DEF FreeObject
    <3> QED
      BY <3>1, AtStep DEF tableVars
  <2>4. CASE PeekAt(t)
    <3>1. At(t, "peek") /\ UNCHANGED <<tableVars, js, proto, outs>> /\ GoOn(t, call[t])
      BY <2>4 DEF PeekAt
    <3> QED
      BY <3>1, AtStep DEF tableVars
  <2> QED
    BY <2>1, <2>2, <2>3, <2>4
<1>2. /\ \A u \in Thread \ {t} : call'[u] = call[u]
      /\ call'[t].err = "ok" /\ call'[t].obj \in Obj => Alive(call'[t].obj)
  BY <1>1, SameObject
<1> QED
  BY <1>1, <1>2, QuietOnce

LEMMA GetOnce ==
    ASSUME Inv, Inv', NEW t \in Thread, Get(t)
    PROVE  Once!Next
<1> DEFINE h == call[t].arg
           o == hmap[h]
<1>1. /\ At(t, "get") /\ Table!Get(t, h, Here(t).type)
      /\ GoOn(t, [call[t] EXCEPT !.arg = 0, !.obj = o])
      /\ UNCHANGED <<js, proto, outs>>
  BY DEF Get
<1>2. call[t].todo # <<>> /\ FfiType /\ Placed
  BY <1>1, AtStep DEF Inv
<1>3. Table!Lookup(h, Here(t).type) = "ok" /\ fate' = fate
  BY <1>1 DEF Table!Get
<1>4. o \in Obj /\ h \in DOMAIN hmap /\ o # None
  BY <1>2, <1>3, LookupOk
<1>5. Alive(o)
  BY <1>2, <1>4 DEF Placed, EntriesLive, Alive
<1>6. Calls(t, Tail(call[t].todo), 0, o, call[t].new, call[t].err)
  BY <1>1, <1>2, <1>4, GoOnCalls
<1> HIDE DEF h, o
<1>7. (\A u \in Thread \ {t} : call'[u] = call[u]) /\ call'[t].obj = o
  BY <1>6 DEF Calls
<1> QED
  BY <1>1, <1>3, <1>5, <1>7, QuietOnce

LEMMA TakeOnce ==
    ASSUME Inv, Inv', NEW t \in Thread, Take(t)
    PROVE  Once!Next
<1> DEFINE h == call[t].arg
           o == hmap[h]
<1>1. /\ At(t, "take") /\ Table!Take(t, h, Here(t).type)
      /\ GoOn(t, [call[t] EXCEPT !.arg = 0, !.obj = o])
      /\ UNCHANGED <<js, proto, outs>>
  BY DEF Take
<1>2. call[t].todo # <<>> /\ FfiType /\ Placed
  BY <1>1, AtStep DEF Inv
<1>3. /\ Table!Lookup(h, Here(t).type) = "ok"
      /\ fate' = [fate EXCEPT ![o] = "consumed"]
  BY <1>1 DEF Table!Take
<1>4. o \in Obj /\ h \in DOMAIN hmap /\ o # None
  BY <1>2, <1>3, LookupOk
<1>5. Alive(o)
  BY <1>2, <1>4 DEF Placed, EntriesLive, Alive
<1>6. Calls(t, Tail(call[t].todo), 0, o, call[t].new, call[t].err)
  BY <1>1, <1>2, <1>4, GoOnCalls
<1>7. fate \in [Obj -> {"fresh", "live", "consumed", "dropped"}]
  BY <1>2 DEF Placed, TableType
<1> HIDE DEF h, o
<1>8. (\A u \in Thread \ {t} : call'[u] = call[u]) /\ call'[t].obj = o
  BY <1>6 DEF Calls
<1>9. \A x \in Obj : /\ fate'[x] = "live" => fate[x] = "live"
                     /\ UnbornAfter(x) => Unborn(x)
  BY <1>1, <1>3, <1>4, <1>7 DEF Unborn, UnbornAfter
<1> QED
  BY <1>1, <1>5, <1>8, <1>9, Loses

LEMMA HandleFreeOnce ==
    ASSUME Inv, Inv', NEW t \in Thread, HandleFree(t)
    PROVE  Once!Next
<1> DEFINE h == call[t].arg
<1>1. /\ At(t, "free") /\ UNCHANGED <<js, proto, outs>>
      /\ \/ Table!Free(t, h) /\ GoOn(t, call[t])
         \/ Table!FreeError(t, h) /\ Err(t, Kind(ErrorOf(res'[t])))
  BY DEF HandleFree
<1>2. call[t].todo # <<>> /\ Placed
  BY <1>1, AtStep DEF Inv
<1>3. Kind(ErrorOf(res'[t])) \in Codes
  BY DEF Kind, Codes
<1>4. /\ \A u \in Thread \ {t} : call'[u] = call[u]
      /\ call'[t].err = "ok" /\ call'[t].obj \in Obj => Alive(call'[t].obj)
  BY <1>1, <1>2, <1>3, SameObject
<1>5. \A x \in Obj : fate'[x] \in {fate[x], "dropped"}
  <2>1. CASE Table!Free(t, h)
    <3>1. \A x \in Obj : fate'[x] = IF x = hmap[h] THEN "dropped" ELSE fate[x]
      BY <1>2, <2>1, FreeEffect
    <3> QED
      BY <3>1
  <2>2. CASE Table!FreeError(t, h)
    BY <2>2 DEF Table!FreeError
  <2> QED
    BY <1>1, <2>1, <2>2
<1>6. \A x \in Obj : /\ fate'[x] = "live" => fate[x] = "live"
                     /\ UnbornAfter(x) => Unborn(x)
  BY <1>1, <1>5 DEF Unborn, UnbornAfter
<1> QED
  BY <1>1, <1>4, <1>6, Loses

LEMMA BorrowOnce ==
    ASSUME Inv, Inv', NEW t \in Thread, Borrow(t)
    PROVE  Once!Next
<1> DEFINE o == call[t].arg
<1>1. /\ At(t, "this") /\ UNCHANGED <<tableVars, js, proto, outs>>
      /\ \/ o \in js /\ GoOn(t, [call[t] EXCEPT !.arg = 0, !.obj = o])
         \/ Err(t, Kind(Js))
  BY DEF Borrow
<1>2. call[t].todo # <<>> /\ FfiType
  BY <1>1, AtStep DEF Inv
<1>3. CASE o \in js /\ GoOn(t, [call[t] EXCEPT !.arg = 0, !.obj = o])
  <2>1. o \in Obj /\ Alive(o)
    BY <1>2, <1>3 DEF FfiType, Alive
  <2>2. Calls(t, Tail(call[t].todo), 0, o, call[t].new, call[t].err)
    BY <1>2, <1>3, <2>1, GoOnCalls
  <2> HIDE DEF o
  <2>3. (\A u \in Thread \ {t} : call'[u] = call[u]) /\ call'[t].obj = o
    BY <2>2 DEF Calls
  <2> QED
    BY <1>1, <2>1, <2>3, QuietOnce DEF tableVars
<1>4. CASE Err(t, Kind(Js))
  <2>1. Kind(Js) \in Codes
    BY TableErrors
  <2>2. /\ \A u \in Thread \ {t} : call'[u] = call[u]
        /\ call'[t].err = "ok" /\ call'[t].obj \in Obj => Alive(call'[t].obj)
    BY <1>2, <1>4, <2>1, SameObject
  <2> QED
    BY <1>1, <2>2, QuietOnce DEF tableVars
<1> QED
  BY <1>1, <1>3, <1>4

\* Feeding a session and taking its result leave it created.
LEMMA ProtoStepsOnce ==
    ASSUME Inv, Inv', NEW t \in Thread, FeedIt(t) \/ TakeResult(t)
    PROVE  Once!Next
<1> DEFINE o == call[t].obj
<1>1. /\ UNCHANGED <<tableVars, js, outs>>
      /\ call[t].todo # <<>>
      /\ GoOn(t, call[t]) \/ \E k \in Codes : Err(t, k)
      /\ \/ proto' = proto
         \/ \E p \in {"running", "ok", "err", "spent"} : proto' = [proto EXCEPT ![o] = p]
  <2>1. CASE FeedIt(t)
    <3>1. At(t, "feed")
      BY <2>1 DEF FeedIt
    <3> QED
      BY <2>1, <3>1, AtStep DEF FeedIt
  <2>2. CASE TakeResult(t)
    <3>1. At(t, "result")
      BY <2>2 DEF TakeResult
    <3>2. GoOn(t, call[t]) \/ Err(t, "failed")
      BY <2>2, TableErrors DEF TakeResult
    <3>3. UNCHANGED <<tableVars, js, outs>> /\ proto' = [proto EXCEPT ![o] = "spent"]
      BY <2>2 DEF TakeResult, Emptied
    <3> QED
      BY <3>1, <3>2, <3>3, AtStep, TableErrors
  <2> QED
    BY <2>1, <2>2
<1>2. /\ \A u \in Thread \ {t} : call'[u] = call[u]
      /\ call'[t].err = "ok" /\ call'[t].obj \in Obj => Alive(call'[t].obj)
  BY <1>1, SameObject
<1>3. proto \in [Obj -> {"none", "plain", "running", "ok", "err", "spent"}]
  BY DEF Inv, FfiType
<1> HIDE DEF o
<1>4. \A x \in Obj : proto'[x] = "none" => proto[x] = "none"
  BY <1>1, <1>3
<1>5. fate' = fate
  BY <1>1 DEF tableVars
<1>6. \A x \in Obj : /\ fate'[x] = "live" => fate[x] = "live"
                     /\ UnbornAfter(x) => Unborn(x)
  BY <1>4, <1>5 DEF Unborn, UnbornAfter
<1> QED
  BY <1>1, <1>2, <1>6, Loses

\* A created object is issued, and nothing else moves.
LEMMA Issues ==
    ASSUME Inv, Inv', NEW t \in Thread, call[t].todo # <<>>, NEW o \in Obj, NEW n \in Handle,
           Unborn(o), AliveAfter(o), outs' = outs, js' = js \/ js' = js \cup {o},
           \A x \in Obj \ {o} : fate'[x] = fate[x] /\ proto'[x] = proto[x],
           GoOn(t, [call[t] EXCEPT !.new = n])
    PROVE  Once!Next
<1>1. FfiType
  BY DEF Inv
<1>2. Calls(t, Tail(call[t].todo), call[t].arg, call[t].obj, n, call[t].err)
  BY <1>1, GoOnCalls
<1>3. \A u \in Thread : call'[u].obj = call[u].obj /\ call'[u].err = call[u].err
  BY <1>2 DEF Calls
<1>4. \A x \in Obj \ {o} : /\ outs'[x] = outs[x]
                           /\ AliveAfter(x) <=> Alive(x)
                           /\ UnbornAfter(x) <=> Unborn(x)
  BY <1>3 DEF AliveAfter, Alive, InHand, UnbornAfter, Unborn
<1>5. outs[o] = 0
  BY DEF Inv, FfiType, Object, Final
<1>6. Stage[o] \in {"unborn"}
  BY <1>5, StageIs
<1>7. Stage'[o] = "issued"
  BY <1>5, StageWillBe
<1>8. Once!Issue(o)
  BY <1>4, <1>6, <1>7, MovesOne DEF Once!Issue
<1> QED
  BY <1>8 DEF Once!Next

LEMMA AllocOnce ==
    ASSUME Inv, Inv', NEW t \in Thread, Alloc(t)
    PROVE  Once!Next
<1>1. At(t, "alloc") /\ UNCHANGED <<js, outs>>
  BY DEF Alloc
<1>2. PICK o \in Fresh(Here(t).type) :
          /\ Table!Allocate(t, o)
          /\ IF res'[t] = "ok"
             THEN /\ GoOn(t, [call[t] EXCEPT !.new = CHOOSE h \in DOMAIN hmap' : hmap'[h] = o])
                  /\ Started(o)
             ELSE Err(t, Kind(ErrorOf(res'[t]))) /\ UNCHANGED proto
  BY DEF Alloc
<1>3. o \in Obj /\ Unborn(o)
  BY <1>2 DEF Fresh, Unborn
<1>4. FfiType /\ Placed /\ call[t].todo # <<>>
  BY <1>1, AtStep DEF Inv
<1>5. /\ \A x \in Obj \ {o} : fate'[x] = fate[x]
      /\ \/ /\ res'[t] = "ok"
            /\ fate'[o] = "live"
            /\ \E h \in Table!Id \ DOMAIN hmap :
                  hmap' = [i \in DOMAIN hmap \cup {h} |-> IF i = h THEN o ELSE hmap[i]]
         \/ /\ res'[t] = "TableFull"
            /\ fate'[o] = "dropped"
  BY <1>2, <1>3, <1>4, AllocateEffect
<1>6. CASE res'[t] = "ok"
  <2> DEFINE n == CHOOSE h \in DOMAIN hmap' : hmap'[h] = o
  <2>1. fate'[o] = "live" /\ Started(o) /\ GoOn(t, [call[t] EXCEPT !.new = n])
    BY <1>2, <1>5, <1>6
  <2>2. PICK h \in Table!Id \ DOMAIN hmap :
            hmap' = [i \in DOMAIN hmap \cup {h} |-> IF i = h THEN o ELSE hmap[i]]
    BY <1>5, <1>6
  <2>3. h \in DOMAIN hmap' /\ hmap'[h] = o /\ DOMAIN hmap' \subseteq Table!Id
    BY <1>4, <2>2 DEF Placed, TableType
  <2>4. n \in DOMAIN hmap'
    BY <2>3
  <2> HIDE DEF n
  <2>5. n \in Handle
    BY <2>3, <2>4 DEF Handle
  <2>6. \A x \in Obj \ {o} : proto'[x] = proto[x]
    BY <1>3, <1>4, <2>1, StartedEffect
  <2>7. AliveAfter(o)
    BY <2>1 DEF AliveAfter
  <2> QED
    BY <1>1, <1>3, <1>4, <1>5, <2>1, <2>5, <2>6, <2>7, Issues
<1>7. CASE res'[t] # "ok"
  <2>1. fate'[o] = "dropped" /\ Err(t, Kind(ErrorOf(res'[t]))) /\ proto' = proto
    BY <1>2, <1>5, <1>7
  <2>2. Kind(ErrorOf(res'[t])) \in Codes
    BY DEF Kind, Codes
  <2>3. /\ \A u \in Thread \ {t} : call'[u] = call[u]
        /\ call'[t].err = "ok" /\ call'[t].obj \in Obj => Alive(call'[t].obj)
    BY <1>4, <2>1, <2>2, SameObject
  <2>4. \A x \in Obj : /\ fate'[x] = "live" => fate[x] = "live"
                       /\ UnbornAfter(x) => Unborn(x)
    BY <1>5, <2>1 DEF Unborn, UnbornAfter
  <2> QED
    BY <1>1, <2>3, <2>4, Loses
<1> QED
  BY <1>6, <1>7

LEMMA ConstructOnce ==
    ASSUME Inv, Inv', NEW t \in Thread, Construct(t)
    PROVE  Once!Next
<1>1. At(t, "new") /\ UNCHANGED <<tableVars, surface, given, outs>>
  BY DEF Construct
<1>2. PICK o \in Fresh(Here(t).type) :
          /\ js' = js \cup {o}
          /\ IF Here(t).type = "Session" THEN Started(o)
             ELSE proto' = [proto EXCEPT ![o] = "plain"]
          /\ GoOn(t, [call[t] EXCEPT !.new = o])
  BY DEF Construct
<1>3. o \in Obj /\ Unborn(o) /\ o \in Handle
  BY <1>2 DEF Fresh, Unborn, Handle
<1>4. FfiType /\ call[t].todo # <<>>
  BY <1>1, AtStep DEF Inv
<1>5. \A x \in Obj \ {o} : proto'[x] = proto[x]
  <2>1. CASE Started(o)
    BY <1>3, <1>4, <2>1, StartedEffect
  <2>2. CASE proto' = [proto EXCEPT ![o] = "plain"]
    BY <1>4, <2>2 DEF FfiType
  <2> QED
    BY <1>2, <2>1, <2>2
<1>6. AliveAfter(o)
  BY <1>2 DEF AliveAfter
<1>7. fate' = fate /\ outs' = outs
  BY <1>1 DEF tableVars
<1> QED
  BY <1>2, <1>3, <1>4, <1>5, <1>6, <1>7, Issues

\* An output uses up the object of its call.
LEMMA WriteOnce ==
    ASSUME Inv, Inv', NEW t \in Thread, Write(t)
    PROVE  Once!Next
<1> DEFINE o == call[t].obj
<1>1. At(t, "out") /\ UNCHANGED <<tableVars, js, proto>>
  BY DEF Write
<1>2. /\ call[t].todo # <<>> /\ call[t].err = "ok" /\ FfiType
      /\ Here(t).errs \subseteq {"failed"} /\ "failed" \in Codes
  BY <1>1, AtStep DEF Inv
<1>3. fate' = fate /\ js' = js /\ proto' = proto
  BY <1>1 DEF tableVars
<1>4. CASE outs' = [outs EXCEPT ![call[t].obj] = IF @ = 2 THEN 2 ELSE @ + 1]
           /\ GoOn(t, call[t])
  <2>1. o \in Obj /\ outs[o] = 0 /\ outs'[o] = 1 /\ \A x \in Obj \ {o} : outs'[x] = outs[x]
    BY <1>1, <1>4, AtOut, WriteEffect DEF Final
  <2>2. Calls(t, Tail(call[t].todo), call[t].arg, call[t].obj, call[t].new, call[t].err)
    BY <1>2, <1>4, GoOnCalls
  <2>3. \A u \in Thread : call'[u].obj = call[u].obj /\ call'[u].err = call[u].err
    BY <2>2 DEF Calls
  <2>4. Alive(o)
    BY <1>2 DEF Alive, InHand
  <2> HIDE DEF o
  <2>5. \A x \in Obj \ {o} : /\ outs'[x] = outs[x]
                             /\ AliveAfter(x) <=> Alive(x)
                             /\ UnbornAfter(x) <=> Unborn(x)
    BY <1>3, <2>1, <2>3 DEF AliveAfter, Alive, InHand, UnbornAfter, Unborn
  <2>6. Stage[o] \in {"issued"}
    BY <2>1, <2>4, StageIs
  <2>7. Stage'[o] = "used"
    BY <2>1, StageWillBe
  <2>8. Once!Use(o)
    BY <2>1, <2>5, <2>6, <2>7, MovesOne DEF Once!Use
  <2> QED
    BY <2>1, <2>8 DEF Once!Next
<1>5. CASE (\E e \in Here(t).errs : Err(t, e)) /\ UNCHANGED outs
  <2>1. \E k \in Codes : Err(t, k)
    BY <1>2, <1>5
  <2>2. /\ \A u \in Thread \ {t} : call'[u] = call[u]
        /\ call'[t].err = "ok" /\ call'[t].obj \in Obj => Alive(call'[t].obj)
    BY <1>2, <2>1, SameObject
  <2> QED
    BY <1>3, <1>5, <2>2, QuietOnce
<1> QED
  BY <1>4, <1>5 DEF Write

LEMMA LeaveOnce ==
    ASSUME Inv, Inv', NEW t \in Thread, Leave(t)
    PROVE  Once!Next
<1>1. /\ IF Table!Holds(t) THEN Table!DropGuard(t) ELSE UNCHANGED tableVars
      /\ call' = [call EXCEPT ![t] = NoCall]
      /\ UNCHANGED <<surface, js, proto, outs>>
  BY DEF Leave
<1>2. FfiType /\ Placed
  BY DEF Inv
<1>3. \A u \in Thread \ {t} : call'[u] = call[u]
  BY <1>1, <1>2 DEF FfiType
<1>4. call'[t].err = "idle"
  BY <1>1, <1>2 DEF FfiType, NoCall
<1>5. \A x \in Obj : fate'[x] \in {fate[x], "dropped"}
  <2>1. CASE Table!DropGuard(t)
    BY <1>2, <2>1, DropGuardEffect
  <2>2. CASE UNCHANGED tableVars
    BY <2>2 DEF tableVars
  <2> QED
    BY <1>1, <2>1, <2>2
<1>6. \A x \in Obj : /\ fate'[x] = "live" => fate[x] = "live"
                     /\ UnbornAfter(x) => Unborn(x)
  BY <1>1, <1>5 DEF Unborn, UnbornAfter
<1> QED
  BY <1>1, <1>3, <1>4, <1>6, Loses

\* The refinement: the interleaved calls of any surface, on any number of threads
\* and with a table of any size, implement the one-shot promise of OneShot.
THEOREM SecretsOnceAlways == Spec => SecretsOnce
<1>1. Init => Once!Init
  <2> SUFFICES ASSUME Init PROVE Once!Init
    OBVIOUS
  <2>1. /\ call = [t \in Thread |-> NoCall] /\ js = {} /\ proto = [o \in Obj |-> "none"]
        /\ outs = [o \in Obj |-> 0] /\ fate = [o \in Obj |-> "fresh"]
    BY DEF Init, Table!Init
  <2>2. \A t \in Thread : call[t].err = "idle"
    BY <2>1 DEF NoCall
  <2>3. \A o \in Obj : ~Alive(o) /\ Unborn(o) /\ outs[o] = 0
    BY <2>1, <2>2 DEF Alive, InHand, Unborn
  <2>4. Inv
    BY InitInv
  <2>5. \A o \in Obj : Stage[o] = "unborn"
    BY <2>3, <2>4, StageIs
  <2>6. Stage = [o \in Obj |-> Stage[o]]
    BY DEF Stage
  <2> HIDE DEF Stage
  <2>7. Stage = [o \in Obj |-> "unborn"]
    BY <2>5, <2>6
  <2> QED
    BY <2>7 DEF Once!Init
<1>2. Inv /\ Inv' /\ [Next]_vars => [Once!Next]_Stage
  <2> SUFFICES ASSUME Inv, Inv', [Next]_vars PROVE [Once!Next]_Stage
    OBVIOUS
  <2>1. CASE UNCHANGED vars
    <3>1. UNCHANGED <<fate, call, js, proto, outs>>
      BY <2>1 DEF vars, tableVars
    <3>2. Stage' = Stage
      BY <3>1 DEF Stage, InHand
    <3> QED
      BY <3>2
  <2>2. CASE Next
    <3>1. PICK t \in Thread :
            \/ \E program \in surface.programs, a \in given \cup {0} : Begin(t, program, a)
            \/ Run(t)
      BY <2>2 DEF Next
    <3>2. CASE \E program \in surface.programs, a \in given \cup {0} : Begin(t, program, a)
      BY <3>2, BeginOnce
    <3>3. CASE Run(t)
      BY <3>3, QuietStepsOnce, GetOnce, TakeOnce, AllocOnce, HandleFreeOnce, ConstructOnce,
         BorrowOnce, ProtoStepsOnce, WriteOnce, LeaveOnce DEF Run
    <3> QED
      BY <3>1, <3>2, <3>3
  <2> QED
    BY <2>1, <2>2
<1> QED
  BY <1>1, <1>2, FfiInvariant, PTL DEF Spec, SecretsOnce, Once!Spec
=============================================================================
