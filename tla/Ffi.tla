--------------------------------- MODULE Ffi ---------------------------------
(***************************************************************************)
(* The calls of the four libraries that hold secrets between calls: the    *)
(* extern "C" functions of frozt-lib and fromt-lib, which keep them in the *)
(* handle table of frost-ffi, and the classes and functions of frozt-wasm  *)
(* and fromt-wasm.  A call is the sequence of steps its body takes: checks *)
(* that may return an error, table operations, work on the object in hand, *)
(* the writing of the outputs.  Threads interleave between the steps.  One *)
(* behaviour exercises one surface, the calls of one ceremony.             *)
(***************************************************************************)
EXTENDS Integers, Sequences, FiniteSets

CONSTANTS Thread, Obj, Type, TypeOf, MaxHandles, MaxId, None

ASSUME FfiAssumption ==
    /\ TypeOf \in [Obj -> Type]
    /\ MaxHandles \in Nat
    /\ MaxId \in Nat
    /\ None \notin Obj

VARIABLES
    last, hmap, guard, fate, res, misuse,  \* the handle table
    surface, \* the calls the callers use, and whether they are the browser's
    call,    \* the call each thread is in
    given,   \* handles (natively) or objects (in the browser) callers received
    js,      \* the JavaScript objects that were not freed
    proto,   \* the Protocol of a session object
    outs     \* how many outputs were computed from an object

Table == INSTANCE HandleTable

tableVars == <<last, hmap, guard, fate, res, misuse>>
vars == <<tableVars, surface, call, given, js, proto, outs>>
-----------------------------------------------------------------------------
(***************************************************************************)
(* The steps a call is made of.                                            *)
(***************************************************************************)
Null == "LIB_NULL_PTR"
Ser == "LIB_SERIALIZATION_ERROR"
Ident == "LIB_INVALID_IDENTIFIER"
Size == "LIB_INVALID_BUFFER_SIZE"
Ceremony == "ceremony error"   \* LIB_DKG_ERROR, LIB_SIGNING_ERROR, LIB_BLAME...
Panic == "LIB_UNKNOWN_ERROR"   \* what with_error_handler makes of a panic
Js == "JsError"

\* Of the code a call returns only its kind is kept: a refusal says that the
\* arguments or the handle are not usable, a failure that the work went wrong.
Refusals == {Null, "LIB_INVALID_HANDLE", "LIB_HANDLE_IN_USE", "LIB_INVALID_HANDLE_TYPE"}
Kind(e) == IF e \in Refusals THEN "refused" ELSE "failed"

Step(op, T, errs) == [op |-> op, type |-> T, errs |-> {Kind(e) : e \in errs}]

Fails(errs) == Step("fails", "", errs)   \* return one of errs, or go on
AllocOf(T) == Step("alloc", T, {})       \* Handle::allocate of a T
GetOf(T) == Step("get", T, {})           \* handle.get::<T>()
TakeOf(T) == Step("take", T, {})         \* handle.take::<T>()
FreeIt == Step("free", "", {})           \* Handle::free
NewOf(T) == Step("new", T, {})           \* an object of a wasm class T is constructed
ThisOf(T) == Step("this", T, {})         \* &self of a wasm class
Drop == Step("drop", "", {})             \* free() of a wasm class
Feed == Step("feed", "", {})             \* Protocol::feed
Peek == Step("peek", "", {})             \* Protocol::take_msg, msg_receiver
Result == Step("result", "", {})         \* Protocol::result
Out(errs) == Step("out", "", errs)       \* finish the output and write it
-----------------------------------------------------------------------------
(***************************************************************************)
(* The native surfaces.  A session surface has one shape, written out once *)
(* per ceremony in the source: what differs is where it can fail.  decode  *)
(* are the errors of the setup and identifiers, keys those of the stored   *)
(* keys, packed those of serialising the result.                           *)
(***************************************************************************)
SessionCallsTakeFirst(decode, keys, packed) ==
    [setupmsg_new |-> <<Fails({Null} \cup decode)>>,
     from_setup   |-> <<Fails({Null, Ser, Ident} \cup keys), AllocOf("Session")>>,
     feed         |-> <<Fails({Null}), GetOf("Session"), Feed>>,
     take_msg     |-> <<Fails({Null}), GetOf("Session"), Peek>>,
     msg_receiver |-> <<Fails({Null}), GetOf("Session"), Peek>>,
     result       |-> <<TakeOf("Session"), Fails({Null}), Result, Out(packed)>>,
     free         |-> <<TakeOf("Session")>>]

SessionCalls(decode, keys, packed) ==
    [setupmsg_new |-> <<Fails({Null} \cup decode)>>,
     from_setup   |-> <<Fails({Null, Ser, Ident} \cup keys), AllocOf("Session")>>,
     feed         |-> <<Fails({Null}), GetOf("Session"), Feed>>,
     take_msg     |-> <<Fails({Null}), GetOf("Session"), Peek>>,
     msg_receiver |-> <<Fails({Null}), GetOf("Session"), Peek>>,
     result       |-> <<Fails({Null}), TakeOf("Session"), Result, Out(packed)>>,
     free         |-> <<TakeOf("Session")>>]

handle_free == <<FreeIt>>

\* decode_parties and decode_u16_list of the two libraries: a short or
\* malformed list is a serialization error, whichever field it stops in.
FroztDecode == {Ser}
FromtDecode == {Ser}

FroztDkgSession == SessionCalls(FroztDecode, {}, {})
FroztSignStart ==
    [setupmsg_new          |-> <<Fails({Null} \cup FroztDecode)>>,
     from_setup            |-> <<Fails({Null, Ser, Ident}), AllocOf("Session")>>,
     from_setup_with_alpha |-> <<Fails({Null, Ser, Ident}), AllocOf("Session")>>]
FroztSignSession == SessionCalls(FroztDecode, {}, {})
FroztReshareSession == SessionCalls(FroztDecode, {Ceremony}, {Ser})
FroztKeyImportSession == SessionCalls(FroztDecode, {}, {})

FromtDkgSession == SessionCalls(FromtDecode, {}, {})
FromtSignSession == SessionCalls(FromtDecode, {}, {})
FromtReshareSession == SessionCalls(FromtDecode, {Ceremony}, {Ser})
FromtKeyImportSession == SessionCalls(FromtDecode, {}, {})
FromtKeyImageSession == SessionCalls(FromtDecode, {}, {})

\* The explicit rounds.  Round secrets of a DKG, a reshare and an import have
\* the same types, so their calls share the second round and may be mixed.
FroztDkgRounds ==
    [dkg_part1 |-> <<Fails({Null, Ident, Ceremony}), AllocOf("Secret1")>>,
     dkg_part2 |-> <<Fails({Null}), TakeOf("Secret1"), Fails({Ser, Ceremony}),
                     AllocOf("Secret2"), Out({})>>,
     dkg_part3 |-> <<Fails({Null}), TakeOf("Secret2"), Out({Ser, Ceremony})>>]
FroztReshareRounds ==
    [reshare_part1 |-> <<Fails({Null, Ser, Ident, Ceremony}), AllocOf("Secret1")>>,
     reshare_part3 |-> <<Fails({Null}), TakeOf("Secret2"), Out({Ser, Ceremony})>>]
FroztImportRounds ==
    [key_import_part1 |-> <<Fails({Null, Size, Ser, Ident, Ceremony}),
                            AllocOf("Secret1")>>,
     key_import_part3 |-> <<Fails({Null}), TakeOf("Secret2"), Out({Ser, Ceremony})>>]
FroztSignRoundsBorrow ==
    [sign_commit      |-> <<Fails({Null, Ser}), AllocOf("Secret1")>>,
     sign_new_package |-> <<Fails({Null, Ser, Ceremony})>>,
     sign             |-> <<Fails({Null, Ser}), GetOf("Secret1"), Out({Ser, Ceremony})>>,
     sign_aggregate   |-> <<Fails({Null, Ser, Ceremony})>>,
     verify_signature |-> <<Fails({Null, Ser, Ceremony})>>]
FroztSignRounds ==
    [sign_commit      |-> <<Fails({Null, Ser}), AllocOf("Secret1")>>,
     sign_new_package |-> <<Fails({Null, Ser, Ceremony})>>,
     sign             |-> <<Fails({Null, Ser}), TakeOf("Secret1"), Out({Ser, Ceremony})>>,
     sign_aggregate   |-> <<Fails({Null, Ser, Ceremony})>>,
     verify_signature |-> <<Fails({Null, Ser, Ceremony})>>]

FromtDkgRoundsEarly ==
    [dkg_part1 |-> <<Fails({Null, Ident}), AllocOf("Secret1"), Fails({Ceremony})>>,
     dkg_part2 |-> <<Fails({Null}), TakeOf("Secret1"), Fails({Ser, Ceremony}),
                     AllocOf("Secret2"), Out({})>>,
     dkg_part3 |-> <<Fails({Null}), TakeOf("Secret2"), Out({Ser, Ceremony})>>,
     key_import_part1 |-> <<Fails({Null, Size, Ident, Ceremony}), AllocOf("Secret1")>>,
     key_import_part3 |-> <<Fails({Null}), TakeOf("Secret2"), Out({Ser, Ceremony})>>]
FromtDkgRounds ==
    [dkg_part1 |-> <<Fails({Null, Ident, Ceremony}), AllocOf("Secret1")>>,
     dkg_part2 |-> <<Fails({Null}), TakeOf("Secret1"), Fails({Ser, Ceremony}),
                     AllocOf("Secret2"), Out({})>>,
     dkg_part3 |-> <<Fails({Null}), TakeOf("Secret2"), Out({Ser, Ceremony})>>,
     key_import_part1 |-> <<Fails({Null, Size, Ident, Ceremony}), AllocOf("Secret1")>>,
     key_import_part3 |-> <<Fails({Null}), TakeOf("Secret2"), Out({Ser, Ceremony})>>]
FromtReshareRounds ==
    [reshare_part1 |-> <<Fails({Null, Ser, Ident, Ceremony}), AllocOf("Secret1")>>,
     reshare_part3 |-> <<Fails({Null}), TakeOf("Secret2"), Out({Ser, Ceremony})>>]
FromtSignRounds ==
    [sign_commit         |-> <<Fails({Null, Ser}), AllocOf("Secret1")>>,
     sign_create_package |-> <<Fails({Null, Ser})>>,
     sign                |-> <<Fails({Null}), TakeOf("Secret1"), Out({Ser, Ceremony})>>,
     sign_aggregate      |-> <<Fails({Null, Ser, Ceremony})>>,
     verify_signature    |-> <<Fails({Null, Ser, Ceremony})>>]
FromtCkdRounds ==
    [ckd_part1 |-> <<Fails({Null, Ser, Ceremony}), AllocOf("Secret1")>>,
     ckd_part2 |-> <<Fails({Null}), TakeOf("Secret1"), Out({Ser, Ceremony})>>]
FromtKeyImageRounds ==
    [key_image_part1 |-> <<Fails({Null, Ser, Ceremony}), AllocOf("Secret1")>>,
     key_image_part2 |-> <<Fails({Null}), TakeOf("Secret1"), Out({Ser, Ceremony})>>]
FromtSpendRounds ==
    [spend_preprocess |-> <<Fails({Null, Ser, Ceremony}), AllocOf("Secret1")>>,
     spend_sign       |-> <<Fails({Null}), TakeOf("Secret1"),
                            Fails({Ser, Ceremony, Panic}), AllocOf("Secret2"), Out({})>>,
     spend_complete   |-> <<Fails({Null}), TakeOf("Secret2"), Out({Ser, Ceremony, Panic})>>]

\* Commitment trees (the first type) and the witnesses made from them (the
\* second): a witness is allocated while the tree is borrowed.
FroztTreeCalls ==
    [tree_from_state     |-> <<Fails({Null, Ser, Ceremony}), AllocOf("Secret1")>>,
     tree_append         |-> <<Fails({Null, Size, Ceremony}), GetOf("Secret1"), Fails({Ceremony})>>,
     tree_witness        |-> <<Fails({Null}), GetOf("Secret1"), Fails({Ceremony}),
                               AllocOf("Secret2")>>,
     witness_append      |-> <<Fails({Null, Size, Ceremony}), GetOf("Secret2"), Fails({Ceremony})>>,
     witness_root        |-> <<Fails({Null}), GetOf("Secret2"), Peek>>,
     witness_serialize   |-> <<Fails({Null}), GetOf("Secret2"), Fails({Ser})>>,
     witness_deserialize |-> <<Fails({Null, Ceremony}), AllocOf("Secret2")>>,
     tree_size           |-> <<Fails({Null, Ser, Ceremony})>>]
-----------------------------------------------------------------------------
(***************************************************************************)
(* The browser surfaces.  A session is a JavaScript object that owns its   *)
(* Protocol; the Monero spend and key image rounds keep their secrets in   *)
(* the handle table of the wasm instance.  JavaScript runs one call at a   *)
(* time.                                                                   *)
(***************************************************************************)
WasmSessionCalls(setup, packed) ==
    [setupMsgNew |-> setup,
     fromSetup   |-> <<Fails({Js}), NewOf("Session")>>,
     feed        |-> <<ThisOf("Session"), Feed>>,
     takeMsg     |-> <<ThisOf("Session"), Peek>>,
     msgReceiver |-> <<ThisOf("Session"), Peek>>,
     result      |-> <<ThisOf("Session"), Result, Out(packed)>>,
     free        |-> <<Drop>>]

\* The *_setup_msg_new functions with their decoders: no state, one error.
FroztWasmSetupMsg == <<Fails({Js})>>
FromtWasmSetupMsg == <<Fails({Js})>>

FroztWasmDkgSession == WasmSessionCalls(FroztWasmSetupMsg, {})
FroztWasmKeyImportSession == WasmSessionCalls(FroztWasmSetupMsg, {})
FroztWasmSignStart == [fromSetupWithAlpha |-> <<Fails({Js}), NewOf("Session")>>]
FroztWasmSignSession == WasmSessionCalls(FroztWasmSetupMsg, {})
FroztWasmReshareSession == WasmSessionCalls(FroztWasmSetupMsg, {Js})
FromtWasmKeyImportSession == WasmSessionCalls(FromtWasmSetupMsg, {})
FromtWasmDkgSession == WasmSessionCalls(FromtWasmSetupMsg, {})
FromtWasmSignSession == WasmSessionCalls(FromtWasmSetupMsg, {})
FromtWasmReshareSession == WasmSessionCalls(FromtWasmSetupMsg, {Js})
FromtWasmKeyImageSession == WasmSessionCalls(FromtWasmSetupMsg, {})

FromtWasmSpend ==
    [spend_preprocess |-> <<Fails({Js}), AllocOf("Secret1")>>,
     spend_sign       |-> <<TakeOf("Secret1"), Fails({Js}), AllocOf("Secret2"), Out({})>>,
     spend_complete   |-> <<TakeOf("Secret2"), Out({Js})>>,
     handle_free      |-> <<FreeIt>>]
FromtWasmKeyImage ==
    [key_image_part1 |-> <<Fails({Js}), AllocOf("Secret1")>>,
     key_image_part2 |-> <<TakeOf("Secret1"), Out({Js})>>,
     handle_free     |-> <<FreeIt>>]

\* WasmSaplingTree (the first type) and WasmSaplingWitness (the second).
FroztWasmTree ==
    [fromHexState |-> <<Fails({Js}), NewOf("Secret1")>>,
     append       |-> <<ThisOf("Secret1"), Fails({Js})>>,
     witness      |-> <<ThisOf("Secret1"), Fails({Js}), NewOf("Secret2")>>,
     appendTo     |-> <<ThisOf("Secret2"), Fails({Js})>>,
     root         |-> <<ThisOf("Secret2"), Peek>>,
     serialize    |-> <<ThisOf("Secret2"), Fails({Js})>>,
     fromBytes    |-> <<Fails({Js}), NewOf("Secret2")>>,
     treeSize     |-> <<Fails({Js})>>,
     free         |-> <<Drop>>]

\* A surface as its callers see it: the programs of its calls.  Ceremonies whose
\* calls have the same programs are one surface.
Bodies(calls) == {calls[f] : f \in DOMAIN calls}

Native ==
    {Bodies(FroztDkgSession), Bodies(FroztSignStart) \cup Bodies(FroztSignSession),
     Bodies(FroztReshareSession), Bodies(FroztKeyImportSession), Bodies(FromtDkgSession),
     Bodies(FromtSignSession), Bodies(FromtReshareSession), Bodies(FromtKeyImportSession),
     Bodies(FromtKeyImageSession),
     Bodies(FroztDkgRounds) \cup Bodies(FroztReshareRounds) \cup Bodies(FroztImportRounds),
     Bodies(FroztSignRounds), Bodies(FromtDkgRounds) \cup Bodies(FromtReshareRounds),
     Bodies(FromtSignRounds), Bodies(FromtCkdRounds), Bodies(FromtKeyImageRounds),
     Bodies(FromtSpendRounds), Bodies(FroztTreeCalls)}

Wasm ==
    {Bodies(FroztWasmDkgSession), Bodies(FroztWasmKeyImportSession),
     Bodies(FroztWasmSignStart) \cup Bodies(FroztWasmSignSession),
     Bodies(FroztWasmReshareSession), Bodies(FromtWasmKeyImportSession),
     Bodies(FromtWasmDkgSession), Bodies(FromtWasmSignSession),
     Bodies(FromtWasmReshareSession), Bodies(FromtWasmKeyImageSession),
     Bodies(FromtWasmSpend), Bodies(FromtWasmKeyImage), Bodies(FroztWasmTree)}

Surfaces ==
    [wasm : {FALSE}, programs : {b \cup {handle_free} : b \in Native}]
        \cup [wasm : {TRUE}, programs : Wasm]
-----------------------------------------------------------------------------
NoCall == [todo |-> <<>>, arg |-> 0, obj |-> None, new |-> 0, err |-> "idle"]

Init ==
    /\ Table!Init
    /\ surface \in Surfaces
    /\ call = [t \in Thread |-> NoCall]
    /\ given = {}
    /\ js = {}
    /\ proto = [o \in Obj |-> "none"]
    /\ outs = [o \in Obj |-> 0]

\* The next step of the call thread t is in, and how it goes on or ends.
At(t, op) == call[t].todo # <<>> /\ Head(call[t].todo).op = op
Here(t) == Head(call[t].todo)
GoOn(t, c) == call' = [call EXCEPT ![t] = [c EXCEPT !.todo = Tail(@)]]

Err(t, k) == call' = [call EXCEPT ![t].todo = <<>>, ![t].arg = 0, ![t].err = k]

\* lib_error::from(handle::Error)
ErrorOf(r) ==
    CASE r \in {"NullHandle", "NotFound"} -> "LIB_INVALID_HANDLE"
      [] r = "InUse"                      -> "LIB_HANDLE_IN_USE"
      [] r = "InvalidType"                -> "LIB_INVALID_HANDLE_TYPE"
      [] OTHER                            -> "LIB_UNKNOWN_ERROR"

Busy == {t \in Thread : call[t].err # "idle"}

\* Objects are bounded: a call that would create one starts when one is left.
Creates(program, T) ==
    \E i \in DOMAIN program : program[i].op \in {"alloc", "new"} /\ program[i].type = T
Room(program) ==
    \A T \in Type : Creates(program, T) =>
        Cardinality({t \in Thread : Creates(call[t].todo, T)})
            < Cardinality({o \in Obj : TypeOf[o] = T /\ fate[o] = "fresh" /\ proto[o] = "none"})

\* A caller starts a call with a handle or object it was given, perhaps one
\* that it used up or freed since, or with the null handle.  The checks a body
\* begins with touch nothing that is shared, so they are part of this step.
Names(program) ==
    \E i \in DOMAIN program : program[i].op \in {"get", "take", "free", "this", "drop"}
Checks(program) == program # <<>> /\ Head(program).op = "fails"
Begin(t, program, a) ==
    /\ call[t] = NoCall
    /\ Names(program) \/ a = 0
    /\ surface.wasm => Busy = {}
    /\ Room(program)
    /\ LET c == [NoCall EXCEPT !.arg = a, !.err = "ok"] IN
       \/ /\ Checks(program)
          /\ \E e \in Head(program).errs : call' = [call EXCEPT ![t] = [NoCall EXCEPT !.err = e]]
       \/ call' = [call EXCEPT ![t] =
                      [c EXCEPT !.todo = IF Checks(program) THEN Tail(program) ELSE program]]
    /\ UNCHANGED <<tableVars, surface, given, js, proto, outs>>

\* A later check, on the object in hand, fails or passes.
Check(t) ==
    /\ At(t, "fails")
    /\ GoOn(t, call[t]) \/ \E e \in Here(t).errs : Err(t, e)
    /\ UNCHANGED <<tableVars, surface, given, js, proto, outs>>

\* A lookup of the handle for `get' or `take' fails.
Refuse(t) ==
    /\ At(t, "get") \/ At(t, "take")
    /\ Table!LookupError(t, call[t].arg, Here(t).type)
    /\ Err(t, Kind(ErrorOf(res'[t])))
    /\ UNCHANGED <<surface, given, js, proto, outs>>

Get(t) ==
    /\ At(t, "get")
    /\ Table!Get(t, call[t].arg, Here(t).type)
    /\ GoOn(t, [call[t] EXCEPT !.arg = 0, !.obj = hmap[call[t].arg]])
    /\ UNCHANGED <<surface, given, js, proto, outs>>

Take(t) ==
    /\ At(t, "take")
    /\ Table!Take(t, call[t].arg, Here(t).type)
    /\ GoOn(t, [call[t] EXCEPT !.arg = 0, !.obj = hmap[call[t].arg]])
    /\ UNCHANGED <<surface, given, js, proto, outs>>

\* Protocol::start has polled the task to its first wait; the task may have
\* returned an error by then.
Started(o) ==
    IF TypeOf[o] = "Session" THEN \E p \in {"running", "err"} : proto' = [proto EXCEPT ![o] = p]
    ELSE UNCHANGED proto

Fresh(T) == {o \in Obj : TypeOf[o] = T /\ fate[o] = "fresh" /\ proto[o] = "none"}

Alloc(t) ==
    /\ At(t, "alloc")
    /\ \E o \in Fresh(Here(t).type) :
          /\ Table!Allocate(t, o)
          /\ IF res'[t] = "ok"
             THEN /\ GoOn(t, [call[t] EXCEPT !.new = CHOOSE h \in DOMAIN hmap' : hmap'[h] = o])
                  /\ Started(o)
             ELSE Err(t, Kind(ErrorOf(res'[t]))) /\ UNCHANGED proto
    /\ UNCHANGED <<surface, given, js, outs>>

HandleFree(t) ==
    /\ At(t, "free")
    /\ \/ Table!Free(t, call[t].arg) /\ GoOn(t, call[t])
       \/ Table!FreeError(t, call[t].arg) /\ Err(t, Kind(ErrorOf(res'[t])))
    /\ UNCHANGED <<surface, given, js, proto, outs>>

\* wasm-bindgen: a constructed object, a method call on one, its free().
Construct(t) ==
    /\ At(t, "new")
    /\ \E o \in Fresh(Here(t).type) :
          /\ js' = js \cup {o}
          /\ IF Here(t).type = "Session" THEN Started(o)
             ELSE proto' = [proto EXCEPT ![o] = "plain"]
          /\ GoOn(t, [call[t] EXCEPT !.new = o])
    /\ UNCHANGED <<tableVars, surface, given, outs>>

Borrow(t) ==
    /\ At(t, "this")
    /\ IF call[t].arg \in js /\ TypeOf[call[t].arg] = Here(t).type
       THEN GoOn(t, [call[t] EXCEPT !.arg = 0, !.obj = call[t].arg])
       ELSE Err(t, Kind(Js))
    /\ UNCHANGED <<tableVars, surface, given, js, proto, outs>>

FreeObject(t) ==
    /\ At(t, "drop")
    /\ js' = js \ {call[t].arg}
    /\ GoOn(t, call[t])
    /\ UNCHANGED <<tableVars, surface, given, proto, outs>>

\* Protocol::feed: a finished or emptied protocol is left alone; a running
\* task is polled and waits on, returns its outcome, or returns an error.
FeedIt(t) ==
    /\ At(t, "feed")
    /\ IF proto[call[t].obj] = "running"
       THEN \E p \in {"running", "ok", "err"} : proto' = [proto EXCEPT ![call[t].obj] = p]
       ELSE UNCHANGED proto
    /\ GoOn(t, call[t])
    /\ UNCHANGED <<tableVars, surface, given, js, outs>>

\* Protocol::take_msg and the receiver of a message read the session only.
PeekAt(t) ==
    /\ At(t, "peek")
    /\ GoOn(t, call[t])
    /\ UNCHANGED <<tableVars, surface, given, js, proto, outs>>

\* Protocol::result drops the task and takes the outcome, whether there is
\* one or not.
EmptiedClone(o) == proto[o]
Emptied(o) == "spent"
TakeResult(t) ==
    /\ At(t, "result")
    /\ proto' = [proto EXCEPT ![call[t].obj] = Emptied(call[t].obj)]
    /\ CASE proto[call[t].obj] = "ok"  -> GoOn(t, call[t])
         [] proto[call[t].obj] = "err" -> Err(t, Kind(Ceremony))
         [] OTHER                      -> Err(t, Kind("LIB_SESSION_NOT_READY"))
    /\ UNCHANGED <<tableVars, surface, given, js, outs>>

Write(t) ==
    /\ At(t, "out")
    /\ \/ /\ outs' = [outs EXCEPT ![call[t].obj] = IF @ = 2 THEN 2 ELSE @ + 1]
          /\ GoOn(t, call[t])
       \/ /\ \E e \in Here(t).errs : Err(t, e)
          /\ UNCHANGED outs
    /\ UNCHANGED <<tableVars, surface, given, js, proto>>

\* The closure ends: its guard is dropped, on success and on error alike, and
\* the caller receives the code and, on success, the new handle or object.
LeaveForgets(t) ==
    /\ call[t].err # "idle" /\ call[t].todo = <<>>
    /\ IF Table!Holds(t) /\ call[t].err = "ok" THEN Table!DropGuard(t) ELSE UNCHANGED tableVars
    /\ given' = IF call[t].err = "ok" THEN given \cup ({call[t].new} \ {0}) ELSE given
    /\ call' = [call EXCEPT ![t] = NoCall]
    /\ UNCHANGED <<surface, js, proto, outs>>
Leave(t) ==
    /\ call[t].err # "idle" /\ call[t].todo = <<>>
    /\ IF Table!Holds(t) THEN Table!DropGuard(t) ELSE UNCHANGED tableVars
    /\ given' = IF call[t].err = "ok" THEN given \cup ({call[t].new} \ {0}) ELSE given
    /\ call' = [call EXCEPT ![t] = NoCall]
    /\ UNCHANGED <<surface, js, proto, outs>>

Run(t) ==
    \/ Check(t) \/ Refuse(t) \/ Get(t) \/ Take(t) \/ Alloc(t)
    \/ HandleFree(t) \/ Construct(t) \/ Borrow(t) \/ FreeObject(t)
    \/ FeedIt(t) \/ PeekAt(t) \/ TakeResult(t) \/ Write(t) \/ Leave(t)

Next ==
    \E t \in Thread :
        \/ \E program \in surface.programs, a \in given \cup {0} : Begin(t, program, a)
        \/ Run(t)

Spec == Init /\ [][Next]_vars
-----------------------------------------------------------------------------
(***************************************************************************)
(* Properties.                                                             *)
(***************************************************************************)
\* Where an object is in its life, seen by its owner.
InHand(o) == \E t \in Thread : call[t].obj = o /\ call[t].err = "ok"
Stage ==
    [o \in Obj |->
        IF outs[o] > 0 THEN IF outs[o] = 1 THEN "used" ELSE "reused"
        ELSE IF fate[o] = "live" \/ o \in js \/ InHand(o) THEN "issued"
        ELSE IF fate[o] = "fresh" /\ proto[o] = "none" THEN "unborn"
        ELSE "lost"]

Once == INSTANCE OneShot WITH Secret <- Obj, stage <- Stage

\* The interleaved calls of every surface implement the one-shot promise: nonces,
\* round secrets, spend machines and sessions give at most one output, on
\* whichever thread, after whatever errors, and none after they were lost.
SecretsOnce == Once!Spec

\* No call loses what it allocated: the handle of every object in the table is
\* known to a caller or still held by the call that allocated it, so a step that
\* can fail never follows Handle::allocate.
NoLeak ==
    \A h \in DOMAIN hmap : h \in given \/ \E t \in Thread : call[t].new = h

\* An error that says the call was refused (a null pointer, a handle that is
\* unknown, in use or of another type) has had no effect: the object named by the
\* handle was neither consumed nor lent, and nothing was allocated.
RefusalIsHarmless ==
    \A t \in Thread :
        call[t].err = "refused" =>
            call[t].obj = None /\ call[t].new = 0 /\ ~Table!Holds(t)

\* A handle is in use only while a call is running on it: whatever a call that
\* borrowed it returns, its guard is dropped before its caller can go on, and the
\* caller is never told LIB_HANDLE_IN_USE for good.
InUseWhileRunning ==
    \A h \in DOMAIN hmap :
        hmap[h] = None => \E t \in Busy : Table!Holds(t) /\ guard[t].handle = h
=============================================================================
