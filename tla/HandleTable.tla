----------------------------- MODULE HandleTable -----------------------------
(***************************************************************************)
(* The global handle table of frost-ffi (crates/frost-ffi/src/handle.rs):  *)
(* the map HMAP from i32 handles to boxed objects, the counter LAST, and   *)
(* the guards that threads hold on an object while an FFI call works on    *)
(* it.  Every operation takes HMAP's lock once, so each is one action; the *)
(* interleaving that matters is what other threads do between a `get' and  *)
(* the drop of the guard it returned.                                      *)
(***************************************************************************)
EXTENDS Integers, FiniteSets

CONSTANTS
    Thread,          \* OS threads that call into the library
    Obj,             \* the objects ever boxed: sessions, nonces, secrets
    Type,            \* the Rust types of the objects
    TypeOf,          \* the type of each object
    MaxHandles,      \* MAX_HANDLES, 4096 in the code
    MaxId,           \* the largest odd i32, 2^31 - 1 in the code
    None             \* Option::None

ASSUME HandleAssumption ==
    /\ TypeOf \in [Obj -> Type]
    /\ MaxHandles \in Nat
    /\ MaxId \in Nat
    /\ None \notin Obj

\* Handles start at 1 and advance by 2; 0 is Handle::null().
Id == {i \in 1..MaxId : i % 2 = 1}

\* The entry of a handle is an object or, while a guard is out, None.
Entry == Obj \cup {None}

HandleGuard == [handle : Id \cup {0}, ptr : Entry]
NoGuard == [handle |-> 0, ptr |-> None]

\* A wrapped LAST is negative; MaxId + 2 stands for every negative value.
Wrapped == MaxId + 2

Result == {"none", "ok", "NullHandle", "NotFound", "InUse", "InvalidType",
           "TableFull"}

VARIABLES
    last,   \* LAST
    hmap,   \* HMAP, a function whose domain is the set of present keys
    guard,  \* the HandleGuard a thread holds, or NoGuard
    fate,   \* where an object is in its life
    res,    \* what the last call of a thread returned
    misuse  \* has a caller freed a handle that another call was using?

vars == <<last, hmap, guard, fate, res, misuse>>

Insert(f, h, e) == [i \in DOMAIN f \cup {h} |-> IF i = h THEN e ELSE f[i]]
Remove(f, h) == [i \in DOMAIN f \ {h} |-> f[i]]

Return(t, r) == res' = [res EXCEPT ![t] = r]

\* A thread that holds a guard is inside a call: it looks nothing else up.
Holds(t) == guard[t].ptr # None
Idle(t) == ~Holds(t)

Init ==
    /\ last = 1
    /\ hmap = [i \in {} |-> None]
    /\ guard = [t \in Thread |-> NoGuard]
    /\ fate = [o \in Obj |-> "fresh"]
    /\ res = [t \in Thread |-> "none"]
    /\ misuse = FALSE
-----------------------------------------------------------------------------
\* The handles the loop of `allocate' can return, and the one it does return:
\* the first free one at or above LAST, else, after one wrap, the first free one.
FreeIdsUnchecked == Id
FreeIds == Id \ DOMAIN hmap
Ahead == {i \in FreeIds : i >= last}
Least(S) == CHOOSE i \in S : \A j \in S : i <= j
NextFreeNoWrap == IF Ahead # {} THEN Least(Ahead) ELSE last
NextFree == IF Ahead # {} THEN Least(Ahead) ELSE Least(FreeIds)

FullOffByOne == Cardinality(DOMAIN hmap) > MaxHandles
Full == Cardinality(DOMAIN hmap) >= MaxHandles

\* allocate finds a free handle and inserts Some(obj) under it.
AllocateOk(t, o) ==
    /\ ~Full /\ FreeIds # {}
    /\ last' = NextFree + 2
    /\ hmap' = Insert(hmap, NextFree, o)
    /\ fate' = [fate EXCEPT ![o] = "live"]
    /\ Return(t, "ok")

\* allocate gives up, and the box it was given is dropped: the table is at its
\* bound, or LAST wrapped twice without passing a free handle.
AllocateFull(t, o) ==
    /\ \/ Full /\ UNCHANGED last
       \/ ~Full /\ FreeIds = {} /\ last' = 1
    /\ fate' = [fate EXCEPT ![o] = "dropped"]
    /\ UNCHANGED hmap
    /\ Return(t, "TableFull")

\* A call may hold a guard when it allocates (frozt_sapling_tree_witness).
Allocate(t, o) ==
    /\ fate[o] = "fresh"
    /\ AllocateOk(t, o) \/ AllocateFull(t, o)
    /\ UNCHANGED <<guard, misuse>>

\* How `get' and `take' find the object of a handle, and their errors.
Lookup(h, T) ==
    IF h = 0 THEN "NullHandle"
    ELSE IF h \notin DOMAIN hmap THEN "NotFound"
    ELSE IF hmap[h] = None THEN "InUse"
    ELSE IF TypeOf[hmap[h]] # T THEN "InvalidType"
    ELSE "ok"

LookupErrorLocks(t, h, T) ==
    /\ Idle(t)
    /\ Lookup(h, T) # "ok"
    /\ hmap' = IF Lookup(h, T) = "InvalidType" THEN [hmap EXCEPT ![h] = None]
               ELSE hmap
    /\ Return(t, Lookup(h, T))
    /\ UNCHANGED <<last, guard, fate, misuse>>

LookupError(t, h, T) ==
    /\ Idle(t)
    /\ Lookup(h, T) # "ok"
    /\ Return(t, Lookup(h, T))
    /\ UNCHANGED <<last, hmap, guard, fate, misuse>>

GetShares(t, h, T) ==
    /\ Idle(t)
    /\ Lookup(h, T) = "ok"
    /\ guard' = [guard EXCEPT ![t] = [handle |-> h, ptr |-> hmap[h]]]
    /\ Return(t, "ok")
    /\ UNCHANGED <<last, hmap, fate, misuse>>

GetRemoves(t, h, T) ==
    /\ Idle(t)
    /\ Lookup(h, T) = "ok"
    /\ guard' = [guard EXCEPT ![t] = [handle |-> h, ptr |-> hmap[h]]]
    /\ hmap' = Remove(hmap, h)
    /\ Return(t, "ok")
    /\ UNCHANGED <<last, fate, misuse>>

\* handle.get::<T>(): the entry becomes None while the guard is out.
Get(t, h, T) ==
    /\ Idle(t)
    /\ Lookup(h, T) = "ok"
    /\ guard' = [guard EXCEPT ![t] = [handle |-> h, ptr |-> hmap[h]]]
    /\ hmap' = [hmap EXCEPT ![h] = None]
    /\ Return(t, "ok")
    /\ UNCHANGED <<last, fate, misuse>>

\* handle.take::<T>(): one-shot use of a secret, nonce or session.
Take(t, h, T) ==
    /\ Idle(t)
    /\ Lookup(h, T) = "ok"
    /\ fate' = [fate EXCEPT ![hmap[h]] = "consumed"]
    /\ hmap' = Remove(hmap, h)
    /\ Return(t, "ok")
    /\ UNCHANGED <<last, guard, misuse>>

\* The object an insertion or a removal under h throws away, if any.
Evicted(h) == {o \in Obj : h \in DOMAIN hmap /\ hmap[h] = o}

\* Drop of a guard: `put' inserts the object back, whatever the table holds
\* under that handle by now.
DropGuard(t) ==
    /\ Holds(t)
    /\ hmap' = Insert(hmap, guard[t].handle, guard[t].ptr)
    /\ fate' = [o \in Obj |-> IF o \in Evicted(guard[t].handle)
                              THEN "dropped" ELSE fate[o]]
    /\ guard' = [guard EXCEPT ![t] = NoGuard]
    /\ UNCHANGED <<last, res, misuse>>

\* HandleGuard::into_inner: the entry is removed and the object moved out.
IntoInner(t) ==
    /\ Holds(t)
    /\ hmap' = Remove(hmap, guard[t].handle)
    /\ fate' = [o \in Obj |-> IF o = guard[t].ptr THEN "consumed"
                              ELSE IF o \in Evicted(guard[t].handle)
                              THEN "dropped" ELSE fate[o]]
    /\ guard' = [guard EXCEPT ![t] = NoGuard]
    /\ UNCHANGED <<last, res, misuse>>

\* Handle::free removes the entry even when it is None: the guard that is out
\* then puts the object back when it is dropped.
Free(t, h) ==
    /\ Idle(t)
    /\ h \in DOMAIN hmap
    /\ misuse' = (misuse \/ hmap[h] = None)
    /\ fate' = [o \in Obj |-> IF o \in Evicted(h) THEN "dropped" ELSE fate[o]]
    /\ hmap' = Remove(hmap, h)
    /\ Return(t, "ok")
    /\ UNCHANGED <<last, guard>>

FreeError(t, h) ==
    /\ Idle(t)
    /\ h \notin DOMAIN hmap
    /\ Return(t, "NotFound")
    /\ UNCHANGED <<last, hmap, guard, fate, misuse>>

Next ==
    \E t \in Thread :
        \/ \E o \in Obj : Allocate(t, o)
        \/ \E h \in Id \cup {0}, T \in Type :
              Get(t, h, T) \/ Take(t, h, T) \/ LookupError(t, h, T)
        \/ \E h \in Id \cup {0} : Free(t, h) \/ FreeError(t, h)
        \/ DropGuard(t) \/ IntoInner(t)

Spec == Init /\ [][Next]_vars
-----------------------------------------------------------------------------
(***************************************************************************)
(* Properties.                                                             *)
(***************************************************************************)
\* The shape of the table, the guards and the counter.
TypeOK ==
    /\ last \in 1..Wrapped
    /\ DOMAIN hmap \subseteq Id /\ hmap \in [DOMAIN hmap -> Entry]
    /\ guard \in [Thread -> HandleGuard]
    /\ \A t \in Thread : (guard[t].handle = 0) <=> (guard[t].ptr = None)
    /\ fate \in [Obj -> {"fresh", "live", "consumed", "dropped"}]
    /\ res \in [Thread -> Result]
    /\ misuse \in BOOLEAN

\* Where an object is: the table entries and the guards that point to it.
Places(o) == {<<"entry", h>> : h \in {i \in DOMAIN hmap : hmap[i] = o}}
                \cup {<<"guard", t>> : t \in {u \in Thread : guard[u].ptr = o}}

\* Every live object (a session, a nonce, a DKG secret) is in exactly one place,
\* the table or one thread's guard, and an object that was taken, freed or never
\* allocated is in none: no two calls work on one object, and what `take' handed
\* out (signing nonces) can never be handed out again.
OneOwner ==
    \A o \in Obj : IF fate[o] = "live"
                   THEN \E x \in Places(o) : Places(o) = {x}
                   ELSE Places(o) = {}

\* An entry that says "in use" has a call that is using it: no error path of get
\* leaves a handle locked for good.
InUseIsHeld ==
    \A h \in DOMAIN hmap :
        hmap[h] = None => \E t \in Thread : Holds(t) /\ guard[t].handle = h

\* When callers do not free a handle in use, the guards that are out keep their
\* entries reserved: no two guards share a handle and no object replaces another.
GuardsReserve ==
    ~misuse =>
        \A t \in Thread : Holds(t) =>
            /\ guard[t].handle \in DOMAIN hmap
            /\ hmap[guard[t].handle] = None
            /\ \A u \in Thread \ {t} : guard[u].handle # guard[t].handle

\* MAX_HANDLES bounds the table when callers do not free a handle in use.
Bounded == ~misuse => Cardinality(DOMAIN hmap) <= MaxHandles

\* A handle that lookups refuse (NotFound) starts to work again only because
\* `allocate' gave it out: a freed handle is not resurrected.
NoResurrection ==
    [][~misuse =>
         \A h \in DOMAIN hmap' \ DOMAIN hmap : \E o \in Obj :
             hmap'[h] = o /\ fate[o] = "fresh"]_vars
=============================================================================
