-------------------------- MODULE HandleTableProofs --------------------------
(***************************************************************************)
(* Proofs about the handle table for any number of threads, objects and    *)
(* handles.  The inductive invariant is TypeOK together with Placed, which *)
(* says of an entry and of a guard separately what OneOwner says of an     *)
(* object, InUseIsHeld, GuardsReserve and Bounded.                         *)
(***************************************************************************)
EXTENDS HandleTable, FiniteSetTheorems, WellFoundedInduction, TLAPS

\* Objects in the table or in a guard are live, in one place each, and a live
\* object is somewhere.
EntryLive == \A h \in DOMAIN hmap : hmap[h] # None => fate[hmap[h]] = "live"
GuardLive == \A t \in Thread : Holds(t) => fate[guard[t].ptr] = "live"
EntryOnce ==
    \A h, i \in DOMAIN hmap : hmap[h] # None /\ hmap[h] = hmap[i] => h = i
GuardOnce ==
    \A t, u \in Thread : Holds(t) /\ guard[t].ptr = guard[u].ptr => t = u
Apart == \A h \in DOMAIN hmap, t \in Thread : Holds(t) => hmap[h] # guard[t].ptr
Somewhere ==
    \A o \in Obj : fate[o] = "live" => \/ \E h \in DOMAIN hmap : hmap[h] = o
                                      \/ \E t \in Thread : guard[t].ptr = o

Placed ==
    EntryLive /\ GuardLive /\ EntryOnce /\ GuardOnce /\ Apart /\ Somewhere
-----------------------------------------------------------------------------
\* A nonempty set of naturals has a least element: what Least returns.
LEMMA LeastExists ==
    ASSUME NEW S \in SUBSET Nat, S # {}
    PROVE  Least(S) \in S /\ \A j \in S : Least(S) <= j
<1> DEFINE R == OpToRel(<, Nat)
<1>1. \E x \in S : \A y \in S : ~(<<y, x>> \in R)
  <2>1. IsWellFoundedOn(R, Nat)
    BY NatLessThanWellFounded
  <2> HIDE DEF R
  <2> QED
    BY <2>1, WFMin
<1>2. \A x, y \in Nat : y < x => <<y, x>> \in R
  BY DEF OpToRel
<1> HIDE DEF R
<1>3. PICK x \in S : \A y \in S : ~(<<y, x>> \in R)
  BY <1>1
<1>4. ASSUME NEW y \in S PROVE x <= y
  <2>1. x \in Nat /\ y \in Nat /\ ~(y < x)
    BY <1>2, <1>3
  <2> QED
    BY <2>1
<1> QED
  BY <1>4 DEF Least

\* The handle `allocate' finds is one the table does not hold.
LEMMA NextFreeIsFree ==
    ASSUME TypeOK, FreeIds # {}
    PROVE  NextFree \in FreeIds
<1>1. FreeIds \subseteq Nat /\ Ahead \subseteq FreeIds
  BY DEF FreeIds, Ahead, Id
<1>2. CASE Ahead # {}
  <2>1. Least(Ahead) \in Ahead
    BY <1>1, <1>2, LeastExists
  <2> QED
    BY <1>1, <1>2, <2>1 DEF NextFree
<1>3. CASE Ahead = {}
  <2>1. Least(FreeIds) \in FreeIds
    BY <1>1, LeastExists
  <2> QED
    BY <1>3, <2>1 DEF NextFree
<1> QED
  BY <1>2, <1>3
-----------------------------------------------------------------------------
\* What a lookup that succeeds says of the entry.
LEMMA LookupOk ==
    ASSUME TypeOK, NEW h, NEW T, Lookup(h, T) = "ok"
    PROVE  h \in DOMAIN hmap /\ hmap[h] # None /\ hmap[h] \in Obj /\ h \in Id
<1>1. h # 0 /\ h \in DOMAIN hmap /\ hmap[h] # None
  BY DEF Lookup
<1> QED
  BY <1>1 DEF TypeOK, Entry

\* Every lookup returns a result of the type of res.
LEMMA LookupType ==
    ASSUME NEW h, NEW T
    PROVE  Lookup(h, T) \in Result
BY DEF Lookup, Result

\* The empty table has the type.
LEMMA InitType == Init => TypeOK
<1> SUFFICES ASSUME Init PROVE TypeOK
  OBVIOUS
<1>1. last \in 1..Wrapped
  BY HandleAssumption DEF Init, Wrapped
<1>2. DOMAIN hmap \subseteq Id /\ hmap \in [DOMAIN hmap -> Entry]
  BY DEF Init
<1>3. /\ guard \in [Thread -> HandleGuard]
      /\ \A t \in Thread : (guard[t].handle = 0) <=> (guard[t].ptr = None)
  BY DEF Init, NoGuard, HandleGuard, Entry
<1> QED
  BY <1>1, <1>2, <1>3 DEF Init, TypeOK, Result

\* Every operation keeps the type.
LEMMA NextType == TypeOK /\ [Next]_vars => TypeOK'
<1> SUFFICES ASSUME TypeOK, [Next]_vars PROVE TypeOK'
  OBVIOUS
<1> USE DEF TypeOK
<1>1. ASSUME NEW t \in Thread, NEW o \in Obj, Allocate(t, o) PROVE TypeOK'
  <2>1. CASE AllocateOk(t, o)
    <3>1. NextFree \in Id
      BY <2>1, NextFreeIsFree DEF AllocateOk, FreeIds
    <3>2. last' \in 1..Wrapped
      BY <2>1, <3>1, HandleAssumption DEF AllocateOk, Wrapped, Id
    <3>3. DOMAIN hmap' \subseteq Id /\ hmap' \in [DOMAIN hmap' -> Entry]
      BY <2>1, <3>1 DEF AllocateOk, Insert, Entry
    <3> QED
      BY <1>1, <2>1, <3>2, <3>3 DEF Allocate, AllocateOk, Return, Result
  <2>2. CASE AllocateFull(t, o)
    <3>1. last' \in 1..Wrapped
      BY <2>2, HandleAssumption DEF AllocateFull, Wrapped
    <3> QED
      BY <1>1, <2>2, <3>1 DEF Allocate, AllocateFull, Return, Result
  <2> QED
    BY <1>1, <2>1, <2>2 DEF Allocate
<1>2. ASSUME NEW t \in Thread, NEW h \in Id \cup {0}, NEW T \in Type, Get(t, h, T)
      PROVE  TypeOK'
  <2>1. h \in DOMAIN hmap /\ hmap[h] \in Obj /\ h \in Id /\ hmap[h] # None
    BY <1>2, LookupOk DEF Get
  <2>2. h # 0
    BY <2>1 DEF Id
  <2>3. /\ guard' \in [Thread -> HandleGuard]
        /\ \A u \in Thread : (guard'[u].handle = 0) <=> (guard'[u].ptr = None)
    BY <1>2, <2>1, <2>2 DEF Get, HandleGuard, Entry
  <2>4. DOMAIN hmap' \subseteq Id /\ hmap' \in [DOMAIN hmap' -> Entry]
    BY <1>2, <2>1 DEF Get, Entry
  <2> QED
    BY <1>2, <2>3, <2>4 DEF Get, Return, Result
<1>3. ASSUME NEW t \in Thread, NEW h \in Id \cup {0}, NEW T \in Type, Take(t, h, T)
      PROVE  TypeOK'
  <2>1. DOMAIN hmap' \subseteq Id /\ hmap' \in [DOMAIN hmap' -> Entry]
    BY <1>3 DEF Take, Remove
  <2> QED
    BY <1>3, <2>1 DEF Take, Return, Result
<1>4. ASSUME NEW t \in Thread, NEW h, NEW T, LookupError(t, h, T)
      PROVE  TypeOK'
  BY <1>4, LookupType DEF LookupError, Return
<1>5. ASSUME NEW t \in Thread, NEW h, Free(t, h) PROVE TypeOK'
  <2>1. DOMAIN hmap' \subseteq Id /\ hmap' \in [DOMAIN hmap' -> Entry]
    BY <1>5 DEF Free, Remove
  <2>2. misuse' \in BOOLEAN
    BY <1>5 DEF Free
  <2> QED
    BY <1>5, <2>1, <2>2 DEF Free, Return, Result
<1>6. ASSUME NEW t \in Thread, NEW h, FreeError(t, h) PROVE TypeOK'
  BY <1>6 DEF FreeError, Return, Result
<1>7. ASSUME NEW t \in Thread, DropGuard(t) PROVE TypeOK'
  <2>1. guard[t].handle \in Id /\ guard[t].ptr \in Entry
    BY <1>7 DEF DropGuard, Holds, HandleGuard
  <2>2. DOMAIN hmap' \subseteq Id /\ hmap' \in [DOMAIN hmap' -> Entry]
    BY <1>7, <2>1 DEF DropGuard, Insert
  <2>3. /\ guard' \in [Thread -> HandleGuard]
        /\ \A u \in Thread : (guard'[u].handle = 0) <=> (guard'[u].ptr = None)
    BY <1>7 DEF DropGuard, NoGuard, HandleGuard, Entry
  <2> QED
    BY <1>7, <2>2, <2>3 DEF DropGuard
<1>8. ASSUME NEW t \in Thread, IntoInner(t) PROVE TypeOK'
  <2>1. DOMAIN hmap' \subseteq Id /\ hmap' \in [DOMAIN hmap' -> Entry]
    BY <1>8 DEF IntoInner, Remove
  <2>2. /\ guard' \in [Thread -> HandleGuard]
        /\ \A u \in Thread : (guard'[u].handle = 0) <=> (guard'[u].ptr = None)
    BY <1>8 DEF IntoInner, NoGuard, HandleGuard, Entry
  <2> QED
    BY <1>8, <2>1, <2>2 DEF IntoInner
<1>9. CASE UNCHANGED vars
  BY <1>9 DEF vars
<1> QED
  BY <1>1, <1>2, <1>3, <1>4, <1>5, <1>6, <1>7, <1>8, <1>9 DEF Next

\* The handle table, the guards and the counter keep their shape: no sequence of
\* allocate, get, take, free and guard drops puts a handle that is not a positive
\* odd number into the table, or leaves a guard without its object.
THEOREM TypeCorrect == Spec => []TypeOK
BY InitType, NextType, PTL DEF Spec
-----------------------------------------------------------------------------
\* Initially no object is anywhere.
LEMMA InitPlaced == Init => Placed
BY DEF Init, Placed, EntryLive, GuardLive, EntryOnce, GuardOnce, Apart, Somewhere,
       Holds, NoGuard

\* A new object gets an entry that no other object has.
LEMMA AllocatePlaced ==
    ASSUME TypeOK, Placed, NEW t \in Thread, NEW o \in Obj, Allocate(t, o)
    PROVE  Placed'
<1> USE DEF TypeOK, Placed, Holds
<1>1. /\ \A h \in DOMAIN hmap : hmap[h] # o
      /\ \A u \in Thread : guard[u].ptr # o
  BY HandleAssumption DEF Allocate, EntryLive, GuardLive
<1>2. CASE AllocateOk(t, o)
  <2>1. NextFree \notin DOMAIN hmap
    BY <1>2, NextFreeIsFree DEF AllocateOk, FreeIds
  <2>2. /\ DOMAIN hmap' = DOMAIN hmap \cup {NextFree}
        /\ hmap'[NextFree] = o
        /\ \A h \in DOMAIN hmap : hmap'[h] = hmap[h]
        /\ fate' = [fate EXCEPT ![o] = "live"]
        /\ guard' = guard
    BY <1>2, <2>1 DEF Allocate, AllocateOk, Insert
  <2>3. EntryLive' /\ GuardLive'
    BY <1>1, <2>2, HandleAssumption DEF EntryLive, GuardLive, Entry, HandleGuard
  <2>4. EntryOnce'
    BY <1>1, <2>2 DEF EntryOnce
  <2>5. GuardOnce' /\ Apart'
    BY <1>1, <2>2 DEF GuardOnce, Apart
  <2>6. Somewhere'
    BY <2>2 DEF Somewhere
  <2> QED
    BY <2>3, <2>4, <2>5, <2>6
<1>3. CASE AllocateFull(t, o)
  <2>1. UNCHANGED <<hmap, guard>> /\ fate' = [fate EXCEPT ![o] = "dropped"]
    BY <1>3 DEF Allocate, AllocateFull
  <2>2. EntryLive' /\ GuardLive'
    BY <1>1, <2>1, HandleAssumption DEF EntryLive, GuardLive, Entry, HandleGuard
  <2>3. EntryOnce' /\ GuardOnce' /\ Apart'
    BY <2>1 DEF EntryOnce, GuardOnce, Apart
  <2>4. Somewhere'
    BY <2>1 DEF Somewhere
  <2> QED
    BY <2>2, <2>3, <2>4
<1> QED
  BY <1>2, <1>3 DEF Allocate

\* `get' moves an object from its entry to one guard.
LEMMA GetPlaced ==
    ASSUME TypeOK, Placed, NEW t \in Thread, NEW h, NEW T, Get(t, h, T)
    PROVE  Placed'
<1> USE DEF TypeOK, Placed, Holds
<1>1. h \in DOMAIN hmap /\ hmap[h] \in Obj /\ hmap[h] # None
  BY LookupOk DEF Get
<1>2. /\ hmap' = [hmap EXCEPT ![h] = None]
      /\ guard' = [guard EXCEPT ![t] = [handle |-> h, ptr |-> hmap[h]]]
      /\ fate' = fate
      /\ guard[t].ptr = None
  BY DEF Get, Idle
<1>3. EntryLive' /\ GuardLive'
  BY <1>1, <1>2 DEF EntryLive, GuardLive
<1>4. EntryOnce' /\ GuardOnce'
  BY <1>1, <1>2 DEF EntryOnce, GuardOnce, Apart
<1>5. Apart'
  BY <1>1, <1>2 DEF EntryOnce, Apart
<1>6. Somewhere'
  BY <1>1, <1>2 DEF Somewhere
<1> QED
  BY <1>3, <1>4, <1>5, <1>6

\* `take' leaves the object nowhere.
LEMMA TakePlaced ==
    ASSUME TypeOK, Placed, NEW t \in Thread, NEW h, NEW T, Take(t, h, T)
    PROVE  Placed'
<1> USE DEF TypeOK, Placed, Holds
<1>1. h \in DOMAIN hmap /\ hmap[h] \in Obj /\ hmap[h] # None
  BY LookupOk DEF Take
<1>2. /\ DOMAIN hmap' = DOMAIN hmap \ {h}
      /\ \A i \in DOMAIN hmap \ {h} : hmap'[i] = hmap[i]
      /\ guard' = guard
      /\ fate' = [fate EXCEPT ![hmap[h]] = "consumed"]
  BY DEF Take, Remove
<1>3. EntryLive' /\ GuardLive'
  BY <1>1, <1>2 DEF EntryLive, GuardLive, EntryOnce, Apart, Entry, HandleGuard
<1>4. EntryOnce' /\ GuardOnce' /\ Apart'
  BY <1>2 DEF EntryOnce, GuardOnce, Apart
<1>5. Somewhere'
  BY <1>1, <1>2 DEF Somewhere
<1> QED
  BY <1>3, <1>4, <1>5

\* `free' leaves the object it drops nowhere.
LEMMA FreePlaced ==
    ASSUME TypeOK, Placed, NEW t \in Thread, NEW h, Free(t, h)
    PROVE  Placed'
<1> USE DEF TypeOK, Placed, Holds
<1>1. /\ DOMAIN hmap' = DOMAIN hmap \ {h}
      /\ \A i \in DOMAIN hmap \ {h} : hmap'[i] = hmap[i]
      /\ guard' = guard
      /\ h \in DOMAIN hmap
      /\ fate' \in [Obj -> {"fresh", "live", "consumed", "dropped"}]
      /\ \A o \in Obj : fate'[o] = IF hmap[h] = o THEN "dropped" ELSE fate[o]
  BY DEF Free, Remove, Evicted
<1>2. EntryLive' /\ GuardLive'
  BY <1>1 DEF EntryLive, GuardLive, EntryOnce, Apart, Entry, HandleGuard
<1>3. EntryOnce' /\ GuardOnce' /\ Apart'
  BY <1>1 DEF EntryOnce, GuardOnce, Apart
<1>4. Somewhere'
  BY <1>1 DEF Somewhere
<1> QED
  BY <1>2, <1>3, <1>4

\* Dropping a guard moves its object to one entry and drops what was there.
LEMMA DropGuardPlaced ==
    ASSUME TypeOK, Placed, NEW t \in Thread, DropGuard(t)
    PROVE  Placed'
<1> USE DEF TypeOK, Placed, Holds
<1> DEFINE h == guard[t].handle
           p == guard[t].ptr
<1>1. p \in Obj /\ p # None
  BY DEF DropGuard, HandleGuard, Entry
<1>2. /\ DOMAIN hmap' = DOMAIN hmap \cup {h}
      /\ hmap'[h] = p
      /\ \A i \in DOMAIN hmap : i # h => hmap'[i] = hmap[i]
      /\ guard' = [guard EXCEPT ![t] = NoGuard]
      /\ \A o \in Obj : fate'[o] = IF h \in DOMAIN hmap /\ hmap[h] = o
                                  THEN "dropped" ELSE fate[o]
  BY DEF DropGuard, Insert, Evicted
<1>3. NoGuard.ptr = None
  BY DEF NoGuard
<1> HIDE DEF h, p
<1>4. p = guard[t].ptr
  BY DEF p
<1>5. EntryLive'
  BY <1>1, <1>2, <1>4 DEF EntryLive, EntryOnce, GuardLive, Apart, Entry
<1>6. GuardLive'
  BY <1>1, <1>2, <1>3, <1>4 DEF GuardLive, Apart, HandleGuard, Entry
<1>7. EntryOnce'
  BY <1>1, <1>2, <1>4 DEF EntryOnce, Apart
<1>8. GuardOnce'
  BY <1>2, <1>3 DEF GuardOnce
<1>9. Apart'
  BY <1>1, <1>2, <1>3, <1>4 DEF Apart, GuardOnce
<1>10. Somewhere'
  BY <1>1, <1>2, <1>4 DEF Somewhere
<1> QED
  BY <1>5, <1>6, <1>7, <1>8, <1>9, <1>10

\* `into_inner' leaves the object nowhere.
LEMMA IntoInnerPlaced ==
    ASSUME TypeOK, Placed, NEW t \in Thread, IntoInner(t)
    PROVE  Placed'
<1> USE DEF TypeOK, Placed, Holds
<1> DEFINE h == guard[t].handle
           p == guard[t].ptr
<1>1. p \in Obj /\ p # None
  BY DEF IntoInner, HandleGuard, Entry
<1>2. /\ DOMAIN hmap' = DOMAIN hmap \ {h}
      /\ \A i \in DOMAIN hmap' : hmap'[i] = hmap[i]
      /\ guard' = [guard EXCEPT ![t] = NoGuard]
      /\ \A o \in Obj : fate'[o] = IF o = p THEN "consumed"
                                  ELSE IF h \in DOMAIN hmap /\ hmap[h] = o
                                  THEN "dropped" ELSE fate[o]
  BY DEF IntoInner, Remove, Evicted
<1>3. NoGuard.ptr = None
  BY DEF NoGuard
<1> HIDE DEF h, p
<1>4. p = guard[t].ptr
  BY DEF p
<1>5. EntryLive'
  BY <1>1, <1>2, <1>4 DEF EntryLive, EntryOnce, Apart, Entry
<1>6. GuardLive'
  BY <1>1, <1>2, <1>3, <1>4 DEF GuardLive, GuardOnce, Apart, HandleGuard, Entry
<1>7. EntryOnce' /\ GuardOnce' /\ Apart'
  BY <1>2, <1>3 DEF EntryOnce, GuardOnce, Apart
<1>8. Somewhere'
  BY <1>1, <1>2, <1>4 DEF Somewhere
<1> QED
  BY <1>5, <1>6, <1>7, <1>8

\* Every operation keeps Placed.
LEMMA NextPlaced == TypeOK /\ Placed /\ [Next]_vars => Placed'
<1> SUFFICES ASSUME TypeOK, Placed, [Next]_vars PROVE Placed'
  OBVIOUS
<1>1. ASSUME UNCHANGED <<hmap, guard, fate>> PROVE Placed'
  BY <1>1 DEF Placed, EntryLive, GuardLive, EntryOnce, GuardOnce, Apart, Somewhere,
              Holds
<1>2. ASSUME NEW t \in Thread, NEW h, NEW T, LookupError(t, h, T) PROVE Placed'
  BY <1>1, <1>2 DEF LookupError
<1>3. ASSUME NEW t \in Thread, NEW h, FreeError(t, h) PROVE Placed'
  BY <1>1, <1>3 DEF FreeError
<1>4. CASE UNCHANGED vars
  BY <1>1, <1>4 DEF vars
<1> QED
  BY <1>2, <1>3, <1>4, AllocatePlaced, GetPlaced, TakePlaced, FreePlaced,
     DropGuardPlaced, IntoInnerPlaced DEF Next

\* Placed says where each object is, which is what OneOwner asks for.
LEMMA PlacedOneOwner == TypeOK /\ Placed => OneOwner
<1> SUFFICES ASSUME TypeOK, Placed, NEW o \in Obj
             PROVE  IF fate[o] = "live"
                    THEN \E x \in Places(o) : Places(o) = {x}
                    ELSE Places(o) = {}
  BY DEF OneOwner
<1> USE DEF Placed, Holds, TypeOK
<1>1. o # None
  BY HandleAssumption
<1>2. CASE fate[o] # "live"
  <2>1. /\ \A h \in DOMAIN hmap : hmap[h] # o
        /\ \A t \in Thread : guard[t].ptr # o
    BY <1>1, <1>2 DEF EntryLive, GuardLive
  <2> QED
    BY <1>2, <2>1 DEF Places
<1>3. ASSUME NEW h \in DOMAIN hmap, hmap[h] = o
      PROVE  Places(o) = {<<"entry", h>>}
  <2>1. \A i \in DOMAIN hmap : hmap[i] = o => i = h
    BY <1>1, <1>3 DEF EntryOnce
  <2>2. \A t \in Thread : guard[t].ptr # o
    BY <1>1, <1>3 DEF Apart
  <2> QED
    BY <1>3, <2>1, <2>2 DEF Places
<1>4. ASSUME NEW t \in Thread, guard[t].ptr = o
      PROVE  Places(o) = {<<"guard", t>>}
  <2>1. \A u \in Thread : guard[u].ptr = o => u = t
    BY <1>1, <1>4 DEF GuardOnce
  <2>2. \A h \in DOMAIN hmap : hmap[h] # o
    BY <1>1, <1>4 DEF Apart
  <2> QED
    BY <1>4, <2>1, <2>2 DEF Places
<1>5. CASE fate[o] = "live"
  BY <1>3, <1>4, <1>5 DEF Somewhere
<1> QED
  BY <1>2, <1>5

\* Whatever threads do, and even when a caller frees a handle that is in use, an
\* object of the table is handed to at most one call at a time and never again
\* after take or free: the signing nonces and session states behind HMAP cannot
\* be used twice.
THEOREM ObjectsHaveOneOwner == Spec => []OneOwner
<1>1. Spec => [](TypeOK /\ Placed)
  BY InitType, NextType, InitPlaced, NextPlaced, PTL DEF Spec
<1> QED
  BY <1>1, PlacedOneOwner, PTL
-----------------------------------------------------------------------------
\* Only `get' empties an entry, and it is the one that creates the guard.
LEMMA NextHeld == TypeOK /\ InUseIsHeld /\ [Next]_vars => InUseIsHeld'
<1> SUFFICES ASSUME TypeOK, InUseIsHeld, [Next]_vars PROVE InUseIsHeld'
  OBVIOUS
<1> USE DEF TypeOK, InUseIsHeld, Holds
<1>1. ASSUME NEW t \in Thread, NEW o \in Obj, Allocate(t, o) PROVE InUseIsHeld'
  BY <1>1, HandleAssumption DEF Allocate, AllocateOk, AllocateFull, Insert
<1>2. ASSUME NEW t \in Thread, NEW h, NEW T, Get(t, h, T) PROVE InUseIsHeld'
  <2>1. h \in DOMAIN hmap /\ hmap[h] # None
    BY <1>2, LookupOk DEF Get
  <2> QED
    BY <1>2, <2>1 DEF Get, Idle
<1>3. ASSUME NEW t \in Thread, NEW h, NEW T, Take(t, h, T) PROVE InUseIsHeld'
  BY <1>3 DEF Take, Remove
<1>4. ASSUME NEW t \in Thread, NEW h, Free(t, h) PROVE InUseIsHeld'
  BY <1>4 DEF Free, Remove
<1>5. ASSUME NEW t \in Thread, DropGuard(t) PROVE InUseIsHeld'
  BY <1>5 DEF DropGuard, Insert
<1>6. ASSUME NEW t \in Thread, IntoInner(t) PROVE InUseIsHeld'
  BY <1>6 DEF IntoInner, Remove
<1>7. ASSUME NEW t \in Thread, NEW h, NEW T, LookupError(t, h, T) \/ FreeError(t, h)
      PROVE InUseIsHeld'
  BY <1>7 DEF LookupError, FreeError
<1>8. CASE UNCHANGED vars
  BY <1>8 DEF vars
<1> QED
  BY <1>1, <1>2, <1>3, <1>4, <1>5, <1>6, <1>7, <1>8 DEF Next

\* No error path of get or take, and no order of guard drops and frees, leaves an
\* entry marked as in use without a call that will put its object back.
THEOREM InUseEntriesAreHeld == Spec => []InUseIsHeld
<1>1. Init => InUseIsHeld
  BY DEF Init, InUseIsHeld
<1> QED
  BY <1>1, InitType, NextType, NextHeld, PTL DEF Spec

\* Without misuse no operation touches the entry of a guard that is out.
LEMMA NextReserve == TypeOK /\ GuardsReserve /\ [Next]_vars => GuardsReserve'
<1> SUFFICES ASSUME TypeOK, GuardsReserve, [Next]_vars, ~misuse' PROVE GuardsReserve'
  BY DEF GuardsReserve
<1> USE DEF TypeOK, GuardsReserve, Holds
<1>1. ASSUME NEW t \in Thread, NEW o \in Obj, Allocate(t, o) PROVE GuardsReserve'
  <2>1. CASE AllocateOk(t, o)
    <3>1. NextFree \notin DOMAIN hmap
      BY <2>1, NextFreeIsFree DEF AllocateOk, FreeIds
    <3> QED
      BY <1>1, <2>1, <3>1 DEF Allocate, AllocateOk, Insert
  <2>2. CASE AllocateFull(t, o)
    BY <1>1, <2>2 DEF Allocate, AllocateFull
  <2> QED
    BY <1>1, <2>1, <2>2 DEF Allocate
<1>2. ASSUME NEW t \in Thread, NEW h, NEW T, Get(t, h, T) PROVE GuardsReserve'
  <2>1. h \in DOMAIN hmap /\ hmap[h] # None /\ hmap[h] \in Obj
    BY <1>2, LookupOk DEF Get
  <2>2. \A u \in Thread : guard[u].handle # h
    <3> SUFFICES ASSUME NEW u \in Thread, guard[u].handle = h PROVE FALSE
      OBVIOUS
    <3>1. guard[u].ptr # None
      BY <2>1 DEF Id
    <3> QED
      BY <1>2, <2>1, <3>1 DEF Get
  <2>3. /\ hmap' = [hmap EXCEPT ![h] = None]
        /\ guard' = [guard EXCEPT ![t] = [handle |-> h, ptr |-> hmap[h]]]
    BY <1>2 DEF Get
  <2> QED
    BY <1>2, <2>1, <2>2, <2>3 DEF Get
<1>3. ASSUME NEW t \in Thread, NEW h, NEW T, Take(t, h, T) PROVE GuardsReserve'
  <2>1. h \in DOMAIN hmap /\ hmap[h] # None
    BY <1>3, LookupOk DEF Take
  <2> QED
    BY <1>3, <2>1 DEF Take, Remove
<1>4. ASSUME NEW t \in Thread, NEW h, Free(t, h) PROVE GuardsReserve'
  BY <1>4 DEF Free, Remove
<1>5. ASSUME NEW t \in Thread, DropGuard(t) PROVE GuardsReserve'
  BY <1>5 DEF DropGuard, Insert, NoGuard
<1>6. ASSUME NEW t \in Thread, IntoInner(t) PROVE GuardsReserve'
  BY <1>6 DEF IntoInner, Remove, NoGuard
<1>7. ASSUME NEW t \in Thread, NEW h, NEW T, LookupError(t, h, T) \/ FreeError(t, h)
      PROVE GuardsReserve'
  BY <1>7 DEF LookupError, FreeError
<1>8. CASE UNCHANGED vars
  BY <1>8 DEF vars
<1> QED
  BY <1>1, <1>2, <1>3, <1>4, <1>5, <1>6, <1>7, <1>8 DEF Next

\* Initially no guard is out.
LEMMA InitReserve == Init => GuardsReserve
BY DEF Init, GuardsReserve, Holds, NoGuard

\* As long as nobody frees a handle in use, a guard that is out keeps its entry: the
\* handle is not given to another object and two guards never write to one entry.
THEOREM GuardsKeepTheirEntries == Spec => []GuardsReserve
BY InitReserve, InitType, NextType, NextReserve, PTL DEF Spec

\* The handles are finitely many, so the table has a cardinality.
LEMMA FiniteTable == TypeOK => IsFiniteSet(DOMAIN hmap)
<1> SUFFICES ASSUME TypeOK PROVE IsFiniteSet(DOMAIN hmap)
  OBVIOUS
<1>1. IsFiniteSet(1..MaxId)
  BY HandleAssumption, FS_Interval
<1>2. DOMAIN hmap \in SUBSET (1..MaxId)
  BY DEF TypeOK, Id
<1> QED
  BY <1>1, <1>2, FS_Subset

\* Only `allocate' adds an entry, and it checks the bound under the lock.
LEMMA NextBounded ==
    TypeOK /\ GuardsReserve /\ Bounded /\ [Next]_vars => Bounded'
<1> SUFFICES ASSUME TypeOK, GuardsReserve, Bounded, [Next]_vars, ~misuse'
             PROVE  Cardinality(DOMAIN hmap') <= MaxHandles
  BY DEF Bounded
<1> DEFINE D == DOMAIN hmap
<1>1. IsFiniteSet(D) /\ Cardinality(D) \in Nat /\ MaxHandles \in Nat
  BY FiniteTable, FS_CardinalityType, HandleAssumption
<1>2. misuse \in BOOLEAN
  BY DEF TypeOK
<1>3. ASSUME ~misuse, DOMAIN hmap' = D PROVE Cardinality(DOMAIN hmap') <= MaxHandles
  BY <1>3 DEF Bounded
<1>4. ASSUME ~misuse, NEW h, DOMAIN hmap' = D \ {h}
      PROVE  Cardinality(DOMAIN hmap') <= MaxHandles
  <2>1. Cardinality(D \ {h}) = IF h \in D THEN Cardinality(D) - 1 ELSE Cardinality(D)
    BY <1>1, FS_RemoveElement
  <2> HIDE DEF D
  <2>2. Cardinality(D \ {h}) <= Cardinality(D)
    BY <1>1, <2>1
  <2>3. Cardinality(D) <= MaxHandles
    BY <1>4 DEF Bounded, D
  <2>4. Cardinality(D \ {h}) \in Int
    BY <1>1, <2>1
  <2> QED
    BY <1>1, <1>4, <2>2, <2>3, <2>4
<1>5. ASSUME NEW t \in Thread, NEW o \in Obj, Allocate(t, o)
      PROVE  Cardinality(DOMAIN hmap') <= MaxHandles
  <2>1. CASE AllocateOk(t, o)
    <3>1. DOMAIN hmap' = D \cup {NextFree}
      BY <2>1 DEF AllocateOk, Insert
    <3>2. Cardinality(D) < MaxHandles
      BY <1>1, <2>1 DEF AllocateOk, Full
    <3>3. Cardinality(D \cup {NextFree}) =
              IF NextFree \in D THEN Cardinality(D) ELSE Cardinality(D) + 1
      BY <1>1, FS_AddElement
    <3> HIDE DEF D
    <3> QED
      BY <1>1, <3>1, <3>2, <3>3
  <2>2. CASE AllocateFull(t, o)
    BY <1>3, <1>5, <2>2 DEF Allocate, AllocateFull
  <2> QED
    BY <1>5, <2>1, <2>2 DEF Allocate
<1>6. ASSUME NEW t \in Thread, NEW h, NEW T, Get(t, h, T)
      PROVE  Cardinality(DOMAIN hmap') <= MaxHandles
  BY <1>3, <1>6 DEF Get
<1>7. ASSUME NEW t \in Thread, NEW h, NEW T, Take(t, h, T)
      PROVE  Cardinality(DOMAIN hmap') <= MaxHandles
  BY <1>4, <1>7 DEF Take, Remove
<1>8. ASSUME NEW t \in Thread, NEW h, Free(t, h)
      PROVE  Cardinality(DOMAIN hmap') <= MaxHandles
  BY <1>2, <1>4, <1>8 DEF Free, Remove
<1>9. ASSUME NEW t \in Thread, DropGuard(t)
      PROVE  Cardinality(DOMAIN hmap') <= MaxHandles
  <2>1. ~misuse /\ guard[t].handle \in D
    BY <1>9 DEF DropGuard, GuardsReserve
  <2>2. DOMAIN hmap' = D
    BY <1>9, <2>1 DEF DropGuard, Insert
  <2> QED
    BY <1>3, <2>1, <2>2
<1>10. ASSUME NEW t \in Thread, IntoInner(t)
       PROVE  Cardinality(DOMAIN hmap') <= MaxHandles
  BY <1>4, <1>10 DEF IntoInner, Remove
<1>11. ASSUME NEW t \in Thread, NEW h, NEW T, LookupError(t, h, T) \/ FreeError(t, h)
       PROVE  Cardinality(DOMAIN hmap') <= MaxHandles
  BY <1>3, <1>11 DEF LookupError, FreeError
<1>12. CASE UNCHANGED vars
  BY <1>3, <1>12 DEF vars
<1> QED
  BY <1>5, <1>6, <1>7, <1>8, <1>9, <1>10, <1>11, <1>12 DEF Next

\* The bound MAX_HANDLES that allocate checks holds for the table at all times: the
\* guards that put objects back do not push it over, unless a handle was freed while
\* it was in use.
THEOREM TableIsBounded == Spec => []Bounded
<1>1. Init => Bounded
  <2>1. Init => DOMAIN hmap = {}
    BY DEF Init
  <2> QED
    BY <2>1, FS_EmptySet, HandleAssumption DEF Bounded
<1> QED
  BY <1>1, InitType, NextType, InitReserve, NextReserve, NextBounded, PTL DEF Spec

\* Without misuse, a new key of the table is one `allocate' gave out.
LEMMA OnlyAllocateAdds ==
    ASSUME TypeOK, GuardsReserve, [Next]_vars, ~misuse,
           NEW h \in DOMAIN hmap' \ DOMAIN hmap
    PROVE  \E o \in Obj : hmap'[h] = o /\ fate[o] = "fresh"
<1>1. ASSUME NEW t \in Thread, NEW o \in Obj, Allocate(t, o)
      PROVE  \E x \in Obj : hmap'[h] = x /\ fate[x] = "fresh"
  BY <1>1 DEF Allocate, AllocateOk, AllocateFull, Insert
<1>2. ASSUME NEW t \in Thread, DropGuard(t) PROVE FALSE
  BY <1>2 DEF DropGuard, GuardsReserve, Insert
<1>3. ASSUME NEW t \in Thread, NEW i, NEW T,
             \/ Get(t, i, T) \/ Take(t, i, T) \/ LookupError(t, i, T)
             \/ Free(t, i) \/ FreeError(t, i) \/ IntoInner(t)
      PROVE  FALSE
  BY <1>3 DEF Get, Take, LookupError, Free, FreeError, IntoInner, Remove
<1>4. CASE UNCHANGED vars
  BY <1>4 DEF vars
<1> QED
  BY <1>1, <1>2, <1>3, <1>4 DEF Next

\* A handle that lookups refuse becomes valid only by being allocated anew, unless a
\* handle was freed while it was in use.
THEOREM HandlesAreNotResurrected == Spec => NoResurrection
<1>1. TypeOK /\ GuardsReserve /\ [Next]_vars
      => [~misuse => \A h \in DOMAIN hmap' \ DOMAIN hmap :
                       \E o \in Obj : hmap'[h] = o /\ fate[o] = "fresh"]_vars
  BY OnlyAllocateAdds
<1> QED
  BY <1>1, InitType, NextType, InitReserve, NextReserve, PTL DEF Spec, NoResurrection
=============================================================================
