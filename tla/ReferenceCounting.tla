------------------------- MODULE ReferenceCounting --------------------------
(* Ptr, WeakPtr and ReferenceCounter: threads with handles to shared objects. *)
(* A step is one access to an atomic count or one assignment of a raw         *)
(* pointer, so that the threads interleave inside the operators of Ptr.       *)
EXTENDS Naturals, Sequences, FiniteSets, SequencesExt

CONSTANTS
    Thread,
    Var,        \* the Ptr variables of the threads
    Weak,       \* and their WeakPtr variables
    Obj,        \* the addresses of objects; each object has a Ptr, its field
    Null,
    Owner,      \* the thread of each variable
    Home,       \* the thread that uses the field of each object: a Ptr is not atomic
    Kind,       \* the class of each object
    Shared      \* the objects that variables refer to at first, also of two threads

ASSUME HandlesAssumption ==
    /\ IsFiniteSet(Thread) /\ IsFiniteSet(Var) /\ IsFiniteSet(Obj)
    /\ Var \cap Obj = {} /\ Null \notin Var \cup Obj
    /\ Owner \in [Var \cup Weak -> Thread] /\ Home \in [Obj -> Thread]
    /\ DOMAIN Shared \subseteq Var
    /\ \A v \in DOMAIN Shared : Shared[v] \in Obj \cup {Null}

VARIABLES
    ptr,        \* ptr_ of each variable and of the field of each object
    weak,       \* ptr_ of each WeakPtr
    count,      \* reference_count_
    life,       \* whether the memory of an object is "free", "live" or "dying"
    todo,       \* what each thread is still to do of the operator it is in
    misuse      \* whether memory was used that is free, or an object that dies

vars == <<ptr, weak, count, life, todo, misuse>>

Handle == Var \cup Obj

Init ==
    /\ ptr = [h \in Handle |-> IF h \in DOMAIN Shared THEN Shared[h] ELSE Null]
    /\ weak = [w \in Weak |-> Null]
    /\ count = [o \in Obj |-> Cardinality({h \in Handle : ptr[h] = o})]
    /\ life = [o \in Obj |-> IF count[o] > 0 THEN "live" ELSE "free"]
    /\ todo = [t \in Thread |-> <<>>]
    /\ misuse = FALSE

------------------------------------------------------------------------------
(* The operators of Ptr as the steps they make.                               *)

\* operator=(const Ptr<T>&), and the one for Ptr<R>, release first.
AssignSteps(l, r) == <<<<"release", l>>, <<"acquire", r>>, <<"set", l, r>>>>
\* operator=(T*)
AssignRawSteps(l, o) == <<<<"release", l>>, <<"increment", o>>, <<"bind", l, o>>>>
\* Mutant: the copy does not count.
CopyUncounted(l, r) == <<<<"set", l, r>>>>
\* The copy constructor.
CopySteps(l, r) == <<<<"set", l, r>>, <<"own", l>>>>
\* as<R>() and the constructor with a dynamic cast; a cast that fails gives an
\* empty pointer, or an exception that leaves one behind.
CastSteps(l, r, kind) ==
    IF ptr[r] = Null THEN <<>> ELSE IF Kind[ptr[r]] = kind THEN CopySteps(l, r) ELSE <<>>
\* WeakPtr::lock
LockSteps(l, w) == <<<<"put", l, weak[w]>>, <<"own", l>>>>
\* ~Ptr
DestructorSteps(l) == <<<<"release", l>>, <<"clear", l>>>>
\* delete this: the members are destroyed, then the memory is free.
DeleteSteps(o) == <<<<"release", o>>, <<"free", o>>>>

------------------------------------------------------------------------------
(* The steps.                                                                 *)

Readable(h) == h \in Var \/ life[h] # "free"
Use(ok) == misuse' = (misuse \/ ~ok)

\* Mutant: off by one.
DropsNearZero(o) == count[o] <= 2
\* Mutant: the count is compared before it is decremented.
WasZero(o) == count[o] = 0
\* decrement_reference_count finds zero once it has decremented.
DropsToZero(o) == count[o] = 1

Release(t, h) ==
    LET o == ptr[h]
    IN  IF o = Null
        THEN todo' = [todo EXCEPT ![t] = Tail(@)] /\ Use(Readable(h)) /\ UNCHANGED <<count, life>>
        ELSE IF ~Readable(h) \/ life[o] # "live"
        THEN todo' = [todo EXCEPT ![t] = Tail(@)] /\ Use(FALSE) /\ UNCHANGED <<count, life>>
        ELSE /\ count' = [count EXCEPT ![o] = @ - 1]
             /\ life' = [life EXCEPT ![o] = IF DropsToZero(o) THEN "dying" ELSE @]
             /\ todo' = [todo EXCEPT ![t] = (IF DropsToZero(o) THEN DeleteSteps(o) ELSE <<>>) \o Tail(@)]
             /\ Use(TRUE)

Increment(t, o) ==
    /\ todo' = [todo EXCEPT ![t] = Tail(@)]
    /\ Use(o = Null \/ life[o] = "live")
    /\ count' = [h \in Obj |-> IF h = o THEN count[h] + 1 ELSE count[h]]

Put(t, h, o) ==
    /\ todo' = [todo EXCEPT ![t] = Tail(@)]
    /\ ptr' = [ptr EXCEPT ![h] = o]

Step(t) ==
    /\ todo[t] # <<>>
    /\ ~misuse
    /\ LET step == Head(todo[t])
       IN  \/ /\ step[1] = "release"
              /\ Release(t, step[2])
              /\ UNCHANGED <<ptr, weak>>
           \/ /\ step[1] \in {"acquire", "own"}
              /\ IF Readable(step[2]) THEN Increment(t, ptr[step[2]])
                 ELSE Use(FALSE) /\ UNCHANGED <<todo, count>>
              /\ UNCHANGED <<ptr, weak, life>>
           \/ /\ step[1] = "increment"
              /\ Increment(t, step[2])
              /\ UNCHANGED <<ptr, weak, life>>
           \/ /\ step[1] = "set"
              /\ Put(t, step[2], ptr[step[3]])
              /\ Use(Readable(step[2]) /\ Readable(step[3]))
              /\ UNCHANGED <<weak, count, life>>
           \/ /\ step[1] \in {"put", "bind"}
              /\ Put(t, step[2], step[3])
              /\ Use(Readable(step[2]))
              /\ UNCHANGED <<weak, count, life>>
           \/ /\ step[1] = "clear"
              /\ Put(t, step[2], Null)
              /\ UNCHANGED <<weak, count, life, misuse>>
           \/ /\ step[1] = "free"
              /\ Put(t, step[2], Null)
              /\ life' = [life EXCEPT ![step[2]] = "free"]
              /\ UNCHANGED <<weak, count, misuse>>

------------------------------------------------------------------------------
(* The program.  Its threads keep to a discipline that Ptr needs but does not *)
(* state: what is assigned must survive the release of what is overwritten.   *)

Own(t) == {v \in Var : Owner[v] = t}
Held(t, except) == {ptr[v] : v \in Own(t) \ {except}} \ {Null}
\* The handles that a thread reads and writes: its variables, and fields by operator->.
Used(t) == Own(t) \cup {o \in Held(t, Null) : Home[o] = t}
Survives(t, l, r) ==
    \/ ptr[l] = Null
    \/ r \in Var \ {l}
    \/ r = l /\ ptr[r] \in Held(t, l)
    \/ r \in Obj \ {l} /\ r \in Held(t, l)

Idle(t) == todo[t] = <<>>
Begin(t, steps) == Idle(t) /\ todo' = [todo EXCEPT ![t] = steps] /\ UNCHANGED misuse

\* p = make(...)
MakeObject(t) ==
    \E l \in Used(t), o \in Obj :
        /\ life[o] = "free" /\ Home[o] = t
        /\ Begin(t, AssignRawSteps(l, o))
        /\ life' = [life EXCEPT ![o] = "live"]
        /\ UNCHANGED <<ptr, weak, count>>
AssignPtr(t) ==
    \E l, r \in Used(t) :
        /\ Survives(t, l, r)
        /\ Begin(t, AssignSteps(l, r))
        /\ UNCHANGED <<ptr, weak, count, life>>
CopyPtr(t) ==
    \E l \in Own(t), r \in Used(t), kind \in {Kind[o] : o \in Obj} :
        /\ ptr[l] = Null /\ ptr[r] # Null
        /\ Begin(t, CopySteps(l, r)) \/ Begin(t, CastSteps(l, r, kind))
        /\ UNCHANGED <<ptr, weak, count, life>>
DestroyPtr(t) ==
    \E l \in Own(t) :
        /\ ptr[l] # Null
        /\ Begin(t, DestructorSteps(l))
        /\ UNCHANGED <<ptr, weak, count, life>>
MakeWeak(t) ==
    \E l \in Used(t), w \in Weak :
        /\ Idle(t) /\ Owner[w] = t
        /\ weak' = [weak EXCEPT ![w] = ptr[l]]
        /\ UNCHANGED <<ptr, count, life, todo, misuse>>
\* A weak pointer is locked while the thread holds its object.
LockWeak(t) ==
    \E l \in Own(t), w \in Weak :
        /\ Owner[w] = t /\ ptr[l] = Null /\ weak[w] \in Held(t, l)
        /\ Begin(t, LockSteps(l, w))
        /\ UNCHANGED <<ptr, weak, count, life>>

ThreadNext(t) ==
    \/ Step(t)
    \/ MakeObject(t) \/ AssignPtr(t) \/ CopyPtr(t) \/ DestroyPtr(t) \/ MakeWeak(t) \/ LockWeak(t)
Next == \E t \in Thread : ThreadNext(t)
Spec == Init /\ [][Next]_vars /\ \A t \in Thread : WF_vars(Step(t))

------------------------------------------------------------------------------
\* What a thread is still to do with a handle.
Pending(name, h) == \E t \in Thread : \E i \in DOMAIN todo[t] :
                        todo[t][i][1] = name /\ todo[t][i][2] = h
\* The handle is between the release of its old object and its new value, or before it counts.
Stale(h) ==
    \/ Pending("own", h)
    \/ ~Pending("release", h) /\ \E name \in {"set", "put", "bind", "clear", "free"} : Pending(name, h)

\* The count of a live object is the number of its handles, whatever its threads are in the
\* middle of: none is lost when two threads count at once, and none stays.
CountsOwners ==
    \A o \in Obj : life[o] = "live" =>
        count[o] = Cardinality({h \in Handle : ptr[h] = o /\ ~Stale(h)})
                   + Cardinality({t \in Thread : Len(todo[t]) = 1 /\
                                      (\/ todo[t][1][1] = "set" /\ ptr[todo[t][1][3]] = o
                                       \/ todo[t][1][1] = "bind" /\ todo[t][1][3] = o)})

\* No step uses the memory of an object after it was freed, nor an object whose count is
\* down to zero, so no object is deleted twice; and the counts that decide it are exact,
\* whatever the threads are in the middle of.
NoUseAfterFree == ~misuse /\ CountsOwners

\* Handles behave like references: an assignment copies the reference and an object lives on
\* while it can be reached ("an emulation of reference semantics", object_impl.hpp:36).
Referent(h) == IF Stale(h) \/ ~Readable(h) THEN Null ELSE ptr[h]
\* A new object is one of them once its first handle is bound to it.
Alive == {o \in Obj : life[o] # "free" /\ ~\E t \in Thread : \E i \in DOMAIN todo[t] :
                           todo[t][i][1] = "bind" /\ todo[t][i][3] = o}
References == INSTANCE ReferenceSemantics WITH
                  ref <- [h \in Handle |-> Referent(h)], alive <- Alive
ReferencesKept == References!Spec

\* An object that no handle refers to is destroyed, and so are those that only it holds.
Unowned(o) == life[o] # "free" /\ \A h \in Handle : Referent(h) # o
UnownedFreed == \A o \in Obj : Unowned(o) ~> ~Unowned(o)
=============================================================================
