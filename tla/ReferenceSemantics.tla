------------------------- MODULE ReferenceSemantics -------------------------
(* What Ptr and ObjectImpl promise: references as C# has them.  A handle      *)
(* refers to an object or to none, assigning it copies the reference, and an  *)
(* object lives on while it can be reached.                                   *)
CONSTANTS
    Var,    \* the variables of the program
    Obj,    \* the objects there can be; each has one field
    Null

VARIABLES
    ref,    \* what each variable, and the field of each object, refers to
    weak,   \* what the weak references refer to
    alive   \* the objects that exist

\* An object can be reached from the variables when it is in every set that holds what
\* the variables and the fields of its own objects refer to.
Closed(S) == \A h \in Var \cup S : ref[h] \in S \cup {Null}
Reachable == {o \in Obj : \A S \in SUBSET (Obj \ {o}) : ~Closed(S)}

Handles == Var \cup Reachable

Assign(l, r) == ref' = [ref EXCEPT ![l] = ref[r]] /\ UNCHANGED <<weak, alive>>
Clear(l) == ref' = [ref EXCEPT ![l] = Null] /\ UNCHANGED <<weak, alive>>
New(l, o) ==
    /\ o \notin alive
    /\ alive' = alive \cup {o}
    /\ ref' = [ref EXCEPT ![l] = o, ![o] = Null]
    /\ UNCHANGED weak

\* A weak reference refers to an object that can still be reached.
ToWeak(w, l) == weak' = [weak EXCEPT ![w] = ref[l]] /\ UNCHANGED <<ref, alive>>
Lock(l, w) ==
    /\ weak[w] \in Reachable
    /\ ref' = [ref EXCEPT ![l] = weak[w]]
    /\ UNCHANGED <<weak, alive>>

\* Only what cannot be reached is destroyed, and its fields do not matter.
Collect ==
    /\ alive' \in SUBSET alive
    /\ alive \ alive' \subseteq alive \ Reachable
    /\ \E garbage \in SUBSET (Obj \ Reachable) :
          ref' = [h \in DOMAIN ref |-> IF h \in garbage THEN Null ELSE ref[h]]
    /\ UNCHANGED weak

Next ==
    \/ Collect
    \/ \E l \in Handles : Clear(l)
    \/ \E l, r \in Handles : Assign(l, r)
    \/ \E l \in Handles, o \in Obj : New(l, o)
    \/ \E w \in DOMAIN weak, l \in Handles : ToWeak(w, l) \/ Lock(l, w)

Spec == [][Next]_<<ref, weak, alive>>
=============================================================================
