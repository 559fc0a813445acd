---------------------------- MODULE ObjectsProofs ----------------------------
(* Objects, proved: what their reference counts say, and what they hold.      *)
(*                                                                            *)
(* Reference counts, for any number of threads, variables and objects: the    *)
(* counts are exact, nothing is used after it was freed, and handles behave   *)
(* like references of a language with a garbage collector.                    *)
(*                                                                            *)
(* What an operator of Ptr is still to do says which handles it has taken out *)
(* of the count.  Those of two threads are apart: variables have an owner,    *)
(* the fields of live objects a home, and a dying object is in the hands of   *)
(* the thread that deletes it.                                                *)
(*                                                                            *)
(* Boxed values, for any values, addresses and numbers of items: values are   *)
(* kept between places, and containers hold values, not objects (the last     *)
(* sections).                                                                 *)
EXTENDS ReferenceCounting, BoxedValues, FiniteSetTheorems, SequenceTheorems, WellFoundedInduction, TLAPS

-----------------------------------------------------------------------------
\* What is left of an operator.

Writing == {"own", "set", "put", "bind", "clear", "free"}

Steps ==
    {<<name, h>> : name \in {"release", "acquire", "own", "clear", "free"}, h \in Handle}
        \cup {<<"increment", o>> : o \in Obj}
        \cup {<<name, h, x>> : name \in {"set", "put", "bind"}, h \in Handle, x \in Handle}

\* Step i of q is one before the last.
Inner(q, i) ==
    \/ q[i][1] = "free" /\ q[i][2] \in Obj /\ Last(q)[1] # "own"
    \/ /\ q[i][1] = "release" /\ i = 1 /\ Last(q)[1] # "own"
       /\ \/ q[2] = <<"free", q[1][2]>>
          \/ q[1][2] = Last(q)[2] /\ \A j \in 1 .. Len(q) : q[j][1] # "free"
    \/ i = Len(q) - 1 /\ Last(q)[1] = "set" /\ q[i] = <<"acquire", Last(q)[3]>>
    \/ i = Len(q) - 1 /\ Last(q)[1] = "bind" /\ q[i] = <<"increment", Last(q)[3]>>
    \/ /\ i = 1 /\ Len(q) = 2 /\ q[i][1] \in {"set", "put"}
       /\ Last(q)[1] = "own" /\ q[i][2] = Last(q)[2]

\* The steps of an operator, after those of the deletions it has led to.
Shape(q) ==
    q # <<>> =>
        /\ Last(q)[1] \in {"own", "set", "bind", "clear"}
        /\ \A i \in 1 .. Len(q) : i = Len(q) \/ Inner(q, i)
        /\ Len(q) >= 2 /\ Last(q)[1] \in {"set", "bind"} =>
              q[Len(q) - 1][1] \in {"acquire", "increment"}
        /\ \A i, j \in 1 .. Len(q) :
              q[i][1] = "free" /\ q[j][1] = "free" /\ q[i][2] = q[j][2] => i = j

\* The handles that are still written, and those of them that do not count.
Writes(q, h) == \E i \in 1 .. Len(q) : q[i][1] \in Writing /\ q[i][2] = h
Releases(q, h) == q # <<>> /\ q[1] = <<"release", h>>
Misses(q, h) == Writes(q, h) /\ ~Releases(q, h)
Frees(q, o) == \E i \in 1 .. Len(q) : q[i][1] = "free" /\ q[i][2] = o

\* The object that was counted and is not in the handle yet.
Brings(t, o) ==
    /\ Len(todo[t]) = 1
    /\ \/ todo[t][1][1] = "set" /\ ptr[todo[t][1][3]] = o
       \/ todo[t][1][1] = "bind" /\ todo[t][1][3] = o

-----------------------------------------------------------------------------
\* The invariant.

CountingType ==
    /\ ptr \in [Handle -> Obj \cup {Null}]
    /\ count \in [Obj -> Nat]
    /\ life \in [Obj -> {"free", "live", "dying"}]
    /\ todo \in [Thread -> Seq(Steps)]

\* t has object x in a variable other than l.
Keeps(t, l, x) == x \in Obj /\ \E v \in Own(t) \ {l} : ptr[v] = x

\* Handle h is one of t, and stays when t releases l.
Safe(t, l, h) == h \in Own(t) \/ (h \in Obj /\ Home[h] = t /\ Keeps(t, l, h))

Missing(h) == \E t \in Thread : Misses(todo[t], h)
Holders(o) == {h \in Handle : ptr[h] = o /\ ~Missing(h)}
Bringers(o) == {t \in Thread : Brings(t, o)}

\* What the operator that t is in relies on.
SetInv(t, l, r) ==
    /\ Safe(t, l, l) /\ Safe(t, l, r)
    /\ r = l /\ ptr[l] # Null => Keeps(t, l, ptr[l])
BindInv(t, l, o) ==
    /\ Safe(t, l, l) /\ o \in Obj /\ Home[o] = t /\ life[o] = "live" /\ ptr[o] = Null
    /\ Holders(o) = {} /\ \A s \in Thread \ {t} : ~Brings(s, o)
OwnInv(t, l) ==
    LET q == todo[t] IN
    /\ l \in Own(t)
    /\ Len(q) = 1 => ptr[l] # Null /\ \E h \in Handle : h # l /\ Safe(t, l, h) /\ ptr[h] = ptr[l]
    /\ Len(q) = 2 /\ q[1][1] = "set" => q[1][3] # l /\ Safe(t, l, q[1][3]) /\ ptr[q[1][3]] # Null
    /\ Len(q) = 2 /\ q[1][1] = "put" => Keeps(t, l, q[1][3])

OperatorInv(t) ==
    LET q == todo[t]
        last == Last(q)
    IN  q # <<>> =>
            /\ last[1] = "set" => SetInv(t, last[2], last[3])
            /\ last[1] = "bind" => BindInv(t, last[2], last[3])
            /\ last[1] = "clear" => last[2] \in Own(t)
            /\ last[1] = "own" => OwnInv(t, last[2])

\* A dying object is deleted by one thread, once.
FreesInv ==
    /\ \A t \in Thread, o \in Obj : Frees(todo[t], o) => life[o] = "dying"
    /\ \A t, s \in Thread, o \in Obj : Frees(todo[t], o) /\ Frees(todo[s], o) => t = s

\* The count of an object is the number of its owners, and only a live one has any.
CountInv ==
    \A o \in Obj :
        /\ count[o] = Cardinality(Holders(o)) + Cardinality(Bringers(o))
        /\ life[o] # "live" => Holders(o) = {} /\ Bringers(o) = {}
        /\ life[o] = "free" => ptr[o] = Null

CountingInv ==
    /\ CountingType /\ ~misuse
    /\ \A t \in Thread : Shape(todo[t]) /\ OperatorInv(t)
    /\ FreesInv /\ CountInv

-----------------------------------------------------------------------------
\* Sequences of steps.

\* The fields of a step that is left.
LEMMA StepFields ==
    ASSUME NEW q \in Seq(Steps), NEW i \in 1 .. Len(q)
    PROVE  /\ q[i] \in Steps
           /\ q[i][1] \in {"release", "acquire", "increment"} \cup Writing
           /\ q[i][2] \in Handle
           /\ q[i][1] \in {"set", "put", "bind"} => q[i][3] \in Handle
           /\ q[i][1] \in {"release", "acquire", "own", "clear", "free"} => q[i] = <<q[i][1], q[i][2]>>
<1>1. q[i] \in Steps
  OBVIOUS
<1>2. CASE \E name \in {"release", "acquire", "own", "clear", "free"}, h \in Handle : q[i] = <<name, h>>
  BY <1>1, <1>2 DEF Writing
<1>3. CASE \E o \in Obj : q[i] = <<"increment", o>>
  BY <1>1, <1>3 DEF Writing, Handle
<1>4. CASE \E name \in {"set", "put", "bind"}, h \in Handle, x \in Handle : q[i] = <<name, h, x>>
  BY <1>1, <1>4 DEF Writing
<1>5. QED
  BY <1>1, <1>2, <1>3, <1>4 DEF Steps

\* What the next step says of the steps after it.
LEMMA HeadShape ==
    ASSUME NEW q \in Seq(Steps), Shape(q), q # <<>>
    PROVE  /\ Len(q) \in Nat \ {0} /\ Last(q) = q[Len(q)] /\ Head(q) = q[1]
           /\ q[1][1] = "release" =>
                 /\ Len(q) >= 2 /\ q[1] = <<"release", q[1][2]>> /\ Last(q)[1] # "own"
                 /\ \/ Frees(q, q[1][2])
                    \/ q[1][2] = Last(q)[2] /\ \A j \in 1 .. Len(q) : q[j][1] # "free"
           /\ q[1][1] = "acquire" => Len(q) = 2 /\ Last(q)[1] = "set" /\ q[1][2] = Last(q)[3]
           /\ q[1][1] = "increment" => Len(q) = 2 /\ Last(q)[1] = "bind" /\ q[1][2] = Last(q)[3]
           /\ q[1][1] = "free" => Len(q) >= 2 /\ q[1][2] \in Obj /\ Last(q)[1] # "own"
           /\ q[1][1] \in {"own", "bind", "clear"} => Len(q) = 1
           /\ q[1][1] \in {"set", "put"} =>
                 \/ Len(q) = 1 /\ q[1][1] = "set"
                 \/ Len(q) = 2 /\ Last(q)[1] = "own" /\ q[1][2] = Last(q)[2]
<1>1. Len(q) \in Nat \ {0} /\ Last(q) = q[Len(q)] /\ Head(q) = q[1] /\ 1 \in 1 .. Len(q)
  BY DEF Last
<1>2. Last(q)[1] \in {"own", "set", "bind", "clear"} /\ (Len(q) = 1 \/ Inner(q, 1))
  BY <1>1 DEF Shape
<1>3. CASE Len(q) = 1
  BY <1>1, <1>2, <1>3
<1>4. CASE Inner(q, 1) /\ Len(q) # 1
  <2>1. q[1][1] = "release" => q[1] = <<"release", q[1][2]>>
    BY <1>1, StepFields
  <2>2. q[1][1] = "release" /\ q[2] = <<"free", q[1][2]>> => Frees(q, q[1][2])
    <3>1. 2 \in 1 .. Len(q)
      <4>1. \A n \in Nat \ {0} : n # 1 => 2 \in 1 .. n
        OBVIOUS
      <4>2. QED
        BY <1>1, <1>4, <4>1
    <3>2. ASSUME q[2] = <<"free", q[1][2]>> PROVE q[2][1] = "free" /\ q[2][2] = q[1][2]
      BY <3>2
    <3>3. QED
      BY <3>1, <3>2 DEF Frees
  <2>3. QED
    BY <1>1, <1>2, <1>4, <2>1, <2>2 DEF Inner
<1>5. QED
  BY <1>2, <1>3, <1>4

\* Once its first step is made, what is left has the shape of an operator again.
LEMMA TailShape ==
    ASSUME NEW q \in Seq(Steps), Shape(q), Len(q) >= 2
    PROVE  /\ Tail(q) \in Seq(Steps) /\ Len(Tail(q)) = Len(q) - 1
           /\ \A i \in 1 .. Len(q) - 1 : Tail(q)[i] = q[i + 1]
           /\ Last(Tail(q)) = Last(q) /\ Shape(Tail(q))
           /\ \A h : ~Releases(Tail(q), h)
           /\ \A h : Writes(q, h) <=> (q[1][1] \in Writing /\ q[1][2] = h) \/ Writes(Tail(q), h)
           /\ \A o : Frees(q, o) <=> (q[1][1] = "free" /\ q[1][2] = o) \/ Frees(Tail(q), o)
<1> DEFINE p == Tail(q)
<1>1. /\ q # <<>> /\ Len(q) \in Nat /\ p \in Seq(Steps) /\ Len(p) = Len(q) - 1
      /\ \A i \in 1 .. Len(q) - 1 : p[i] = q[i + 1]
  OBVIOUS
<1>2. Last(q) = q[Len(q)] /\ Last(p) = p[Len(p)]
  BY DEF Last
<1> HIDE DEF p
<1>3. Last(p) = Last(q)
  BY <1>1, <1>2
<1>4. ASSUME NEW i \in 1 .. Len(p), i # Len(p)
      PROVE  Inner(p, i) /\ p[i][1] # "release"
  <2>1. /\ i + 1 \in 1 .. Len(q) /\ i + 1 # Len(q) /\ i + 1 # 1 /\ p[i] = q[i + 1]
        /\ i + 1 = Len(q) - 1 <=> i = Len(p) - 1
    BY <1>1, <1>4
  <2>2. Inner(q, i + 1)
    BY <1>1, <2>1 DEF Shape
  <2>3. QED
    BY <1>3, <2>1, <2>2 DEF Inner
<1>5. Shape(p)
  <2>1. Last(p)[1] \in {"own", "set", "bind", "clear"}
    BY <1>1, <1>3 DEF Shape
  <2>2. Len(p) >= 2 => p[Len(p) - 1] = q[Len(q) - 1]
    BY <1>1
  <2>3. Len(p) >= 2 /\ Last(p)[1] \in {"set", "bind"} => p[Len(p) - 1][1] \in {"acquire", "increment"}
    BY <1>1, <1>3, <2>2 DEF Shape
  <2>4. ASSUME NEW i \in 1 .. Len(p), NEW j \in 1 .. Len(p),
               p[i][1] = "free", p[j][1] = "free", p[i][2] = p[j][2]
        PROVE  i = j
    <3>1. i + 1 \in 1 .. Len(q) /\ j + 1 \in 1 .. Len(q) /\ p[i] = q[i + 1] /\ p[j] = q[j + 1]
      BY <1>1
    <3>2. i + 1 = j + 1
      BY <1>1, <2>4, <3>1 DEF Shape
    <3>3. QED
      BY <3>2
  <2>5. QED
    BY <1>4, <2>1, <2>3, <2>4 DEF Shape
<1>6. \A h : ~Releases(p, h)
  <2>1. Last(p)[1] # "release"
    BY <1>5, <1>1 DEF Shape
  <2>2. 1 \in 1 .. Len(p)
    BY <1>1
  <2>3. p[1][1] # "release"
    BY <1>2, <1>4, <2>1, <2>2
  <2>4. QED
    BY <2>3 DEF Releases
<1>7. \A i \in 1 .. Len(q) : i = 1 \/ (i - 1 \in 1 .. Len(p) /\ p[i - 1] = q[i])
  BY <1>1
<1>8. \A i \in 1 .. Len(p) : i + 1 \in 1 .. Len(q) /\ q[i + 1] = p[i]
  BY <1>1
<1>9. 1 \in 1 .. Len(q)
  BY <1>1
<1>10. \A h : Writes(q, h) <=> (q[1][1] \in Writing /\ q[1][2] = h) \/ Writes(p, h)
  <2> TAKE h
  <2>1. ASSUME Writes(q, h) PROVE (q[1][1] \in Writing /\ q[1][2] = h) \/ Writes(p, h)
    <3>1. PICK i \in 1 .. Len(q) : q[i][1] \in Writing /\ q[i][2] = h
      BY <2>1 DEF Writes
    <3>2. CASE i = 1
      BY <3>1, <3>2
    <3>3. CASE i - 1 \in 1 .. Len(p) /\ p[i - 1] = q[i]
      BY <3>1, <3>3 DEF Writes
    <3>4. QED
      BY <1>7, <3>2, <3>3
  <2>2. ASSUME Writes(p, h) PROVE Writes(q, h)
    <3>1. PICK i \in 1 .. Len(p) : p[i][1] \in Writing /\ p[i][2] = h
      BY <2>2 DEF Writes
    <3>2. i + 1 \in 1 .. Len(q) /\ q[i + 1] = p[i]
      BY <1>8
    <3>3. QED
      BY <3>1, <3>2 DEF Writes
  <2>3. q[1][1] \in Writing /\ q[1][2] = h => Writes(q, h)
    BY <1>9 DEF Writes
  <2>4. QED
    BY <2>1, <2>2, <2>3
<1>11. \A o : Frees(q, o) <=> (q[1][1] = "free" /\ q[1][2] = o) \/ Frees(p, o)
  <2> TAKE h
  <2>1. ASSUME Frees(q, h) PROVE (q[1][1] = "free" /\ q[1][2] = h) \/ Frees(p, h)
    <3>1. PICK i \in 1 .. Len(q) : q[i][1] = "free" /\ q[i][2] = h
      BY <2>1 DEF Frees
    <3>2. CASE i = 1
      BY <3>1, <3>2
    <3>3. CASE i - 1 \in 1 .. Len(p) /\ p[i - 1] = q[i]
      BY <3>1, <3>3 DEF Frees
    <3>4. QED
      BY <1>7, <3>2, <3>3
  <2>2. ASSUME Frees(p, h) PROVE Frees(q, h)
    <3>1. PICK i \in 1 .. Len(p) : p[i][1] = "free" /\ p[i][2] = h
      BY <2>2 DEF Frees
    <3>2. i + 1 \in 1 .. Len(q) /\ q[i + 1] = p[i]
      BY <1>8
    <3>3. QED
      BY <3>1, <3>2 DEF Frees
  <2>3. q[1][1] = "free" /\ q[1][2] = h => Frees(q, h)
    BY <1>9 DEF Frees
  <2>4. QED
    BY <2>1, <2>2, <2>3
<1>12. QED
  BY <1>1, <1>3, <1>5, <1>6, <1>10, <1>11 DEF p

\* An operator writes one handle, and the objects it deletes.
LEMMA Writer ==
    ASSUME NEW q \in Seq(Steps), Shape(q), NEW h, Writes(q, h)
    PROVE  /\ q # <<>> /\ h \in Handle
           /\ (Frees(q, h) /\ h \in Obj) \/ h = Last(q)[2]
<1>1. PICK i \in 1 .. Len(q) : q[i][1] \in Writing /\ q[i][2] = h
  BY DEF Writes
<1>2. q # <<>> /\ h \in Handle /\ Last(q) = q[Len(q)]
  BY <1>1, StepFields DEF Last
<1>3. CASE i = Len(q)
  BY <1>1, <1>2, <1>3
<1>4. CASE Inner(q, i)
  BY <1>1, <1>2, <1>4 DEF Inner, Frees, Writing
<1>5. QED
  BY <1>1, <1>2, <1>3, <1>4 DEF Shape

\* The last step of an operator writes the handle that the operator is for.
LEMMA LastWritten ==
    ASSUME NEW q \in Seq(Steps), Shape(q), q # <<>>
    PROVE  Writes(q, Last(q)[2]) /\ Last(q) = q[Len(q)] /\ Len(q) \in 1 .. Len(q)
<1>1. Len(q) \in 1 .. Len(q) /\ Last(q) = q[Len(q)]
  BY DEF Last
<1>2. Last(q)[1] \in Writing
  BY DEF Shape, Writing
<1>3. QED
  BY <1>1, <1>2 DEF Writes

\* A release is the first step, and its handle is written later.
LEMMA Releaser ==
    ASSUME NEW q \in Seq(Steps), Shape(q), NEW i \in 1 .. Len(q), q[i][1] = "release"
    PROVE  i = 1 /\ Releases(q, q[i][2]) /\ Writes(q, q[i][2])
<1>1. q # <<>> /\ Last(q) = q[Len(q)] /\ Last(q)[1] # "release"
  BY DEF Shape, Last
<1>2. Inner(q, i)
  BY <1>1 DEF Shape
<1>3. i = 1
  BY <1>2 DEF Inner
<1>4. Frees(q, q[1][2]) => Writes(q, q[1][2])
  BY DEF Frees, Writes, Writing
<1>5. Writes(q, q[1][2])
  BY <1>1, <1>3, <1>4, HeadShape, LastWritten
<1>6. q[1] = <<"release", q[1][2]>>
  BY <1>1, <1>3, HeadShape
<1>7. QED
  BY <1>1, <1>3, <1>5, <1>6 DEF Releases

\* A deletion puts two steps before what was left.
LEMMA Prepended ==
    ASSUME NEW S, NEW d \in Seq(S), NEW r \in Seq(S), Len(d) = 2
    PROVE  /\ d \o r \in Seq(S) /\ Len(d \o r) = Len(r) + 2
           /\ (d \o r)[1] = d[1] /\ (d \o r)[2] = d[2]
           /\ \A i \in 3 .. Len(d \o r) : i - 2 \in 1 .. Len(r) /\ (d \o r)[i] = r[i - 2]
           /\ \A i \in 1 .. Len(r) : i + 2 \in 1 .. Len(d \o r) /\ (d \o r)[i + 2] = r[i]
<1>1. d \o r \in Seq(S) /\ Len(r) \in Nat
  BY ConcatProperties
<1>2. Len(d \o r) = Len(d) + Len(r)
  BY ConcatProperties, Zenon
<1>3. \A i \in 1 .. Len(d) + Len(r) : (d \o r)[i] = IF i <= Len(d) THEN d[i] ELSE r[i - Len(d)]
  BY ConcatProperties, Zenon
<1> DEFINE p == d \o r
<1> HIDE DEF p
<1>4. Len(p) = Len(r) + 2 /\ \A i \in 1 .. Len(r) + 2 : p[i] = IF i <= 2 THEN d[i] ELSE r[i - 2]
  BY <1>1, <1>2, <1>3 DEF p
<1>5. /\ p[1] = d[1] /\ p[2] = d[2]
      /\ \A i \in 3 .. Len(p) : i - 2 \in 1 .. Len(r) /\ p[i] = r[i - 2]
      /\ \A i \in 1 .. Len(r) : i + 2 \in 1 .. Len(p) /\ p[i + 2] = r[i]
  BY <1>1, <1>4
<1>6. QED
  BY <1>1, <1>4, <1>5 DEF p

\* delete this, pushed before the rest of an operator.
LEMMA DeleteShape ==
    ASSUME NEW q \in Seq(Steps), Shape(q), q # <<>>, q[1][1] = "release",
           NEW o \in Obj, ~Writes(q, o)
    PROVE  LET p == DeleteSteps(o) \o Tail(q) IN
           /\ p \in Seq(Steps) /\ Len(p) > 2 /\ Last(p) = Last(q) /\ Shape(p)
           /\ \A h : Writes(p, h) <=> Writes(q, h) \/ h = o
           /\ \A h : Misses(p, h) <=> Writes(q, h)
           /\ \A h : Frees(p, h) <=> Frees(q, h) \/ h = o
<1> DEFINE r == Tail(q)
           p == DeleteSteps(o) \o Tail(q)
<1>1. /\ Len(q) >= 2 /\ Last(q)[1] # "own" /\ Last(q) = q[Len(q)]
      /\ Last(q)[1] \in {"set", "bind"} => Len(q) >= 3
  BY HeadShape DEF Shape
<1>2. /\ r \in Seq(Steps) /\ Len(r) = Len(q) - 1 /\ Last(r) = Last(q) /\ Shape(r)
      /\ \A h : Writes(q, h) <=> Writes(r, h)
      /\ \A h : Frees(q, h) <=> Frees(r, h)
      /\ \A h : ~Releases(r, h)
  BY <1>1, TailShape DEF Writing
<1>3. DeleteSteps(o) \in Seq(Steps) /\ Len(DeleteSteps(o)) = 2
      /\ DeleteSteps(o)[1] = <<"release", o>> /\ DeleteSteps(o)[2] = <<"free", o>>
  BY DEF DeleteSteps, Steps, Handle
<1>4. /\ p \in Seq(Steps) /\ Len(p) = Len(r) + 2 /\ p[1] = <<"release", o>> /\ p[2] = <<"free", o>>
      /\ \A i \in 3 .. Len(p) : i - 2 \in 1 .. Len(r) /\ p[i] = r[i - 2]
      /\ \A i \in 1 .. Len(r) : i + 2 \in 1 .. Len(p) /\ p[i + 2] = r[i]
  BY <1>2, <1>3, Prepended
<1> HIDE DEF p, r
<1>5. Len(r) \in Nat \ {0} /\ Last(p) = p[Len(p)] /\ Last(r) = r[Len(r)] /\ Last(p) = Last(q)
  <2>1. Len(r) \in Nat \ {0}
    BY <1>1, <1>2
  <2>2. Last(p) = p[Len(p)] /\ Last(r) = r[Len(r)]
    BY DEF Last
  <2>3. Len(p) \in 3 .. Len(p) /\ Len(p) - 2 = Len(r)
    BY <1>4, <2>1
  <2>4. QED
    BY <1>2, <1>4, <2>1, <2>2, <2>3
<1>6. \A i \in 1 .. Len(p) : i = 1 \/ i = 2 \/ i \in 3 .. Len(p)
  BY <1>4, <1>5
<1>7. 1 \in 1 .. Len(p) /\ 2 \in 1 .. Len(p)
  BY <1>4, <1>5
<1>8. \A h : Writes(p, h) <=> Writes(r, h) \/ h = o
  <2> TAKE h
  <2>1. ASSUME Writes(p, h) PROVE Writes(r, h) \/ h = o
    <3>1. PICK i \in 1 .. Len(p) : p[i][1] \in Writing /\ p[i][2] = h
      BY <2>1 DEF Writes
    <3>2. CASE i \in {1, 2}
      BY <1>4, <3>1, <3>2
    <3>3. CASE i \in 3 .. Len(p)
      BY <1>4, <3>1, <3>3 DEF Writes
    <3>4. QED
      BY <1>6, <3>2, <3>3
  <2>2. ASSUME Writes(r, h) PROVE Writes(p, h)
    <3>1. PICK i \in 1 .. Len(r) : r[i][1] \in Writing /\ r[i][2] = h
      BY <2>2 DEF Writes
    <3>2. QED
      BY <1>4, <3>1 DEF Writes
  <2>3. Writes(p, o)
    BY <1>4, <1>7 DEF Writes, Writing
  <2>4. QED
    BY <2>1, <2>2, <2>3
<1>9. \A h : Frees(p, h) <=> Frees(r, h) \/ h = o
  <2> TAKE h
  <2>1. ASSUME Frees(p, h) PROVE Frees(r, h) \/ h = o
    <3>1. PICK i \in 1 .. Len(p) : p[i][1] = "free" /\ p[i][2] = h
      BY <2>1 DEF Frees
    <3>2. CASE i \in {1, 2}
      BY <1>4, <3>1, <3>2
    <3>3. CASE i \in 3 .. Len(p)
      BY <1>4, <3>1, <3>3 DEF Frees
    <3>4. QED
      BY <1>6, <3>2, <3>3
  <2>2. ASSUME Frees(r, h) PROVE Frees(p, h)
    <3>1. PICK i \in 1 .. Len(r) : r[i][1] = "free" /\ r[i][2] = h
      BY <2>2 DEF Frees
    <3>2. QED
      BY <1>4, <3>1 DEF Frees
  <2>3. Frees(p, o)
    BY <1>4, <1>7 DEF Frees
  <2>4. QED
    BY <2>1, <2>2, <2>3
<1>10. ~Writes(r, o)
  BY <1>2
<1>11. \A h : Releases(p, h) <=> h = o
  <2>1. p # <<>>
    BY <1>4, <1>5
  <2>2. QED
    BY <2>1, <1>4 DEF Releases
<1>12. \A h : Misses(p, h) <=> Writes(q, h)
  BY <1>2, <1>8, <1>10, <1>11 DEF Misses
<1>13. Shape(p)
  <2>1. Last(p)[1] \in {"own", "set", "bind", "clear"} /\ Last(p)[1] # "own"
    BY <1>1, <1>2, <1>5 DEF Shape
  <2>2. ASSUME NEW i \in 3 .. Len(p), i # Len(p)
        PROVE  Inner(p, i)
    <3>1. i - 2 \in 1 .. Len(r) /\ i - 2 # Len(r) /\ p[i] = r[i - 2] /\ (i = Len(p) - 1 <=> i - 2 = Len(r) - 1)
      BY <1>4, <1>5, <2>2
    <3>2. Inner(r, i - 2)
      BY <1>2, <1>5, <3>1 DEF Shape
    <3>5. r[i - 2][1] # "release"
      BY <1>2, <3>1, Releaser
    <3>3. CASE r[i - 2][1] = "free" /\ r[i - 2][2] \in Obj
      BY <2>1, <3>1, <3>3 DEF Inner
    <3>4. QED
      BY <1>2, <1>5, <2>1, <3>1, <3>2, <3>3, <3>5 DEF Inner
  <2>3. Inner(p, 1) /\ Inner(p, 2)
    BY <1>4, <2>1 DEF Inner
  <2>4. Last(p)[1] \in {"set", "bind"} => p[Len(p) - 1][1] \in {"acquire", "increment"}
    <3>1. ASSUME Last(p)[1] \in {"set", "bind"}
          PROVE  Len(r) >= 2 /\ Len(p) - 1 \in 3 .. Len(p) /\ Len(p) - 1 - 2 = Len(r) - 1
      BY <1>1, <1>2, <1>4, <1>5, <3>1
    <3>2. QED
      BY <1>2, <1>4, <1>5, <3>1 DEF Shape
  <2>5. ASSUME NEW i \in 1 .. Len(p), p[i][1] = "free"
        PROVE  (i = 2 /\ p[i][2] = o) \/ (i \in 3 .. Len(p) /\ p[i][2] # o)
    <3>1. i # 1 /\ (i = 2 => p[i][2] = o)
      BY <1>4, <2>5
    <3>2. ASSUME i \in 3 .. Len(p), p[i][2] = o PROVE FALSE
      BY <1>4, <1>10, <2>5, <3>2 DEF Writes, Writing
    <3>3. QED
      BY <1>6, <3>1, <3>2
  <2>6. ASSUME NEW i \in 1 .. Len(p), NEW j \in 1 .. Len(p),
               p[i][1] = "free", p[j][1] = "free", p[i][2] = p[j][2]
        PROVE  i = j
    <3>1. CASE p[i][2] = o
      BY <2>5, <2>6, <3>1
    <3>2. CASE i \in 3 .. Len(p) /\ j \in 3 .. Len(p)
      <4>1. /\ i - 2 \in 1 .. Len(r) /\ j - 2 \in 1 .. Len(r)
            /\ r[i - 2][1] = "free" /\ r[j - 2][1] = "free" /\ r[i - 2][2] = r[j - 2][2]
        BY <1>4, <2>6, <3>2
      <4>2. r # <<>> /\ Shape(r)
        BY <1>2, <1>5
      <4>3. i - 2 = j - 2
        BY <4>1, <4>2 DEF Shape
      <4>4. QED
        BY <3>2, <4>3
    <3>3. QED
      BY <2>5, <2>6, <3>1, <3>2
  <2>7. \A i \in 1 .. Len(p) : i = Len(p) \/ Inner(p, i)
    BY <1>6, <2>2, <2>3
  <2>8. QED
    BY <2>1, <2>4, <2>6, <2>7 DEF Shape
<1>14. QED
  BY <1>2, <1>4, <1>5, <1>8, <1>9, <1>12, <1>13 DEF p

-----------------------------------------------------------------------------
\* Whose handle is whose.

\* The handle that the operator of t is for.
Target(t) == Last(todo[t])[2]

\* An operator is for a handle that is safe with its thread.
LEMMA Targets ==
    ASSUME CountingInv, NEW t \in Thread, todo[t] # <<>>
    PROVE  /\ todo[t] \in Seq(Steps) /\ Shape(todo[t]) /\ Target(t) \in Handle
           /\ Safe(t, Target(t), Target(t)) /\ Writes(todo[t], Target(t))
<1>1. todo[t] \in Seq(Steps) /\ Shape(todo[t]) /\ OperatorInv(t)
  BY DEF CountingInv, CountingType
<1>2. Writes(todo[t], Target(t)) /\ Target(t) \in Handle
  BY <1>1, LastWritten, Writer DEF Target
<1>3. Last(todo[t])[1] \in {"own", "set", "bind", "clear"}
  BY <1>1 DEF Shape
<1>4. Safe(t, Target(t), Target(t))
  BY <1>1, <1>3 DEF OperatorInv, Target, SetInv, BindInv, OwnInv, Safe
<1>5. QED
  BY <1>1, <1>2, <1>4

\* A thread writes the fields of objects that it deletes and the handle of its operator.
LEMMA Written ==
    ASSUME CountingInv, NEW t \in Thread, NEW h, Writes(todo[t], h)
    PROVE  /\ todo[t] # <<>> /\ h \in Handle
           /\ \/ Frees(todo[t], h) /\ h \in Obj /\ life[h] = "dying"
              \/ h = Target(t) /\ Safe(t, h, h)
<1>1. todo[t] \in Seq(Steps) /\ Shape(todo[t])
  BY DEF CountingInv, CountingType
<1>2. todo[t] # <<>> /\ h \in Handle /\ ((Frees(todo[t], h) /\ h \in Obj) \/ h = Target(t))
  BY <1>1, Writer DEF Target
<1>3. Frees(todo[t], h) /\ h \in Obj => life[h] = "dying"
  BY DEF CountingInv, FreesInv
<1>4. QED
  BY <1>2, <1>3, Targets

\* A variable is written by its thread.
LEMMA VariableWritten ==
    ASSUME CountingInv, NEW t \in Thread, NEW v \in Var, Writes(todo[t], v)
    PROVE  Owner[v] = t /\ v = Target(t)
BY Written, HandlesAssumption DEF Safe, Own

\* What another variable holds is counted.
LEMMA KeptLive ==
    ASSUME CountingInv, NEW t \in Thread, NEW l, todo[t] = <<>> \/ l = Target(t),
           NEW x, Keeps(t, l, x)
    PROVE  x \in Obj /\ life[x] = "live" /\ \E v \in Own(t) \ {l} : v \in Holders(x)
<1>1. PICK v \in Own(t) \ {l} : x \in Obj /\ ptr[v] = x
  BY DEF Keeps
<1>2. v \in Var /\ Owner[v] = t /\ v \in Handle
  BY <1>1 DEF Own, Handle
<1>3. ASSUME NEW s \in Thread, Writes(todo[s], v) PROVE FALSE
  BY <1>1, <1>2, <1>3, VariableWritten, Written
<1>4. v \in Holders(x)
  BY <1>1, <1>2, <1>3 DEF Holders, Missing, Misses
<1>5. life[x] = "live"
  BY <1>1, <1>4 DEF CountingInv, CountInv
<1>6. QED
  BY <1>1, <1>4, <1>5

\* A thread can read its handles, and no other thread writes them.
LEMMA SafeHandle ==
    ASSUME CountingInv, NEW t \in Thread, NEW l, todo[t] = <<>> \/ l = Target(t),
           NEW h, Safe(t, l, h)
    PROVE  /\ h \in Handle /\ Readable(h)
           /\ h \in Obj => life[h] = "live" /\ Home[h] = t
           /\ h \in Var => Owner[h] = t
           /\ \A s \in Thread : Writes(todo[s], h) => s = t /\ h = Target(t)
<1>1. CASE h \in Own(t)
  <2>1. h \in Var /\ h \notin Obj /\ Owner[h] = t
    BY <1>1, HandlesAssumption DEF Own
  <2>2. QED
    BY <2>1, VariableWritten DEF Handle, Readable
<1>2. CASE h \in Obj /\ Home[h] = t /\ Keeps(t, l, h)
  <2>1. life[h] = "live" /\ h \notin Var
    BY <1>2, KeptLive, HandlesAssumption
  <2>2. ASSUME NEW s \in Thread, Writes(todo[s], h) PROVE s = t /\ h = Target(t)
    <3>1. h = Target(s) /\ Safe(s, h, h)
      BY <2>1, <2>2, Written
    <3>2. Home[h] = s
      BY <2>1, <3>1 DEF Safe, Own
    <3>3. QED
      BY <1>2, <3>1, <3>2
  <2>3. QED
    BY <1>2, <2>1, <2>2 DEF Handle, Readable
<1>3. QED
  BY <1>1, <1>2 DEF Safe

\* No handle is written by two threads.
LEMMA WritersApart ==
    ASSUME CountingInv, NEW t \in Thread, NEW s \in Thread, NEW h,
           Writes(todo[t], h), Writes(todo[s], h)
    PROVE  s = t
<1>1. CASE h = Target(t) /\ Safe(t, h, h)
  BY <1>1, SafeHandle
<1>2. CASE h = Target(s) /\ Safe(s, h, h)
  BY <1>2, SafeHandle
<1>3. CASE h \in Obj /\ Frees(todo[t], h) /\ Frees(todo[s], h)
  BY <1>3 DEF CountingInv, FreesInv
<1>4. QED
  BY <1>1, <1>2, <1>3, Written

\* What a handle that is not written holds is counted.
LEMMA Counted ==
    ASSUME CountingInv, NEW h \in Handle, NEW o \in Obj, ptr[h] = o,
           \A s \in Thread : ~Misses(todo[s], h)
    PROVE  h \in Holders(o) /\ life[o] = "live"
<1>1. h \in Holders(o)
  BY DEF Holders, Missing
<1>2. QED
  BY <1>1 DEF CountingInv, CountInv

\* A handle that a thread may read counts, and the object it refers to is live.
LEMMA SafeCounted ==
    ASSUME CountingInv, NEW t \in Thread, NEW l, todo[t] = <<>> \/ l = Target(t),
           NEW h, Safe(t, l, h), h # l \/ Releases(todo[t], h), ptr[h] # Null
    PROVE  ptr[h] \in Obj /\ h \in Holders(ptr[h]) /\ life[ptr[h]] = "live"
<1>1. h \in Handle /\ \A s \in Thread : Writes(todo[s], h) => s = t /\ h = Target(t)
  BY SafeHandle
<1>2. ptr[h] \in Obj
  BY <1>1 DEF CountingInv, CountingType
<1>3. \A s \in Thread : ~Misses(todo[s], h)
  BY <1>1, Written DEF Misses
<1>4. QED
  BY <1>1, <1>2, <1>3, Counted

-----------------------------------------------------------------------------
\* What a step of t leaves to the other threads.

Elsewhere(t) == \A s \in Thread \ {t} : todo'[s] = todo[s]
WritesOwn(t) == \A h \in Handle : ptr'[h] # ptr[h] => Writes(todo[t], h)

\* What a handle refers to, in what it counts for.
Ref(h) == IF Missing(h) THEN Null ELSE ptr[h]
RefKept == \A h \in Handle : Ref(h)' = Ref(h)
RefBecomes(x, o) == Ref(x)' = o /\ \A h \in Handle \ {x} : Ref(h)' = Ref(h)

\* What one thread writes leaves the handles of the others as they are.
LEMMA OthersSafe ==
    ASSUME CountingInv, NEW t \in Thread, NEW s \in Thread \ {t}, WritesOwn(t),
           NEW l, todo[s] = <<>> \/ l = Target(s)
    PROVE  /\ \A x : Keeps(s, l, x)' <=> Keeps(s, l, x)
           /\ \A h : Safe(s, l, h) => Safe(s, l, h)' /\ ptr'[h] = ptr[h]
<1>1. ASSUME NEW v \in Own(s) PROVE ptr'[v] = ptr[v]
  <2>1. v \in Var /\ v \in Handle /\ Owner[v] = s
    BY <1>1 DEF Own, Handle
  <2>2. ~Writes(todo[t], v)
    BY <2>1, VariableWritten
  <2>3. QED
    BY <2>1, <2>2 DEF WritesOwn
<1>2. \A x : Keeps(s, l, x)' <=> Keeps(s, l, x)
  BY <1>1 DEF Keeps, Own
<1>3. ASSUME NEW h, Safe(s, l, h) PROVE ptr'[h] = ptr[h]
  <2>1. h \in Handle /\ ~Writes(todo[t], h)
    BY <1>3, SafeHandle
  <2>2. QED
    BY <2>1 DEF WritesOwn
<1>4. \A h : Safe(s, l, h) => Safe(s, l, h)'
  BY <1>2 DEF Safe, Own
<1>5. QED
  BY <1>2, <1>3, <1>4

\* What one thread writes leaves the objects that others have counted as they are.
LEMMA OthersBring ==
    ASSUME CountingInv, NEW t \in Thread, NEW s \in Thread \ {t}, WritesOwn(t), todo'[s] = todo[s]
    PROVE  \A o : Brings(s, o)' <=> Brings(s, o)
<1> DEFINE q == todo[s]
<1>1. q \in Seq(Steps)
  BY DEF CountingInv, CountingType
<1>2. CASE Len(q) = 1 /\ q[1][1] = "set"
  <2>1. q # <<>> /\ Last(q) = q[1] /\ OperatorInv(s)
    BY <1>1, <1>2 DEF CountingInv, Last
  <2>2. Safe(s, Target(s), q[1][3])
    BY <1>2, <2>1 DEF OperatorInv, SetInv, Target
  <2>3. PICK l : l = Target(s)
    OBVIOUS
  <2>4. PICK r : r = q[1][3]
    OBVIOUS
  <2>5. ptr'[r] = ptr[r]
    BY <2>2, <2>3, <2>4, OthersSafe
  <2>6. QED
    BY <2>4, <2>5 DEF Brings
<1>3. QED
  BY <1>2 DEF Brings

\* An object that no handle refers to yet stays so.
LEMMA OthersKept ==
    ASSUME CountingInv, NEW t \in Thread, Elsewhere(t), WritesOwn(t),
           \A o \in Obj : Home[o] # t /\ life[o] = "live" /\ Holders(o) = {} /\ ~Brings(t, o)
                             => life'[o] = "live" /\ Holders(o)' = {} /\ ~Brings(t, o)',
           NEW s \in Thread \ {t}
    PROVE  Shape(todo[s])' /\ OperatorInv(s)'
<1> DEFINE q == todo[s]
<1>1. q \in Seq(Steps) /\ Shape(q) /\ OperatorInv(s) /\ todo'[s] = q
  BY DEF CountingInv, CountingType, Elsewhere
<1>2. SUFFICES ASSUME q # <<>> PROVE OperatorInv(s)'
  BY <1>1 DEF OperatorInv, Shape, Inner, Last
<1>3. PICK l : l = Target(s)
  OBVIOUS
<1>4. /\ \A x : Keeps(s, l, x)' <=> Keeps(s, l, x)
      /\ \A h : Safe(s, l, h) => Safe(s, l, h)' /\ ptr'[h] = ptr[h]
  BY <1>3, OthersSafe
<1>5. Safe(s, l, l) /\ Last(q)[1] \in {"own", "set", "bind", "clear"}
  BY <1>1, <1>2, <1>3, Targets DEF Shape
<1>6. ptr'[l] = ptr[l] /\ Last(q)[2] = l /\ Last(todo[s])' = Last(q)
  BY <1>1, <1>3, <1>4, <1>5 DEF Target, Last
<1>7. CASE Last(q)[1] = "set"
  <2>1. PICK r : r = Last(q)[3]
    OBVIOUS
  <2>2. SetInv(s, l, r)
    BY <1>1, <1>2, <1>6, <1>7, <2>1 DEF OperatorInv
  <2>3. SetInv(s, l, r)'
    BY <1>4, <1>6, <2>2 DEF SetInv
  <2>4. QED
    BY <1>6, <1>7, <2>1, <2>3 DEF OperatorInv
<1>8. CASE Last(q)[1] = "bind"
  <2>1. PICK o : o = Last(q)[3]
    OBVIOUS
  <2>2. BindInv(s, l, o)
    BY <1>1, <1>2, <1>6, <1>8, <2>1 DEF OperatorInv
  <2>3. o \in Obj /\ Home[o] # t /\ life[o] = "live" /\ Holders(o) = {} /\ ~Brings(t, o)
    BY <2>2 DEF BindInv
  <2>4. life'[o] = "live" /\ Holders(o)' = {} /\ ~Brings(t, o)'
    BY <2>3
  <2>5. ptr'[o] = Null
    <3>1. ~Writes(todo[t], o)
      <4>1. ASSUME Writes(todo[t], o) PROVE Home[o] = t
        BY <2>3, <4>1, Written, SafeHandle
      <4>2. QED
        BY <2>3, <4>1
    <3>2. QED
      BY <2>2, <3>1 DEF BindInv, WritesOwn, Handle
  <2>6. \A u \in Thread \ {s} : ~Brings(u, o)'
    <3>1. ASSUME NEW u \in Thread \ {s}, u # t PROVE ~Brings(u, o)'
      <4>1. ~Brings(u, o) /\ todo'[u] = todo[u]
        BY <2>2, <3>1 DEF BindInv, Elsewhere
      <4>2. QED
        BY <3>1, <4>1, OthersBring
    <3>2. QED
      BY <2>4, <3>1
  <2>7. BindInv(s, l, o)'
    BY <1>4, <2>2, <2>4, <2>5, <2>6 DEF BindInv
  <2>8. QED
    BY <1>6, <1>8, <2>1, <2>7 DEF OperatorInv
<1>9. CASE Last(q)[1] = "clear"
  BY <1>1, <1>2, <1>6, <1>9 DEF OperatorInv, Own
<1>10. CASE Last(q)[1] = "own"
  <2>1. OwnInv(s, l)
    BY <1>1, <1>2, <1>6, <1>10 DEF OperatorInv
  <2>2. Len(q) = 1 => ptr'[l] # Null /\ \E h \in Handle : h # l /\ Safe(s, l, h)' /\ ptr'[h] = ptr'[l]
    BY <1>4, <1>6, <2>1 DEF OwnInv
  <2>3. Len(q) = 2 /\ q[1][1] = "set" => q[1][3] # l /\ Safe(s, l, q[1][3])' /\ ptr'[q[1][3]] # Null
    <3>1. PICK r : r = q[1][3]
      OBVIOUS
    <3>2. Len(q) = 2 /\ q[1][1] = "set" => r # l /\ Safe(s, l, r)' /\ ptr'[r] # Null
      BY <1>4, <2>1, <3>1 DEF OwnInv
    <3>3. QED
      BY <1>1, <3>1, <3>2 DEF Safe, Keeps, Own
  <2>4. Len(q) = 2 /\ q[1][1] = "put" => Keeps(s, l, q[1][3])'
    BY <1>1, <1>4, <2>1 DEF OwnInv, Keeps, Own
  <2>5. OwnInv(s, l)'
    BY <1>1, <2>1, <2>2, <2>3, <2>4 DEF OwnInv, Own, Safe, Keeps
  <2>6. QED
    BY <1>6, <1>10, <2>5 DEF OperatorInv
<1>11. QED
  BY <1>5, <1>7, <1>8, <1>9, <1>10

\* The frees stay apart when a thread takes on the deletion of a live object only.
LEMMA FreesKept ==
    ASSUME CountingInv, NEW t \in Thread, Elsewhere(t),
           \A o \in Obj : Frees(todo'[t], o) =>
                             life'[o] = "dying" /\ (Frees(todo[t], o) \/ life[o] = "live"),
           \A s \in Thread \ {t}, o \in Obj : Frees(todo[s], o) => life'[o] = "dying"
    PROVE  FreesInv'
<1>1. \A s \in Thread, o \in Obj : Frees(todo[s], o) => life[o] = "dying"
  BY DEF CountingInv, FreesInv
<1>2. \A s, u \in Thread, o \in Obj : Frees(todo[s], o) /\ Frees(todo[u], o) => s = u
  BY DEF CountingInv, FreesInv
<1>3. ASSUME NEW s \in Thread, NEW o \in Obj, Frees(todo'[s], o) PROVE life'[o] = "dying"
  BY <1>3 DEF Elsewhere
<1>4. ASSUME NEW s \in Thread, NEW u \in Thread, NEW o \in Obj,
             Frees(todo'[s], o), Frees(todo'[u], o)
      PROVE  s = u
  <2>1. ASSUME s = t, u # t PROVE FALSE
    <3>1. Frees(todo[u], o)
      BY <1>4, <2>1 DEF Elsewhere
    <3>2. life[o] = "dying"
      BY <1>1, <3>1
    <3>3. Frees(todo[t], o)
      BY <1>4, <2>1, <3>2
    <3>4. QED
      BY <1>2, <2>1, <3>1, <3>3
  <2>2. ASSUME s # t, u = t PROVE FALSE
    <3>1. Frees(todo[s], o)
      BY <1>4, <2>2 DEF Elsewhere
    <3>2. life[o] = "dying"
      BY <1>1, <3>1
    <3>3. Frees(todo[t], o)
      BY <1>4, <2>2, <3>2
    <3>4. QED
      BY <1>2, <2>2, <3>1, <3>3
  <2>3. CASE s # t /\ u # t
    BY <1>2, <1>4, <2>3 DEF Elsewhere
  <2>4. QED
    BY <2>1, <2>2, <2>3
<1>5. QED
  BY <1>3, <1>4 DEF FreesInv, Frees

\* A step that leaves the missing handles of its thread alone leaves all of them alone.
LEMMA MissingSame ==
    ASSUME NEW t \in Thread, Elsewhere(t), \A h : Misses(todo'[t], h) <=> Misses(todo[t], h)
    PROVE  \A h : Missing(h)' <=> Missing(h)
<1>1. \A h : \A s \in Thread : Misses(todo'[s], h) <=> Misses(todo[s], h)
  BY DEF Elsewhere
<1>2. QED
  BY <1>1 DEF Missing, Misses, Writes, Releases

\* Only handle x has changed sides.
LEMMA MissingChanged ==
    ASSUME NEW t \in Thread, Elsewhere(t), NEW x,
           \A s \in Thread \ {t} : ~Writes(todo[s], x),
           \A h : h # x => (Misses(todo'[t], h) <=> Misses(todo[t], h))
    PROVE  /\ \A h : h # x => (Missing(h)' <=> Missing(h))
           /\ Missing(x) <=> Misses(todo[t], x)
           /\ Missing(x)' <=> Misses(todo'[t], x)
<1>1. \A h : h # x => \A s \in Thread : Misses(todo'[s], h) <=> Misses(todo[s], h)
  BY DEF Elsewhere
<1>2. \A s \in Thread \ {t} : ~Misses(todo[s], x) /\ ~Misses(todo'[s], x)
  BY DEF Elsewhere, Misses
<1>3. \A h : Missing(h)' <=> \E s \in Thread : Misses(todo'[s], h)
  BY DEF Missing, Misses, Writes, Releases
<1>4. QED
  BY <1>1, <1>2, <1>3 DEF Missing

-----------------------------------------------------------------------------
\* The steps.

\* The next step of a thread is for a handle that it writes.
LEMMA NextStep ==
    ASSUME CountingInv, NEW t \in Thread, todo[t] # <<>>
    PROVE  /\ todo[t] \in Seq(Steps) /\ Shape(todo[t]) /\ Head(todo[t]) = todo[t][1]
           /\ Len(todo[t]) \in Nat \ {0} /\ OperatorInv(t) /\ 1 \in 1 .. Len(todo[t])
           /\ todo[t][1][2] \in Handle
           /\ todo[t][1][1] \in Writing \cup {"release"} => Writes(todo[t], todo[t][1][2])
           /\ todo[t][1][1] \in Writing => Misses(todo[t], todo[t][1][2])
<1> DEFINE q == todo[t]
<1>1. q \in Seq(Steps) /\ Shape(q) /\ OperatorInv(t) /\ q # <<>>
  BY DEF CountingInv, CountingType
<1>2. Len(q) \in Nat \ {0} /\ 1 \in 1 .. Len(q) /\ Head(q) = q[1]
  BY <1>1
<1> HIDE DEF q
<1>3. q[1][1] \in Writing => Writes(q, q[1][2]) /\ ~Releases(q, q[1][2])
  BY <1>2 DEF Writes, Releases, Writing
<1>4. q[1][1] = "release" => Writes(q, q[1][2])
  BY <1>1, <1>2, Releaser
<1>5. q[1][2] \in Handle
  BY <1>1, <1>2, StepFields
<1>6. QED
  BY <1>1, <1>2, <1>3, <1>4, <1>5 DEF q, Misses

\* A thread between operators writes nothing.
LEMMA EmptyShape ==
    /\ <<>> \in Seq(Steps) /\ Shape(<<>>)
    /\ \A h : ~Writes(<<>>, h) /\ ~Misses(<<>>, h) /\ ~Frees(<<>>, h)
BY DEF Shape, Writes, Misses, Frees

\* What is left of an operator with one step.
LEMMA LastStep ==
    ASSUME NEW q \in Seq(Steps), Shape(q), Len(q) = 1
    PROVE  /\ q # <<>> /\ Tail(q) = <<>> /\ Last(q) = q[1]
           /\ q[1][1] \in {"own", "set", "bind", "clear"}
           /\ \A h : Writes(q, h) <=> h = q[1][2]
           /\ \A h : Misses(q, h) <=> h = q[1][2]
           /\ \A o : ~Frees(q, o)
<1>1. q # <<>> /\ Tail(q) = <<>> /\ Last(q) = q[1] /\ 1 .. Len(q) = {1}
  <2>1. q # <<>> /\ Last(q) = q[1] /\ 1 .. Len(q) = {1}
    BY DEF Last
  <2>2. Tail(q) \in Seq(Steps) /\ Len(Tail(q)) = 0
    OBVIOUS
  <2>3. \A p \in Seq(Steps) : Len(p) = 0 => p = <<>>
    OBVIOUS
  <2>4. QED
    BY <2>1, <2>2, <2>3
<1>2. q[1][1] \in {"own", "set", "bind", "clear"}
  BY <1>1 DEF Shape
<1>3. \A h : ~Releases(q, h)
  BY <1>2 DEF Releases
<1>4. QED
  BY <1>1, <1>2, <1>3 DEF Writes, Misses, Frees, Writing

\* Sets of handles and of threads are finite.
LEMMA Sizes ==
    ASSUME NEW S, S \subseteq Handle \/ S \subseteq Thread
    PROVE  /\ IsFiniteSet(S) /\ Cardinality(S) \in Nat
           /\ \A x : x \notin S => Cardinality(S \cup {x}) = Cardinality(S) + 1
           /\ \A x \in S : Cardinality(S) # 0 /\ Cardinality(S \ {x}) = Cardinality(S) - 1
           /\ Cardinality(S) = 0 => S = {}
<1>1. IsFiniteSet(Handle) /\ IsFiniteSet(Thread)
  BY HandlesAssumption, FS_Union DEF Handle
<1>2. IsFiniteSet(S)
  BY <1>1, FS_Subset
<1>3. Cardinality(S) \in Nat /\ (Cardinality(S) = 0 <=> S = {})
  BY <1>2, FS_CardinalityType, FS_EmptySet
<1>4. \A x : x \notin S => Cardinality(S \cup {x}) = Cardinality(S) + 1
  BY <1>2, FS_AddElement
<1>5. \A x \in S : Cardinality(S \ {x}) = Cardinality(S) - 1
  BY <1>2, FS_RemoveElement
<1>6. QED
  BY <1>2, <1>3, <1>4, <1>5

\* The owners of an object are handles and threads.
LEMMA CountSets ==
    /\ \A o : Holders(o) \subseteq Handle /\ Bringers(o) \subseteq Thread
    /\ \A o : Holders(o)' \subseteq Handle /\ Bringers(o)' \subseteq Thread
BY DEF Holders, Bringers, Handle

\* The new object is counted before the handle refers to it.
LEMMA BringStep ==
    ASSUME CountingInv, NEW t \in Thread, todo[t] # <<>>,
           todo[t][1][1] \in {"acquire", "increment"},
           NEW o \in Obj \cup {Null}, o \in Obj => life[o] = "live",
           o \in Obj => Home[o] = t \/ Holders(o) # {},
           LET last == Last(todo[t]) IN
               \/ last[1] = "set" /\ ptr[last[3]] = o
               \/ last[1] = "bind" /\ last[3] = o,
           Increment(t, o), UNCHANGED <<ptr, weak, life>>
    PROVE  CountingInv' /\ RefKept
<1> DEFINE q == todo[t]
<1>1. /\ q \in Seq(Steps) /\ Shape(q) /\ Len(q) = 2 /\ OperatorInv(t)
      /\ q[1][1] \in {"acquire", "increment"}
  BY NextStep, HeadShape
<1>2. /\ Tail(q) \in Seq(Steps) /\ Len(Tail(q)) = 1 /\ Last(Tail(q)) = Last(q) /\ Shape(Tail(q))
      /\ \A h : Writes(Tail(q), h) <=> Writes(q, h)
      /\ \A h : Frees(Tail(q), h) <=> Frees(q, h)
      /\ \A h : ~Releases(Tail(q), h) /\ ~Releases(q, h)
  <2> HIDE DEF q
  <2>1. /\ Tail(q) \in Seq(Steps) /\ Len(Tail(q)) = Len(q) - 1 /\ Last(Tail(q)) = Last(q)
        /\ Shape(Tail(q)) /\ \A h : ~Releases(Tail(q), h)
        /\ \A h : Writes(q, h) <=> (q[1][1] \in Writing /\ q[1][2] = h) \/ Writes(Tail(q), h)
        /\ \A h : Frees(q, h) <=> (q[1][1] = "free" /\ q[1][2] = h) \/ Frees(Tail(q), h)
    BY <1>1, TailShape
  <2>2. q[1][1] \notin Writing /\ q[1][1] # "release" /\ q[1][1] # "free"
    BY <1>1 DEF Writing
  <2>3. \A h : ~Releases(q, h)
    BY <2>2 DEF Releases
  <2>4. QED
    BY <1>1, <2>1, <2>2, <2>3
<1>3. /\ todo' = [todo EXCEPT ![t] = Tail(q)] /\ ~misuse' /\ UNCHANGED <<ptr, life>>
      /\ count' = [x \in Obj |-> IF x = o THEN count[x] + 1 ELSE count[x]]
  BY HandlesAssumption DEF Increment, Use, CountingInv
<1>4. todo'[t] = Tail(q) /\ Elsewhere(t) /\ WritesOwn(t)
  BY <1>3 DEF Elsewhere, WritesOwn, CountingInv, CountingType
<1>5. CountingType'
  BY <1>2, <1>3 DEF CountingInv, CountingType
<1> HIDE DEF q
<1>6. \A h : Missing(h)' <=> Missing(h)
  <2>1. \A h : Misses(todo'[t], h) <=> Misses(todo[t], h)
    BY <1>2, <1>4 DEF Misses, q
  <2>2. QED
    BY <1>4, <2>1, MissingSame
<1>7. \A x : Holders(x)' = Holders(x)
  BY <1>3, <1>6 DEF Holders, Handle
<1>8. \A x \in Obj : ~Brings(t, x) /\ (Brings(t, x)' <=> x = o)
  <2>1. todo'[t] # <<>> /\ todo'[t][1] = Last(q) /\ Len(todo'[t]) = 1
    BY <1>2, <1>4, LastStep
  <2>2. \A x : Brings(t, x)' <=> \/ Last(q)[1] = "set" /\ ptr[Last(q)[3]] = x
                                 \/ Last(q)[1] = "bind" /\ Last(q)[3] = x
    BY <1>3, <2>1 DEF Brings
  <2>3. \A x : ~Brings(t, x)
    BY <1>1 DEF Brings, q
  <2>4. QED
    BY <2>2, <2>3 DEF q
<1>9. \A x \in Obj : Bringers(x)' = IF x = o THEN Bringers(x) \cup {t} ELSE Bringers(x)
  <2>1. ASSUME NEW x, NEW s \in Thread \ {t} PROVE Brings(s, x)' <=> Brings(s, x)
    BY <1>4, OthersBring DEF Elsewhere
  <2>2. QED
    BY <1>8, <2>1 DEF Bringers
<1>10. FreesInv'
  BY <1>2, <1>3, <1>4, FreesKept DEF CountingInv, FreesInv, q
<1>11. CountInv'
  <2>1. ASSUME NEW x \in Obj
        PROVE  /\ count'[x] = Cardinality(Holders(x)') + Cardinality(Bringers(x)')
               /\ life'[x] # "live" => Holders(x)' = {} /\ Bringers(x)' = {}
               /\ life'[x] = "free" => ptr'[x] = Null
    <3>1. /\ count[x] = Cardinality(Holders(x)) + Cardinality(Bringers(x))
          /\ life[x] # "live" => Holders(x) = {} /\ Bringers(x) = {}
          /\ life[x] = "free" => ptr[x] = Null
      BY DEF CountingInv, CountInv
    <3>2. CASE x = o
      <4>1. t \notin Bringers(x) /\ Bringers(x)' = Bringers(x) \cup {t} /\ count'[x] = count[x] + 1
        BY <1>3, <1>8, <1>9, <3>2 DEF Bringers
      <4>2. Cardinality(Bringers(x)') = Cardinality(Bringers(x)) + 1
        BY <4>1, CountSets, Sizes
      <4>3. Cardinality(Bringers(x)) \in Nat /\ Cardinality(Holders(x)) \in Nat
        BY CountSets, Sizes
      <4>4. QED
        BY <1>3, <1>7, <3>1, <3>2, <4>1, <4>2, <4>3
    <3>3. CASE x # o
      BY <1>3, <1>7, <1>9, <3>1, <3>3
    <3>4. QED
      BY <3>2, <3>3
  <2>2. QED
    BY <2>1 DEF CountInv, Holders, Bringers, Missing, Brings
<1>12. \A s \in Thread \ {t} : Shape(todo[s])' /\ OperatorInv(s)'
  <2>1. \A x \in Obj : Home[x] # t /\ life[x] = "live" /\ Holders(x) = {} /\ ~Brings(t, x)
                             => life'[x] = "live" /\ Holders(x)' = {} /\ ~Brings(t, x)'
    BY <1>3, <1>7, <1>8
  <2>2. QED
    BY <1>4, <2>1, OthersKept
<1>13. OperatorInv(t)'
  <2>1. /\ Last(todo[t])' = Last(q) /\ Len(todo[t])' = 1
    BY <1>2, <1>4
  <2>2. ASSUME NEW l, NEW r, SetInv(t, l, r) PROVE SetInv(t, l, r)'
    BY <1>3, <2>2 DEF SetInv, Safe, Keeps, Own
  <2>3. ASSUME NEW l, NEW x, BindInv(t, l, x) PROVE BindInv(t, l, x)'
    <3>1. \A s \in Thread \ {t} : ~Brings(s, x)'
      BY <1>4, <2>3, OthersBring DEF BindInv, Elsewhere
    <3>2. QED
      BY <1>3, <1>7, <2>3, <3>1 DEF BindInv, Safe, Keeps, Own
  <2>4. Last(q)[1] \in {"set", "bind"}
    BY DEF q
  <2>5. QED
    BY <1>1, <2>1, <2>2, <2>3, <2>4 DEF OperatorInv, q
<1>14. Shape(todo[t])'
  BY <1>2, <1>4 DEF Shape, Inner, Last
<1>15. RefKept
  BY <1>3, <1>6 DEF RefKept, Ref
<1>16. QED
  BY <1>15, <1>3, <1>5, <1>10, <1>11, <1>12, <1>13, <1>14 DEF CountingInv

\* The value that an assignment reads is counted, unless it is none.
LEMMA SetReads ==
    ASSUME CountingInv, NEW t \in Thread, NEW r, SetInv(t, Target(t), r)
    PROVE  /\ Safe(t, Target(t), r) /\ r \in Handle /\ Readable(r) /\ ptr[r] \in Obj \cup {Null}
           /\ ptr[r] \in Obj => life[ptr[r]] = "live" /\ Holders(ptr[r]) # {}
<1> DEFINE l == Target(t)
<1>1. Safe(t, l, r) /\ (r = l /\ ptr[l] # Null => Keeps(t, l, ptr[l]))
  BY DEF SetInv
<1> HIDE DEF l
<1>2. r \in Handle /\ Readable(r) /\ ptr[r] \in Obj \cup {Null}
  BY <1>1, SafeHandle DEF CountingInv, CountingType, l
<1>3. CASE r = l /\ ptr[l] # Null
  BY <1>1, <1>2, <1>3, KeptLive DEF l
<1>4. CASE r # l /\ ptr[r] # Null
  BY <1>1, <1>2, <1>4, SafeCounted DEF l
<1>5. QED
  BY <1>1, <1>2, <1>3, <1>4, HandlesAssumption DEF l

\* operator=(const Ptr<T>&) counts the object of the other pointer.
LEMMA AcquireStep ==
    ASSUME CountingInv, NEW t \in Thread, todo[t] # <<>>, todo[t][1][1] = "acquire",
           IF Readable(todo[t][1][2]) THEN Increment(t, ptr[todo[t][1][2]])
           ELSE Use(FALSE) /\ UNCHANGED <<todo, count>>,
           UNCHANGED <<ptr, weak, life>>
    PROVE  CountingInv' /\ RefKept
<1> DEFINE q == todo[t]
<1>1. Last(q)[1] = "set" /\ q[1][2] = Last(q)[3] /\ OperatorInv(t)
  BY NextStep, HeadShape
<1>2. PICK r : r = q[1][2]
  OBVIOUS
<1>3. SetInv(t, Target(t), r)
  BY <1>1, <1>2 DEF OperatorInv, Target
<1>4. /\ Readable(r) /\ ptr[r] \in Obj \cup {Null}
      /\ ptr[r] \in Obj => life[ptr[r]] = "live" /\ Holders(ptr[r]) # {}
  BY <1>3, SetReads
<1>5. PICK o : o = ptr[r]
  OBVIOUS
<1>6. Increment(t, o)
  BY <1>2, <1>4, <1>5
<1>7. QED
  BY <1>1, <1>2, <1>4, <1>5, <1>6, BringStep

\* operator=(T*) counts the object it is given.
LEMMA IncrementStep ==
    ASSUME CountingInv, NEW t \in Thread, todo[t] # <<>>, todo[t][1][1] = "increment",
           Increment(t, todo[t][1][2]), UNCHANGED <<ptr, weak, life>>
    PROVE  CountingInv' /\ RefKept
<1> DEFINE q == todo[t]
<1>1. Last(q)[1] = "bind" /\ q[1][2] = Last(q)[3] /\ OperatorInv(t)
  BY NextStep, HeadShape
<1>2. PICK o : o = q[1][2]
  OBVIOUS
<1>3. o \in Obj /\ life[o] = "live" /\ Home[o] = t
  BY <1>1, <1>2 DEF OperatorInv, BindInv
<1>4. QED
  BY <1>1, <1>2, <1>3, BringStep

\* A copy counts once it has been made.
LEMMA OwnStep ==
    ASSUME CountingInv, NEW t \in Thread, todo[t] # <<>>, todo[t][1][1] = "own",
           IF Readable(todo[t][1][2]) THEN Increment(t, ptr[todo[t][1][2]])
           ELSE Use(FALSE) /\ UNCHANGED <<todo, count>>,
           UNCHANGED <<ptr, weak, life>>
    PROVE  CountingInv' /\ \E l \in Own(t) : l = Target(t) /\ RefBecomes(l, ptr[l])
<1> DEFINE q == todo[t]
<1>1. q \in Seq(Steps) /\ Shape(q) /\ Len(q) = 1 /\ OperatorInv(t)
  BY NextStep, HeadShape
<1>2. /\ q # <<>> /\ Tail(q) = <<>> /\ Last(q) = q[1]
      /\ \A h : Writes(q, h) <=> h = q[1][2]
      /\ \A h : Misses(q, h) <=> h = q[1][2]
  BY <1>1, LastStep
<1>3. PICK l : l = q[1][2]
  OBVIOUS
<1>4. PICK o : o = ptr[l]
  OBVIOUS
<1>5. /\ l = Target(t) /\ l \in Own(t) /\ o # Null
      /\ \E h \in Handle : h # l /\ Safe(t, l, h) /\ ptr[h] = o
  BY <1>1, <1>2, <1>3, <1>4 DEF OperatorInv, OwnInv, Target
<1>6. PICK h \in Handle : h # l /\ Safe(t, l, h) /\ ptr[h] = o
  BY <1>5
<1>7. o \in Obj /\ life[o] = "live" /\ Holders(o) # {} /\ Readable(l) /\ l \in Handle
  <2>1. o \in Obj /\ life[o] = "live" /\ Holders(o) # {}
    BY <1>5, <1>6, SafeCounted
  <2>2. Readable(l) /\ l \in Handle
    BY <1>5 DEF Own, Readable, Handle
  <2>3. QED
    BY <2>1, <2>2
<1>8. /\ todo' = [todo EXCEPT ![t] = <<>>] /\ ~misuse' /\ UNCHANGED <<ptr, life>>
      /\ count' = [x \in Obj |-> IF x = o THEN count[x] + 1 ELSE count[x]]
  BY <1>2, <1>3, <1>4, <1>7, NextStep DEF Increment, Use, CountingInv
<1>9. todo'[t] = <<>> /\ Elsewhere(t) /\ WritesOwn(t)
  BY <1>8 DEF Elsewhere, WritesOwn, CountingInv, CountingType
<1>10. CountingType'
  BY <1>8, EmptyShape DEF CountingInv, CountingType
<1> HIDE DEF q
<1>11. (\A x : x # l => (Missing(x)' <=> Missing(x))) /\ Missing(l) /\ ~Missing(l)'
  <2>1. \A s \in Thread \ {t} : ~Writes(todo[s], l)
    BY <1>2, <1>3, WritersApart DEF q
  <2>2. \A x : x # l => (Misses(todo'[t], x) <=> Misses(todo[t], x))
    BY <1>2, <1>3, <1>9, EmptyShape DEF q
  <2>3. Misses(todo[t], l) /\ ~Misses(todo'[t], l)
    BY <1>2, <1>3, <1>9, EmptyShape DEF q
  <2>4. QED
    BY <1>9, <2>1, <2>2, <2>3, MissingChanged
<1>12. \A x \in Obj : Holders(x)' = IF x = o THEN Holders(x) \cup {l} ELSE Holders(x)
  BY <1>4, <1>7, <1>8, <1>11 DEF Holders, Handle
<1>13. l \notin Holders(o)
  BY <1>11 DEF Holders
<1>14. \A x : ~Brings(t, x) /\ ~Brings(t, x)'
  <2>1. Len(todo[t])' = 0
    BY <1>9
  <2>2. \A x : ~Brings(t, x)'
    BY <2>1 DEF Brings
  <2>3. \A x : ~Brings(t, x)
    BY DEF Brings
  <2>4. QED
    BY <2>2, <2>3
<1>15. \A x : Bringers(x)' = Bringers(x)
  <2>1. ASSUME NEW x, NEW s \in Thread \ {t} PROVE Brings(s, x)' <=> Brings(s, x)
    BY <1>9, OthersBring DEF Elsewhere
  <2>2. QED
    BY <1>14, <2>1 DEF Bringers
<1>16. FreesInv'
  BY <1>8, <1>9, EmptyShape, FreesKept DEF CountingInv, FreesInv
<1>17. CountInv'
  <2>1. ASSUME NEW x \in Obj
        PROVE  /\ count'[x] = Cardinality(Holders(x)') + Cardinality(Bringers(x)')
               /\ life'[x] # "live" => Holders(x)' = {} /\ Bringers(x)' = {}
               /\ life'[x] = "free" => ptr'[x] = Null
    <3>1. /\ count[x] = Cardinality(Holders(x)) + Cardinality(Bringers(x))
          /\ life[x] # "live" => Holders(x) = {} /\ Bringers(x) = {}
          /\ life[x] = "free" => ptr[x] = Null
      BY DEF CountingInv, CountInv
    <3>2. CASE x = o
      <4>1. Holders(x)' = Holders(x) \cup {l} /\ count'[x] = count[x] + 1
        BY <1>8, <1>12, <3>2
      <4>2. Cardinality(Holders(x)') = Cardinality(Holders(x)) + 1
        BY <1>13, <3>2, <4>1, CountSets, Sizes
      <4>3. Cardinality(Bringers(x)) \in Nat /\ Cardinality(Holders(x)) \in Nat
        BY CountSets, Sizes
      <4>4. QED
        BY <1>7, <1>8, <1>15, <3>1, <3>2, <4>1, <4>2, <4>3
    <3>3. CASE x # o
      BY <1>8, <1>12, <1>15, <3>1, <3>3
    <3>4. QED
      BY <3>2, <3>3
  <2>2. QED
    BY <2>1 DEF CountInv, Holders, Bringers, Missing, Brings
<1>18. \A s \in Thread \ {t} : Shape(todo[s])' /\ OperatorInv(s)'
  <2>1. \A x \in Obj : Home[x] # t /\ life[x] = "live" /\ Holders(x) = {} /\ ~Brings(t, x)
                             => life'[x] = "live" /\ Holders(x)' = {} /\ ~Brings(t, x)'
    BY <1>7, <1>8, <1>12, <1>14
  <2>2. QED
    BY <1>9, <2>1, OthersKept
<1>19. Shape(todo[t])' /\ OperatorInv(t)'
  BY <1>9 DEF Shape, OperatorInv
<1>20. l \in Own(t) /\ l = Target(t) /\ RefBecomes(l, ptr[l])
  BY <1>5, <1>8, <1>11 DEF RefBecomes, Ref
<1>21. QED
  BY <1>20, <1>8, <1>10, <1>16, <1>17, <1>18, <1>19 DEF CountingInv

\* The handle refers to the object that was counted for it.
LEMMA PlaceStep ==
    ASSUME CountingInv, NEW t \in Thread, Len(todo[t]) = 1, todo[t][1][1] \in {"set", "bind"},
           NEW o \in Obj \cup {Null},
           \/ todo[t][1][1] = "set" /\ ptr[todo[t][1][3]] = o
           \/ todo[t][1][1] = "bind" /\ todo[t][1][3] = o,
           Put(t, todo[t][1][2], o), UNCHANGED <<weak, count, life>>, ~misuse'
    PROVE  CountingInv' /\ \E l \in Handle : l = todo[t][1][2] /\ RefBecomes(l, o)
<1> DEFINE q == todo[t]
<1>1. q \in Seq(Steps) /\ Shape(q) /\ Len(q) = 1
  BY DEF CountingInv, CountingType
<1>2. /\ q # <<>> /\ Tail(q) = <<>> /\ Last(q) = q[1]
      /\ \A h : Writes(q, h) <=> h = q[1][2]
      /\ \A h : Misses(q, h) <=> h = q[1][2]
  BY <1>1, LastStep
<1>3. PICK l : l = q[1][2]
  OBVIOUS
<1>4. l \in Handle
  BY <1>2, <1>3, NextStep
<1>5. /\ todo' = [todo EXCEPT ![t] = <<>>] /\ ptr' = [ptr EXCEPT ![l] = o]
      /\ ~misuse' /\ UNCHANGED <<count, life>>
  BY <1>2, <1>3 DEF Put, CountingInv
<1>6. /\ todo'[t] = <<>> /\ Elsewhere(t) /\ WritesOwn(t) /\ ptr'[l] = o
      /\ \A h \in Handle : h # l => ptr'[h] = ptr[h]
  BY <1>2, <1>3, <1>4, <1>5 DEF Elsewhere, WritesOwn, CountingInv, CountingType
<1>7. CountingType'
  BY <1>4, <1>5, EmptyShape DEF CountingInv, CountingType
<1> HIDE DEF q
<1>8. (\A x : x # l => (Missing(x)' <=> Missing(x))) /\ Missing(l) /\ ~Missing(l)'
  <2>1. \A s \in Thread \ {t} : ~Writes(todo[s], l)
    BY <1>2, <1>3, WritersApart DEF q
  <2>2. \A x : x # l => (Misses(todo'[t], x) <=> Misses(todo[t], x))
    BY <1>2, <1>3, <1>6, EmptyShape DEF q
  <2>3. Misses(todo[t], l) /\ ~Misses(todo'[t], l)
    BY <1>2, <1>3, <1>6, EmptyShape DEF q
  <2>4. QED
    BY <1>6, <2>1, <2>2, <2>3, MissingChanged
<1>9. l \notin Holders(o) /\ \A x \in Obj : Holders(x)' = IF x = o THEN Holders(x) \cup {l} ELSE Holders(x)
  BY <1>4, <1>6, <1>8 DEF Holders, Handle
<1>10. \A x \in Obj : (Brings(t, x) <=> x = o) /\ ~Brings(t, x)'
  <2>1. Len(todo[t])' = 0
    BY <1>6
  <2>2. \A x : ~Brings(t, x)'
    BY <2>1 DEF Brings
  <2>3. \A x : Brings(t, x) <=> x = o
    BY <1>1 DEF Brings, q
  <2>4. QED
    BY <2>2, <2>3
<1>11. \A x \in Obj : Bringers(x)' = IF x = o THEN Bringers(x) \ {t} ELSE Bringers(x)
  <2>1. ASSUME NEW x, NEW s \in Thread \ {t} PROVE Brings(s, x)' <=> Brings(s, x)
    BY <1>6, OthersBring DEF Elsewhere
  <2>2. QED
    BY <1>10, <2>1 DEF Bringers
<1>12. FreesInv'
  BY <1>5, <1>6, EmptyShape, FreesKept DEF CountingInv, FreesInv
<1>13. CountInv'
  <2>1. ASSUME NEW x \in Obj
        PROVE  /\ count'[x] = Cardinality(Holders(x)') + Cardinality(Bringers(x)')
               /\ life'[x] # "live" => Holders(x)' = {} /\ Bringers(x)' = {}
               /\ life'[x] = "free" => ptr'[x] = Null
    <3>1. /\ count[x] = Cardinality(Holders(x)) + Cardinality(Bringers(x))
          /\ life[x] # "live" => Holders(x) = {} /\ Bringers(x) = {}
          /\ life[x] = "free" => ptr[x] = Null
      BY DEF CountingInv, CountInv
    <3>2. life'[x] = "free" => ptr'[x] = Null
      <4>1. ASSUME life[x] = "free" PROVE x # l
        BY <1>2, <1>3, <1>4, <4>1, Targets, SafeHandle DEF Target, q
      <4>2. QED
        BY <1>5, <1>6, <3>1, <4>1 DEF Handle
    <3>3. CASE x = o
      <4>1. t \in Bringers(x) /\ Bringers(x)' = Bringers(x) \ {t} /\ Holders(x)' = Holders(x) \cup {l}
        BY <1>9, <1>10, <1>11, <3>3 DEF Bringers
      <4>2. life'[x] = "live"
        BY <1>5, <3>1, <4>1
      <4>3. Cardinality(Holders(x)') = Cardinality(Holders(x)) + 1
        BY <1>9, <3>3, <4>1, CountSets, Sizes
      <4>4. Cardinality(Bringers(x)') = Cardinality(Bringers(x)) - 1
        BY <4>1, CountSets, Sizes
      <4>5. Cardinality(Bringers(x)) \in Nat /\ Cardinality(Holders(x)) \in Nat
        BY CountSets, Sizes
      <4>6. count'[x] = Cardinality(Holders(x)') + Cardinality(Bringers(x)')
        BY <1>5, <3>1, <4>3, <4>4, <4>5
      <4>7. QED
        BY <4>2, <4>6
    <3>4. CASE x # o
      BY <1>5, <1>9, <1>11, <3>1, <3>2, <3>4
    <3>5. QED
      BY <3>3, <3>4
  <2>2. QED
    BY <2>1 DEF CountInv, Holders, Bringers, Missing, Brings
<1>14. \A s \in Thread \ {t} : Shape(todo[s])' /\ OperatorInv(s)'
  <2>1. \A x \in Obj : Home[x] # t /\ life[x] = "live" /\ Holders(x) = {} /\ ~Brings(t, x)
                             => life'[x] = "live" /\ Holders(x)' = {} /\ ~Brings(t, x)'
    BY <1>5, <1>9, <1>10
  <2>2. QED
    BY <1>6, <2>1, OthersKept
<1>15. Shape(todo[t])' /\ OperatorInv(t)'
  BY <1>6 DEF Shape, OperatorInv
<1>16. l \in Handle /\ l = todo[t][1][2] /\ RefBecomes(l, o)
  BY <1>3, <1>4, <1>6, <1>8 DEF RefBecomes, Ref, q
<1>17. QED
  BY <1>16, <1>5, <1>7, <1>12, <1>13, <1>14, <1>15 DEF CountingInv

\* A handle that does not count is written: the counts are the same.
LEMMA UncountedWrite ==
    ASSUME CountingInv, NEW t \in Thread, Elsewhere(t), NEW l \in Handle, NEW o \in Obj \cup {Null},
           Misses(todo[t], l), o # Null => Misses(todo'[t], l),
           \A h : h # l => (Misses(todo'[t], h) <=> Misses(todo[t], h)),
           \A x : ~Brings(t, x) /\ ~Brings(t, x)',
           ptr' = [ptr EXCEPT ![l] = o], UNCHANGED count,
           \A x \in Obj : \/ life'[x] = life[x]
                          \/ x = l /\ o = Null /\ life[x] # "live" /\ life'[x] # "live",
           o # Null /\ l \in Obj => life[l] # "free",
           FreesInv', CountingType', ~misuse', Shape(todo[t])',
           (\A x \in Obj : Holders(x)' = Holders(x)) => OperatorInv(t)'
    PROVE  CountingInv' /\ RefKept
<1>1. ptr'[l] = o /\ \A h \in Handle : h # l => ptr'[h] = ptr[h]
  BY DEF CountingInv, CountingType
<1>2. WritesOwn(t) /\ Writes(todo[t], l)
  BY <1>1 DEF WritesOwn, Misses
<1>3. /\ \A h : h # l => (Missing(h)' <=> Missing(h))
      /\ Missing(l) /\ (o # Null => Missing(l)')
  <2>1. \A s \in Thread \ {t} : ~Writes(todo[s], l)
    BY <1>2, WritersApart
  <2>2. QED
    BY <2>1, MissingChanged
<1>4. \A x \in Obj : Holders(x)' = Holders(x)
  BY <1>1, <1>3, HandlesAssumption DEF Holders, Handle
<1>5. \A x : Bringers(x)' = Bringers(x)
  <2>1. ASSUME NEW x, NEW s \in Thread \ {t} PROVE Brings(s, x)' <=> Brings(s, x)
    BY <1>2, OthersBring DEF Elsewhere
  <2>2. QED
    BY <2>1 DEF Bringers
<1>6. CountInv'
  <2>1. ASSUME NEW x \in Obj
        PROVE  /\ count'[x] = Cardinality(Holders(x)') + Cardinality(Bringers(x)')
               /\ life'[x] # "live" => Holders(x)' = {} /\ Bringers(x)' = {}
               /\ life'[x] = "free" => ptr'[x] = Null
    <3>1. /\ count[x] = Cardinality(Holders(x)) + Cardinality(Bringers(x))
          /\ life[x] # "live" => Holders(x) = {} /\ Bringers(x) = {}
          /\ life[x] = "free" => ptr[x] = Null
      BY DEF CountingInv, CountInv
    <3>2. life'[x] = "free" => ptr'[x] = Null
      BY <1>1, <3>1 DEF Handle
    <3>3. QED
      BY <1>4, <1>5, <3>1, <3>2
  <2>2. QED
    BY <2>1 DEF CountInv, Holders, Bringers, Missing, Brings
<1>7. \A s \in Thread \ {t} : Shape(todo[s])' /\ OperatorInv(s)'
  <2>1. \A x \in Obj : Home[x] # t /\ life[x] = "live" /\ Holders(x) = {} /\ ~Brings(t, x)
                             => life'[x] = "live" /\ Holders(x)' = {} /\ ~Brings(t, x)'
    BY <1>4
  <2>2. QED
    BY <1>2, <2>1, OthersKept
<1>8. RefKept
  BY <1>1, <1>3 DEF RefKept, Ref
<1>9. QED
  BY <1>8, <1>4, <1>6, <1>7 DEF CountingInv

\* A copy or a lock assigns the raw pointer before it counts.
LEMMA CopyStep ==
    ASSUME CountingInv, NEW t \in Thread, Len(todo[t]) = 2, todo[t][1][1] \in {"set", "put"},
           Last(todo[t])[1] = "own", todo[t][1][2] = Last(todo[t])[2],
           NEW o,
           \/ todo[t][1][1] = "set" /\ ptr[todo[t][1][3]] = o
           \/ todo[t][1][1] = "put" /\ todo[t][1][3] = o,
           Put(t, todo[t][1][2], o), UNCHANGED <<weak, count, life>>, ~misuse'
    PROVE  CountingInv' /\ RefKept
<1> DEFINE q == todo[t]
           l == q[1][2]
<1>1. q \in Seq(Steps) /\ Shape(q) /\ OperatorInv(t) /\ q # <<>> /\ q[1][1] \in Writing
  <2>1. q \in Seq(Steps) /\ Shape(q) /\ OperatorInv(t) /\ q[1][1] \in Writing
    BY DEF CountingInv, CountingType, Writing
  <2>2. Len(q) = 2 /\ Len(<<>>) = 0
    OBVIOUS
  <2>3. QED
    BY <2>1, <2>2
<1>2. /\ l \in Handle /\ l = Target(t) /\ OwnInv(t, l)
  BY <1>1, NextStep DEF OperatorInv, Target
<1>3. \E h \in Handle : h # l /\ Safe(t, l, h) /\ Safe(t, Target(t), h) /\ ptr[h] = o /\ o # Null
  <2>1. CASE q[1][1] = "set"
    <3>1. q[1][3] # l /\ Safe(t, l, q[1][3]) /\ ptr[q[1][3]] # Null
      BY <1>2, <2>1 DEF OwnInv
    <3>2. q[1][3] \in Handle
      BY <1>2, <3>1, SafeHandle
    <3>3. QED
      BY <1>2, <2>1, <3>1, <3>2
  <2>2. CASE q[1][1] = "put"
    <3>1. Keeps(t, l, q[1][3])
      BY <1>2, <2>2 DEF OwnInv
    <3>2. PICK v \in Own(t) \ {l} : ptr[v] = o /\ o \in Obj
      BY <2>2, <3>1 DEF Keeps
    <3>3. QED
      BY <1>2, <3>2, HandlesAssumption DEF Safe, Own, Handle
  <2>3. QED
    BY <2>1, <2>2
<1>4. PICK h \in Handle : h # l /\ Safe(t, l, h) /\ ptr[h] = o /\ o # Null
  BY <1>3
<1>5. o \in Obj
  BY <1>4 DEF CountingInv, CountingType
<1>6. /\ Tail(q) \in Seq(Steps) /\ Len(Tail(q)) = 1 /\ Last(Tail(q)) = Last(q) /\ Shape(Tail(q))
      /\ \A x : Writes(q, x) <=> l = x \/ Writes(Tail(q), x)
      /\ \A x : Frees(q, x) <=> Frees(Tail(q), x)
  <2> HIDE DEF q
  <2>1. /\ Tail(q) \in Seq(Steps) /\ Len(Tail(q)) = Len(q) - 1 /\ Last(Tail(q)) = Last(q)
        /\ Shape(Tail(q))
        /\ \A x : Writes(q, x) <=> (q[1][1] \in Writing /\ q[1][2] = x) \/ Writes(Tail(q), x)
        /\ \A x : Frees(q, x) <=> (q[1][1] = "free" /\ q[1][2] = x) \/ Frees(Tail(q), x)
    <3>1. Len(q) >= 2
      BY DEF q
    <3>2. QED
      BY <1>1, <3>1, TailShape
  <2>2. Len(q) = 2 /\ q[1][1] # "free"
    BY <1>1 DEF q
  <2>3. QED
    BY <1>1, <2>1, <2>2
<1>7. /\ todo' = [todo EXCEPT ![t] = Tail(q)] /\ ptr' = [ptr EXCEPT ![l] = o]
      /\ ~misuse' /\ UNCHANGED <<count, life>>
  BY DEF Put, CountingInv
<1>8. /\ todo'[t] = Tail(q) /\ Elsewhere(t) /\ ptr'[l] = o
      /\ \A x \in Handle : x # l => ptr'[x] = ptr[x]
  BY <1>2, <1>7 DEF Elsewhere, CountingInv, CountingType
<1>9. CountingType'
  BY <1>2, <1>5, <1>6, <1>7 DEF CountingInv, CountingType
<1>10. PICK k : k = l
  OBVIOUS
<1> HIDE DEF q, l
<1>11. (\A x : Misses(todo'[t], x) <=> x = k) /\ \A x : Misses(todo[t], x) <=> x = k
  <2>1. Tail(q)[1] = Last(q) /\ Tail(q) # <<>>
    BY <1>6, LastStep
  <2>7. Tail(q)[1][2] = k
    BY <1>10, <2>1 DEF q, l
  <2>2. \A x : Misses(Tail(q), x) <=> x = k
    BY <1>6, <2>7, LastStep
  <2>3. \A x : Writes(Tail(q), x) <=> x = k
    BY <1>6, <2>7, LastStep
  <2>4. \A x : ~Releases(q, x)
    BY DEF Releases, q
  <2>5. \A x : Misses(q, x) <=> x = k
    BY <1>6, <1>10, <2>3, <2>4 DEF Misses
  <2>6. QED
    BY <1>8, <2>2, <2>5 DEF q
<1>12. \A x : ~Brings(t, x) /\ ~Brings(t, x)'
  <2>1. todo'[t][1] = Last(q)
    BY <1>6, <1>8, LastStep
  <2>2. \A x : ~Brings(t, x)'
    BY <2>1 DEF Brings, q
  <2>3. \A x : ~Brings(t, x)
    BY DEF Brings
  <2>4. QED
    BY <2>2, <2>3
<1>13. FreesInv'
  BY <1>6, <1>7, <1>8, FreesKept DEF CountingInv, FreesInv, q
<1>14. Shape(todo[t])'
  BY <1>6, <1>8 DEF Shape, Inner, Last
<1>15. OperatorInv(t)'
  <2>1. /\ Last(todo[t])' = Last(q) /\ Len(todo[t])' = 1 /\ Last(q)[1] = "own" /\ Last(q)[2] = k
    BY <1>6, <1>8, <1>10 DEF q, l
  <2>2. k \in Own(t)' /\ ptr'[k] = ptr'[h] /\ ptr'[k] # Null /\ h # k
    BY <1>2, <1>4, <1>8, <1>10 DEF OwnInv, Own
  <2>3. Safe(t, k, h)'
    <3>1. \A v \in Own(t) \ {k} : ptr'[v] = ptr[v]
      BY <1>8, <1>10 DEF Own, Handle
    <3>2. QED
      BY <1>4, <1>10, <3>1 DEF Safe, Keeps, Own
  <2>4. OwnInv(t, k)'
    BY <2>1, <2>2, <2>3 DEF OwnInv
  <2>5. QED
    BY <2>1, <2>4 DEF OperatorInv
<1>16. QED
  <2>1. k \in Obj => life[k] # "free"
    BY <1>2, <1>10, HandlesAssumption DEF OwnInv, Own
  <2>2. ptr' = [ptr EXCEPT ![k] = o] /\ k \in Handle /\ o \in Obj \cup {Null} /\ ~misuse'
    BY <1>2, <1>5, <1>7, <1>10
  <2>3. /\ Misses(todo[t], k) /\ Misses(todo'[t], k)
        /\ \A x : x # k => (Misses(todo'[t], x) <=> Misses(todo[t], x))
    BY <1>11
  <2>4. \A x \in Obj : life'[x] = life[x]
    BY <1>7
  <2>5. UNCHANGED count
    BY <1>7
  <2>6. QED
    BY <1>8, <1>9, <1>12, <1>13, <1>14, <1>15, <2>1, <2>2, <2>3, <2>4, <2>5, UncountedWrite

\* A pointer that is destroyed has released its object.
LEMMA ClearStep ==
    ASSUME CountingInv, NEW t \in Thread, todo[t] # <<>>, todo[t][1][1] = "clear",
           Put(t, todo[t][1][2], Null), UNCHANGED <<weak, count, life, misuse>>
    PROVE  CountingInv' /\ RefKept
<1> DEFINE q == todo[t]
<1>1. q \in Seq(Steps) /\ Shape(q) /\ Len(q) = 1 /\ q[1][2] \in Handle
  BY NextStep, HeadShape
<1>2. PICK l : l = q[1][2]
  OBVIOUS
<1>3. Tail(q) = <<>> /\ \A h : Misses(q, h) <=> h = l
  BY <1>1, <1>2, LastStep
<1>4. /\ todo' = [todo EXCEPT ![t] = <<>>] /\ ptr' = [ptr EXCEPT ![l] = Null]
      /\ ~misuse' /\ UNCHANGED <<count, life>>
  BY <1>2, <1>3 DEF Put, CountingInv
<1>5. todo'[t] = <<>> /\ Elsewhere(t)
  BY <1>4 DEF Elsewhere, CountingInv, CountingType
<1>6. CountingType'
  BY <1>1, <1>2, <1>4, EmptyShape DEF CountingInv, CountingType
<1>7. FreesInv'
  BY <1>4, <1>5, EmptyShape, FreesKept DEF CountingInv, FreesInv
<1>8. \A x : ~Brings(t, x) /\ ~Brings(t, x)'
  <2>1. Len(todo[t])' = 0
    BY <1>5
  <2>2. \A x : ~Brings(t, x)'
    BY <2>1 DEF Brings
  <2>3. \A x : ~Brings(t, x)
    BY DEF Brings
  <2>4. QED
    BY <2>2, <2>3
<1>9. Shape(todo[t])' /\ OperatorInv(t)'
  BY <1>5 DEF Shape, OperatorInv
<1>10. \A h : h # l => (Misses(todo'[t], h) <=> Misses(todo[t], h))
  BY <1>3, <1>5, EmptyShape
<1>11. Misses(todo[t], l) /\ l \in Handle
  BY <1>1, <1>2, <1>3
<1>12. QED
  BY <1>4, <1>5, <1>6, <1>7, <1>8, <1>9, <1>10, <1>11, UncountedWrite

\* The memory of an object is free once its members are destroyed.
LEMMA FreeStep ==
    ASSUME CountingInv, NEW t \in Thread, todo[t] # <<>>, todo[t][1][1] = "free",
           Put(t, todo[t][1][2], Null), life' = [life EXCEPT ![todo[t][1][2]] = "free"],
           UNCHANGED <<weak, count, misuse>>
    PROVE  CountingInv' /\ RefKept
<1> DEFINE q == todo[t]
<1>1. /\ q \in Seq(Steps) /\ Shape(q) /\ Len(q) >= 2 /\ OperatorInv(t) /\ q[1][2] \in Obj
      /\ 1 \in 1 .. Len(q) /\ Len(q) \in Nat /\ Last(q)[1] # "own" /\ Writes(q, q[1][2])
  BY NextStep, HeadShape DEF Writing
<1>2. PICK o \in Obj : o = q[1][2]
  BY <1>1
<1>3. Frees(q, o) /\ life[o] = "dying" /\ o \in Handle
  BY <1>1, <1>2 DEF Frees, CountingInv, FreesInv, Handle
<1>4. /\ todo' = [todo EXCEPT ![t] = Tail(q)] /\ ptr' = [ptr EXCEPT ![o] = Null]
      /\ life' = [life EXCEPT ![o] = "free"] /\ ~misuse' /\ UNCHANGED count
  BY <1>2, NextStep DEF Put, CountingInv
<1>5. q[1][1] = "free"
  OBVIOUS
<1> HIDE DEF q
<1>6. /\ Tail(q) \in Seq(Steps) /\ Len(Tail(q)) = Len(q) - 1 /\ Last(Tail(q)) = Last(q)
      /\ \A i \in 1 .. Len(q) - 1 : Tail(q)[i] = q[i + 1]
      /\ Shape(Tail(q)) /\ \A h : ~Releases(Tail(q), h)
      /\ \A h : Writes(q, h) <=> h = o \/ Writes(Tail(q), h)
      /\ \A x : Frees(q, x) <=> x = o \/ Frees(Tail(q), x)
  BY <1>1, <1>2, <1>5, TailShape DEF Writing
<1>7. ~Frees(Tail(q), o)
  <2>1. ASSUME Frees(Tail(q), o) PROVE FALSE
    <3>1. PICK i \in 1 .. Len(Tail(q)) : Tail(q)[i][1] = "free" /\ Tail(q)[i][2] = o
      BY <2>1 DEF Frees
    <3>2. i + 1 \in 1 .. Len(q) /\ q[i + 1][1] = "free" /\ q[i + 1][2] = o /\ i + 1 # 1
      BY <1>1, <1>6, <3>1
    <3>3. q # <<>>
      BY DEF q
    <3>4. QED
      BY <1>1, <1>2, <1>5, <3>2, <3>3 DEF Shape
  <2>2. QED
    BY <2>1
<1>8. /\ todo'[t] = Tail(q) /\ Elsewhere(t)
      /\ life'[o] = "free" /\ \A x \in Obj : x # o => life'[x] = life[x]
      /\ ptr'[o] = Null /\ \A h \in Handle : h # o => ptr'[h] = ptr[h]
  BY <1>3, <1>4 DEF Elsewhere, CountingInv, CountingType
<1>9. CountingType'
  BY <1>3, <1>4, <1>6 DEF CountingInv, CountingType
<1>10. FreesInv'
  <2>1. \A x \in Obj : Frees(todo'[t], x) =>
                          life'[x] = "dying" /\ (Frees(todo[t], x) \/ life[x] = "live")
    BY <1>6, <1>7, <1>8 DEF CountingInv, FreesInv, q
  <2>2. \A s \in Thread \ {t}, x \in Obj : Frees(todo[s], x) => life'[x] = "dying"
    BY <1>3, <1>8 DEF CountingInv, FreesInv, q
  <2>3. QED
    BY <1>8, <2>1, <2>2, FreesKept
<1>11. \A x : ~Brings(t, x) /\ ~Brings(t, x)'
  <2>1. \A x : ~Brings(t, x)
    BY <1>1 DEF Brings, q
  <2>2. ASSUME Len(Tail(q)) = 1 PROVE Tail(q)[1][1] \notin {"set", "bind"}
    <3>4. Tail(q)[1] = Last(Tail(q))
      BY <1>6, <2>2, LastStep
    <3>5. q # <<>> /\ Len(q) = 2 /\ Len(q) - 1 = 1
      BY <1>1, <1>6, <2>2 DEF q
    <3>1. Tail(q)[1] = Last(q) /\ Len(q) = 2 /\ q # <<>> /\ Len(q) - 1 = 1
      BY <1>6, <3>4, <3>5
    <3>2. q[1][1] \notin {"acquire", "increment"}
      BY <1>5
    <3>3. QED
      BY <1>1, <3>1, <3>2 DEF Shape
  <2>3. QED
    BY <1>8, <2>1, <2>2 DEF Brings
<1>12. Shape(todo[t])'
  <2>1. Shape(todo'[t])
    BY <1>6, <1>8
  <2>2. QED
    BY <2>1, Zenon DEF Shape, Inner, Last
<1>13. ASSUME \A x \in Obj : Holders(x)' = Holders(x)
       PROVE  OperatorInv(t)'
  <2>1. WritesOwn(t)
    BY <1>1, <1>2, <1>8 DEF WritesOwn, q
  <2>2. /\ Last(todo[t])' = Last(q) /\ Last(q)[1] \in {"set", "bind", "clear"} /\ q # <<>>
    BY <1>1, <1>6, <1>8 DEF Shape, q
  <2>3. ASSUME NEW v \in Var PROVE ptr'[v] = ptr[v]
    BY <1>8, HandlesAssumption DEF Handle
  <2>4. \A l, h : Safe(t, l, h) => Safe(t, l, h)'
    BY <2>3 DEF Safe, Keeps, Own
  <2>5. \A l, x : Keeps(t, l, x) => Keeps(t, l, x)'
    BY <2>3 DEF Keeps, Own
  <2>6. ASSUME NEW l, NEW r, SetInv(t, l, r) PROVE SetInv(t, l, r)'
    <3>1. l \in Handle
      BY <2>6 DEF SetInv, Safe, Own, Handle
    <3>2. Safe(t, l, l)' /\ Safe(t, l, r)'
      BY <2>4, <2>6 DEF SetInv
    <3>3. ASSUME r = l, ptr'[l] # Null PROVE Keeps(t, l, ptr[l])'
      <4>1. ptr'[l] = ptr[l] /\ Keeps(t, l, ptr[l])
        BY <1>8, <2>6, <3>1, <3>3 DEF SetInv
      <4>2. QED
        BY <2>3, <4>1 DEF Keeps, Own
    <3>4. QED
      BY <3>2, <3>3 DEF SetInv
  <2>7. ASSUME NEW l, NEW x, BindInv(t, l, x) PROVE BindInv(t, l, x)'
    <3>1. x \in Obj /\ x # o /\ x \in Handle
      BY <1>3, <2>7 DEF BindInv, Handle
    <3>2. \A s \in Thread \ {t} : ~Brings(s, x)'
      BY <1>8, <2>1, <2>7, OthersBring DEF BindInv, Elsewhere
    <3>3. life'[x] = "live" /\ ptr'[x] = Null /\ Holders(x)' = {}
      BY <1>8, <1>13, <2>7, <3>1 DEF BindInv
    <3>4. Safe(t, l, l)' /\ x \in Obj /\ Home[x] = t
      BY <2>4, <2>7 DEF BindInv
    <3>5. QED
      BY <3>2, <3>3, <3>4 DEF BindInv
  <2>8. PICK l, r : l = Last(q)[2] /\ r = Last(q)[3]
    OBVIOUS
  <2>9. /\ Last(q)[1] = "set" => SetInv(t, l, r)
        /\ Last(q)[1] = "bind" => BindInv(t, l, r)
        /\ Last(q)[1] = "clear" => l \in Own(t)
    BY <1>1, <2>2, <2>8 DEF OperatorInv, q
  <2>10. /\ Last(q)[1] = "set" => SetInv(t, l, r)'
         /\ Last(q)[1] = "bind" => BindInv(t, l, r)'
    BY <2>6, <2>7, <2>9
  <2>11. QED
    BY <2>2, <2>8, <2>9, <2>10 DEF OperatorInv, Own
<1>14. /\ Misses(todo[t], o)
       /\ \A h : h # o => (Misses(todo'[t], h) <=> Misses(todo[t], h))
  <2>1. \A h : ~Releases(q, h)
    BY <1>5 DEF Releases
  <2>2. QED
    BY <1>6, <1>8, <2>1 DEF Misses, q
<1>15. \A x \in Obj : life'[x] = life[x] \/ (x = o /\ life[x] # "live" /\ life'[x] # "live")
  BY <1>3, <1>8
<1>16. Elsewhere(t) /\ UNCHANGED count /\ ~misuse' /\ ptr' = [ptr EXCEPT ![o] = Null]
  BY <1>4, <1>8
<1>17. PICK none : none = Null
  OBVIOUS
<1>18. /\ none \in Obj \cup {Null} /\ ptr' = [ptr EXCEPT ![o] = none]
       /\ none # Null => Misses(todo'[t], o)
       /\ none # Null /\ o \in Obj => life[o] # "free"
  BY <1>16, <1>17
<1>19. \A x \in Obj : \/ life'[x] = life[x]
                      \/ x = o /\ none = Null /\ life[x] # "live" /\ life'[x] # "live"
  BY <1>15, <1>17
<1>20. o \in Handle /\ Misses(todo[t], o) /\ Elsewhere(t) /\ UNCHANGED count /\ ~misuse'
  BY <1>3, <1>14, <1>16
<1>21. QED
  BY <1>9, <1>10, <1>11, <1>12, <1>13, <1>14, <1>18, <1>19, <1>20, UncountedWrite

\* An object with one handle left that is released is in no other operator.
LEMMA LastHolder ==
    ASSUME CountingInv, NEW t \in Thread, NEW h, Writes(todo[t], h), NEW o \in Obj,
           h \in Holders(o), count[o] = 1
    PROVE  /\ Holders(o) = {h} /\ Bringers(o) = {} /\ life[o] = "live"
           /\ \A s \in Thread : ~Writes(todo[s], o)
<1>1. /\ count[o] = Cardinality(Holders(o)) + Cardinality(Bringers(o))
      /\ life[o] = "live"
  BY DEF CountingInv, CountInv
<1>2. /\ Cardinality(Bringers(o)) \in Nat /\ Cardinality(Holders(o)) \in Nat
      /\ Cardinality(Holders(o)) # 0
      /\ Cardinality(Holders(o) \ {h}) = Cardinality(Holders(o)) - 1
      /\ Cardinality(Bringers(o)) = 0 => Bringers(o) = {}
  BY CountSets, Sizes
<1>3. Cardinality(Holders(o)) = 1 /\ Cardinality(Bringers(o)) = 0
  BY <1>1, <1>2
<1>4. Cardinality(Holders(o) \ {h}) = 0
  BY <1>2, <1>3
<1>5. Holders(o) \ {h} \subseteq Handle
  BY CountSets
<1>6. Holders(o) \ {h} = {}
  BY <1>4, <1>5, Sizes
<1>7. Holders(o) = {h} /\ Bringers(o) = {}
  BY <1>2, <1>3, <1>6
<1>8. ASSUME NEW s \in Thread, Writes(todo[s], o) PROVE FALSE
  <2>1. o = Target(s) /\ Safe(s, o, o)
    BY <1>1, <1>8, Written
  <2>2. Keeps(s, o, o)
    BY <2>1, HandlesAssumption DEF Safe, Own
  <2>3. PICK v \in Own(s) : v \in Holders(o)
    BY <2>1, <2>2, KeptLive
  <2>4. v = h /\ v \in Var /\ Owner[v] = s /\ v # o
    BY <1>7, <2>3, HandlesAssumption DEF Own
  <2>5. Owner[v] = t /\ v = Target(t)
    BY <2>4, VariableWritten
  <2>6. QED
    BY <2>1, <2>4, <2>5
<1>9. QED
  BY <1>1, <1>7, <1>8

\* A handle lets its object go, which is deleted when it was the last one.
LEMMA LetGo ==
    ASSUME CountingInv, NEW t \in Thread, todo[t] # <<>>, todo[t][1][1] = "release",
           NEW h, h = todo[t][1][2], NEW o \in Obj \cup {Null}, ptr[h] = o,
           NEW p, todo' = [todo EXCEPT ![t] = p],
           \/ p = Tail(todo[t]) /\ UNCHANGED life
           \/ /\ p = DeleteSteps(o) \o Tail(todo[t]) /\ o \in Obj /\ count[o] = 1
              /\ life' = [life EXCEPT ![o] = "dying"],
           count' = [x \in Obj |-> IF x = o THEN count[x] - 1 ELSE count[x]],
           UNCHANGED <<ptr, weak>>, ~misuse'
    PROVE  CountingInv' /\ RefBecomes(h, Null)
<1> DEFINE q == todo[t]
<1>1. /\ q \in Seq(Steps) /\ Shape(q) /\ Len(q) >= 2 /\ Len(q) \in Nat /\ OperatorInv(t)
      /\ h \in Handle /\ Last(q)[1] # "own" /\ Writes(q, h) /\ q[1] = <<"release", h>>
  BY NextStep, HeadShape
<1>2. \A s \in Thread \ {t} : ~Writes(todo[s], h)
  BY <1>1, WritersApart
<1>3. Releases(q, h) /\ ~Misses(q, h) /\ \A x : x # h => ~Releases(q, x)
  BY <1>1 DEF Releases, Misses
<1>4. o \in Obj => h \in Holders(o) /\ life[o] = "live" /\ count[o] # 0 /\ count[o] \in Nat
  <2>1. SUFFICES ASSUME o \in Obj PROVE h \in Holders(o) /\ life[o] = "live" /\ count[o] # 0
    BY DEF CountingInv, CountingType
  <2>2. \A s \in Thread : ~Misses(todo[s], h)
    BY <1>2, <1>3 DEF Misses
  <2>3. h \in Holders(o) /\ life[o] = "live"
    BY <1>1, <2>1, <2>2, Counted
  <2>4. count[o] = Cardinality(Holders(o)) + Cardinality(Bringers(o))
    BY <2>1 DEF CountingInv, CountInv
  <2>5. Cardinality(Bringers(o)) \in Nat /\ Cardinality(Holders(o)) \in Nat \ {0}
    BY <2>3, CountSets, Sizes
  <2>6. QED
    BY <2>3, <2>4, <2>5
<1> DEFINE drops == p = DeleteSteps(o) \o Tail(q) /\ o \in Obj /\ count[o] = 1
<1>5. drops => /\ Holders(o) = {h} /\ Bringers(o) = {}
               /\ \A s \in Thread : ~Writes(todo[s], o)
  BY <1>1, <1>4, LastHolder
<1> HIDE DEF q
<1>6. /\ Tail(q) \in Seq(Steps) /\ Len(Tail(q)) = Len(q) - 1 /\ Last(Tail(q)) = Last(q)
      /\ Shape(Tail(q)) /\ \A x : ~Releases(Tail(q), x)
      /\ \A x : Writes(q, x) <=> Writes(Tail(q), x)
      /\ \A x : Frees(q, x) <=> Frees(Tail(q), x)
  BY <1>1, TailShape DEF Writing
<1>7. ~(Len(Tail(q)) = 1 /\ Tail(q)[1][1] \in {"set", "bind"})
  <2>1. SUFFICES ASSUME Len(Tail(q)) = 1, Tail(q)[1][1] \in {"set", "bind"} PROVE FALSE
    OBVIOUS
  <2>2. Tail(q)[1] = Last(Tail(q))
    BY <1>6, <2>1, LastStep
  <2>3. q # <<>> /\ Len(q) = 2 /\ Len(q) - 1 = 1 /\ q[1][1] = "release"
    BY <1>1, <1>6, <2>1 DEF q
  <2>4. Last(q)[1] \in {"set", "bind"}
    BY <1>6, <2>1, <2>2
  <2>5. QED
    BY <1>1, <2>3, <2>4 DEF Shape
<1>8. /\ p \in Seq(Steps) /\ Last(p) = Last(q) /\ Shape(p) /\ p # <<>>
      /\ ~(Len(p) = 1 /\ p[1][1] \in {"set", "bind"})
      /\ \A x : Misses(p, x) <=> Writes(q, x)
      /\ \A x : Frees(p, x) <=> Frees(q, x) \/ (drops /\ x = o)
  <2>1. CASE p = Tail(q) /\ ~drops
    <3>1. \A x : Misses(p, x) <=> Writes(q, x)
      BY <1>6, <2>1 DEF Misses
    <3>2. Len(Tail(q)) # 0 /\ Len(<<>>) = 0
      BY <1>1, <1>6
    <3>3. QED
      BY <1>6, <1>7, <2>1, <3>1, <3>2
  <2>2. CASE drops
    <3>1. /\ p \in Seq(Steps) /\ Len(p) > 2 /\ Last(p) = Last(q) /\ Shape(p)
          /\ \A x : Misses(p, x) <=> Writes(q, x)
          /\ \A x : Frees(p, x) <=> Frees(q, x) \/ x = o
      <4>1. q # <<>> /\ q[1][1] = "release" /\ o \in Obj /\ ~Writes(q, o)
        BY <1>5, <2>2 DEF q
      <4>2. QED
        BY <1>1, <2>2, <4>1, DeleteShape
    <3>2. Len(p) # 0 /\ Len(p) # 1 /\ Len(<<>>) = 0
      BY <3>1
    <3>3. QED
      BY <2>2, <3>1, <3>2
  <2>3. QED
    <3>1. p = Tail(q) \/ drops
      BY DEF q
    <3>2. QED
      BY <2>1, <2>2, <3>1
<1>9. /\ todo'[t] = p /\ Elsewhere(t) /\ WritesOwn(t) /\ ~misuse' /\ UNCHANGED ptr
      /\ \A x \in Obj : count'[x] = IF x = o THEN count[x] - 1 ELSE count[x]
      /\ \A x \in Obj : life'[x] = life[x] \/ (drops /\ x = o /\ life'[x] = "dying")
      /\ drops => life'[o] = "dying"
  <2>1. drops => life'[o] = "dying"
    <3>1. p = Tail(q) => Len(p) = Len(q) - 1
      BY <1>6
    <3>2. drops => p # Tail(q)
      <4>1. Len(DeleteSteps(o)) = 2 /\ (o \in Obj => DeleteSteps(o) \in Seq(Steps))
        BY DEF DeleteSteps, Steps, Handle
      <4>2. o \in Obj => Len(DeleteSteps(o) \o Tail(q)) # Len(Tail(q))
        <5>1. o \in Obj => Len(DeleteSteps(o) \o Tail(q)) = Len(Tail(q)) + 2 /\ Len(Tail(q)) \in Nat
          BY <1>6, <4>1, Prepended
        <5>2. QED
          BY <5>1
      <4>3. QED
        BY <4>2
    <3>3. QED
      BY <3>2 DEF CountingInv, CountingType, q
  <2>2. \A x \in Obj : life'[x] = life[x] \/ (drops /\ x = o /\ life'[x] = "dying")
    BY DEF CountingInv, CountingType, q
  <2>3. QED
    BY <2>1, <2>2 DEF CountingInv, CountingType, Elsewhere, WritesOwn
<1>10. CountingType'
  <2>1. life' \in [Obj -> {"free", "live", "dying"}]
    BY DEF CountingInv, CountingType
  <2>2. count' \in [Obj -> Nat]
    BY <1>4 DEF CountingInv, CountingType
  <2>3. todo' \in [Thread -> Seq(Steps)]
    BY <1>8 DEF CountingInv, CountingType
  <2>4. QED
    BY <1>9, <2>1, <2>2, <2>3 DEF CountingInv, CountingType
<1> HIDE DEF drops
<1>11. (\A x : x # h => (Missing(x)' <=> Missing(x))) /\ ~Missing(h) /\ Missing(h)'
  <2>1. \A x : x # h => (Misses(todo'[t], x) <=> Misses(todo[t], x))
    BY <1>3, <1>8, <1>9 DEF Misses, q
  <2>2. ~Misses(todo[t], h) /\ Misses(todo'[t], h)
    BY <1>1, <1>3, <1>8, <1>9 DEF q
  <2>3. \A s \in Thread \ {t} : ~Writes(todo[s], h)
    BY <1>2
  <2>4. Elsewhere(t)
    BY <1>9
  <2>5. /\ \A x : x # h => (Missing(x)' <=> Missing(x))
        /\ Missing(h) <=> Misses(todo[t], h)
        /\ Missing(h)' <=> Misses(todo'[t], h)
    BY <2>1, <2>3, <2>4, MissingChanged
  <2>6. QED
    BY <2>2, <2>5
<1>12. \A x \in Obj : Holders(x)' = IF x = o THEN Holders(x) \ {h} ELSE Holders(x)
  BY <1>9, <1>11, HandlesAssumption DEF Holders, Handle
<1>13. \A x : ~Brings(t, x) /\ ~Brings(t, x)'
  <2>1. \A x : ~Brings(t, x)
    BY <1>1 DEF Brings, q
  <2>2. \A x : ~Brings(t, x)'
    BY <1>8, <1>9 DEF Brings
  <2>3. QED
    BY <2>1, <2>2
<1>14. \A x : Bringers(x)' = Bringers(x)
  <2>1. ASSUME NEW x, NEW s \in Thread \ {t} PROVE Brings(s, x)' <=> Brings(s, x)
    BY <1>9, OthersBring DEF Elsewhere
  <2>2. QED
    BY <1>13, <2>1 DEF Bringers
<1>15. FreesInv'
  <2>1. \A x \in Obj : Frees(todo'[t], x) =>
                          life'[x] = "dying" /\ (Frees(todo[t], x) \/ life[x] = "live")
    BY <1>4, <1>8, <1>9 DEF CountingInv, FreesInv, q, drops
  <2>2. \A s \in Thread \ {t}, x \in Obj : Frees(todo[s], x) => life'[x] = "dying"
    BY <1>9 DEF CountingInv, FreesInv
  <2>3. QED
    BY <1>9, <2>1, <2>2, FreesKept
<1>16. CountInv'
  <2>1. ASSUME NEW x \in Obj
        PROVE  /\ count'[x] = Cardinality(Holders(x)') + Cardinality(Bringers(x)')
               /\ life'[x] # "live" => Holders(x)' = {} /\ Bringers(x)' = {}
               /\ life'[x] = "free" => ptr'[x] = Null
    <3>1. /\ count[x] = Cardinality(Holders(x)) + Cardinality(Bringers(x))
          /\ life[x] # "live" => Holders(x) = {} /\ Bringers(x) = {}
          /\ life[x] = "free" => ptr[x] = Null
      BY DEF CountingInv, CountInv
    <3>2. CASE x = o
      <4>1. h \in Holders(x) /\ Holders(x)' = Holders(x) \ {h} /\ count'[x] = count[x] - 1
        BY <1>4, <1>9, <1>12, <3>2
      <4>2. Cardinality(Holders(x)') = Cardinality(Holders(x)) - 1
        BY <4>1, CountSets, Sizes
      <4>3. Cardinality(Bringers(x)) \in Nat /\ Cardinality(Holders(x)) \in Nat
        BY CountSets, Sizes
      <4>4. count'[x] = Cardinality(Holders(x)') + Cardinality(Bringers(x)')
        BY <1>14, <3>1, <4>1, <4>2, <4>3
      <4>5. life'[x] # "live" => Holders(x)' = {} /\ Bringers(x)' = {}
        BY <1>4, <1>5, <1>9, <1>14, <3>2, <4>1
      <4>6. life'[x] = "free" => ptr'[x] = Null
        BY <1>4, <1>9, <3>2
      <4>7. QED
        BY <4>4, <4>5, <4>6
    <3>3. CASE x # o
      BY <1>9, <1>12, <1>14, <3>1, <3>3
    <3>4. QED
      BY <3>2, <3>3
  <2>2. QED
    BY <2>1 DEF CountInv, Holders, Bringers, Missing, Brings
<1>17. \A x \in Obj : life[x] = "live" /\ Holders(x) = {} => life'[x] = "live" /\ Holders(x)' = {}
  BY <1>4, <1>9, <1>12
<1>18. \A s \in Thread \ {t} : Shape(todo[s])' /\ OperatorInv(s)'
  BY <1>9, <1>13, <1>17, OthersKept
<1>19. Shape(todo[t])'
  <2>1. Shape(p) /\ todo'[t] = p
    BY <1>8, <1>9
  <2>2. Shape(todo'[t])
    BY <2>1
  <2>3. QED
    BY <2>2, Zenon DEF Shape, Inner, Last
<1>20. OperatorInv(t)'
  <2>1. Last(todo[t])' = Last(q) /\ q # <<>> /\ Last(q)[1] # "own"
    BY <1>1, <1>8, <1>9 DEF q
  <2>2. ASSUME NEW l, NEW r, SetInv(t, l, r) PROVE SetInv(t, l, r)'
    BY <1>9, <2>2 DEF SetInv, Safe, Keeps, Own
  <2>3. ASSUME NEW l, NEW x, BindInv(t, l, x) PROVE BindInv(t, l, x)'
    <3>1. \A s \in Thread \ {t} : ~Brings(s, x)'
      BY <1>9, <2>3, OthersBring DEF BindInv, Elsewhere
    <3>2. life'[x] = "live" /\ Holders(x)' = {}
      BY <1>17, <2>3 DEF BindInv
    <3>3. Safe(t, l, l)' /\ x \in Obj /\ Home[x] = t /\ ptr'[x] = Null
      BY <1>9, <2>3 DEF BindInv, Safe, Keeps, Own
    <3>4. QED
      BY <3>1, <3>2, <3>3 DEF BindInv
  <2>4. PICK l, r : l = Last(q)[2] /\ r = Last(q)[3]
    OBVIOUS
  <2>5. /\ Last(q)[1] = "set" => SetInv(t, l, r)
        /\ Last(q)[1] = "bind" => BindInv(t, l, r)
        /\ Last(q)[1] = "clear" => l \in Own(t)
    BY <1>1, <2>1, <2>4 DEF OperatorInv, q
  <2>6. /\ Last(q)[1] = "set" => SetInv(t, l, r)'
        /\ Last(q)[1] = "bind" => BindInv(t, l, r)'
    BY <2>2, <2>3, <2>5
  <2>7. QED
    BY <2>1, <2>4, <2>5, <2>6 DEF OperatorInv, Own
<1>21. RefBecomes(h, Null)
  BY <1>9, <1>11 DEF RefBecomes, Ref
<1>22. QED
  BY <1>21, <1>9, <1>10, <1>15, <1>16, <1>18, <1>19, <1>20 DEF CountingInv

\* A release leaves its handle empty, whether it is the last of the object or not.
LEMMA ReleaseStep ==
    ASSUME CountingInv, NEW t \in Thread, todo[t] # <<>>, todo[t][1][1] = "release",
           Release(t, todo[t][1][2]), UNCHANGED <<ptr, weak>>
    PROVE  CountingInv' /\ \E h \in Handle : h = todo[t][1][2] /\ RefBecomes(h, Null)
<1> DEFINE q == todo[t]
<1>1. /\ q \in Seq(Steps) /\ Shape(q) /\ q[1][2] \in Handle /\ Writes(q, q[1][2])
      /\ q[1] = <<"release", q[1][2]>> /\ Len(q) >= 2
  BY NextStep, HeadShape
<1>2. PICK h \in Handle : h = q[1][2]
  BY <1>1
<1>3. PICK o : o = ptr[h]
  OBVIOUS
<1>4. o \in Obj \cup {Null}
  BY <1>2, <1>3 DEF CountingInv, CountingType
<1>5. Readable(h)
  <2>1. CASE h \in Obj /\ life[h] = "dying"
    BY <2>1 DEF Readable
  <2>2. CASE h = Target(t) /\ Safe(t, h, h)
    BY <2>2, SafeHandle
  <2>3. QED
    BY <1>1, <1>2, <2>1, <2>2, Written
<1>6. o # Null => life[o] = "live"
  <2>1. \A s \in Thread : ~Misses(todo[s], h)
    <3>1. ~Misses(q, h)
      BY <1>1, <1>2 DEF Misses, Releases
    <3>2. \A s \in Thread \ {t} : ~Writes(todo[s], h)
      BY <1>1, <1>2, WritersApart
    <3>3. QED
      BY <3>1, <3>2 DEF Misses
  <2>2. QED
    BY <1>3, <1>4, <2>1, Counted
<1>7. Release(t, h)
  BY <1>2
<1>8. ~misuse'
  BY <1>3, <1>5, <1>6, <1>7 DEF Release, Use, CountingInv
<1>9. CASE o = Null
  <2>1. todo' = [todo EXCEPT ![t] = Tail(q)] /\ UNCHANGED <<count, life>>
    BY <1>3, <1>7, <1>9 DEF Release
  <2>2. count' = [x \in Obj |-> IF x = o THEN count[x] - 1 ELSE count[x]]
    BY <1>9, <2>1, HandlesAssumption DEF CountingInv, CountingType
  <2>3. QED
    <3>1. PICK p : p = Tail(q)
      OBVIOUS
    <3>2. todo' = [todo EXCEPT ![t] = p]
      BY <2>1, <3>1
    <3>4. UNCHANGED life
      BY <2>1
    <3>3. QED
      BY <1>2, <1>3, <1>4, <1>8, <2>2, <3>1, <3>2, <3>4, LetGo
<1>10. CASE o # Null
  <2>1. /\ count' = [count EXCEPT ![o] = @ - 1]
        /\ life' = [life EXCEPT ![o] = IF DropsToZero(o) THEN "dying" ELSE @]
        /\ todo' = [todo EXCEPT ![t] = (IF DropsToZero(o) THEN DeleteSteps(o) ELSE <<>>) \o Tail(@)]
    BY <1>3, <1>5, <1>6, <1>7, <1>10 DEF Release
  <2>2. count' = [x \in Obj |-> IF x = o THEN count[x] - 1 ELSE count[x]]
    BY <2>1 DEF CountingInv, CountingType
  <2>3. CASE count[o] = 1
    <3>1. PICK p : p = DeleteSteps(o) \o Tail(q)
      OBVIOUS
    <3>2. todo' = [todo EXCEPT ![t] = p] /\ life' = [life EXCEPT ![o] = "dying"]
      BY <2>1, <2>3, <3>1 DEF DropsToZero
    <3>3. o \in Obj
      BY <1>4, <1>10
    <3>4. QED
      BY <1>2, <1>3, <1>4, <1>8, <2>2, <2>3, <3>1, <3>2, <3>3, LetGo
  <2>4. CASE count[o] # 1
    <3>1. PICK p : p = Tail(q)
      OBVIOUS
    <3>2. <<>> \o Tail(q) = Tail(q)
      <4>1. Tail(q) \in Seq(Steps)
        BY <1>1, TailShape
      <4>2. QED
        BY <4>1, ConcatEmptySeq
    <3>3. todo' = [todo EXCEPT ![t] = p] /\ life' = life
      BY <2>1, <2>4, <3>1, <3>2 DEF DropsToZero, CountingInv, CountingType
    <3>4. QED
      BY <1>2, <1>3, <1>4, <1>8, <2>2, <3>1, <3>3, LetGo
  <2>5. QED
    BY <2>3, <2>4
<1>11. QED
  BY <1>9, <1>10

\* A variable, or the field of an object that a variable refers to.
Named(h) == h \in Var \/ (h \in Obj /\ \E v \in Var : Ref(v) = h)

\* What a step does to what the handles refer to.
RefStep(t) ==
    LET q == todo[t] IN
    \/ RefKept /\ ~(Len(q) = 1 /\ q[1][1] = "bind")
    \/ q[1][1] = "release" /\ \E h \in Handle : Writes(q, h) /\ RefBecomes(h, Null)
    \/ /\ Len(q) = 1 /\ q[1][1] \in {"own", "set"}
       /\ \E l, r \in Handle : Named(l) /\ Named(r) /\ RefBecomes(l, Ref(r))
    \/ /\ Len(q) = 1 /\ q[1][1] = "bind"
       /\ \E l \in Handle, o \in Obj :
             Named(l) /\ o = q[1][3] /\ BindInv(t, l, o) /\ RefBecomes(l, o)

\* A handle that counts refers to its object.
LEMMA CountedRef ==
    ASSUME CountingInv, NEW o \in Obj, NEW h \in Holders(o)
    PROVE  h \in Handle /\ Ref(h) = o /\ ptr[h] = o
BY DEF Holders, Ref

\* A thread uses handles that the program can name.
LEMMA SafeNamed ==
    ASSUME CountingInv, NEW t \in Thread, NEW l, todo[t] = <<>> \/ l = Target(t),
           NEW h, Safe(t, l, h)
    PROVE  Named(h)
<1>1. CASE h \in Own(t)
  BY <1>1 DEF Own, Named
<1>2. CASE h \in Obj /\ Keeps(t, l, h)
  <2>1. PICK v \in Own(t) : v \in Holders(h)
    BY <1>2, KeptLive
  <2>2. QED
    BY <1>2, <2>1, CountedRef DEF Own, Named
<1>3. QED
  BY <1>1, <1>2 DEF Safe

\* What an assignment reads is what some handle of the thread refers to, or nothing.
LEMMA SetNamed ==
    ASSUME CountingInv, NEW t \in Thread, NEW r, SetInv(t, Target(t), r), ptr[r] # Null
    PROVE  \E h \in Handle : Named(h) /\ Ref(h) = ptr[r]
<1>1. CASE r = Target(t)
  <2>1. Keeps(t, Target(t), ptr[r])
    BY <1>1 DEF SetInv
  <2>2. PICK v \in Own(t) : v \in Holders(ptr[r]) /\ ptr[r] \in Obj
    BY <2>1, KeptLive
  <2>3. QED
    BY <2>2, CountedRef DEF Own, Named
<1>2. CASE r # Target(t)
  <2>1. Safe(t, Target(t), r)
    BY DEF SetInv
  <2>2. ptr[r] \in Obj /\ r \in Holders(ptr[r])
    BY <1>2, <2>1, SafeCounted
  <2>3. QED
    BY <2>1, <2>2, CountedRef, SafeNamed
<1>3. QED
  BY <1>1, <1>2

\* No step of an operator breaks the invariant.
LEMMA StepCounts ==
    ASSUME CountingInv, NEW t \in Thread, Step(t)
    PROVE  CountingInv' /\ RefStep(t)
<1> DEFINE q == todo[t]
<1>1. /\ q \in Seq(Steps) /\ Shape(q) /\ q # <<>> /\ Head(q) = q[1] /\ OperatorInv(t) /\ ~misuse
      /\ Writes(q, Target(t)) /\ Safe(t, Target(t), Target(t))
  BY NextStep, Targets DEF Step
<1>2. CASE q[1][1] = "release" /\ Release(t, q[1][2]) /\ UNCHANGED <<ptr, weak>>
  <2>1. CountingInv' /\ \E h \in Handle : h = q[1][2] /\ RefBecomes(h, Null)
    BY <1>1, <1>2, ReleaseStep
  <2>2. Writes(q, q[1][2])
    BY <1>1, <1>2, NextStep
  <2>3. QED
    BY <1>2, <2>1, <2>2 DEF RefStep
<1>3. CASE /\ q[1][1] \in {"acquire", "own"}
           /\ IF Readable(q[1][2]) THEN Increment(t, ptr[q[1][2]])
              ELSE Use(FALSE) /\ UNCHANGED <<todo, count>>
           /\ UNCHANGED <<ptr, weak, life>>
  <2>1. CASE q[1][1] = "acquire"
    BY <1>1, <1>3, <2>1, AcquireStep DEF RefStep
  <2>2. CASE q[1][1] = "own"
    <3>1. Len(q) = 1 /\ Last(q) = q[1]
      BY <1>1, <2>2, HeadShape, LastStep
    <3>2. CountingInv'
      BY <1>1, <1>3, <2>2, OwnStep
    <3>3. PICK l \in Own(t) : l = Target(t) /\ RefBecomes(l, ptr[l])
      BY <1>1, <1>3, <2>2, OwnStep
    <3>4. OwnInv(t, l)
      BY <1>1, <2>2, <3>1, <3>3 DEF OperatorInv, Target
    <3>5. PICK h \in Handle : h # l /\ Safe(t, l, h) /\ ptr[h] = ptr[l] /\ ptr[l] # Null
      BY <3>1, <3>4 DEF OwnInv
    <3>6. Named(h) /\ Named(l) /\ Ref(h) = ptr[l]
      BY <1>1, <3>3, <3>5, SafeNamed, SafeCounted, CountedRef
    <3>7. l \in Handle
      BY DEF Own, Handle
    <3>8. RefBecomes(l, Ref(h))
      BY <3>3, <3>6
    <3>9. \E x, r \in Handle : Named(x) /\ Named(r) /\ RefBecomes(x, Ref(r))
      BY <3>6, <3>7, <3>8
    <3>10. QED
      BY <2>2, <3>1, <3>2, <3>9 DEF RefStep
  <2>3. QED
    BY <1>3, <2>1, <2>2
<1>4. CASE q[1][1] = "increment" /\ Increment(t, q[1][2]) /\ UNCHANGED <<ptr, weak, life>>
  BY <1>1, <1>4, IncrementStep DEF RefStep
<1>5. CASE /\ q[1][1] = "set" /\ Put(t, q[1][2], ptr[q[1][3]])
           /\ Use(Readable(q[1][2]) /\ Readable(q[1][3])) /\ UNCHANGED <<weak, count, life>>
  <2>1. PICK r : r = q[1][3]
    OBVIOUS
  <2>2. PICK o : o = ptr[r]
    OBVIOUS
  <2>3. PICK l : l = q[1][2]
    OBVIOUS
  <2>4. Put(t, q[1][2], o)
    BY <1>5, <2>1, <2>2
  <2>5. CASE Len(q) = 1
    <3>1. Last(q) = q[1] /\ SetInv(t, Target(t), r) /\ l = Target(t)
      BY <1>1, <1>5, <2>1, <2>3, <2>5, LastStep DEF OperatorInv, Target
    <3>2. Readable(r) /\ o \in Obj \cup {Null} /\ Readable(l)
      BY <1>1, <2>2, <3>1, SetReads, SafeHandle
    <3>3. ~misuse'
      BY <1>5, <2>1, <2>3, <3>2 DEF Use, CountingInv
    <3>4. CountingInv' /\ \E x \in Handle : x = l /\ RefBecomes(x, o)
      BY <1>5, <2>1, <2>2, <2>3, <2>4, <2>5, <3>2, <3>3, PlaceStep
    <3>5. l \in Handle /\ RefBecomes(l, o) /\ Named(l)
      BY <1>1, <3>1, <3>4, SafeNamed
    <3>6. CASE o = Null
      <4>1. Ref(l) = Null
        <5>1. Misses(q, l) /\ Missing(l)
          BY <1>1, <1>5, <2>3, <2>5, LastStep DEF Missing
        <5>2. QED
          BY <5>1 DEF Ref
      <4>2. RefKept
        BY <3>5, <3>6, <4>1 DEF RefKept, RefBecomes
      <4>3. QED
        BY <1>5, <3>4, <4>2 DEF RefStep
    <3>7. CASE o # Null
      <4>1. PICK h \in Handle : Named(h) /\ Ref(h) = o
        BY <2>2, <3>1, <3>7, SetNamed
      <4>2. RefBecomes(l, Ref(h))
        BY <3>5, <4>1
      <4>3. \E x, y \in Handle : Named(x) /\ Named(y) /\ RefBecomes(x, Ref(y))
        BY <3>5, <4>1, <4>2
      <4>4. QED
        BY <1>5, <2>5, <3>4, <4>3 DEF RefStep
    <3>8. QED
      BY <3>6, <3>7
  <2>6. CASE Len(q) = 2 /\ Last(q)[1] = "own" /\ q[1][2] = Last(q)[2]
    <3>1. OwnInv(t, l) /\ l = Target(t)
      BY <1>1, <2>3, <2>6 DEF OperatorInv, Target
    <3>2. Safe(t, l, r)
      BY <1>5, <2>1, <2>6, <3>1 DEF OwnInv
    <3>3. Readable(l) /\ Readable(r)
      BY <1>1, <3>1, <3>2, SafeHandle
    <3>4. ~misuse'
      BY <1>5, <2>1, <2>3, <3>3 DEF Use, CountingInv
    <3>5. CountingInv' /\ RefKept
      BY <1>5, <2>1, <2>2, <2>4, <2>6, <3>4, CopyStep
    <3>6. QED
      BY <2>6, <3>5 DEF RefStep
  <2>7. QED
    BY <1>1, <1>5, <2>5, <2>6, HeadShape
<1>6. CASE /\ q[1][1] = "put" /\ Put(t, q[1][2], q[1][3])
           /\ Use(Readable(q[1][2])) /\ UNCHANGED <<weak, count, life>>
  <2>1. PICK o : o = q[1][3]
    OBVIOUS
  <2>2. Len(q) = 2 /\ Last(q)[1] = "own" /\ q[1][2] = Last(q)[2]
    BY <1>1, <1>6, HeadShape
  <2>3. Readable(q[1][2])
    BY <1>1, <2>2, SafeHandle DEF Target
  <2>4. ~misuse'
    BY <1>6, <2>3 DEF Use, CountingInv
  <2>5. Put(t, q[1][2], o)
    BY <1>6, <2>1
  <2>6. CountingInv' /\ RefKept
    BY <1>6, <2>1, <2>2, <2>4, <2>5, CopyStep
  <2>7. QED
    BY <2>2, <2>6 DEF RefStep
<1>7. CASE /\ q[1][1] = "bind" /\ Put(t, q[1][2], q[1][3])
           /\ Use(Readable(q[1][2])) /\ UNCHANGED <<weak, count, life>>
  <2>1. PICK o : o = q[1][3]
    OBVIOUS
  <2>2. Len(q) = 1 /\ Last(q) = q[1]
    BY <1>1, <1>7, HeadShape, LastStep
  <2>3. BindInv(t, q[1][2], o) /\ Readable(q[1][2])
    BY <1>1, <1>7, <2>1, <2>2, SafeHandle DEF OperatorInv, Target
  <2>4. ~misuse' /\ o \in Obj
    BY <1>7, <2>3 DEF Use, BindInv, CountingInv
  <2>5. Put(t, q[1][2], o)
    BY <1>7, <2>1
  <2>6. CountingInv'
    BY <1>7, <2>1, <2>2, <2>4, <2>5, PlaceStep
  <2>7. PICK l \in Handle : l = q[1][2] /\ RefBecomes(l, o)
    BY <1>7, <2>1, <2>2, <2>4, <2>5, PlaceStep
  <2>8. Named(l) /\ BindInv(t, l, o)
    BY <1>1, <2>2, <2>3, <2>7, SafeNamed DEF Target
  <2>9. QED
    BY <1>7, <2>1, <2>2, <2>4, <2>6, <2>7, <2>8 DEF RefStep
<1>8. CASE q[1][1] = "clear" /\ Put(t, q[1][2], Null) /\ UNCHANGED <<weak, count, life, misuse>>
  BY <1>1, <1>8, ClearStep DEF RefStep
<1>9. CASE /\ q[1][1] = "free" /\ Put(t, q[1][2], Null)
           /\ life' = [life EXCEPT ![q[1][2]] = "free"] /\ UNCHANGED <<weak, count, misuse>>
  BY <1>1, <1>9, FreeStep DEF RefStep
<1>10. QED
  BY <1>1, <1>2, <1>3, <1>4, <1>5, <1>6, <1>7, <1>8, <1>9 DEF Step

-----------------------------------------------------------------------------
\* The program.

\* Thread t begins an operator; o is the new object of p = make(...).
LEMMA BeginCounts ==
    ASSUME CountingInv, NEW t \in Thread, todo[t] = <<>>,
           NEW q \in Seq(Steps), Shape(q), todo' = [todo EXCEPT ![t] = q],
           \A x : ~Frees(q, x),
           \A x : Misses(q, x) => ptr[x] = Null,
           Len(q) = 1 => q[1][1] \notin {"set", "bind"},
           NEW fresh, life' = [x \in Obj |-> IF x \in fresh THEN "live" ELSE life[x]],
           \A x \in fresh : x \in Obj /\ life[x] = "free",
           UNCHANGED <<ptr, count, misuse>>,
           (\A x \in Obj : Holders(x)' = Holders(x) /\ Bringers(x)' = Bringers(x)) => OperatorInv(t)'
    PROVE  CountingInv' /\ RefKept
<1>1. /\ todo'[t] = q /\ Elsewhere(t) /\ WritesOwn(t) /\ ~misuse'
      /\ \A x \in Obj : life'[x] = life[x] \/ (life[x] = "free" /\ life'[x] = "live")
  BY DEF Elsewhere, WritesOwn, CountingInv, CountingType
<1>2. CountingType'
  BY DEF CountingInv, CountingType
<1>3. \A h : Missing(h)' <=> Missing(h) \/ Misses(q, h)
  <2>1. \A h : ~Misses(todo[t], h)
    BY EmptyShape
  <2>2. \A h : Missing(h)' <=> \E s \in Thread : Misses(todo'[s], h)
    BY DEF Missing, Misses, Writes, Releases
  <2>3. QED
    BY <1>1, <2>1, <2>2 DEF Missing, Elsewhere
<1>4. \A x \in Obj : Holders(x)' = Holders(x)
  BY <1>3, HandlesAssumption DEF Holders, Handle
<1>5. \A x : ~Brings(t, x) /\ ~Brings(t, x)'
  <2>1. Len(todo[t]) # 1
    OBVIOUS
  <2>2. \A x : ~Brings(t, x)
    BY <2>1 DEF Brings
  <2>3. \A x : ~Brings(t, x)'
    BY <1>1 DEF Brings
  <2>4. QED
    BY <2>2, <2>3
<1>6. \A x : Bringers(x)' = Bringers(x)
  <2>1. ASSUME NEW x, NEW s \in Thread \ {t} PROVE Brings(s, x)' <=> Brings(s, x)
    BY <1>1, OthersBring DEF Elsewhere
  <2>2. QED
    BY <1>5, <2>1 DEF Bringers
<1>7. FreesInv'
  <2>1. \A s \in Thread \ {t}, x \in Obj : Frees(todo[s], x) => life'[x] = "dying"
    BY <1>1 DEF CountingInv, FreesInv
  <2>2. QED
    BY <1>1, <2>1, FreesKept
<1>8. CountInv'
  <2>1. ASSUME NEW x \in Obj
        PROVE  /\ count'[x] = Cardinality(Holders(x)') + Cardinality(Bringers(x)')
               /\ life'[x] # "live" => Holders(x)' = {} /\ Bringers(x)' = {}
               /\ life'[x] = "free" => ptr'[x] = Null
    <3>1. /\ count[x] = Cardinality(Holders(x)) + Cardinality(Bringers(x))
          /\ life[x] # "live" => Holders(x) = {} /\ Bringers(x) = {}
          /\ life[x] = "free" => ptr[x] = Null
      BY DEF CountingInv, CountInv
    <3>2. QED
      BY <1>1, <1>4, <1>6, <3>1
  <2>2. QED
    BY <2>1 DEF CountInv, Holders, Bringers, Missing, Brings
<1>9. \A s \in Thread \ {t} : Shape(todo[s])' /\ OperatorInv(s)'
  BY <1>1, <1>4, <1>5, OthersKept
<1>10. Shape(todo[t])'
  <2>1. Shape(todo'[t])
    BY <1>1
  <2>2. QED
    BY <2>1, Zenon DEF Shape, Inner, Last
<1>11. RefKept
  BY <1>3 DEF RefKept, Ref
<1>12. QED
  BY <1>11, <1>1, <1>2, <1>4, <1>6, <1>7, <1>8, <1>9, <1>10 DEF CountingInv

\* Operators that do not make an object.
LEMMA BeginOld ==
    ASSUME CountingInv, NEW t \in Thread, NEW q \in Seq(Steps), Shape(q), Begin(t, q),
           \A x : ~Frees(q, x),
           \A x : Misses(q, x) => ptr[x] = Null,
           Len(q) = 1 => q[1][1] \notin {"set", "bind"},
           UNCHANGED <<ptr, count, life>>,
           (\A x \in Obj : Holders(x)' = Holders(x) /\ Bringers(x)' = Bringers(x)) => OperatorInv(t)'
    PROVE  CountingInv' /\ RefKept
<1>1. todo[t] = <<>> /\ todo' = [todo EXCEPT ![t] = q] /\ UNCHANGED misuse
  BY DEF Begin, Idle
<1> PICK none : none = {}
  OBVIOUS
<1>2. life' = [x \in Obj |-> IF x \in none THEN "live" ELSE life[x]]
  BY DEF CountingInv, CountingType
<1>3. \A x \in none : x \in Obj /\ life[x] = "free"
  OBVIOUS
<1>5. UNCHANGED <<ptr, count, misuse>>
  BY <1>1
<1>4. QED
  BY <1>1, <1>2, <1>3, <1>5, BeginCounts

\* The handles of a thread that is in no operator.
LEMMA UsedSafe ==
    ASSUME CountingInv, NEW t \in Thread, NEW h \in Used(t)
    PROVE  /\ h \in Handle /\ Safe(t, h, h)
           /\ h \in Own(t) => h \in Var
           /\ \A l : h \notin Own(t) /\ (ptr[l] = Null \/ h \in Held(t, l)) => Safe(t, l, h)
<1>1. CASE h \in Own(t)
  BY <1>1 DEF Own, Safe, Handle
<1>2. CASE h \in Held(t, Null) /\ Home[h] = t /\ h \notin Own(t)
  <2>1. PICK v \in Own(t) : ptr[v] = h /\ h # Null
    BY <1>2 DEF Held
  <2>2. h \in Obj /\ v \in Var
    BY <2>1 DEF Own, Handle, CountingInv, CountingType
  <2>3. v # h /\ Keeps(t, h, h)
    BY <2>1, <2>2, HandlesAssumption DEF Keeps
  <2>4. \A l : ptr[l] = Null \/ h \in Held(t, l) => Keeps(t, l, h)
    BY <2>1, <2>2, HandlesAssumption DEF Keeps, Held
  <2>5. QED
    BY <1>2, <2>2, <2>3, <2>4 DEF Safe, Handle
<1>3. QED
  BY <1>1, <1>2 DEF Used

\* The steps of an operator= have the shape that the invariant asks for.
LEMMA AssignShape ==
    ASSUME NEW l \in Handle, NEW x, NEW y,
           \/ \E r \in Handle : x = <<"acquire", r>> /\ y = <<"set", l, r>>
           \/ \E o \in Obj : x = <<"increment", o>> /\ y = <<"bind", l, o>>
    PROVE  LET q == <<<<"release", l>>, x, y>> IN
           /\ q \in Seq(Steps) /\ Shape(q) /\ Len(q) = 3 /\ Last(q) = y
           /\ \A h : ~Frees(q, h) /\ ~Misses(q, h)
<1> DEFINE q == <<<<"release", l>>, x, y>>
<1>1. x \in Steps /\ y \in Steps /\ <<"release", l>> \in Steps
  BY DEF Steps, Handle
<1>2. /\ q \in Seq(Steps) /\ Len(q) = 3 /\ q[1] = <<"release", l>> /\ q[2] = x /\ q[3] = y
  BY <1>1
<1>3. /\ x[1] \in {"acquire", "increment"} /\ y[1] \in {"set", "bind"} /\ y[2] = l
      /\ y[1] = "set" => x = <<"acquire", y[3]>>
      /\ y[1] = "bind" => x = <<"increment", y[3]>>
  OBVIOUS
<1> HIDE DEF q
<1>4. Last(q) = y
  BY <1>2 DEF Last
<1>5. \A i \in 1 .. Len(q) : i = 1 \/ i = 2 \/ i = 3
  BY <1>2
<1>6. \A i \in 1 .. Len(q) : q[i][1] # "free"
  BY <1>2, <1>3, <1>5
<1>7. \A i \in 1 .. Len(q) : q[i][1] \in Writing => q[i][2] = l
  BY <1>2, <1>3, <1>5 DEF Writing
<1>8. q # <<>> /\ Releases(q, l)
  <2>1. Len(<<>>) = 0
    OBVIOUS
  <2>2. QED
    BY <1>2, <2>1 DEF Releases
<1>9. \A h : ~Frees(q, h) /\ ~Misses(q, h)
  BY <1>6, <1>7, <1>8 DEF Frees, Misses, Writes
<1>10. \A i \in 1 .. Len(q) : i = Len(q) \/ Inner(q, i)
  <2>1. Inner(q, 1)
    BY <1>2, <1>3, <1>4, <1>6 DEF Inner
  <2>2. Inner(q, 2)
    BY <1>2, <1>3, <1>4 DEF Inner
  <2>3. QED
    BY <1>2, <1>5, <2>1, <2>2
<1>11. Shape(q)
  <2>1. q[Len(q) - 1] = x
    BY <1>2
  <2>2. QED
    BY <1>3, <1>4, <1>6, <1>10, <2>1 DEF Shape
<1>12. QED
  BY <1>2, <1>4, <1>9, <1>11 DEF q

\* So do copies and locks.
LEMMA CopyShape ==
    ASSUME NEW l \in Handle, NEW x \in Handle, NEW name \in {"set", "put"}
    PROVE  LET q == <<<<name, l, x>>, <<"own", l>>>> IN
           /\ q \in Seq(Steps) /\ Shape(q) /\ Len(q) = 2 /\ Last(q) = <<"own", l>>
           /\ q[1] = <<name, l, x>>
           /\ \A h : ~Frees(q, h) /\ (Misses(q, h) => h = l)
<1> DEFINE q == <<<<name, l, x>>, <<"own", l>>>>
<1>1. <<name, l, x>> \in Steps /\ <<"own", l>> \in Steps
  BY DEF Steps
<1>2. /\ q \in Seq(Steps) /\ Len(q) = 2 /\ q[1] = <<name, l, x>> /\ q[2] = <<"own", l>>
  BY <1>1
<1> HIDE DEF q
<1>3. Last(q) = <<"own", l>>
  BY <1>2 DEF Last
<1>4. \A i \in 1 .. Len(q) : i = 1 \/ i = 2
  BY <1>2
<1>5. \A i \in 1 .. Len(q) : q[i][1] # "free" /\ q[i][2] = l
  BY <1>2, <1>4
<1>6. \A h : ~Frees(q, h) /\ (Misses(q, h) => h = l)
  BY <1>5 DEF Frees, Misses, Writes
<1>7. \A i \in 1 .. Len(q) : i = Len(q) \/ Inner(q, i)
  <2>1. Inner(q, 1)
    BY <1>2, <1>3 DEF Inner
  <2>2. QED
    BY <1>2, <1>4, <2>1
<1>8. Shape(q)
  BY <1>3, <1>5, <1>7 DEF Shape
<1>9. QED
  BY <1>2, <1>3, <1>6, <1>8 DEF q

\* And so does the destructor.
LEMMA DestructorShape ==
    ASSUME NEW l \in Handle
    PROVE  LET q == DestructorSteps(l) IN
           /\ q \in Seq(Steps) /\ Shape(q) /\ Len(q) = 2 /\ Last(q) = <<"clear", l>>
           /\ \A h : ~Frees(q, h) /\ ~Misses(q, h)
<1> DEFINE q == DestructorSteps(l)
<1>1. <<"release", l>> \in Steps /\ <<"clear", l>> \in Steps
  BY DEF Steps
<1>2. /\ q \in Seq(Steps) /\ Len(q) = 2 /\ q[1] = <<"release", l>> /\ q[2] = <<"clear", l>>
  BY <1>1 DEF DestructorSteps
<1> HIDE DEF q
<1>3. Last(q) = <<"clear", l>>
  BY <1>2 DEF Last
<1>4. \A i \in 1 .. Len(q) : i = 1 \/ i = 2
  BY <1>2
<1>5. \A i \in 1 .. Len(q) : q[i][1] # "free" /\ q[i][2] = l
  BY <1>2, <1>4
<1>6. q # <<>> /\ Releases(q, l)
  <2>1. Len(<<>>) = 0
    OBVIOUS
  <2>2. QED
    BY <1>2, <2>1 DEF Releases
<1>7. \A h : ~Frees(q, h) /\ ~Misses(q, h)
  BY <1>5, <1>6 DEF Frees, Misses, Writes
<1>8. \A i \in 1 .. Len(q) : i = Len(q) \/ Inner(q, i)
  <2>1. Inner(q, 1)
    BY <1>2, <1>3, <1>5 DEF Inner
  <2>2. QED
    BY <1>2, <1>4, <2>1
<1>9. Shape(q)
  BY <1>3, <1>5, <1>8 DEF Shape
<1>10. QED
  BY <1>2, <1>3, <1>7, <1>9 DEF q

\* p = make(...): the new object is live, has no handles and is brought by its thread only.
LEMMA MakeObjectCounts ==
    ASSUME CountingInv, NEW t \in Thread, MakeObject(t)
    PROVE  CountingInv' /\ RefKept
<1>1. PICK l \in Used(t), o \in Obj :
         /\ life[o] = "free" /\ Home[o] = t
         /\ Begin(t, AssignRawSteps(l, o))
         /\ life' = [life EXCEPT ![o] = "live"]
         /\ UNCHANGED <<ptr, weak, count>>
  BY DEF MakeObject
<1>2. l \in Handle /\ Safe(t, l, l)
  BY UsedSafe
<1> DEFINE q == AssignRawSteps(l, o)
<1>3. /\ q \in Seq(Steps) /\ Shape(q) /\ Len(q) = 3 /\ Last(q) = <<"bind", l, o>>
      /\ \A h : ~Frees(q, h) /\ ~Misses(q, h)
  BY <1>2, AssignShape DEF AssignRawSteps
<1> HIDE DEF q
<1>4. todo[t] = <<>> /\ todo' = [todo EXCEPT ![t] = q] /\ UNCHANGED <<ptr, count, misuse>>
  BY <1>1 DEF Begin, Idle, q
<1> PICK fresh : fresh = {o}
  OBVIOUS
<1>5. life' = [x \in Obj |-> IF x \in fresh THEN "live" ELSE life[x]]
  BY <1>1 DEF CountingInv, CountingType
<1>6. \A x \in fresh : x \in Obj /\ life[x] = "free"
  BY <1>1
<1>7. ASSUME \A x \in Obj : Holders(x)' = Holders(x) /\ Bringers(x)' = Bringers(x)
      PROVE  OperatorInv(t)'
  <2>1. ptr[o] = Null /\ Holders(o) = {} /\ Bringers(o) = {}
    BY <1>1 DEF CountingInv, CountInv
  <2>2. ptr'[o] = Null /\ Holders(o)' = {} /\ Bringers(o)' = {} /\ life'[o] = "live"
    BY <1>4, <1>5, <1>7, <2>1
  <2>3. \A s \in Thread : ~Brings(s, o)'
    BY <2>2 DEF Bringers
  <2>4. Safe(t, l, l)'
    BY <1>2, <1>4 DEF Safe, Keeps, Own
  <2>5. BindInv(t, l, o)'
    BY <1>1, <2>2, <2>3, <2>4 DEF BindInv
  <2>6. todo'[t] = q /\ Last(todo[t])' = <<"bind", l, o>>
    BY <1>3, <1>4 DEF CountingInv, CountingType
  <2>7. QED
    BY <2>5, <2>6 DEF OperatorInv
<1>8. \A x : ~Frees(q, x)
  BY <1>3
<1>9. \A x : Misses(q, x) => ptr[x] = Null
  BY <1>3
<1>10. q \in Seq(Steps) /\ Shape(q) /\ (Len(q) = 1 => q[1][1] \notin {"set", "bind"})
  BY <1>3
<1>11. UNCHANGED <<ptr, count, misuse>>
  BY <1>4
<1>12. todo[t] = <<>> /\ todo' = [todo EXCEPT ![t] = q]
  BY <1>4
<1>13. QED
  BY <1>5, <1>6, <1>7, <1>8, <1>9, <1>10, <1>11, <1>12, BeginCounts

\* An assignment that Survives is safe through its release.
LEMMA AssignPtrCounts ==
    ASSUME CountingInv, NEW t \in Thread, AssignPtr(t)
    PROVE  CountingInv' /\ RefKept
<1>1. PICK l \in Used(t), r \in Used(t) :
         /\ Survives(t, l, r)
         /\ Begin(t, AssignSteps(l, r))
         /\ UNCHANGED <<ptr, weak, count, life>>
  BY DEF AssignPtr
<1>2. l \in Handle /\ r \in Handle /\ Safe(t, l, l)
  BY UsedSafe
<1>3. Safe(t, l, r)
  <2>1. CASE r \in Own(t)
    BY <2>1 DEF Safe
  <2>2. CASE r = l
    BY <1>2, <2>2
  <2>3. CASE r \notin Own(t) /\ r # l
    <3>1. r \notin Var
      BY <2>3, HandlesAssumption DEF Used, Held, Own, CountingInv, CountingType, Handle
    <3>2. ptr[l] = Null \/ r \in Held(t, l)
      BY <1>1, <2>3, <3>1 DEF Survives
    <3>3. QED
      BY <2>3, <3>2, UsedSafe
  <2>4. QED
    BY <2>1, <2>2, <2>3
<1>4. r = l /\ ptr[l] # Null => Keeps(t, l, ptr[l])
  <2>1. SUFFICES ASSUME r = l, ptr[l] # Null PROVE Keeps(t, l, ptr[l])
    OBVIOUS
  <2>2. ptr[l] \in Held(t, l) /\ ptr[l] \in Obj
    BY <1>1, <1>2, <2>1 DEF Survives, CountingInv, CountingType
  <2>3. QED
    BY <2>2 DEF Held, Keeps
<1> DEFINE q == AssignSteps(l, r)
<1>5. /\ q \in Seq(Steps) /\ Shape(q) /\ Len(q) = 3 /\ Last(q) = <<"set", l, r>>
      /\ \A h : ~Frees(q, h) /\ ~Misses(q, h)
  BY <1>2, AssignShape DEF AssignSteps
<1>6. Begin(t, q)
  BY <1>1
<1> HIDE DEF q
<1>7. UNCHANGED <<ptr, count, life>>
  BY <1>1
<1>8. OperatorInv(t)'
  <2>1. SetInv(t, l, r)'
    BY <1>2, <1>3, <1>4, <1>7 DEF SetInv, Safe, Keeps, Own
  <2>2. Last(todo[t])' = <<"set", l, r>>
    BY <1>5, <1>6 DEF Begin, CountingInv, CountingType
  <2>3. QED
    BY <2>1, <2>2 DEF OperatorInv
<1>9. q \in Seq(Steps) /\ Shape(q) /\ (Len(q) = 1 => q[1][1] \notin {"set", "bind"})
  BY <1>5
<1>10. (\A x : ~Frees(q, x)) /\ \A x : Misses(q, x) => ptr[x] = Null
  BY <1>5
<1>11. QED
  BY <1>6, <1>7, <1>8, <1>9, <1>10, BeginOld

\* A copy or a cast that copies, and the lock of a weak pointer.
LEMMA CopyCounts ==
    ASSUME CountingInv, NEW t \in Thread, NEW l \in Own(t), NEW x \in Handle,
           NEW name \in {"set", "put"}, ptr[l] = Null,
           Begin(t, <<<<name, l, x>>, <<"own", l>>>>),
           name = "set" => x \in Used(t) /\ ptr[x] # Null,
           name = "put" => x \in Held(t, l),
           UNCHANGED <<ptr, weak, count, life>>
    PROVE  CountingInv' /\ RefKept
<1> DEFINE q == <<<<name, l, x>>, <<"own", l>>>>
<1>1. l \in Handle /\ l \in Var
  BY DEF Own, Handle
<1>2. /\ q \in Seq(Steps) /\ Shape(q) /\ Len(q) = 2 /\ Last(q) = <<"own", l>> /\ q[1] = <<name, l, x>>
      /\ \A h : ~Frees(q, h) /\ (Misses(q, h) => h = l)
  BY <1>1, CopyShape
<1>3. Begin(t, q)
  OBVIOUS
<1> HIDE DEF q
<1>4. UNCHANGED <<ptr, count, life>>
  OBVIOUS
<1>5. name = "set" => x # l /\ Safe(t, l, x) /\ ptr[x] # Null
  <2>1. SUFFICES ASSUME name = "set" PROVE Safe(t, l, x)
    OBVIOUS
  <2>2. CASE x \in Own(t)
    BY <2>2 DEF Safe
  <2>3. CASE x \notin Own(t)
    BY <2>1, <2>3, UsedSafe
  <2>4. QED
    BY <2>2, <2>3
<1>6. name = "put" => Keeps(t, l, x)
  <2>1. SUFFICES ASSUME name = "put" PROVE Keeps(t, l, x)
    OBVIOUS
  <2>2. PICK v \in Own(t) \ {l} : ptr[v] = x /\ x # Null
    BY <2>1 DEF Held
  <2>3. x \in Obj
    BY <2>2 DEF Own, Handle, CountingInv, CountingType
  <2>4. QED
    BY <2>2, <2>3 DEF Keeps
<1>7. OperatorInv(t)'
  <2>1. /\ name = "set" => x # l /\ Safe(t, l, x)' /\ ptr'[x] # Null
        /\ name = "put" => Keeps(t, l, x)'
    BY <1>4, <1>5, <1>6 DEF Safe, Keeps, Own
  <2>2. todo'[t] = q
    BY <1>3 DEF Begin, CountingInv, CountingType
  <2>3. OwnInv(t, l)'
    BY <1>2, <2>1, <2>2 DEF OwnInv, Own
  <2>4. Last(todo[t])' = <<"own", l>>
    BY <1>2, <2>2
  <2>5. QED
    BY <2>3, <2>4 DEF OperatorInv
<1>8. q \in Seq(Steps) /\ Shape(q) /\ (Len(q) = 1 => q[1][1] \notin {"set", "bind"})
  BY <1>2
<1>9. (\A h : ~Frees(q, h)) /\ \A h : Misses(q, h) => ptr[h] = Null
  BY <1>2
<1>10. QED
  BY <1>3, <1>4, <1>7, <1>8, <1>9, BeginOld

\* A copy and a cast into an empty variable, also the cast that fails.
LEMMA CopyPtrCounts ==
    ASSUME CountingInv, NEW t \in Thread, CopyPtr(t)
    PROVE  CountingInv' /\ RefKept
<1>1. PICK l \in Own(t), r \in Used(t), kind \in {Kind[o] : o \in Obj} :
         /\ ptr[l] = Null /\ ptr[r] # Null
         /\ Begin(t, CopySteps(l, r)) \/ Begin(t, CastSteps(l, r, kind))
         /\ UNCHANGED <<ptr, weak, count, life>>
  BY DEF CopyPtr
<1>2. CASE Begin(t, CopySteps(l, r))
  <2>1. Begin(t, <<<<"set", l, r>>, <<"own", l>>>>)
    BY <1>2 DEF CopySteps
  <2>2. r \in Handle
    BY UsedSafe
  <2>3. QED
    BY <1>1, <2>1, <2>2, CopyCounts
<1>3. CASE Begin(t, <<>>)
  <2>1. <<>> \in Seq(Steps) /\ Shape(<<>>)
    BY EmptyShape
  <2>2. (\A x : ~Frees(<<>>, x)) /\ (\A x : Misses(<<>>, x) => ptr[x] = Null)
    BY EmptyShape
  <2>3. OperatorInv(t)'
    BY <1>3 DEF OperatorInv, Begin, CountingInv, CountingType
  <2>4. Len(<<>>) # 1
    OBVIOUS
  <2>5. PICK q : q = <<>>
    OBVIOUS
  <2>6. UNCHANGED <<ptr, count, life>>
    BY <1>1
  <2>7. Begin(t, q)
    BY <1>3, <2>5
  <2>8. /\ q \in Seq(Steps) /\ Shape(q) /\ (\A x : ~Frees(q, x)) /\ (\A x : Misses(q, x) => ptr[x] = Null)
        /\ Len(q) # 1
    BY <2>1, <2>2, <2>4, <2>5
  <2>9. QED
    BY <2>3, <2>6, <2>7, <2>8, BeginOld
<1>4. QED
  BY <1>1, <1>2, <1>3 DEF CastSteps

\* A lock of an object that the thread holds.
LEMMA LockWeakCounts ==
    ASSUME CountingInv, NEW t \in Thread, LockWeak(t)
    PROVE  CountingInv' /\ RefKept
<1>1. PICK l \in Own(t), w \in Weak :
         /\ Owner[w] = t /\ ptr[l] = Null /\ weak[w] \in Held(t, l)
         /\ Begin(t, LockSteps(l, w))
         /\ UNCHANGED <<ptr, weak, count, life>>
  BY DEF LockWeak
<1>2. PICK x : x = weak[w]
  OBVIOUS
<1>3. Begin(t, <<<<"put", l, x>>, <<"own", l>>>>) /\ x \in Held(t, l)
  BY <1>1, <1>2 DEF LockSteps
<1>4. x \in Handle
  BY <1>3 DEF Held, Own, Handle, CountingInv, CountingType
<1>5. QED
  BY <1>1, <1>3, <1>4, CopyCounts

\* The end of a variable.
LEMMA DestroyPtrCounts ==
    ASSUME CountingInv, NEW t \in Thread, DestroyPtr(t)
    PROVE  CountingInv' /\ RefKept
<1>1. PICK l \in Own(t) :
         Begin(t, DestructorSteps(l)) /\ UNCHANGED <<ptr, weak, count, life>>
  BY DEF DestroyPtr
<1> DEFINE q == DestructorSteps(l)
<1>2. l \in Handle
  BY DEF Own, Handle
<1>3. /\ q \in Seq(Steps) /\ Shape(q) /\ Len(q) = 2 /\ Last(q) = <<"clear", l>>
      /\ \A h : ~Frees(q, h) /\ ~Misses(q, h)
  BY <1>2, DestructorShape
<1>4. Begin(t, q) /\ UNCHANGED <<ptr, count, life>>
  BY <1>1
<1> HIDE DEF q
<1>5. OperatorInv(t)'
  <2>1. Last(todo[t])' = <<"clear", l>>
    BY <1>3, <1>4 DEF Begin, CountingInv, CountingType
  <2>2. QED
    BY <2>1 DEF OperatorInv, Own
<1>6. q \in Seq(Steps) /\ Shape(q) /\ (Len(q) = 1 => q[1][1] \notin {"set", "bind"})
  BY <1>3
<1>7. (\A x : ~Frees(q, x)) /\ \A x : Misses(q, x) => ptr[x] = Null
  BY <1>3
<1>8. UNCHANGED <<ptr, count, life>>
  BY <1>4
<1>9. QED
  BY <1>4, <1>5, <1>6, <1>7, <1>8, BeginOld

\* Weak pointers are not counted.
LEMMA CountingSame ==
    ASSUME CountingInv, UNCHANGED <<ptr, count, life, todo, misuse>>
    PROVE  CountingInv' /\ RefKept
<1>1. CountingType' /\ ~misuse'
  BY DEF CountingInv, CountingType
<1>2. \A t \in Thread : Shape(todo[t])'
  BY DEF CountingInv, Shape, Inner, Last
<1>3. \A h : Missing(h)' <=> Missing(h)
  BY DEF Missing, Misses, Writes, Releases
<1>4. \A o : Holders(o)' = Holders(o)
  BY <1>3 DEF Holders, Handle
<1>5. \A o : \A t \in Thread : Brings(t, o)' <=> Brings(t, o)
  BY DEF Brings
<1>6. \A o : Bringers(o)' = Bringers(o)
  BY <1>5 DEF Bringers
<1>7. FreesInv'
  BY DEF CountingInv, FreesInv, Frees
<1>8. CountInv'
  <2>1. CountInv
    BY DEF CountingInv
  <2>2. QED
    BY <1>4, <1>6, <2>1 DEF CountInv
<1>9. ASSUME NEW t \in Thread PROVE OperatorInv(t)'
  <2>1. OperatorInv(t)
    BY DEF CountingInv
  <2>2. \A l, x : Keeps(t, l, x)' <=> Keeps(t, l, x)
    BY DEF Keeps, Own
  <2>3. \A l, h : Safe(t, l, h)' <=> Safe(t, l, h)
    BY <2>2 DEF Safe, Own
  <2>4. \A l, r : SetInv(t, l, r) => SetInv(t, l, r)'
    BY DEF SetInv, Safe, Keeps, Own
  <2>5. \A l, o : BindInv(t, l, o) => BindInv(t, l, o)'
    BY <1>4, <1>5, <2>3 DEF BindInv
  <2>6. \A l : OwnInv(t, l) => OwnInv(t, l)'
    BY DEF OwnInv, Safe, Keeps, Own
  <2>7. PICK l, x : l = Last(todo[t])[2] /\ x = Last(todo[t])[3]
    OBVIOUS
  <2>8. Last(todo[t])' = Last(todo[t])
    BY DEF Last
  <2>9. Last(todo[t])[1] = "set" /\ todo[t] # <<>> => SetInv(t, l, x)'
    BY <2>1, <2>4, <2>7 DEF OperatorInv
  <2>10. Last(todo[t])[1] = "bind" /\ todo[t] # <<>> => BindInv(t, l, x)'
    BY <2>1, <2>5, <2>7 DEF OperatorInv
  <2>11. Last(todo[t])[1] = "clear" /\ todo[t] # <<>> => l \in Own(t)
    BY <2>1, <2>7 DEF OperatorInv
  <2>12. Last(todo[t])[1] = "own" /\ todo[t] # <<>> => OwnInv(t, l)'
    BY <2>1, <2>6, <2>7 DEF OperatorInv
  <2>13. QED
    BY <2>7, <2>8, <2>9, <2>10, <2>11, <2>12 DEF OperatorInv, Own
<1>10. RefKept
  BY <1>3 DEF RefKept, Ref
<1>11. QED
  BY <1>10, <1>1, <1>2, <1>7, <1>8, <1>9 DEF CountingInv

\* What the variables share at first is counted.
LEMMA CountingInit == Init => CountingInv
<1> SUFFICES ASSUME Init PROVE CountingInv
  OBVIOUS
<1>1. \A t \in Thread : todo[t] = <<>>
  BY DEF Init
<1>2. \A h \in Handle : ptr[h] = IF h \in DOMAIN Shared THEN Shared[h] ELSE Null
  BY DEF Init
<1>3. \A o : Holders(o) = {h \in Handle : ptr[h] = o}
  BY <1>1, EmptyShape DEF Holders, Missing
<1>4. \A o : Bringers(o) = {}
  <2>1. \A t \in Thread : Len(todo[t]) # 1
    BY <1>1
  <2>2. QED
    BY <2>1 DEF Bringers, Brings
<1>5. \A o \in Obj : count[o] = Cardinality(Holders(o))
  BY <1>3 DEF Init
<1>6. \A o \in Obj : Cardinality(Holders(o)) \in Nat /\ (Cardinality(Holders(o)) = 0 => Holders(o) = {})
  BY CountSets, Sizes
<1>7. \A o \in Obj : life[o] = IF count[o] > 0 THEN "live" ELSE "free"
  BY DEF Init
<1>8. CountingType
  <2>1. ptr \in [Handle -> Obj \cup {Null}]
    BY HandlesAssumption DEF Init, Handle
  <2>2. count \in [Obj -> Nat]
    BY <1>5, <1>6 DEF Init
  <2>3. life \in [Obj -> {"free", "live", "dying"}]
    BY DEF Init
  <2>4. todo \in [Thread -> Seq(Steps)]
    BY EmptyShape DEF Init
  <2>5. QED
    BY <2>1, <2>2, <2>3, <2>4 DEF CountingType
<1>9. CountInv
  <2>1. Cardinality({}) = 0
    BY FS_EmptySet
  <2>2. \A o \in Obj : ptr[o] = Null
    BY <1>2, HandlesAssumption DEF Handle
  <2>3. QED
    BY <1>4, <1>5, <1>6, <1>7, <2>1, <2>2 DEF CountInv
<1>10. FreesInv
  BY <1>1, EmptyShape DEF FreesInv
<1>11. \A t \in Thread : Shape(todo[t]) /\ OperatorInv(t)
  BY <1>1, EmptyShape DEF OperatorInv
<1>12. QED
  BY <1>8, <1>9, <1>10, <1>11 DEF CountingInv, Init

\* CountingInv is inductive.
LEMMA CountingNext == CountingInv /\ [Next]_vars => CountingInv'
<1> SUFFICES ASSUME CountingInv, [Next]_vars PROVE CountingInv'
  OBVIOUS
<1>1. CASE UNCHANGED vars
  BY <1>1, CountingSame DEF vars
<1>2. ASSUME NEW t \in Thread, MakeWeak(t) PROVE CountingInv'
  <2>1. UNCHANGED <<ptr, count, life, todo, misuse>>
    BY <1>2 DEF MakeWeak
  <2>2. QED
    BY <2>1, CountingSame
<1>3. QED
  BY <1>1, <1>2, StepCounts, MakeObjectCounts, AssignPtrCounts, CopyPtrCounts, DestroyPtrCounts,
     LockWeakCounts DEF Next, ThreadNext

\* A handle is stale when it does not count.
LEMMA StaleMissing ==
    ASSUME CountingInv, NEW h
    PROVE  Stale(h) <=> Missing(h)
<1>1. \A t \in Thread : todo[t] \in Seq(Steps) /\ Shape(todo[t]) /\ DOMAIN todo[t] = 1 .. Len(todo[t])
  BY DEF CountingInv, CountingType
<1>2. ASSUME Pending("release", h)
      PROVE  \E t \in Thread : Releases(todo[t], h) /\ Writes(todo[t], h)
  <2>1. PICK t \in Thread : \E i \in 1 .. Len(todo[t]) : todo[t][i][1] = "release" /\ todo[t][i][2] = h
    BY <1>1, <1>2 DEF Pending
  <2>2. QED
    BY <1>1, <2>1, Releaser
<1>3. ASSUME Missing(h), Pending("release", h) PROVE FALSE
  <2>1. PICK t \in Thread : Writes(todo[t], h) /\ ~Releases(todo[t], h)
    BY <1>3 DEF Missing, Misses
  <2>2. PICK s \in Thread : Releases(todo[s], h) /\ Writes(todo[s], h)
    BY <1>2, <1>3
  <2>3. QED
    BY <2>1, <2>2, WritersApart
<1>4. ASSUME NEW name \in Writing, Pending(name, h)
      PROVE  \E t \in Thread : Writes(todo[t], h) /\ \E i \in 1 .. Len(todo[t]) : todo[t][i][1] = name
  BY <1>1, <1>4 DEF Pending, Writes
<1>5. ASSUME Pending("own", h) PROVE Missing(h)
  <2>1. PICK t \in Thread : Writes(todo[t], h) /\ \E i \in 1 .. Len(todo[t]) : todo[t][i][1] = "own"
    BY <1>4, <1>5 DEF Writing
  <2>2. PICK i \in 1 .. Len(todo[t]) : todo[t][i][1] = "own"
    BY <2>1
  <2>3. Last(todo[t])[1] = "own" /\ todo[t] # <<>>
    <3>1. todo[t] # <<>> /\ Last(todo[t]) = todo[t][Len(todo[t])]
      BY <1>1 DEF Last
    <3>2. ~Inner(todo[t], i)
      BY <2>2 DEF Inner
    <3>3. i = Len(todo[t])
      BY <1>1, <3>1, <3>2 DEF Shape
    <3>4. QED
      BY <2>2, <3>1, <3>3
  <2>4. ~Releases(todo[t], h)
    BY <1>1, <2>3, HeadShape DEF Releases
  <2>5. QED
    BY <2>1, <2>4 DEF Missing, Misses
<1>6. ASSUME ~Pending("release", h), NEW name \in Writing, Pending(name, h) PROVE Missing(h)
  <2>1. PICK t \in Thread : Writes(todo[t], h)
    BY <1>4, <1>6
  <2>2. ~Releases(todo[t], h)
    <3>1. ASSUME Releases(todo[t], h) PROVE Pending("release", h)
      <4>1. 1 \in DOMAIN todo[t] /\ todo[t][1] = <<"release", h>>
        BY <1>1, <3>1 DEF Releases
      <4>2. QED
        BY <4>1 DEF Pending
    <3>2. QED
      BY <1>6, <3>1
  <2>3. QED
    BY <2>1, <2>2 DEF Missing, Misses
<1>7. ASSUME Missing(h) PROVE \E name \in Writing : Pending(name, h)
  BY <1>1, <1>7 DEF Missing, Misses, Writes, Pending
<1>8. QED
  BY <1>3, <1>5, <1>6, <1>7 DEF Stale, Writing

\* The counts are exact in every state, and no memory is used after it was freed.
LEMMA CountingSafe == CountingInv => NoUseAfterFree
<1> SUFFICES ASSUME CountingInv PROVE ~misuse /\ CountsOwners
  BY DEF NoUseAfterFree
<1>1. ASSUME NEW o \in Obj
      PROVE  count[o] = Cardinality({h \in Handle : ptr[h] = o /\ ~Stale(h)})
                        + Cardinality({t \in Thread : Len(todo[t]) = 1 /\
                                      (\/ todo[t][1][1] = "set" /\ ptr[todo[t][1][3]] = o
                                       \/ todo[t][1][1] = "bind" /\ todo[t][1][3] = o)})
  <2>1. {h \in Handle : ptr[h] = o /\ ~Stale(h)} = Holders(o)
    BY StaleMissing DEF Holders
  <2>2. {t \in Thread : Len(todo[t]) = 1 /\
                           (\/ todo[t][1][1] = "set" /\ ptr[todo[t][1][3]] = o
                            \/ todo[t][1][1] = "bind" /\ todo[t][1][3] = o)} = Bringers(o)
    BY DEF Bringers, Brings
  <2>3. QED
    BY <2>1, <2>2 DEF CountingInv, CountInv
<1>2. QED
  BY <1>1 DEF CountingInv, CountsOwners

\* NoUseAfterFree: however the threads interleave inside the operators of Ptr, no step uses
\* the memory of an object after it was freed or while it dies, and the count of every live
\* object is the number of its owners.
THEOREM CountsExact == Spec => []NoUseAfterFree
<1>1. Spec => []CountingInv
  BY CountingInit, CountingNext, PTL DEF Spec
<1>2. QED
  BY <1>1, CountingSafe, PTL

-----------------------------------------------------------------------------
\* References: what the handles refer to, as ReferenceSemantics has it.

\* A new object that is not bound to its first handle yet.
Binds(t, o) == todo[t] # <<>> /\ Last(todo[t])[1] = "bind" /\ Last(todo[t])[3] = o

Mapped ==
    /\ \A h \in Handle : Referent(h) = Ref(h) /\ Ref(h) \in Obj \cup {Null}
    /\ Alive = {o \in Obj : life[o] # "free" /\ \A t \in Thread : ~Binds(t, o)}

\* The mapping of ReferencesKept in terms of the invariant.
LEMMA MappedState == CountingInv => Mapped
<1> SUFFICES ASSUME CountingInv PROVE Mapped
  OBVIOUS
<1>1. \A h \in Handle : Ref(h) \in Obj \cup {Null}
  BY DEF Ref, CountingInv, CountingType
<1>2. ASSUME NEW h \in Handle PROVE Referent(h) = Ref(h)
  <2>1. ~Readable(h) => ptr[h] = Null
    BY DEF Readable, Handle, CountingInv, CountInv
  <2>2. QED
    BY <2>1, StaleMissing DEF Referent, Ref
<1>3. ASSUME NEW t \in Thread, NEW o
      PROVE  (\E i \in DOMAIN todo[t] : todo[t][i][1] = "bind" /\ todo[t][i][3] = o) <=> Binds(t, o)
  <2>1. todo[t] \in Seq(Steps) /\ Shape(todo[t]) /\ DOMAIN todo[t] = 1 .. Len(todo[t])
    BY DEF CountingInv, CountingType
  <2>2. ASSUME Binds(t, o)
        PROVE  \E i \in DOMAIN todo[t] : todo[t][i][1] = "bind" /\ todo[t][i][3] = o
    BY <2>1, <2>2, LastWritten DEF Binds
  <2>3. ASSUME NEW i \in DOMAIN todo[t], todo[t][i][1] = "bind", todo[t][i][3] = o
        PROVE  Binds(t, o)
    <3>1. todo[t] # <<>> /\ i \in 1 .. Len(todo[t]) /\ Last(todo[t]) = todo[t][Len(todo[t])]
      BY <2>1, <2>3 DEF Last
    <3>2. ~Inner(todo[t], i)
      BY <2>3 DEF Inner
    <3>3. i = Len(todo[t])
      BY <2>1, <3>1, <3>2 DEF Shape
    <3>4. QED
      BY <2>3, <3>1, <3>3 DEF Binds
  <2>4. QED
    BY <2>2, <2>3
<1>4. Alive = {o \in Obj : life[o] # "free" /\ \A t \in Thread : ~Binds(t, o)}
  BY <1>3 DEF Alive
<1>5. QED
  BY <1>1, <1>2, <1>4 DEF Mapped

\* What a step does to the rest of the state.
LEMMA StepTodo ==
    ASSUME CountingInv, CountingInv', NEW t \in Thread, Step(t)
    PROVE  /\ todo[t] # <<>> /\ Elsewhere(t) /\ UNCHANGED weak
           /\ Len(todo[t]) = 1 => todo'[t] = <<>>
           /\ Len(todo[t]) # 1 => todo'[t] # <<>> /\ Last(todo'[t]) = Last(todo[t])
           /\ \A o \in Obj : life'[o] = "free" <=>
                                life[o] = "free" \/ (todo[t][1][1] = "free" /\ todo[t][1][2] = o)
<1> DEFINE q == todo[t]
<1>1. /\ q \in Seq(Steps) /\ Shape(q) /\ q # <<>> /\ Head(q) = q[1] /\ Len(q) \in Nat \ {0}
      /\ q[1][2] \in Handle
  BY NextStep DEF Step
<1>2. ~misuse /\ ~misuse'
  BY DEF CountingInv
<1>3. \/ todo' = [todo EXCEPT ![t] = Tail(q)]
      \/ \E o \in Obj : /\ todo' = [todo EXCEPT ![t] = DeleteSteps(o) \o Tail(q)]
                        /\ q[1][1] = "release"
  <2>1. CASE q[1][1] = "release" /\ Release(t, q[1][2])
    <3>1. CASE todo' = [todo EXCEPT ![t] = Tail(@)]
      BY <3>1
    <3>2. CASE \E o \in Obj : todo' = [todo EXCEPT ![t] = (IF DropsToZero(o) THEN DeleteSteps(o) ELSE <<>>) \o Tail(@)]
      <4>1. Tail(q) \in Seq(Steps)
        BY <1>1
      <4>2. <<>> \o Tail(q) = Tail(q)
        BY <4>1, ConcatEmptySeq
      <4>3. QED
        BY <2>1, <3>2, <4>2
    <3>3. ptr[q[1][2]] \in Obj \cup {Null}
      BY <1>1 DEF CountingInv, CountingType
    <3>4. QED
      BY <2>1, <3>1, <3>2, <3>3 DEF Release
  <2>2. CASE \E o : Increment(t, o)
    BY <2>2 DEF Increment
  <2>3. CASE \E h, o : Put(t, h, o)
    BY <2>3 DEF Put
  <2>4. CASE Use(FALSE)
    BY <1>2, <2>4 DEF Use
  <2>5. QED
    BY <1>1, <2>1, <2>2, <2>3, <2>4 DEF Step
<1>4. Elsewhere(t)
  BY <1>3 DEF Elsewhere, CountingInv, CountingType
<1>5. Len(q) = 1 => todo'[t] = <<>>
  <2>1. Len(q) = 1 => q[1][1] # "release" /\ Tail(q) = <<>>
    BY <1>1, LastStep
  <2>2. QED
    BY <1>3, <2>1 DEF CountingInv, CountingType
<1>6. Len(q) # 1 => todo'[t] # <<>> /\ Last(todo'[t]) = Last(q)
  <2>1. SUFFICES ASSUME Len(q) # 1 PROVE todo'[t] # <<>> /\ Last(todo'[t]) = Last(q)
    OBVIOUS
  <2>2. Len(q) >= 2
    <3>1. \A n \in Nat \ {0} : n # 1 => n >= 2
      OBVIOUS
    <3>2. QED
      BY <1>1, <2>1, <3>1
  <2>3. Tail(q) \in Seq(Steps) /\ Last(Tail(q)) = Last(q) /\ Len(Tail(q)) = Len(q) - 1
    BY <1>1, <2>2, TailShape
  <2>4. Len(Tail(q)) \in Nat \ {0} /\ Last(Tail(q)) = Tail(q)[Len(Tail(q))] /\ Len(<<>>) = 0
    BY <1>1, <2>2, <2>3 DEF Last
  <2>5. CASE todo' = [todo EXCEPT ![t] = Tail(q)]
    <3>1. todo'[t] = Tail(q)
      BY <2>5 DEF CountingInv, CountingType
    <3>2. QED
      BY <2>3, <2>4, <3>1
  <2>6. ASSUME NEW o \in Obj, todo' = [todo EXCEPT ![t] = DeleteSteps(o) \o Tail(q)]
        PROVE  todo'[t] # <<>> /\ Last(todo'[t]) = Last(q)
    <3> DEFINE p == DeleteSteps(o) \o Tail(q)
               r == Tail(q)
    <3>1. DeleteSteps(o) \in Seq(Steps) /\ Len(DeleteSteps(o)) = 2
      BY DEF DeleteSteps, Steps, Handle
    <3>2. /\ Len(p) = Len(r) + 2
          /\ \A i \in 1 .. Len(r) : p[i + 2] = r[i]
      BY <2>3, <3>1, Prepended
    <3>3. todo'[t] = p
      BY <2>6 DEF CountingInv, CountingType
    <3> HIDE DEF p, r
    <3>8. Len(r) \in Nat \ {0} /\ Last(r) = r[Len(r)]
      BY <2>4 DEF r
    <3>9. \A n \in Nat \ {0} : n \in 1 .. n
      OBVIOUS
    <3>10. Last(p) = p[Len(p)]
      BY DEF Last
    <3>4. Len(r) \in 1 .. Len(r) /\ Last(p) = p[Len(p)] /\ Len(r) \in Nat \ {0} /\ Last(r) = r[Len(r)]
      BY <3>8, <3>9, <3>10
    <3>5. Last(p) = Last(r)
      BY <3>2, <3>4
    <3>6. Len(p) # 0 /\ Len(<<>>) = 0
      BY <3>2, <3>4
    <3>7. QED
      BY <2>3, <3>3, <3>5, <3>6 DEF r
  <2>7. QED
    BY <1>3, <2>5, <2>6
<1>7. UNCHANGED weak
  BY DEF Step
<1>8. ASSUME NEW o \in Obj
      PROVE  life'[o] = "free" <=> life[o] = "free" \/ (q[1][1] = "free" /\ q[1][2] = o)
  <2>1. CASE q[1][1] = "release" /\ Release(t, q[1][2])
    BY <2>1 DEF Release, CountingInv, CountingType
  <2>2. CASE q[1][1] # "free" /\ UNCHANGED life
    BY <2>2
  <2>3. CASE q[1][1] = "free" /\ life' = [life EXCEPT ![q[1][2]] = "free"]
    BY <2>3 DEF CountingInv, CountingType
  <2>4. QED
    BY <1>1, <2>1, <2>2, <2>3 DEF Step
<1>9. QED
  BY <1>1, <1>4, <1>5, <1>6, <1>7, <1>8

\* The handles that the program can name are those of ReferenceSemantics.
LEMMA NamedHandle ==
    ASSUME Mapped, NEW h, Named(h)
    PROVE  h \in References!Handles /\ h \in Handle
<1>1. CASE h \in Var
  BY <1>1 DEF References!Handles, Handle
<1>2. CASE h \in Obj /\ \E v \in Var : Ref(v) = h
  <2>1. PICK v \in Var : Ref(v) = h
    BY <1>2
  <2>2. Referent(v) = h /\ h # Null /\ v \in Handle
    BY <1>2, <2>1, HandlesAssumption DEF Mapped, Handle
  <2>3. ASSUME NEW S \in SUBSET (Obj \ {h}) PROVE ~References!Closed(S)
    BY <2>2, <2>3 DEF References!Closed
  <2>4. QED
    BY <1>2, <2>3 DEF References!Reachable, References!Handles, Handle
<1>3. QED
  BY <1>1, <1>2 DEF Named

\* An object without handles cannot be reached.
LEMMA Garbage ==
    ASSUME Mapped, NEW o \in Obj, Holders(o) = {}
    PROVE  o \notin References!Reachable
<1> PICK S : S = Obj \ {o}
  OBVIOUS
<1>1. ASSUME NEW h \in Var \cup S PROVE Referent(h) \in S \cup {Null} /\ h \in Handle
  <2>1. h \in Handle
    BY DEF Handle
  <2>2. Ref(h) # o
    BY <2>1, HandlesAssumption DEF Ref, Holders
  <2>3. QED
    BY <2>1, <2>2 DEF Mapped
<1>2. References!Closed(S)
  BY <1>1 DEF References!Closed
<1>3. QED
  BY <1>2 DEF References!Reachable

\* What the references are after a step.
refs == [h \in Handle |-> Referent(h)]
semantics == <<refs, weak, Alive>>

\* Where no handle changes what it refers to, the references stay.
LEMMA RefsKept ==
    ASSUME Mapped, Mapped', RefKept
    PROVE  refs' = refs
<1>1. \A h \in Handle : Referent(h)' = Referent(h)
  BY DEF Mapped, RefKept
<1>2. QED
  BY <1>1 DEF refs, Handle

\* Where one does, one reference changes.
LEMMA RefsBecome ==
    ASSUME Mapped, Mapped', NEW l \in Handle, NEW x, RefBecomes(l, x)
    PROVE  refs' = [refs EXCEPT ![l] = x]
<1>1. Referent(l)' = x /\ \A h \in Handle \ {l} : Referent(h)' = Referent(h)
  BY DEF Mapped, RefBecomes
<1>2. QED
  BY <1>1 DEF refs, Handle

\* The new object lives from the step that binds it, and the others until they are freed.
LEMMA AliveStep ==
    ASSUME CountingInv, CountingInv', Mapped, Mapped', NEW t \in Thread, Step(t)
    PROVE  /\ todo[t][1][1] = "free" => Alive' = Alive \ {todo[t][1][2]}
           /\ \A o : Len(todo[t]) = 1 /\ todo[t][1][1] = "bind" /\ o = todo[t][1][3] =>
                        o \notin Alive /\ Alive' = Alive \cup {o}
           /\ todo[t][1][1] # "free" /\ ~(Len(todo[t]) = 1 /\ todo[t][1][1] = "bind")
                 => Alive' = Alive
<1> DEFINE q == todo[t]
<1>1. /\ q # <<>> /\ Elsewhere(t)
      /\ Len(q) = 1 => todo'[t] = <<>>
      /\ Len(q) # 1 => todo'[t] # <<>> /\ Last(todo'[t]) = Last(q)
      /\ \A o \in Obj : life'[o] = "free" <=> life[o] = "free" \/ (q[1][1] = "free" /\ q[1][2] = o)
  BY StepTodo
<1>2. /\ q \in Seq(Steps) /\ Shape(q) /\ (q[1][1] = "free" => Len(q) # 1)
      /\ Len(q) = 1 => Last(q) = q[1]
  BY <1>1, NextStep, HeadShape, LastStep
<1>3. /\ Alive = {o \in Obj : life[o] # "free" /\ \A s \in Thread : ~Binds(s, o)}
      /\ Alive' = {o \in Obj : life'[o] # "free" /\ \A s \in Thread : ~Binds(s, o)'}
  BY DEF Mapped
<1>4. \A s \in Thread \ {t} : \A o : Binds(s, o)' <=> Binds(s, o)
  BY <1>1 DEF Binds, Elsewhere
<1>5. Len(q) # 1 => \A o : Binds(t, o)' <=> Binds(t, o)
  BY <1>1 DEF Binds
<1>6. Len(q) = 1 => \A o : ~Binds(t, o)' /\ (Binds(t, o) <=> q[1][1] = "bind" /\ q[1][3] = o)
  BY <1>1, <1>2 DEF Binds
<1> HIDE DEF q
<1>7. q[1][1] = "free" => Alive' = Alive \ {q[1][2]}
  BY <1>1, <1>2, <1>3, <1>4, <1>5
<1>8. q[1][1] # "free" /\ ~(Len(q) = 1 /\ q[1][1] = "bind") => Alive' = Alive
  BY <1>1, <1>3, <1>4, <1>5, <1>6
<1>9. ASSUME Len(q) = 1, q[1][1] = "bind", NEW o, o = q[1][3]
      PROVE  o \notin Alive /\ Alive' = Alive \cup {o}
  <2>1. BindInv(t, q[1][2], o)
    BY <1>1, <1>2, <1>9 DEF CountingInv, OperatorInv, q
  <2>2. o \in Obj /\ Home[o] = t /\ life[o] = "live"
    BY <2>1 DEF BindInv
  <2>3. ASSUME NEW s \in Thread \ {t} PROVE ~Binds(s, o)
    <3>1. Binds(s, o) => Home[o] = s
      BY DEF Binds, CountingInv, OperatorInv, BindInv
    <3>2. QED
      BY <2>2, <3>1
  <2>4. Binds(t, o) /\ \A s \in Thread : ~Binds(s, o)'
    BY <1>4, <1>6, <1>9, <2>3
  <2>5. life'[o] # "free" /\ \A x \in Obj : life'[x] = "free" <=> life[x] = "free"
    BY <1>1, <1>9, <2>2
  <2>6. \A x \in Obj : x # o => ((\A s \in Thread : ~Binds(s, x)') <=> (\A s \in Thread : ~Binds(s, x)))
    BY <1>4, <1>6, <1>9
  <2>7. QED
    BY <1>3, <2>2, <2>4, <2>5, <2>6
<1>10. QED
  BY <1>7, <1>8, <1>9 DEF q

\* Each step of an operator is one of ReferenceSemantics, or changes nothing there.
LEMMA StepRefines ==
    ASSUME CountingInv, CountingInv', Mapped, Mapped', NEW t \in Thread, Step(t), RefStep(t)
    PROVE  [References!Next]_semantics
<1> DEFINE q == todo[t]
<1>1. UNCHANGED weak /\ q # <<>> /\ q \in Seq(Steps) /\ Shape(q)
  BY StepTodo, NextStep
<1>2. CASE RefKept /\ ~(Len(q) = 1 /\ q[1][1] = "bind") /\ q[1][1] # "free"
  BY <1>1, <1>2, AliveStep, RefsKept DEF semantics
<1>3. CASE RefKept /\ q[1][1] = "free"
  <2>1. PICK o : o = q[1][2]
    OBVIOUS
  <2>2. o \in Obj /\ Frees(q, o)
    <3>1. 1 \in 1 .. Len(q) /\ q[1][2] \in Obj
      BY <1>1, <1>3, NextStep, HeadShape
    <3>2. QED
      BY <1>3, <2>1, <3>1 DEF Frees
  <2>3. Holders(o) = {}
    BY <2>2 DEF CountingInv, FreesInv, CountInv
  <2>4. o \notin References!Reachable
    BY <2>2, <2>3, Garbage
  <2>5. Alive' = Alive \ {o} /\ refs' = refs
    BY <1>3, <2>1, AliveStep, RefsKept
  <2>6. PICK none : none = {}
    OBVIOUS
  <2>7. \E garbage \in SUBSET (Obj \ References!Reachable) :
           refs' = [h \in DOMAIN refs |-> IF h \in garbage THEN Null ELSE refs[h]]
    <3>1. none \in SUBSET (Obj \ References!Reachable)
      BY <2>6
    <3>2. refs' = [h \in DOMAIN refs |-> IF h \in none THEN Null ELSE refs[h]]
      BY <2>5, <2>6 DEF refs
    <3>3. QED
      BY <3>1, <3>2
  <2>8. References!Collect
    BY <1>1, <2>4, <2>5, <2>7 DEF References!Collect, refs
  <2>9. QED
    BY <2>8 DEF References!Next
<1>4. CASE q[1][1] = "release" /\ \E h \in Handle : Writes(q, h) /\ RefBecomes(h, Null)
  <2>1. PICK h \in Handle : Writes(q, h) /\ RefBecomes(h, Null)
    BY <1>4
  <2>2. Alive' = Alive /\ refs' = [refs EXCEPT ![h] = Null]
    <3>1. ~(Len(q) = 1 /\ q[1][1] = "bind") /\ q[1][1] # "free"
      BY <1>4
    <3>2. QED
      BY <2>1, <3>1, AliveStep, RefsBecome
  <2>3. CASE Named(h)
    <3>1. h \in References!Handles
      BY <2>3, NamedHandle
    <3>2. References!Clear(h)
      BY <1>1, <2>2 DEF References!Clear, refs
    <3>3. QED
      BY <3>1, <3>2 DEF References!Next
  <2>4. CASE h \in Obj /\ life[h] = "dying"
    <3>1. Holders(h) = {}
      BY <2>4 DEF CountingInv, CountInv
    <3>2. h \in Obj \ References!Reachable
      BY <2>4, <3>1, Garbage
    <3>3. refs' = [x \in DOMAIN refs |-> IF x \in {h} THEN Null ELSE refs[x]]
      BY <2>1, <2>2 DEF refs
    <3>4. \E garbage \in SUBSET (Obj \ References!Reachable) :
             refs' = [x \in DOMAIN refs |-> IF x \in garbage THEN Null ELSE refs[x]]
      BY <3>2, <3>3
    <3>5. References!Collect
      BY <1>1, <2>2, <3>4 DEF References!Collect, refs
    <3>6. QED
      BY <3>5 DEF References!Next
  <2>5. QED
    <3>1. h = Target(t) /\ Safe(t, h, h) => Named(h)
      BY SafeNamed
    <3>2. QED
      BY <2>1, <2>3, <2>4, <3>1, Written
<1>5. CASE /\ Len(q) = 1 /\ q[1][1] \in {"own", "set"}
           /\ \E l, r \in Handle : Named(l) /\ Named(r) /\ RefBecomes(l, Ref(r))
  <2>1. PICK l \in Handle, r \in Handle : Named(l) /\ Named(r) /\ RefBecomes(l, Ref(r))
    BY <1>5
  <2>2. PICK x : x = Ref(r)
    OBVIOUS
  <2>3. Alive' = Alive /\ refs' = [refs EXCEPT ![l] = x]
    <3>1. ~(Len(q) = 1 /\ q[1][1] = "bind") /\ q[1][1] # "free"
      BY <1>5
    <3>2. RefBecomes(l, x)
      BY <2>1, <2>2
    <3>3. QED
      BY <3>1, <3>2, AliveStep, RefsBecome
  <2>4. refs[r] = x
    BY <2>2 DEF refs, Mapped
  <2>5. References!Assign(l, r)
    BY <1>1, <2>3, <2>4 DEF References!Assign, refs
  <2>6. l \in References!Handles /\ r \in References!Handles
    BY <2>1, NamedHandle
  <2>7. QED
    BY <2>5, <2>6 DEF References!Next
<1>6. CASE /\ Len(q) = 1 /\ q[1][1] = "bind"
           /\ \E l \in Handle, o \in Obj :
                 Named(l) /\ o = q[1][3] /\ BindInv(t, l, o) /\ RefBecomes(l, o)
  <2>1. PICK l \in Handle, o \in Obj :
           Named(l) /\ o = q[1][3] /\ BindInv(t, l, o) /\ RefBecomes(l, o)
    BY <1>6
  <2>2. o \notin Alive /\ Alive' = Alive \cup {o} /\ refs' = [refs EXCEPT ![l] = o]
    BY <1>6, <2>1, AliveStep, RefsBecome
  <2>3. l # o
    <3>1. ~\E v \in Var : Ref(v) = o
      BY <2>1, HandlesAssumption DEF BindInv, Ref, Holders, Handle
    <3>2. QED
      BY <2>1, <3>1, HandlesAssumption DEF Named
  <2>4. refs[o] = Null
    BY <2>1 DEF BindInv, refs, Mapped, Ref, Handle
  <2>5. refs' = [refs EXCEPT ![l] = o, ![o] = Null]
    BY <2>2, <2>3, <2>4 DEF refs
  <2>6. References!New(l, o)
    BY <1>1, <2>2, <2>5 DEF References!New, refs
  <2>7. l \in References!Handles
    BY <2>1, NamedHandle
  <2>8. QED
    BY <2>6, <2>7 DEF References!Next
<1>7. QED
  BY <1>2, <1>3, <1>4, <1>5, <1>6 DEF RefStep

\* Beginning an operator changes no reference and brings no object to life.
LEMMA BeginAlive ==
    ASSUME CountingInv, Mapped, Mapped', NEW t \in Thread, NEW q, Begin(t, q), UNCHANGED life,
           q = <<>> \/ Last(q)[1] # "bind"
    PROVE  Alive' = Alive
<1>1. todo[t] = <<>> /\ todo'[t] = q /\ Elsewhere(t)
  BY DEF Begin, Idle, Elsewhere, CountingInv, CountingType
<1>2. \A o : ~Binds(t, o) /\ ~Binds(t, o)'
  BY <1>1 DEF Binds
<1>3. \A s \in Thread \ {t} : \A o : Binds(s, o)' <=> Binds(s, o)
  BY <1>1 DEF Binds, Elsewhere
<1>4. /\ Alive = {o \in Obj : life[o] # "free" /\ \A s \in Thread : ~Binds(s, o)}
      /\ Alive' = {o \in Obj : life'[o] # "free" /\ \A s \in Thread : ~Binds(s, o)'}
  BY DEF Mapped
<1>5. QED
  BY <1>2, <1>3, <1>4

\* The new object of p = make(...) lives once p is bound to it.
LEMMA MakeObjectAlive ==
    ASSUME CountingInv, Mapped, Mapped', NEW t \in Thread, MakeObject(t)
    PROVE  Alive' = Alive
<1>1. PICK l \in Used(t), o \in Obj :
         /\ life[o] = "free"
         /\ Begin(t, AssignRawSteps(l, o))
         /\ life' = [life EXCEPT ![o] = "live"]
  BY DEF MakeObject
<1>2. PICK q : q = AssignRawSteps(l, o)
  OBVIOUS
<1>3. q # <<>> /\ Last(q) = <<"bind", l, o>>
  <2>1. l \in Handle
    BY UsedSafe
  <2>2. Len(q) = 3 /\ Last(q) = <<"bind", l, o>> /\ Len(<<>>) = 0
    BY <1>2, <2>1, AssignShape DEF AssignRawSteps
  <2>3. QED
    BY <2>2
<1>4. todo[t] = <<>> /\ todo'[t] = q /\ Elsewhere(t)
  BY <1>1, <1>2 DEF Begin, Idle, Elsewhere, CountingInv, CountingType
<1>5. Binds(t, o)' /\ \A x : ~Binds(t, x) /\ (x # o => ~Binds(t, x)')
  BY <1>3, <1>4 DEF Binds
<1>6. \A s \in Thread \ {t} : \A x : Binds(s, x)' <=> Binds(s, x)
  BY <1>4 DEF Binds, Elsewhere
<1>7. \A x \in Obj \ {o} : life'[x] = life[x]
  BY <1>1 DEF CountingInv, CountingType
<1>8. /\ Alive = {x \in Obj : life[x] # "free" /\ \A s \in Thread : ~Binds(s, x)}
      /\ Alive' = {x \in Obj : life'[x] # "free" /\ \A s \in Thread : ~Binds(s, x)'}
  BY DEF Mapped
<1>9. QED
  BY <1>1, <1>5, <1>6, <1>7, <1>8

\* An assignment that begins changes nothing yet.
LEMMA AssignPtrAlive ==
    ASSUME CountingInv, Mapped, Mapped', NEW t \in Thread, AssignPtr(t)
    PROVE  Alive' = Alive
<1>1. PICK l \in Used(t), r \in Used(t) : Begin(t, AssignSteps(l, r)) /\ UNCHANGED life
  BY DEF AssignPtr
<1>2. Last(AssignSteps(l, r))[1] # "bind"
  <2>1. l \in Handle /\ r \in Handle
    BY UsedSafe
  <2>2. Last(AssignSteps(l, r)) = <<"set", l, r>>
    BY <2>1, AssignShape DEF AssignSteps
  <2>3. QED
    BY <2>2
<1>3. PICK q : q = AssignSteps(l, r)
  OBVIOUS
<1>4. QED
  BY <1>1, <1>2, <1>3, BeginAlive

\* Nor does a copy or a cast.
LEMMA CopyPtrAlive ==
    ASSUME CountingInv, Mapped, Mapped', NEW t \in Thread, CopyPtr(t)
    PROVE  Alive' = Alive
<1>1. PICK l \in Own(t), r \in Used(t), kind \in {Kind[o] : o \in Obj} :
         Begin(t, CopySteps(l, r)) \/ Begin(t, CastSteps(l, r, kind))
  BY DEF CopyPtr
<1>2. PICK q : Begin(t, q) /\ (q = <<>> \/ q = CopySteps(l, r))
  BY <1>1 DEF CastSteps
<1>3. Last(CopySteps(l, r))[1] # "bind"
  <2>1. l \in Handle /\ r \in Handle
    BY UsedSafe DEF Own, Handle
  <2>2. Last(CopySteps(l, r)) = <<"own", l>>
    BY <2>1, CopyShape DEF CopySteps
  <2>3. QED
    BY <2>2
<1>4. UNCHANGED life
  BY DEF CopyPtr
<1>5. QED
  BY <1>2, <1>3, <1>4, BeginAlive

\* Nor does the destructor.
LEMMA DestroyPtrAlive ==
    ASSUME CountingInv, Mapped, Mapped', NEW t \in Thread, DestroyPtr(t)
    PROVE  Alive' = Alive
<1>1. PICK l \in Own(t) : Begin(t, DestructorSteps(l)) /\ UNCHANGED life
  BY DEF DestroyPtr
<1>2. Last(DestructorSteps(l))[1] # "bind"
  <2>1. Last(DestructorSteps(l)) = <<"clear", l>>
    BY DestructorShape DEF Own, Handle
  <2>2. QED
    BY <2>1
<1>3. PICK q : q = DestructorSteps(l)
  OBVIOUS
<1>4. QED
  BY <1>1, <1>2, <1>3, BeginAlive

\* Nor does a lock.
LEMMA LockWeakAlive ==
    ASSUME CountingInv, Mapped, Mapped', NEW t \in Thread, LockWeak(t)
    PROVE  Alive' = Alive
<1>1. PICK l \in Own(t), w \in Weak :
         weak[w] \in Held(t, l) /\ Begin(t, LockSteps(l, w)) /\ UNCHANGED life
  BY DEF LockWeak
<1>2. PICK x : x = weak[w]
  OBVIOUS
<1>3. Last(<<<<"put", l, x>>, <<"own", l>>>>)[1] # "bind"
  <2>1. l \in Handle /\ x \in Handle
    BY <1>1, <1>2 DEF Held, Own, Handle, CountingInv, CountingType
  <2>2. Last(<<<<"put", l, x>>, <<"own", l>>>>) = <<"own", l>>
    BY <2>1, CopyShape
  <2>3. QED
    BY <2>2
<1>4. PICK q : q = <<<<"put", l, x>>, <<"own", l>>>>
  OBVIOUS
<1>5. Begin(t, q)
  BY <1>1, <1>2, <1>4 DEF LockSteps
<1>6. QED
  BY <1>1, <1>3, <1>4, <1>5, BeginAlive

\* A weak pointer takes what the program can reach.
LEMMA MakeWeakRefines ==
    ASSUME CountingInv, CountingInv', Mapped, Mapped', DOMAIN weak = Weak,
           NEW t \in Thread, MakeWeak(t)
    PROVE  References!Next
<1>1. PICK l \in Used(t), w \in Weak :
         todo[t] = <<>> /\ weak' = [weak EXCEPT ![w] = ptr[l]]
  BY DEF MakeWeak, Idle
<1>2. UNCHANGED <<ptr, count, life, todo, misuse>>
  BY DEF MakeWeak
<1>3. refs' = refs /\ Alive' = Alive
  <2>1. RefKept
    BY <1>2, CountingSame
  <2>2. Alive' = Alive
    BY <1>2 DEF Alive
  <2>3. QED
    BY <2>1, <2>2, RefsKept
<1>4. l \in Handle /\ Safe(t, l, l)
  BY UsedSafe
<1>5. l \in References!Handles
  <2>1. Named(l)
    BY <1>1, <1>4, SafeNamed
  <2>2. QED
    BY <2>1, NamedHandle
<1>6. refs[l] = ptr[l]
  <2>1. ~Missing(l)
    <3>1. ASSUME NEW s \in Thread, Writes(todo[s], l) PROVE FALSE
      <4>1. ~Writes(todo[t], l)
        BY <1>1, EmptyShape
      <4>2. PICK h : h = l
        OBVIOUS
      <4>3. QED
        BY <1>1, <1>4, <3>1, <4>1, SafeHandle
    <3>2. QED
      BY <3>1 DEF Missing, Misses
  <2>2. QED
    BY <1>4, <2>1 DEF refs, Mapped, Ref
<1>7. References!ToWeak(w, l)
  BY <1>1, <1>3, <1>6 DEF References!ToWeak, refs
<1>8. QED
  BY <1>5, <1>7 DEF References!Next

\* Every step of a thread is one of ReferenceSemantics, or changes nothing there.
LEMMA NextRefines ==
    ASSUME CountingInv, CountingInv', Mapped, Mapped', DOMAIN weak = Weak, [Next]_vars
    PROVE  [References!Next]_semantics
<1>1. CASE UNCHANGED vars
  <2>1. RefKept /\ UNCHANGED weak
    BY <1>1, CountingSame DEF vars
  <2>2. Alive' = Alive
    BY <1>1 DEF Alive, vars
  <2>3. QED
    BY <2>1, <2>2, RefsKept DEF semantics
<1>2. ASSUME NEW t \in Thread, Step(t) PROVE [References!Next]_semantics
  BY <1>2, StepCounts, StepRefines
<1>3. ASSUME NEW t \in Thread,
             MakeObject(t) \/ AssignPtr(t) \/ CopyPtr(t) \/ DestroyPtr(t) \/ LockWeak(t)
      PROVE  UNCHANGED semantics
  <2>1. RefKept
    BY <1>3, MakeObjectCounts, AssignPtrCounts, CopyPtrCounts, DestroyPtrCounts, LockWeakCounts
  <2>2. Alive' = Alive
    BY <1>3, MakeObjectAlive, AssignPtrAlive, CopyPtrAlive, DestroyPtrAlive, LockWeakAlive
  <2>3. UNCHANGED weak
    BY <1>3 DEF MakeObject, AssignPtr, CopyPtr, DestroyPtr, LockWeak
  <2>4. QED
    BY <2>1, <2>2, <2>3, RefsKept DEF semantics
<1>4. QED
  BY <1>1, <1>2, <1>3, MakeWeakRefines DEF Next, ThreadNext

\* The weak pointers are those of the program.
LEMMA WeakDomain == Spec => [](DOMAIN weak = Weak)
<1>1. Init => DOMAIN weak = Weak
  BY DEF Init
<1>2. DOMAIN weak = Weak /\ [Next]_vars => (DOMAIN weak = Weak)'
  BY DEF vars, Next, ThreadNext, Step, MakeObject, AssignPtr, CopyPtr, DestroyPtr, MakeWeak, LockWeak
<1>3. QED
  BY <1>1, <1>2, PTL DEF Spec

\* ReferencesKept: what Ptr does, with its counts and its operators in steps that
\* interleave, is what references do: an assignment copies the reference, nothing else
\* changes one, a weak pointer locks only what can be reached, and only objects that can be
\* reached no more are destroyed.
THEOREM ReferencesImplemented == Spec => ReferencesKept
<1>1. Spec => []CountingInv
  BY CountingInit, CountingNext, PTL DEF Spec
<1>2. CountingInv => Mapped
  BY MappedState
<1>3. CountingInv /\ CountingInv' /\ Mapped /\ Mapped' /\ DOMAIN weak = Weak /\ [Next]_vars
         => [References!Next]_semantics
  BY NextRefines
<1>4. Spec => [][References!Next]_semantics
  BY <1>1, <1>2, <1>3, WeakDomain, PTL DEF Spec
<1>5. QED
  BY <1>4, PTL DEF ReferencesKept, References!Spec, semantics, refs

-----------------------------------------------------------------------------
(* Boxed values: values in places.                                          *)

Kinds == Types \cup {"String"}
Nullables == {n \in [kind : Types, raw : Value \cup {Nothing}] :
                 n.raw = Nothing => NullableClass[n.kind].empty = Nothing}
Through(s, f) == [i \in DOMAIN s |-> f[s[i]]]
Maps(q, s, f, T) == q \in Seq(T) /\ Len(q) = Len(s) /\ \A i \in 1 .. Len(s) : q[i] = f[s[i]]
OneToOne(f, S) == \A x, y \in S : f[x] = f[y] => x = y
\* What the items of a list are outside it.
Outside == [v \in Value |-> [kind |-> ListKind, value |-> v]]
Listed(s) == Through(s, Outside)

PlaceTypes ==
    /\ nullable \in Nullables
    /\ object \in Objects \cup {Nothing} /\ variant \in Objects \cup {Nothing}
    /\ list \in Seq(Value)
WantedIsHeld ==
    wanted = [nullable |-> Content(nullable), object |-> Val(object), variant |-> Val(variant),
              list |-> Listed(list)]
PlacesInv == PlaceTypes /\ WantedIsHeld

\* The sentinels of the Nullables.
LEMMA EmptyOf ==
    /\ Types = {"int", "int64_t", "double", "bool", "LocalMinute", "LocalDate"}
    /\ \A kind \in Types :
          NullableClass[kind].empty = IF kind \in {"int", "int64_t", "double"} THEN Empty ELSE Nothing
    /\ Sentinels = {"int", "int64_t", "double"}
<1>1. Types = {"int", "int64_t", "double", "bool", "LocalMinute", "LocalDate"}
  BY DEF Types, NullableClass
<1>2. ASSUME NEW kind \in Types
      PROVE  NullableClass[kind].empty = IF kind \in {"int", "int64_t", "double"} THEN Empty ELSE Nothing
  BY <1>1 DEF NullableClass, IntNullable, LongNullable, DoubleNullable, BoolNullable, Optional
<1>3. Empty # Nothing
  BY ValueAssumption
<1> QED
  BY <1>1, <1>2, <1>3 DEF Sentinels

\* The values used of a type are values.
LEMMA NativeValues ==
    ASSUME NEW kind
    PROVE  Native(kind) \subseteq Value
BY ValueAssumption DEF Native

\* An object and its parts.
LEMMA ObjectParts ==
    ASSUME NEW o \in Objects
    PROVE  /\ o.kind \in Kinds /\ o.value \in Value
           /\ o.kind \notin HashedByAddress => o.address = 0
           /\ o = Boxed(o.kind, o.value, o.address)
           /\ o # Nothing
           /\ Val(o) = [kind |-> o.kind, value |-> o.value]
           /\ Val(o) # Nothing
<1>1. PICK kind \in Kinds, v \in Value : o \in Box(kind, v)
  BY DEF Objects, Kinds
<1>2. PICK a \in IF kind \in HashedByAddress THEN Address ELSE {0} : o = Boxed(kind, v, a)
  BY <1>1 DEF Box
<1>3. o.kind = kind /\ o.value = v /\ o.address = a
  BY <1>2 DEF Boxed
<1>4. o # Nothing /\ [kind |-> kind, value |-> v] # Nothing
  BY ValueAssumption DEF Kinds
<1> QED
  BY <1>1, <1>2, <1>3, <1>4 DEF Val

\* A value that is boxed.
LEMMA BoxHolds ==
    ASSUME NEW kind \in Kinds, NEW v \in Value, NEW o \in Box(kind, v)
    PROVE  o \in Objects /\ o.kind = kind /\ o.value = v /\ Val(o) = [kind |-> kind, value |-> v]
<1>1. o \in Objects
  BY DEF Objects, Kinds
<1>2. o.kind = kind /\ o.value = v
  BY DEF Box, Boxed
<1> QED
  BY <1>1, <1>2, ObjectParts

\* A new object is one of those it is chosen from.
LEMMA PlacedIsOne ==
    ASSUME NEW objects
    PROVE  Placed(objects) \subseteq objects
BY DEF Placed

\* A Nullable that is made of a value or of none.
LEMMA NullableHolds ==
    ASSUME NEW kind \in Types
    PROVE  /\ NullOf(kind) \in Nullables /\ Content(NullOf(kind)) = Nothing
           /\ \A v \in Value :
                 /\ NullableOf(kind, v) \in Nullables
                 /\ Content(NullableOf(kind, v)) = LessSentinel([kind |-> kind, value |-> v])
<1>1. Empty \in Value /\ Nothing \notin Value
  BY ValueAssumption
<1>2. NullableClass[kind].empty \in Value \cup {Nothing}
  BY <1>1, EmptyOf
<1>3. NullOf(kind) \in Nullables
  BY <1>2 DEF NullOf, Nullables
<1>4. Content(NullOf(kind)) = Nothing
  BY DEF NullOf, Content, HasValue
<1>5. ASSUME NEW v \in Value
      PROVE  /\ NullableOf(kind, v) \in Nullables
             /\ Content(NullableOf(kind, v)) = LessSentinel([kind |-> kind, value |-> v])
  <2>1. NullableOf(kind, v) \in Nullables
    BY <1>1 DEF NullableOf, Nullables
  <2>2. [kind |-> kind, value |-> v] # Nothing
    BY ValueAssumption
  <2>3. HasValue(NullableOf(kind, v)) <=> v # NullableClass[kind].empty
    BY DEF HasValue, NullableOf, NullOf
  <2>4. v = NullableClass[kind].empty <=> kind \in Sentinels /\ v = Empty
    BY <1>1, EmptyOf
  <2> QED
    BY <2>1, <2>2, <2>3, <2>4 DEF Content, LessSentinel, NullableOf
<1> QED
  BY <1>3, <1>4, <1>5

\* A Nullable that is boxed.
LEMMA BoxNullableHolds ==
    ASSUME NEW n \in Nullables, NEW o \in BoxNullable(n)
    PROVE  o \in Objects \cup {Nothing} /\ Val(o) = Content(n)
<1>1. CASE HasValue(n)
  <2>1. n.raw # NullableClass[n.kind].empty
    BY <1>1 DEF HasValue, NullOf, Nullables
  <2>2. n.raw \in Value /\ n.kind \in Kinds
    BY <2>1 DEF Nullables, Kinds
  <2> QED
    BY <1>1, <2>2, BoxHolds DEF BoxNullable, Content
<1>2. CASE ~HasValue(n)
  BY <1>2 DEF BoxNullable, Content, Val
<1> QED
  BY <1>1, <1>2

\* An object that is put into a Nullable.
LEMMA UnboxedHolds ==
    ASSUME NEW o \in Objects \cup {Nothing}, NEW kind \in Types, NEW n \in Unboxed(o, kind)
    PROVE  n \in Nullables /\ Content(n) = LessSentinel(Val(o))
<1>1. CASE o = Nothing
  BY <1>1, NullableHolds DEF Unboxed, Val, LessSentinel
<1>2. CASE o # Nothing
  <2>1. o \in Objects /\ o.kind = kind /\ n = NullableOf(kind, o.value)
    BY <1>2 DEF Unboxed, Unboxes
  <2> QED
    BY <2>1, ObjectParts, NullableHolds
<1> QED
  BY <1>1, <1>2

\* The text of a Variant read again.
LEMMA ReparsedHolds ==
    ASSUME NEW x \in Objects \cup {Nothing}, NEW kind \in ValueTypes,
           x = Nothing \/ x.kind = kind, NEW y \in Parsed(ToText(x), kind)
    PROVE  /\ y \in Objects \cup {Nothing}
           /\ Val(y) = LET w == Val(x) IN
                 IF w # Nothing /\ w.kind = "String" /\ w.value = 0 THEN Nothing
                 ELSE IF w # Nothing /\ w.kind = "double" /\ w.value = 1
                      THEN [w EXCEPT !.value = 0] ELSE w
<1>1. CASE x = Nothing
  BY <1>1 DEF Parsed, ToText, Val
<1>2. CASE x # Nothing
  <2> DEFINE read == IF kind = "double" /\ x.value = 1 THEN 0 ELSE x.value
  <2>1. x \in Objects /\ x.kind = kind /\ kind \in Kinds
    BY <1>2, ObjectParts
  <2>2. x.value \in Value /\ Val(x) = [kind |-> kind, value |-> x.value] /\ Val(x) # Nothing
    BY <2>1, ObjectParts
  <2>3. read \in Value
    BY <2>2, ValueAssumption
  <2>4. ToText(x).kind = kind /\ ToText(x).value = read /\ ToText(x) # Nothing
    <3>1. ToText(x) = Boxed(kind, read, x.address)
      BY <1>2, <2>1, ObjectParts DEF ToText, Boxed
    <3>2. x.address \in IF kind \in HashedByAddress THEN Address ELSE {0}
      BY <2>1 DEF Objects, Box, Boxed
    <3>3. ToText(x) \in Box(kind, read)
      BY <3>1, <3>2 DEF Box
    <3> QED
      BY <2>1, <2>3, <3>1, <3>3, BoxHolds, ObjectParts DEF Boxed
  <2>5. CASE kind = "String" /\ x.value = 0
    BY <2>2, <2>4, <2>5 DEF Parsed, Val
  <2>6. CASE ~(kind = "String" /\ x.value = 0)
    <3>1. y \in Box(kind, read)
      BY <2>4, <2>6 DEF Parsed
    <3>2. y \in Objects /\ Val(y) = [kind |-> kind, value |-> read]
      BY <2>1, <2>3, <3>1, BoxHolds
    <3> QED
      BY <2>2, <2>6, <3>2
  <2> QED
    BY <2>5, <2>6
<1> QED
  BY <1>1, <1>2

\* A sequence, each item of it mapped.
LEMMA ThroughItems ==
    ASSUME NEW S, NEW T, NEW f \in [S -> T], NEW s \in Seq(S)
    PROVE  Maps(Through(s, f), s, f, T)
<1>1. DOMAIN s = 1 .. Len(s) /\ Len(s) \in Nat /\ \A i \in 1 .. Len(s) : s[i] \in S
  OBVIOUS
<1>2. Through(s, f) \in [1 .. Len(s) -> T]
  BY <1>1 DEF Through
<1>3. Through(s, f) \in Seq(T) /\ Len(Through(s, f)) = Len(s)
  BY <1>1, <1>2
<1>4. ASSUME NEW i \in 1 .. Len(s)
      PROVE  Through(s, f)[i] = f[s[i]]
  BY <1>1 DEF Through
<1> QED
  BY <1>3, <1>4 DEF Maps

\* A sequence whose items are those mapped is the sequence mapped.
LEMMA ThroughSame ==
    ASSUME NEW S, NEW T, NEW f \in [S -> T], NEW s \in Seq(S), NEW q, Maps(q, s, f, T)
    PROVE  q = Through(s, f)
<1>1. q \in Seq(T) /\ Len(q) = Len(s) /\ \A i \in 1 .. Len(s) : q[i] = f[s[i]]
  BY DEF Maps
<1>2. DOMAIN s = 1 .. Len(s) /\ q = [i \in 1 .. Len(s) |-> q[i]]
  BY <1>1
<1> QED
  BY <1>1, <1>2 DEF Through

\* An item appended before the mapping or after it.
LEMMA ThroughAppend ==
    ASSUME NEW S, NEW T, NEW f \in [S -> T], NEW s \in Seq(S), NEW v \in S
    PROVE  Append(Through(s, f), f[v]) = Through(Append(s, v), f)
<1>1. Append(s, v) \in Seq(S) /\ Len(Append(s, v)) = Len(s) + 1
  OBVIOUS
<1>n. Len(s) \in Nat
  OBVIOUS
<1> DEFINE z == Through(s, f)
<1>0. Maps(z, s, f, T)
  BY ThroughItems
<1>x. z \in Seq(T)
  BY <1>0 DEF Maps
<1>y. Len(z) = Len(s)
  BY <1>0 DEF Maps
<1>z. ASSUME NEW i \in 1 .. Len(s)
      PROVE  z[i] = f[s[i]]
  BY <1>0 DEF Maps
<1> HIDE DEF z
<1>v. f[v] \in T
  OBVIOUS
<1>2. Append(z, f[v]) \in Seq(T) /\ Len(Append(z, f[v])) = Len(s) + 1
  BY <1>x, <1>y, <1>z, <1>v
<1>3. ASSUME NEW i \in 1 .. Len(s) + 1
      PROVE  Append(z, f[v])[i] = f[Append(s, v)[i]]
  <2>1. CASE i = Len(s) + 1
    BY <1>x, <1>y, <1>z, <1>v, <2>1
  <2>2. CASE i \in 1 .. Len(s)
    BY <1>x, <1>y, <1>z, <1>v, <2>2
  <2>3. i = Len(s) + 1 \/ i \in 1 .. Len(s)
    BY <1>n
  <2> QED
    BY <2>1, <2>2, <2>3
<1> DEFINE a == Append(s, v)
           b == Append(z, f[v])
<1>a. a \in Seq(S) /\ b \in Seq(T) /\ Len(b) = Len(a) /\ \A i \in 1 .. Len(a) : b[i] = f[a[i]]
  BY <1>1, <1>2, <1>3
<1> HIDE DEF a, b
<1>b. Maps(b, a, f, T)
  BY <1>a DEF Maps
<1>4. b = Through(a, f)
  BY <1>a, <1>b, ThroughSame
<1> QED
  BY <1>4 DEF z, a, b

\* A set of numbers that is not empty has a least one.
LEMMA LeastNatural ==
    ASSUME NEW S \in SUBSET Nat, S # {}
    PROVE  \E x \in S : \A y \in S : x <= y
<1>1. PICK x \in S : \A y \in S : ~(<<y, x>> \in OpToRel(<, Nat))
  BY NatLessThanWellFounded, WFMin, Zenon
<1>2. \A y \in S : ~(y < x)
  BY <1>1 DEF OpToRel
<1> QED
  BY <1>2

\* The least of a set of numbers is one of them.
LEMMA LeastIsIn ==
    ASSUME NEW S \in SUBSET Nat, S # {}
    PROVE  Min(S) \in S
BY LeastNatural DEF Min

\* What is left of a sequence without one item.
LEMMA WithoutItem ==
    ASSUME NEW S, NEW s \in Seq(S), NEW k \in 1 .. Len(s)
    PROVE  /\ RemoveAt(s, k) \in Seq(S) /\ Len(RemoveAt(s, k)) = Len(s) - 1
           /\ \A i \in 1 .. Len(s) - 1 : RemoveAt(s, k)[i] = IF i < k THEN s[i] ELSE s[i + 1]
<1>1. /\ SubSeq(s, 1, k - 1) \in Seq(S) /\ Len(SubSeq(s, 1, k - 1)) = k - 1
      /\ \A i \in 1 .. k - 1 : SubSeq(s, 1, k - 1)[i] = s[i]
  OBVIOUS
<1>2. /\ SubSeq(s, k + 1, Len(s)) \in Seq(S) /\ Len(SubSeq(s, k + 1, Len(s))) = Len(s) - k
      /\ \A i \in 1 .. Len(s) - k : SubSeq(s, k + 1, Len(s))[i] = s[i + k]
  OBVIOUS
<1> DEFINE a == SubSeq(s, 1, k - 1)
           b == SubSeq(s, k + 1, Len(s))
<1> HIDE DEF a, b
<1>3. /\ a \in Seq(S) /\ Len(a) = k - 1 /\ \A i \in 1 .. k - 1 : a[i] = s[i]
      /\ b \in Seq(S) /\ Len(b) = Len(s) - k /\ \A i \in 1 .. Len(s) - k : b[i] = s[i + k]
  BY <1>1, <1>2 DEF a, b
<1>4. a \o b \in Seq(S) /\ Len(a \o b) = Len(s) - 1
  <2>1. a \in Seq(S) /\ b \in Seq(S)
    BY <1>3
  <2>2. a \o b \in Seq(S) /\ Len(a \o b) = Len(a) + Len(b)
    BY <2>1, ConcatProperties, Zenon
  <2>3. Len(s) \in Nat /\ Len(a) = k - 1 /\ Len(b) = Len(s) - k
    BY <1>3
  <2> QED
    BY <2>2, <2>3
<1>5. ASSUME NEW i \in 1 .. Len(s) - 1
      PROVE  (a \o b)[i] = IF i < k THEN s[i] ELSE s[i + 1]
  <2>1. CASE i < k
    BY <1>3, <2>1
  <2>2. CASE i >= k
    <3>1. (a \o b)[i] = b[i - Len(a)] /\ i - (k - 1) \in 1 .. Len(s) - k
      BY <1>3, <2>2
    <3>2. b[i - (k - 1)] = s[i - (k - 1) + k]
      BY <1>3, <3>1
    <3> QED
      BY <1>3, <2>2, <3>1, <3>2
  <2> QED
    BY <1>3, <2>1, <2>2
<1> QED
  BY <1>4, <1>5 DEF RemoveAt, a, b

\* The first item that is equal is the same before and after the mapping.
LEMMA ThroughRemove ==
    ASSUME NEW S, NEW T, NEW f \in [S -> T], OneToOne(f, S),
           NEW s \in Seq(S), NEW v \in S
    PROVE  /\ RemoveFirst(s, v) \in Seq(S)
           /\ RemoveFirst(Through(s, f), f[v]) = Through(RemoveFirst(s, v), f)
<1> DEFINE q == Through(s, f)
           at == {i \in 1 .. Len(s) : s[i] = v}
<1>0. Maps(q, s, f, T)
  BY ThroughItems
<1>1. q \in Seq(T) /\ Len(q) = Len(s) /\ \A i \in 1 .. Len(s) : q[i] = f[s[i]]
  BY <1>0 DEF Maps
<1> HIDE DEF q
<1>2. at = {i \in 1 .. Len(q) : q[i] = f[v]}
  BY <1>1 DEF OneToOne
<1>3. CASE at = {}
  BY <1>2, <1>3 DEF RemoveFirst, q
<1>4. CASE at # {}
  <2> DEFINE k == Min(at)
  <2>1. k \in 1 .. Len(s)
    <3>1. at \in SUBSET Nat
      OBVIOUS
    <3>2. k \in at
      BY <1>4, <3>1, LeastIsIn
    <3> QED
      BY <3>2
  <2>2. RemoveFirst(s, v) = RemoveAt(s, k)
    BY <1>4 DEF RemoveFirst, SelectInSeq
  <2>3. RemoveFirst(q, f[v]) = RemoveAt(q, k)
    BY <1>2, <1>4 DEF RemoveFirst, SelectInSeq
  <2> HIDE DEF k, at
  <2>4. /\ RemoveAt(s, k) \in Seq(S) /\ Len(RemoveAt(s, k)) = Len(s) - 1
        /\ \A i \in 1 .. Len(s) - 1 : RemoveAt(s, k)[i] = IF i < k THEN s[i] ELSE s[i + 1]
    BY <2>1, WithoutItem
  <2>5. /\ RemoveAt(q, k) \in Seq(T) /\ Len(RemoveAt(q, k)) = Len(s) - 1
        /\ \A i \in 1 .. Len(s) - 1 : RemoveAt(q, k)[i] = IF i < k THEN q[i] ELSE q[i + 1]
    <3>1. k \in 1 .. Len(q)
      BY <1>1, <2>1
    <3> QED
      BY <1>1, <3>1, WithoutItem
  <2>6. \A i \in 1 .. Len(s) - 1 : RemoveAt(q, k)[i] = f[RemoveAt(s, k)[i]]
    BY <1>1, <2>4, <2>5
  <2> DEFINE a == RemoveAt(s, k)
             b == RemoveAt(q, k)
  <2>7. a \in Seq(S) /\ b \in Seq(T) /\ Len(b) = Len(a) /\ \A i \in 1 .. Len(a) : b[i] = f[a[i]]
    BY <2>4, <2>5, <2>6
  <2> HIDE DEF a, b
  <2>m. Maps(b, a, f, T)
    BY <2>7 DEF Maps
  <2>8. b = Through(a, f)
    BY <2>7, <2>m, ThroughSame
  <2> QED
    BY <2>2, <2>3, <2>4, <2>8 DEF q, a, b
<1> QED
  BY <1>3, <1>4

\* Boxing the items of a list keeps them apart.
LEMMA OutsideMaps ==
    /\ Outside \in [Value -> [kind : Kinds, value : Value]] /\ OneToOne(Outside, Value)
    /\ \A v \in Value : Outside[v] = [kind |-> ListKind, value |-> v]
<1>1. ListKind \in Kinds
  BY ValueAssumption DEF Kinds
<1> QED
  BY <1>1 DEF Outside, OneToOne

-----------------------------------------------------------------------------
(* A step keeps what the places hold.                                        *)

\* What is wanted of each place, and what a step asks of one place.
LEMMA WantedFields ==
    ASSUME WantedIsHeld
    PROVE  /\ wanted.nullable = Content(nullable) /\ wanted.object = Val(object)
           /\ wanted.variant = Val(variant) /\ wanted.list = Listed(list)
           /\ \A x :
                 /\ [wanted EXCEPT !.nullable = x] =
                       [nullable |-> x, object |-> Val(object), variant |-> Val(variant), list |-> Listed(list)]
                 /\ [wanted EXCEPT !.object = x] =
                       [nullable |-> Content(nullable), object |-> x, variant |-> Val(variant), list |-> Listed(list)]
                 /\ [wanted EXCEPT !.variant = x] =
                       [nullable |-> Content(nullable), object |-> Val(object), variant |-> x, list |-> Listed(list)]
                 /\ [wanted EXCEPT !.list = x] =
                       [nullable |-> Content(nullable), object |-> Val(object), variant |-> Val(variant), list |-> x]
BY DEF WantedIsHeld

\* A step that gives the Nullable what is wanted of it.
LEMMA NullableStep ==
    ASSUME PlacesInv, nullable' \in Nullables, wanted' = [wanted EXCEPT !.nullable = Content(nullable')],
           UNCHANGED <<object, variant, list>>
    PROVE  PlacesInv'
BY WantedFields DEF PlacesInv, PlaceTypes, WantedIsHeld

\* The same for the Object.
LEMMA ObjectStep ==
    ASSUME PlacesInv, object' \in Objects \cup {Nothing}, wanted' = [wanted EXCEPT !.object = Val(object')],
           UNCHANGED <<nullable, variant, list>>
    PROVE  PlacesInv'
BY WantedFields DEF PlacesInv, PlaceTypes, WantedIsHeld

\* The same for the Variant.
LEMMA VariantStep ==
    ASSUME PlacesInv, variant' \in Objects \cup {Nothing}, wanted' = [wanted EXCEPT !.variant = Val(variant')],
           UNCHANGED <<nullable, object, list>>
    PROVE  PlacesInv'
BY WantedFields DEF PlacesInv, PlaceTypes, WantedIsHeld

\* The same for the List.
LEMMA ListStep ==
    ASSUME PlacesInv, list' \in Seq(Value), wanted' = [wanted EXCEPT !.list = Listed(list')],
           UNCHANGED <<nullable, object, variant>>
    PROVE  PlacesInv'
BY WantedFields DEF PlacesInv, PlaceTypes, WantedIsHeld

\* Nullable::operator= and the constructor from an Object keep what is held.
LEMMA NullableActions ==
    ASSUME PlacesInv, AssignNullable \/ UnboxToNullable
    PROVE  PlacesInv'
<1>1. CASE AssignNullable
  <2>0. PICK kind \in Types : \E v \in Native(kind) \cup {Nothing} :
          /\ nullable' = IF v = Nothing THEN NullOf(kind) ELSE NullableOf(kind, v)
          /\ wanted' = [wanted EXCEPT !.nullable =
                IF v = Nothing THEN Nothing ELSE LessSentinel([kind |-> kind, value |-> v])]
          /\ UNCHANGED <<object, variant, list>>
    BY <1>1 DEF AssignNullable
  <2>1. PICK v \in Native(kind) \cup {Nothing} :
          /\ nullable' = IF v = Nothing THEN NullOf(kind) ELSE NullableOf(kind, v)
          /\ wanted' = [wanted EXCEPT !.nullable =
                IF v = Nothing THEN Nothing ELSE LessSentinel([kind |-> kind, value |-> v])]
          /\ UNCHANGED <<object, variant, list>>
    BY <2>0
  <2>2. CASE v = Nothing
    <3>1. nullable' \in Nullables /\ Content(nullable') = Nothing
      BY <2>1, <2>2, NullableHolds
    <3> QED
      BY <2>1, <2>2, <3>1, NullableStep
  <2>3. CASE v # Nothing
    <3>1. v \in Value
      BY <2>3, NativeValues
    <3>2. nullable' \in Nullables /\ Content(nullable') = LessSentinel([kind |-> kind, value |-> v])
      BY <2>1, <2>3, <3>1, NullableHolds
    <3> QED
      BY <2>1, <2>3, <3>2, NullableStep
  <2> QED
    BY <2>2, <2>3
<1>2. CASE UnboxToNullable
  <2>1. PICK kind \in Types :
          /\ nullable' \in Unboxed(object, kind)
          /\ wanted' = [wanted EXCEPT !.nullable = LessSentinel(wanted.object)]
          /\ UNCHANGED <<object, variant, list>>
    BY <1>2 DEF UnboxToNullable
  <2>2. nullable' \in Nullables /\ Content(nullable') = LessSentinel(Val(object))
    BY <2>1, UnboxedHolds DEF PlacesInv, PlaceTypes
  <2>3. wanted.object = Val(object)
    BY WantedFields DEF PlacesInv
  <2> QED
    BY <2>1, <2>2, <2>3, NullableStep
<1> QED
  BY <1>1, <1>2

\* So do the constructors and assignments of Object, Variant::value and get_item.
LEMMA ObjectActions ==
    ASSUME PlacesInv, BoxFromNullable \/ AssignObject \/ TakeVariant \/ GetItem
    PROVE  PlacesInv'
<1>1. CASE BoxFromNullable
  <2>1. object' \in BoxNullable(nullable)
    BY <1>1, PlacedIsOne DEF BoxFromNullable
  <2>2. object' \in Objects \cup {Nothing} /\ Val(object') = Content(nullable)
    BY <2>1, BoxNullableHolds DEF PlacesInv, PlaceTypes
  <2> QED
    BY <1>1, <2>2, WantedFields, ObjectStep DEF BoxFromNullable, PlacesInv
<1>2. CASE AssignObject
  <2>0. PICK kind \in Kinds : \E v \in Native(kind) :
          /\ object' \in Placed(Box(kind, v)) \cup (Box(kind, v) \cap (hashSet \cup DOMAIN dictionary))
          /\ wanted' = [wanted EXCEPT !.object = [kind |-> kind, value |-> v]]
          /\ UNCHANGED <<nullable, variant, list>>
    BY <1>2 DEF AssignObject, Kinds
  <2>1. PICK v \in Native(kind) :
          /\ object' \in Placed(Box(kind, v)) \cup (Box(kind, v) \cap (hashSet \cup DOMAIN dictionary))
          /\ wanted' = [wanted EXCEPT !.object = [kind |-> kind, value |-> v]]
          /\ UNCHANGED <<nullable, variant, list>>
    BY <2>0
  <2>2. object' \in Box(kind, v) /\ v \in Value
    BY <2>1, PlacedIsOne, NativeValues
  <2>3. object' \in Objects /\ Val(object') = [kind |-> kind, value |-> v]
    BY <2>2, BoxHolds
  <2> QED
    BY <2>1, <2>3, ObjectStep
<1>3. CASE TakeVariant
  BY <1>3, WantedFields, ObjectStep DEF TakeVariant, PlacesInv, PlaceTypes
<1>4. CASE GetItem
  <2>1. PICK i \in DOMAIN list :
          /\ object' \in Placed(Box(ListKind, list[i]))
          /\ wanted' = [wanted EXCEPT !.object = wanted.list[i]]
          /\ UNCHANGED <<nullable, variant, list>>
    BY <1>4 DEF GetItem
  <2>2. list[i] \in Value /\ object' \in Box(ListKind, list[i]) /\ ListKind \in Kinds
    BY <2>1, PlacedIsOne, ValueAssumption DEF PlacesInv, PlaceTypes, Kinds
  <2>3. object' \in Objects /\ Val(object') = [kind |-> ListKind, value |-> list[i]]
    BY <2>2, BoxHolds
  <2>4. wanted.list[i] = [kind |-> ListKind, value |-> list[i]]
    BY <2>2, WantedFields, OutsideMaps DEF PlacesInv, Listed, Through
  <2> QED
    BY <2>1, <2>3, <2>4, ObjectStep
<1> QED
  BY <1>1, <1>2, <1>3, <1>4

\* So do the constructor of Variant, and to_string and parse.
LEMMA VariantActions ==
    ASSUME PlacesInv, MakeVariant \/ ReparseVariant
    PROVE  PlacesInv'
<1>1. CASE MakeVariant
  <2>1. object = Nothing \/ object.kind \in ValueTypes
    BY ObjectParts, EmptyOf DEF PlacesInv, PlaceTypes, Kinds, ValueTypes
  <2>2. variant' = object
    BY <1>1, <2>1 DEF MakeVariant
  <2> QED
    BY <1>1, <2>2, WantedFields, VariantStep DEF MakeVariant, PlacesInv, PlaceTypes
<1>2. CASE ReparseVariant
  <2>1. PICK kind \in ValueTypes :
          /\ variant = Nothing \/ variant.kind = kind
          /\ variant' \in Placed(Parsed(ToText(variant), kind))
          /\ wanted' = [wanted EXCEPT !.variant =
                LET w == wanted.variant IN
                IF w # Nothing /\ w.kind = "String" /\ w.value = 0 THEN Nothing
                ELSE IF w # Nothing /\ w.kind = "double" /\ w.value = 1
                     THEN [w EXCEPT !.value = 0] ELSE w]
          /\ UNCHANGED <<nullable, object, list>>
    BY <1>2 DEF ReparseVariant
  <2>2. variant' \in Parsed(ToText(variant), kind)
    BY <2>1, PlacedIsOne
  <2>3. wanted.variant = Val(variant)
    BY WantedFields DEF PlacesInv
  <2>4. /\ variant' \in Objects \cup {Nothing}
        /\ Val(variant') = LET w == wanted.variant IN
              IF w # Nothing /\ w.kind = "String" /\ w.value = 0 THEN Nothing
              ELSE IF w # Nothing /\ w.kind = "double" /\ w.value = 1
                   THEN [w EXCEPT !.value = 0] ELSE w
    BY <2>1, <2>2, <2>3, ReparsedHolds DEF PlacesInv, PlaceTypes
  <2> QED
    BY <2>1, <2>4, VariantStep
<1> QED
  BY <1>1, <1>2

\* So do add_object, set_item and remove of a List.
LEMMA ListActions ==
    ASSUME PlacesInv, AddObject \/ SetItem \/ RemoveFromList
    PROVE  PlacesInv'
<1> DEFINE item(v) == [kind |-> ListKind, value |-> v]
<1>1. list \in Seq(Value) /\ wanted.list = Through(list, Outside) /\ wanted.object = Val(object)
  BY WantedFields DEF PlacesInv, PlaceTypes, Listed
<1>2. Unboxes(object, ListKind) => object.value \in Value /\ wanted.object = Outside[object.value]
  <2> SUFFICES ASSUME Unboxes(object, ListKind)
               PROVE  object.value \in Value /\ wanted.object = Outside[object.value]
    OBVIOUS
  <2>1. object \in Objects /\ object.kind = ListKind
    BY DEF Unboxes, PlacesInv, PlaceTypes
  <2> QED
    BY <1>1, <2>1, ObjectParts, OutsideMaps
<1> DEFINE T == [kind : Kinds, value : Value]
<1>o. Outside \in [Value -> T] /\ OneToOne(Outside, Value)
  BY OutsideMaps
<1> HIDE DEF T
<1>l. list \in Seq(Value)
  BY <1>1
<1>a. ASSUME NEW v \in Value
      PROVE  Append(Through(list, Outside), Outside[v]) = Through(Append(list, v), Outside)
  BY <1>o, <1>l, ThroughAppend
<1>e. ASSUME NEW i \in DOMAIN list, NEW v \in Value
      PROVE  [Through(list, Outside) EXCEPT ![i] = Outside[v]] = Through([list EXCEPT ![i] = v], Outside)
  BY DEF Through
<1>r. ASSUME NEW v \in Value
      PROVE  /\ RemoveFirst(list, v) \in Seq(Value)
             /\ RemoveFirst(Through(list, Outside), Outside[v]) = Through(RemoveFirst(list, v), Outside)
  BY <1>o, <1>l, ThroughRemove, Zenon
<1>3. CASE AddObject
  <2>1. /\ list' = Append(list, object.value) /\ object.value \in Value
        /\ wanted.object = Outside[object.value]
    BY <1>2, <1>3 DEF AddObject
  <2>2. Append(wanted.list, wanted.object) = Through(list', Outside)
    BY <1>1, <2>1, <1>a
  <2>3. list' \in Seq(Value)
    BY <1>1, <2>1
  <2> QED
    BY <1>3, <2>2, <2>3, ListStep DEF AddObject, Listed
<1>4. CASE SetItem
  <2>1. PICK i \in DOMAIN list :
          /\ Unboxes(object, ListKind)
          /\ list' = [list EXCEPT ![i] = object.value]
          /\ wanted' = [wanted EXCEPT !.list = [wanted.list EXCEPT ![i] = wanted.object]]
          /\ UNCHANGED <<nullable, object, variant>>
    BY <1>4 DEF SetItem
  <2>2. [wanted.list EXCEPT ![i] = wanted.object] = Through(list', Outside)
    BY <1>1, <1>2, <2>1, <1>e
  <2>3. list' \in Seq(Value)
    BY <1>1, <1>2, <2>1
  <2> QED
    BY <2>1, <2>2, <2>3, ListStep DEF Listed
<1>5. CASE RemoveFromList
  <2>1. PICK v \in Native(ListKind) :
          /\ list' = RemoveFirst(list, v)
          /\ wanted' = [wanted EXCEPT !.list = RemoveFirst(wanted.list, item(v))]
          /\ UNCHANGED <<nullable, object, variant>>
    BY <1>5 DEF RemoveFromList
  <2>2. v \in Value /\ item(v) = Outside[v]
    BY NativeValues, OutsideMaps
  <2>3. list' \in Seq(Value) /\ RemoveFirst(wanted.list, item(v)) = Through(list', Outside)
    BY <1>1, <2>1, <2>2, <1>r
  <2> QED
    BY <2>1, <2>3, ListStep DEF Listed
<1> QED
  BY <1>3, <1>4, <1>5

\* Steps of the containers leave the places alone.
LEMMA ContainersAlone ==
    ASSUME PlacesInv, UNCHANGED <<places, wanted>>
    PROVE  PlacesInv'
BY DEF places, PlacesInv, PlaceTypes, WantedIsHeld

-----------------------------------------------------------------------------
(* Objects in containers.                                                    *)

ContainersInv ==
    /\ hashSet \subseteq Objects /\ IsFiniteSet(hashSet)
    /\ members = {Item(o) : o \in hashSet}
    /\ DOMAIN dictionary \subseteq Objects /\ IsFiniteSet(DOMAIN dictionary)
    /\ entries = [k \in {Item(o) : o \in DOMAIN dictionary} |-> entries[k]]
    /\ DOMAIN entries = {Item(o) : o \in DOMAIN dictionary}
    /\ \A o \in DOMAIN dictionary : entries[Item(o)] = dictionary[o]

\* Steps of the places leave the containers alone.
LEMMA ContainersKept ==
    ASSUME ContainersInv, UNCHANGED containers
    PROVE  ContainersInv'
BY DEF containers, ContainersInv

\* Objects that are one to those who look for them are one object, but for their addresses.
LEMMA ItemsApart ==
    ASSUME NEW a \in Objects, NEW b \in Objects, Item(a) = Item(b)
    PROVE  a = b
<1>1. Item(a).kind = a.kind /\ Item(a).value = a.value /\ Item(b).kind = b.kind /\ Item(b).value = b.value
  BY DEF Item
<1>2. CASE a.kind \in HashedByAddress
  BY <1>1, <1>2 DEF Item
<1>3. CASE a.kind \notin HashedByAddress
  BY <1>1, <1>3, ObjectParts
<1> QED
  BY <1>2, <1>3

\* The library finds the object itself or none.
LEMMA FindsItself ==
    ASSUME NEW o \in Objects, NEW keys \in SUBSET Objects
    PROVE  Find(o, keys) = keys \cap {o}
<1>1. ASSUME NEW e \in keys, HashCode(e) = HashCode(o), Equals(o, e)
      PROVE  e = o
  <2>1. e.kind = o.kind /\ e.value = o.value
    BY <1>1 DEF Equals
  <2>2. e.address = o.address
    <3>1. CASE o.kind \in HashedByAddress
      BY <1>1, <2>1, <3>1 DEF HashCode
    <3>2. CASE o.kind \notin HashedByAddress
      BY <2>1, <3>2, ObjectParts
    <3> QED
      BY <3>1, <3>2
  <2> QED
    BY <2>1, <2>2, ObjectParts
<1> QED
  BY <1>1 DEF Find, Equals

\* As many objects as items.
LEMMA ItemsOfObjects ==
    ASSUME NEW X \in SUBSET Objects, IsFiniteSet(X)
    PROVE  /\ IsFiniteSet({Item(o) : o \in X})
           /\ Cardinality(X) = Cardinality({Item(o) : o \in X})
<1> DEFINE Y == {Item(o) : o \in X}
           f == [o \in X |-> Item(o)]
<1>1. f \in Bijection(X, Y)
  <2>1. f \in [X -> Y]
    OBVIOUS
  <2>2. \A a, b \in X : f[a] = f[b] => a = b
    BY ItemsApart
  <2>3. \A y \in Y : \E x \in X : f[x] = y
    OBVIOUS
  <2> QED
    BY <2>1, <2>2, <2>3 DEF Bijection, Injection, Surjection, IsInjective
<1>2. ExistsBijection(X, Y)
  BY <1>1 DEF ExistsBijection
<1> QED
  BY <1>2, FS_Bijection

\* HashSet::add and remove.
LEMMA SetActions ==
    ASSUME PlacesInv, ContainersInv, AddToSet \/ RemoveFromSet
    PROVE  ContainersInv'
<1>1. object \in Objects
  BY DEF AddToSet, RemoveFromSet, PlacesInv, PlaceTypes
<1>2. Find(object, hashSet) = hashSet \cap {object}
  BY <1>1, FindsItself DEF ContainersInv
<1>3. UNCHANGED <<dictionary, entries>>
  BY DEF AddToSet, RemoveFromSet
<1>4. hashSet' \subseteq Objects /\ IsFiniteSet(hashSet') /\ members' = {Item(o) : o \in hashSet'}
  <2>1. CASE AddToSet
    <3>1. hashSet' = hashSet \cup {object} /\ members' = members \cup {Item(object)}
      BY <1>2, <2>1 DEF AddToSet, Inserted
    <3> QED
      BY <1>1, <3>1, FS_AddElement DEF ContainersInv
  <2>2. CASE RemoveFromSet
    <3>1. hashSet' = hashSet \ {object} /\ members' = members \ {Item(object)}
      BY <1>2, <2>2 DEF RemoveFromSet
    <3>2. \A o \in hashSet : Item(o) = Item(object) <=> o = object
      BY <1>1, ItemsApart DEF ContainersInv
    <3> QED
      BY <3>1, <3>2, FS_Subset DEF ContainersInv
  <2> QED
    BY <2>1, <2>2
<1> QED
  BY <1>3, <1>4 DEF ContainersInv

\* The other container of a set operation is of objects, and finite.
LEMMA OthersAreObjects ==
    ASSUME NEW other \in Others
    PROVE  /\ \A i \in DOMAIN other : other[i] \in Objects
           /\ IsFiniteSet(DOMAIN other) /\ DOMAIN other \subseteq Nat
           /\ ItemsOf(other) = {Item(o) : o \in {other[i] : i \in DOMAIN other}}
<1> DEFINE X == UNION {Box(kind, v) : kind \in Types \ HashedByAddress, v \in {0, 1}}
<1>1. X \subseteq Objects
  BY ValueAssumption DEF Objects
<1> HIDE DEF X
<1>2. PICK n \in 0 .. 2 : other \in [1 .. n -> X]
  <2>1. Others = UNION {[1 .. n -> X] : n \in 0 .. 2}
    BY DEF Others, X
  <2> QED
    BY <2>1
<1>3. DOMAIN other = 1 .. n /\ \A i \in 1 .. n : other[i] \in X
  BY <1>2
<1>4. IsFiniteSet(1 .. n)
  BY FS_Interval
<1>5. 1 .. n \subseteq Nat
  OBVIOUS
<1>6. ItemsOf(other) = {Item(o) : o \in {other[i] : i \in DOMAIN other}}
  BY DEF ItemsOf
<1> QED
  BY <1>1, <1>3, <1>4, <1>5, <1>6

\* HashSet::except_with removes the items of the other container, and no more.
LEMMA ExceptAction ==
    ASSUME PlacesInv, ContainersInv, ExceptWith
    PROVE  ContainersInv'
<1>1. PICK other \in Others :
        /\ hashSet' = hashSet \ UNION {Find(other[i], hashSet) : i \in DOMAIN other}
        /\ members' = members \ ItemsOf(other)
        /\ UNCHANGED <<dictionary, entries>>
  BY DEF ExceptWith
<1> DEFINE X == {other[i] : i \in DOMAIN other}
<1>2. X \subseteq Objects /\ ItemsOf(other) = {Item(o) : o \in X}
  BY OthersAreObjects
<1>3. UNION {Find(other[i], hashSet) : i \in DOMAIN other} = hashSet \cap X
  <2>1. \A i \in DOMAIN other : Find(other[i], hashSet) = hashSet \cap {other[i]}
    BY <1>2, FindsItself DEF ContainersInv
  <2> QED
    BY <2>1
<1> HIDE DEF X
<1>4. hashSet' = hashSet \ X /\ members' = members \ {Item(o) : o \in X}
  BY <1>1, <1>2, <1>3
<1>5. \A o \in hashSet, x \in X : Item(o) = Item(x) => o = x
  BY <1>2, ItemsApart DEF ContainersInv
<1>6. members' = {Item(o) : o \in hashSet'}
  BY <1>4, <1>5 DEF ContainersInv
<1>7. hashSet' \subseteq Objects /\ IsFiniteSet(hashSet')
  BY <1>4, FS_Subset DEF ContainersInv
<1> QED
  BY <1>1, <1>6, <1>7 DEF ContainersInv

\* Each item in both is added once: where it comes first.
LEMMA IntersectAction ==
    ASSUME PlacesInv, ContainersInv, IntersectWith
    PROVE  ContainersInv'
<1> DEFINE left(other) == {i \in DOMAIN other : Find(other[i], hashSet) # {}}
           added(other) == {i \in left(other) :
                               Find(other[i], {other[j] : j \in {k \in left(other) : k < i}}) = {}}
<1>1. PICK other \in Others :
        /\ hashSet' = {other[i] : i \in added(other)}
        /\ members' = members \cap ItemsOf(other)
        /\ UNCHANGED <<dictionary, entries>>
  BY DEF IntersectWith
<1> DEFINE X == {other[i] : i \in DOMAIN other}
           L == left(other)
           A == added(other)
<1>2. /\ X \subseteq Objects /\ ItemsOf(other) = {Item(o) : o \in X}
      /\ IsFiniteSet(DOMAIN other) /\ DOMAIN other \subseteq Nat
  BY OthersAreObjects
<1>3. L = {i \in DOMAIN other : other[i] \in hashSet}
  <2>1. \A i \in DOMAIN other : Find(other[i], hashSet) = hashSet \cap {other[i]}
    BY <1>2, FindsItself DEF ContainersInv
  <2> QED
    BY <2>1
<1>4. A = {i \in L : \A j \in L : j < i => other[j] # other[i]}
  <2> DEFINE before(i) == {other[j] : j \in {k \in L : k < i}}
  <2>1. \A i \in L : Find(other[i], before(i)) = before(i) \cap {other[i]}
    <3>1. \A i \in L : other[i] \in Objects /\ before(i) \in SUBSET Objects
      BY <1>2
    <3> HIDE DEF before, L
    <3> QED
      BY <3>1, FindsItself
  <2>2. A = {i \in L : Find(other[i], before(i)) = {}}
    OBVIOUS
  <2> HIDE DEF L, A
  <2>3. A = {i \in L : before(i) \cap {other[i]} = {}}
    BY <2>1, <2>2
  <2> QED
    BY <2>3
<1> HIDE DEF L, A
<1>5. hashSet' = hashSet \cap X
  <2>1. hashSet' = {other[i] : i \in A}
    BY <1>1 DEF A
  <2>2. ASSUME NEW o \in hashSet \cap X
        PROVE  \E i \in A : other[i] = o
    <3> DEFINE I == {i \in L : other[i] = o}
    <3>1. I # {} /\ I \subseteq Nat
      BY <1>2, <1>3
    <3>2. PICK n \in I : \A m \in I : n <= m
      BY <3>1, LeastNatural
    <3>3. \A j \in L : j < n => other[j] # other[n]
      BY <1>2, <1>3, <3>2
    <3> QED
      BY <1>4, <3>2, <3>3
  <2> QED
    BY <1>3, <1>4, <2>1, <2>2
<1> HIDE DEF X
<1>6. members' = {Item(o) : o \in hashSet'}
  <2>1. \A o \in hashSet, x \in X : Item(o) = Item(x) => o = x
    BY <1>2, ItemsApart DEF ContainersInv
  <2>2. members' = {Item(o) : o \in hashSet} \cap {Item(o) : o \in X}
    BY <1>1, <1>2 DEF ContainersInv
  <2> QED
    BY <1>5, <2>1, <2>2
<1>7. hashSet' \subseteq Objects /\ IsFiniteSet(hashSet')
  BY <1>5, FS_Subset DEF ContainersInv
<1> QED
  BY <1>1, <1>6, <1>7 DEF ContainersInv

\* A value assigned to a key that is there or not.
LEMMA EntryAssigned ==
    ASSUME ContainersInv, object \in Objects, NEW v,
           dictionary' = With(dictionary, object, v), entries' = With(entries, Item(object), v),
           UNCHANGED <<hashSet, members>>
    PROVE  ContainersInv'
<1>1. /\ DOMAIN dictionary' = DOMAIN dictionary \cup {object}
      /\ \A o \in DOMAIN dictionary' : dictionary'[o] = IF o = object THEN v ELSE dictionary[o]
  BY DEF With
<1>2. /\ DOMAIN entries' = DOMAIN entries \cup {Item(object)}
      /\ \A k \in DOMAIN entries' : entries'[k] = IF k = Item(object) THEN v ELSE entries[k]
      /\ entries' = [k \in DOMAIN entries' |-> entries'[k]]
  BY DEF With
<1>3. DOMAIN dictionary' \subseteq Objects /\ IsFiniteSet(DOMAIN dictionary')
  BY <1>1, FS_AddElement DEF ContainersInv
<1>4. DOMAIN entries' = {Item(o) : o \in DOMAIN dictionary'}
  BY <1>1, <1>2 DEF ContainersInv
<1>5. ASSUME NEW o \in DOMAIN dictionary'
      PROVE  entries'[Item(o)] = dictionary'[o]
  <2>1. Item(o) = Item(object) <=> o = object
    BY <1>3, ItemsApart
  <2>2. Item(o) \in DOMAIN entries'
    BY <1>4
  <2> QED
    BY <1>1, <1>2, <2>1, <2>2 DEF ContainersInv
<1> QED
  BY <1>2, <1>3, <1>4, <1>5 DEF ContainersInv

\* Dictionary::add, operator[] and remove.
LEMMA DictionaryActions ==
    ASSUME PlacesInv, ContainersInv, AddEntry \/ SetEntry \/ RemoveEntry
    PROVE  ContainersInv'
<1>1. object \in Objects
  BY DEF AddEntry, SetEntry, RemoveEntry, PlacesInv, PlaceTypes
<1>2. Find(object, DOMAIN dictionary) = DOMAIN dictionary \cap {object}
  BY <1>1, FindsItself DEF ContainersInv
<1>3. Item(object) \in DOMAIN entries <=> object \in DOMAIN dictionary
  BY <1>1, ItemsApart DEF ContainersInv
<1>4. UNCHANGED <<hashSet, members>>
  BY DEF AddEntry, SetEntry, RemoveEntry
<1>5. CASE AddEntry
  <2>1. PICK v \in {0, 1} :
          /\ dictionary' = Added(object, v)
          /\ entries' = IF Item(object) \in DOMAIN entries THEN entries
                        ELSE With(entries, Item(object), v)
    BY <1>5 DEF AddEntry
  <2>2. CASE object \in DOMAIN dictionary
    <3>1. dictionary' = dictionary /\ entries' = entries
      BY <1>2, <1>3, <2>1, <2>2 DEF Added
    <3> QED
      BY <1>4, <3>1 DEF ContainersInv
  <2>3. CASE object \notin DOMAIN dictionary
    <3>1. dictionary' = With(dictionary, object, v) /\ entries' = With(entries, Item(object), v)
      BY <1>2, <1>3, <2>1, <2>3 DEF Added
    <3> QED
      BY <1>1, <1>4, <3>1, EntryAssigned
  <2> QED
    BY <2>2, <2>3
<1>6. CASE SetEntry
  <2>1. PICK v \in {0, 1} :
          /\ dictionary' = LET found == Find(object, DOMAIN dictionary)
                               key == IF found = {} THEN object ELSE CHOOSE e \in found : TRUE
                           IN  With(dictionary, key, v)
          /\ entries' = With(entries, Item(object), v)
    BY <1>6 DEF SetEntry
  <2>2. dictionary' = With(dictionary, object, v)
    <3>1. CASE object \in DOMAIN dictionary
      <4>1. Find(object, DOMAIN dictionary) = {object}
        BY <1>2, <3>1
      <4>2. (CHOOSE e \in {object} : TRUE) = object
        OBVIOUS
      <4> QED
        BY <2>1, <4>1, <4>2
    <3>2. CASE object \notin DOMAIN dictionary
      BY <1>2, <2>1, <3>2
    <3> QED
      BY <3>1, <3>2
  <2> QED
    BY <1>1, <1>4, <2>1, <2>2, EntryAssigned
<1>7. CASE RemoveEntry
  <2>1. /\ dictionary' = Without(dictionary, DOMAIN dictionary \cap {object})
        /\ entries' = Without(entries, {Item(object)})
    BY <1>2, <1>7 DEF RemoveEntry
  <2>2. /\ DOMAIN dictionary' = DOMAIN dictionary \ {object}
        /\ \A o \in DOMAIN dictionary' : dictionary'[o] = dictionary[o]
    BY <2>1 DEF Without
  <2>3. /\ DOMAIN entries' = DOMAIN entries \ {Item(object)}
        /\ \A k \in DOMAIN entries' : entries'[k] = entries[k]
        /\ entries' = [k \in DOMAIN entries' |-> entries'[k]]
    BY <2>1 DEF Without
  <2>4. \A o \in DOMAIN dictionary : Item(o) = Item(object) <=> o = object
    BY <1>1, ItemsApart DEF ContainersInv
  <2>5. DOMAIN entries' = {Item(o) : o \in DOMAIN dictionary'}
    BY <2>2, <2>3, <2>4 DEF ContainersInv
  <2>6. \A o \in DOMAIN dictionary' : entries'[Item(o)] = dictionary'[o]
    BY <2>2, <2>3, <2>5 DEF ContainersInv
  <2>7. DOMAIN dictionary' \subseteq Objects /\ IsFiniteSet(DOMAIN dictionary')
    BY <2>2, FS_Subset DEF ContainersInv
  <2> QED
    BY <1>4, <2>3, <2>5, <2>6, <2>7 DEF ContainersInv
<1> QED
  BY <1>5, <1>6, <1>7

-----------------------------------------------------------------------------
(* What the places and the containers hold, in every state.                  *)

BoxedInv == PlacesInv /\ ContainersInv

\* At first all places are empty, and so is the Dictionary.
LEMMA BoxedInitially ==
    ASSUME ValuesBoxed
    PROVE  BoxedInv
<1>1. nullable \in Nullables /\ Content(nullable) = Nothing
  <2>1. "int" \in Types
    BY EmptyOf
  <2> QED
    BY <2>1, NullableHolds DEF ValuesBoxed
<1>2. list \in Seq(Value) /\ Listed(list) = <<>>
  BY DEF ValuesBoxed, Listed, Through
<1>3. Val(object) = Nothing /\ Val(variant) = Nothing
  BY DEF ValuesBoxed, Val
<1>4. PlacesInv
  BY <1>1, <1>2, <1>3 DEF ValuesBoxed, PlacesInv, PlaceTypes, WantedIsHeld
<1>5. hashSet \subseteq Objects /\ IsFiniteSet(hashSet)
  <2>1. Box("int", 0) \subseteq Objects /\ Box("bool", 0) \subseteq Objects
    BY EmptyOf, ValueAssumption, BoxHolds DEF Kinds
  <2>2. Box("int", 0) = {Boxed("int", 0, 0)} /\ Box("bool", 0) = {Boxed("bool", 0, 0)}
    BY DEF Box, HashedByAddress
  <2>3. IsFiniteSet({}) /\ IsFiniteSet({Boxed("int", 0, 0)})
    BY FS_EmptySet, FS_Singleton
  <2>4. IsFiniteSet({Boxed("int", 0, 0)} \cup {Boxed("bool", 0, 0)})
    BY <2>3, FS_AddElement
  <2> QED
    BY <2>1, <2>2, <2>3, <2>4 DEF ValuesBoxed
<1>6. dictionary = <<>> /\ entries = <<>> /\ members = {Item(o) : o \in hashSet}
  BY DEF ValuesBoxed
<1>7. DOMAIN dictionary = {} /\ DOMAIN entries = {} /\ entries = [k \in {} |-> entries[k]]
  BY <1>6
<1>8. ContainersInv
  BY <1>5, <1>6, <1>7, FS_EmptySet DEF ContainersInv
<1> QED
  BY <1>4, <1>8 DEF BoxedInv

\* Every operation keeps the invariant.
LEMMA BoxedKept ==
    ASSUME BoxedInv, [BoxedNext]_boxedVars
    PROVE  BoxedInv'
<1> USE DEF BoxedInv
<1>1. CASE AssignNullable \/ UnboxToNullable
  <2>1. UNCHANGED containers
    BY <1>1 DEF AssignNullable, UnboxToNullable
  <2> QED
    BY <1>1, <2>1, NullableActions, ContainersKept
<1>2. CASE BoxFromNullable \/ AssignObject \/ TakeVariant \/ GetItem
  <2>1. UNCHANGED containers
    BY <1>2 DEF BoxFromNullable, AssignObject, TakeVariant, GetItem
  <2> QED
    BY <1>2, <2>1, ObjectActions, ContainersKept
<1>3. CASE MakeVariant \/ ReparseVariant
  <2>1. UNCHANGED containers
    BY <1>3 DEF MakeVariant, ReparseVariant
  <2> QED
    BY <1>3, <2>1, VariantActions, ContainersKept
<1>4. CASE AddObject \/ SetItem \/ RemoveFromList
  <2>1. UNCHANGED containers
    BY <1>4 DEF AddObject, SetItem, RemoveFromList
  <2> QED
    BY <1>4, <2>1, ListActions, ContainersKept
<1>5. CASE AddToSet \/ RemoveFromSet \/ ExceptWith \/ IntersectWith
  <2>1. UNCHANGED <<places, wanted>>
    BY <1>5 DEF AddToSet, RemoveFromSet, ExceptWith, IntersectWith
  <2> QED
    BY <1>5, <2>1, SetActions, ExceptAction, IntersectAction, ContainersAlone
<1>6. CASE AddEntry \/ SetEntry \/ RemoveEntry
  <2>1. UNCHANGED <<places, wanted>>
    BY <1>6 DEF AddEntry, SetEntry, RemoveEntry
  <2> QED
    BY <1>6, <2>1, DictionaryActions, ContainersAlone
<1>7. CASE UNCHANGED boxedVars
  <2>1. UNCHANGED <<places, wanted>> /\ UNCHANGED containers
    BY <1>7 DEF boxedVars, places, containers
  <2> QED
    BY <2>1, ContainersAlone, ContainersKept
<1> QED
  BY <1>1, <1>2, <1>3, <1>4, <1>5, <1>6, <1>7 DEF BoxedNext

\* The invariant holds in every state.
LEMMA BoxedIsKept == BoxedSpec => []BoxedInv
<1>1. ValuesBoxed => BoxedInv
  BY BoxedInitially
<1>2. BoxedInv /\ [BoxedNext]_boxedVars => BoxedInv'
  BY BoxedKept
<1> QED
  BY <1>1, <1>2, PTL DEF BoxedSpec

\* The invariant says that values are kept,
LEMMA HeldAsWanted ==
    ASSUME BoxedInv
    PROVE  ValuesKept
<1>1. Listed(list) = [i \in DOMAIN list |-> [kind |-> ListKind, value |-> list[i]]]
  <2>1. \A i \in DOMAIN list : Outside[list[i]] = [kind |-> ListKind, value |-> list[i]]
    BY OutsideMaps DEF BoxedInv, PlacesInv, PlaceTypes
  <2> QED
    BY <2>1 DEF Listed, Through
<1> QED
  BY <1>1, WantedFields DEF BoxedInv, PlacesInv, ValuesKept

\* that equal Variants are of one type and value,
LEMMA EqualVariants ==
    ASSUME BoxedInv
    PROVE  VariantsByValue
<1> SUFFICES ASSUME variant # Nothing, object # Nothing
             PROVE  /\ VariantEquals(variant, object) <=> VariantEquals(object, variant)
                    /\ VariantEquals(variant, object)
                          /\ variant.kind \notin HashedByAddress \cup {"double"} =>
                          Val(variant) = Val(object) /\ HashCode(variant) = HashCode(object)
  BY DEF VariantsByValue
<1>1. {variant.value, object.value} = {object.value, variant.value}
  OBVIOUS
<1>2. VariantEquals(variant, object) <=> VariantEquals(object, variant)
  BY <1>1 DEF VariantEquals
<1>3. VariantEquals(variant, object) /\ variant.kind \notin HashedByAddress \cup {"double"} =>
          Val(variant) = Val(object) /\ HashCode(variant) = HashCode(object)
  BY DEF VariantEquals, Val, HashCode
<1> QED
  BY <1>2, <1>3

\* and that the containers hold values.
LEMMA ContainersAreSets ==
    ASSUME BoxedInv
    PROVE  ContainersByValue
<1> DEFINE D == DOMAIN dictionary
           K == {Item(o) : o \in D}
<1>1. Cardinality(hashSet) = Cardinality(members) /\ {Item(o) : o \in hashSet} = members
  BY ItemsOfObjects DEF BoxedInv, ContainersInv
<1>2. Cardinality(D) = Cardinality(DOMAIN entries) /\ DOMAIN entries = K
  BY ItemsOfObjects DEF BoxedInv, ContainersInv
<1>3. ASSUME NEW k \in K
      PROVE  dictionary[CHOOSE e \in D : Item(e) = k] = entries[k]
  <2>1. PICK o \in D : Item(o) = k
    OBVIOUS
  <2>2. (CHOOSE e \in D : Item(e) = k) \in D /\ Item(CHOOSE e \in D : Item(e) = k) = k
    BY <2>1
  <2> QED
    BY <2>2 DEF BoxedInv, ContainersInv
<1>4. [k \in K |-> dictionary[CHOOSE e \in D : Item(e) = k]] = [k \in K |-> entries[k]]
  BY <1>3
<1>5. entries = [k \in K |-> entries[k]]
  BY DEF BoxedInv, ContainersInv
<1> QED
  BY <1>1, <1>2, <1>4, <1>5, EqualVariants DEF ContainersByValue

\* However a value moves between a Nullable, an Object, a Variant and a List, it keeps its
\* type and value (object.cpp:70, nullable.hpp:68, variant.cpp:30, list.hpp:117), but for
\* the sentinels and what a text cannot hold.
THEOREM ValuesAreKept == BoxedSpec => []ValuesKept
<1>1. BoxedInv => ValuesKept
  BY HeldAsWanted
<1> QED
  BY <1>1, BoxedIsKept, PTL

\* A HashSet is a set and a Dictionary a function of values, whatever objects they are boxed
\* in and whatever types share a hash code (hash_set.hpp:67, dictionary.hpp:77), however
\* they were filled, intersected and emptied.
THEOREM ContainersHoldValues == BoxedSpec => []ContainersByValue
<1>1. BoxedInv => ContainersByValue
  BY ContainersAreSets
<1> QED
  BY <1>1, BoxedIsKept, PTL
=============================================================================
