----------------------------- MODULE MCObjects ------------------------------
(* Either threads share objects, or a program moves values between containers. *)
EXTENDS ReferenceCounting, BoxedValues

MCOwner == [v1 |-> "t1", v2 |-> "t2", v3 |-> "t2", w1 |-> "t2"]
MCHome == [o1 |-> "t1", o2 |-> "t1"]
MCKind == [o1 |-> "Base", o2 |-> "Other"]
MCShared == [v1 |-> "o1", v2 |-> "o1"]

MCInit == Init /\ ValuesBoxed /\ (moves = 0 \/ (moves = MaxMoves + 1 /\ hashSet = {}))
MCNext ==
    \/ moves > MaxMoves /\ Next /\ UNCHANGED boxedVars
    \/ BoxedNext /\ UNCHANGED vars
MCSpec == MCInit /\ [][MCNext]_<<vars, boxedVars>> /\ \A t \in Thread : WF_vars(Step(t))
=============================================================================
