---------------------------- MODULE MCOrderedIds ----------------------------
(* OrderedIds for TLC: data sources s1 and s2 share process p1, s3 is alone  *)
(* in p2.                                                                    *)
EXTENDS OrderedIds, TLC

CONSTANTS p1, p2, s3

MCHostOf == [s \in Source |-> IF s = s3 THEN p2 ELSE p1]
MCRandom == p1 :> 1 @@ p2 :> 2
=============================================================================
