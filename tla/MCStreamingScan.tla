-------------------------- MODULE MCStreamingScan --------------------------
(* Small instances of StreamingScan for TLC: two good sources of different *)
(* lengths, an empty one, and one of each kind of defect.                  *)
EXTENDS StreamingScan, TLC

CONSTANTS Long, Short, Empty, Garbled, Cut, Missing

MCObjects == {Long, Short, Empty, Garbled, Cut, Missing}

MCRecords == Long :> 3 @@ Short :> 1 @@ Empty :> 0 @@ Garbled :> 3
             @@ Cut :> 1 @@ Missing :> 0

MCUndecodable == [o \in MCObjects |-> IF o = Garbled THEN {2} ELSE {}]
MCRagged      == {Cut}
MCUnreadable  == {Missing}

(* Any list of at most three sources, so that a defect, an empty source or *)
(* the longest one comes first, last or in between.                        *)
MCListings == UNION {[1 .. n -> MCObjects] : n \in 0 .. 3}

(* The objects of one bucket in the order of their names, whichever exist. *)
MCBuckets == {<<>>, <<Long>>, <<Short, Long>>, <<Short>>, <<Long, Short>>,
              <<Empty, Long, Short>>, <<Long, Cut>>, <<Garbled, Long>>}
=============================================================================
