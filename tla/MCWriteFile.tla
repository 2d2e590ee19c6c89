---------------------------- MODULE MCWriteFile ----------------------------
(* Small instances of WriteFile.  With bytes in base 4 a descriptor word   *)
(* counts to 15, so three short records already overflow a block.          *)
EXTENDS WriteFile

CONSTANTS t1, t2

MCOld == <<3, 0, 3>>

MCBatches == {<<>>, <<<<3, 3>>>>, <<<<0, 1>>, <<3, 0>>>>, <<NoRecord>>}

(* Two threads, up to three batches among them; some rows do not encode. *)
MCWorks == {w \in [{t1, t2} -> SeqOf(MCBatches, 2)] : Len(w[t1]) + Len(w[t2]) =< 3}

(* Records of any shape in one batch: empty ones, delimiters within and at *)
(* the end, lengths that differ.                                           *)
MCRecords == {<<>>, <<3, 3>>, <<2>>, <<3, 1>>, <<0, 0, 0>>}
MCShapes  == {(t1 :> <<b>> @@ t2 :> <<>>) : b \in SeqOf(MCRecords, 3)}

MCAll == MCWorks \cup MCShapes

(* Records without a byte that delimits. *)
MCPlain  == {<<3, 3>>, <<3, 3, 3>>}
MCBlocks == {(t1 :> <<b>> @@ t2 :> <<>>) : b \in SeqOf(MCPlain, 3)}
=============================================================================
