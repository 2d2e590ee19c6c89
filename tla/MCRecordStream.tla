--------------------------- MODULE MCRecordStream ---------------------------
(* Small instances of RecordStream.  With bytes in base 4, the CR and the  *)
(* LF are two of four byte values, and together with the others they also  *)
(* make descriptor words of lengths 0 to 15.                               *)
EXTENDS RecordStream

(* Every text of up to five bytes, for the self-delimiting framings. *)
MCTexts == SeqOf({0, CR, LF}, 5)

(* Streams of descriptor words and short records, well formed and cut. *)
MCPieces == {<<1, 1, 0, 0>>, <<1, 2, 0, 0>>, <<2, 0, 0, 0>>, <<0, 2, 0, 0>>,
             <<2, 2, 0, 0>>, <<1>>, <<2>>, <<1, 1>>}
MCWords  == {FlattenSeq(s) : s \in SeqOf(MCPieces, 3)}

(* Blocks of two records and of parts of them, and what follows a block. *)
MCBlocks == {block \o FlattenSeq(s) : block \in {<<3, 0, 0, 0>>, <<3, 1, 0, 0>>},
                                     s \in SeqOf({<<1, 0, 0, 0>>, <<1, 1, 0, 0>>, <<2, 0, 0, 0>>, <<1>>}, 4)}

MCInputs == MCTexts \cup MCWords \cup MCBlocks
=============================================================================
