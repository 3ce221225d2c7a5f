----------------------------- MODULE BlockStack -----------------------------
(***************************************************************************)
(* What the raw stack and linear allocators promise: blocks of one segment *)
(* are handed out in address order, each aligned and clear of the ones     *)
(* before it, and are taken back newest first or all at once.              *)
(***************************************************************************)
EXTENDS Naturals, Sequences

CONSTANTS Begin, End, Sizes, Alignments

VARIABLE blocks

Stop(b) == b.ptr + b.bytes
Newest == blocks[Len(blocks)]

Init == blocks = <<>>

\* The newest block ends last, so being behind it is being clear of them all.
Push ==
    \E p \in Begin..End, n \in Sizes, a \in Alignments :
        /\ p % a = 0
        /\ p + n <= End
        /\ blocks # <<>> => Stop(Newest) <= p
        /\ blocks' = Append(blocks, [ptr |-> p, bytes |-> n])

Pop == blocks # <<>> /\ blocks' = SubSeq(blocks, 1, Len(blocks) - 1)

Clear == blocks' = <<>>

Next == Push \/ Pop \/ Clear

Spec == Init /\ [][Next]_blocks
=============================================================================
