-------------------------------- MODULE BitSeq --------------------------------
(* What a bitset is to its caller: a sequence of bits that can be written in  *)
(* place, lose bits at its head and be cut or extended at its tail.  Bitset   *)
(* implements it with words, a count of skipped bits and compaction.          *)
EXTENDS Integers, Sequences

CONSTANT Bound             \* longest sequence considered

VARIABLE bitseq            \* the bits, position i at index i + 1

BitSeqInit == bitseq \in UNION {[1 .. n -> BOOLEAN] : n \in 0 .. Bound}

Write(first, n, value) ==
  bitseq' = [i \in DOMAIN bitseq |->
              IF first < i /\ i <= first + n THEN value ELSE bitseq[i]]

DropHead(n) == bitseq' = SubSeq(bitseq, n + 1, Len(bitseq))

\* The bits that stay are kept; nothing is said of the ones that are added.
Resized(n) ==
  /\ Len(bitseq') = n
  /\ \A i \in DOMAIN bitseq' : /\ bitseq'[i] \in BOOLEAN
                               /\ i <= Len(bitseq) => bitseq'[i] = bitseq[i]

BitSeqNext ==
  \/ \E first, n \in 0 .. Bound, value \in BOOLEAN :
       first < Len(bitseq) /\ Write(first, n, value)
  \/ \E n \in 0 .. Len(bitseq) : DropHead(n)
  \/ \E n \in 0 .. Bound : Resized(n)

BitSeqSpec == BitSeqInit /\ [][BitSeqNext]_bitseq
===============================================================================
