------------------------------ MODULE BitsetOps -------------------------------
(* One bitset under every sequence of the calls that change it, with what its *)
(* queries return in each state compared with the bits they are about.        *)
EXTENDS Bitset

CONSTANTS MaxBits,         \* bound: bits the bitset may be resized to
          MaxRun           \* bound: bits asked of the search for reset bits

VARIABLE bits              \* *m_s

BitsetInit == \E n \in 0 .. MaxBits : bits = new_bitset(n)

SetResetBits ==
  \E start \in 0 .. total_bits(bits) - 1, n \in 1 .. MaxBits, value \in BOOLEAN :
    bits' = set_reset_bits(bits, start, n, value)

SetResetBit ==
  \E bit \in 0 .. MaxBits :
    bits' = set_bit(bits, bit) \/ bits' = reset_bit(bits, bit)

ShrinkHead ==
  \E n \in 1 .. total_bits(bits) : bits' = shrink_head(bits, n)

Resize ==
  \E n \in 0 .. MaxBits, value \in BOOLEAN : bits' = resize_impl(bits, n, value)

\* A deep copy, or the bitset a new process loads from the serialized one.
Reload ==
  \/ bits' = copy_unshifted(bits)
  \/ bits' = serialize_values(bits)
  \/ /\ total_words(serialize_copy(bits).image.nbits) <= serialize_copy(bits).room
     /\ bits' = serialize_copy(bits).image

BitsetNext == SetResetBits \/ SetResetBit \/ ShrinkHead \/ Resize \/ Reload

BitsetSpec == BitsetInit /\ [][BitsetNext]_bits

------------------------------------------------------------------------------
\* Shape of a bitset: the words hold m_nbits bits, of which at most all, and
\* fewer than the compaction threshold, are skipped.
BitsetTypeOK ==
  /\ bits.nbits \in 0 .. MaxBits + CompactAt
  /\ bits.skip \in 0 .. bits.nbits
  /\ bits.skip < CompactAt + WordBits
  /\ bits.words \in [0 .. total_words(bits.nbits) - 1 -> Word]

\* The caller never sees words, skipped bits or compaction: every call writes,
\* drops or adds bits of a plain sequence, and loading a serialized bitset or
\* copying one unshifted changes no bit (set_reset_bits, shrink_head,
\* resize_impl, copy_unshifted_locked, serialize).
Plain == INSTANCE BitSeq WITH bitseq <- Bits(bits), Bound <- MaxBits
ImplementsBitSeq == Plain!BitSeqSpec

\* Within one word each scan of Bitword returns the bit, or the run of zero
\* bits, its comment promises, and the filtered search the first run that
\* matches at the bottom, in the middle or at the top of the word.
WordScansExact ==
  \A wi \in DOMAIN bits.words, start \in BitPositions :
    /\ ScansExact(bits.words[wi], start)
    /\ \A l, m, h \in 1 .. WordBits + 1 :
         FilterExact(bits.words[wi], start, [lsb |-> l, mid |-> m, msb |-> h])

\* The searches and counts over words give the answer of the plain bits, with
\* stale bits past the end of the last word and skipped bits before the first.
QueriesExact ==
  LET n == total_bits(bits)
      ones(from, to) == {i \in from .. to : BitAt(bits, i)}
  IN \A start \in 0 .. n :
       LET set   == ones(start, n - 1)
           reset == start .. n - 1 \ set
       IN /\ get_next_set_bit(bits, start) = IF set = {} THEN npos ELSE Min(set)
          /\ get_next_reset_bit(bits, start) = IF reset = {} THEN npos ELSE Min(reset)
          /\ get_word_value(bits, start) = {i \in BitPositions : start + i \in set}
          /\ get_bitval(bits, start) = (start \in set)
          /\ \A end \in start .. n :
               get_set_count(bits, start, end) = Cardinality({i \in set : i <= end})
          /\ \A k \in 1 .. n + 1 :
               start < n => /\ is_bits_set_reset(bits, start, k, TRUE) = (\A i \in reset : i >= start + k)
                            /\ is_bits_set_reset(bits, start, k, FALSE) = (\A i \in set : i >= start + k)

\* get_next_contiguous_n_reset_bits returns a block of between min_needed and
\* max_needed reset bits inside [start_bit, end_bit] and inside the bitset, and
\* returns npos only when no run of min_needed reset bits is there.
BlockFoundIfAny ==
  LET n == total_bits(bits)
      free(i, k, last) == i + k - 1 <= last /\ \A j \in i .. i + k - 1 : ~BitAt(bits, j)
  IN \A start \in 0 .. n : \A end \in start .. n :
       \A min \in 1 .. MaxRun : \A max \in {min, MaxRun} :
         \E block \in {get_next_contiguous_n_reset_bits(bits, start, end, min, max)} :
           IF block = NoBlock
           THEN ~ \E i \in start .. end : free(i, min, Min({end, n - 1}))
           ELSE /\ block.start >= start
                /\ block.nbits \in min .. max
                /\ free(block.start, block.nbits, Min({end, n - 1}))

\* operator== compares bits and nothing else: two bitsets whose words are
\* shifted against each other are equal exactly when their bits are.
Shifted(b, by, flip) ==
  LET n    == total_bits(b)
      bare == new_bitset(n + by)
      ones == {i \in 0 .. n - 1 : BitAt(b, i) # (i = flip)}
  IN [bare EXCEPT !.skip = by,
                  !.words = [wi \in DOMAIN bare.words |->
                    {p \in BitPositions : wi * WordBits + p - by \in ones}]]
EqualityOfBits ==
  \A by \in 0 .. WordBits : \A flip \in -1 .. total_bits(bits) - 1 :
    LET other == Shifted(bits, by, flip)
    IN /\ operator_eq(bits, other) = (flip = -1)
       /\ operator_eq(other, bits) = (flip = -1)

\* Every search, count and comparison gives the answer of the plain bits,
\* wherever shrinking, growing and compaction have put them (bitset.hpp).
BitsetExact == BitsetTypeOK /\ WordScansExact /\ QueriesExact /\ BlockFoundIfAny /\ EqualityOfBits
===============================================================================
