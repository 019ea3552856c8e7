-------------------------------- MODULE Bitset --------------------------------
(* BitsetImpl (fds/bitset.hpp): m_nbits bits in words, the first m_skip_bits  *)
(* of them already shifted out, bit 0 of the caller following them.  The      *)
(* read and write guards make every method atomic, so a method is an operator *)
(* on a bitset [nbits, skip, words] that walks the words as the code does.    *)
EXTENDS Bitword, Sequences

CONSTANT CompactAt         \* compaction_threshold()

npos == -1
total_words(nbits) == nbits \div WordBits + IF nbits % WordBits > 0 THEN 1 ELSE 0
total_bits(b) == b.nbits - b.skip
word_index(b, bit) == (bit + b.skip) \div WordBits
word_offset(b, bit) == (bit + b.skip) % WordBits
get_word(b, bit) == IF bit + b.skip >= b.nbits THEN npos ELSE word_index(b, bit)
valid_bit(b, bit) == bit + b.skip < b.nbits

\* The caller's view of a bitset.
BitAt(b, i) == word_offset(b, i) \in b.words[word_index(b, i)]
Bits(b) == [i \in 1 .. total_bits(b) |-> BitAt(b, i - 1)]

------------------------------------------------------------------------------
get_bitval(b, bit) == get_word(b, bit) # npos /\ BitAt(b, bit)

\* n bits from bit `offset' of word wi on, taken from two words if need be.
Assemble(b, wi, offset, n) ==
  LET low == WordBits - offset
  IN IF n <= low
     THEN shift_right(b.words[wi], offset) \cap consecutive_bitmask(n)
     ELSE shift_right(b.words[wi], offset)
          \cup shift_left(b.words[wi + 1] \cap consecutive_bitmask(n - low), low)

get_word_value(b, start) ==
  IF get_word(b, start) = npos THEN {}
  ELSE Assemble(b, word_index(b, start), word_offset(b, start),
                Min({WordBits, total_bits(b) - start}))

\* The search of get_next_set_bit and get_next_reset_bit through the words
\* after the first one.
RECURSIVE NextInWords(_, _, _, _, _)
NextInWords(b, set, wi, current, remaining) ==
  IF remaining = 0 THEN npos
  ELSE LET w   == b.words[wi]
           bit == IF set THEN word_next_set_bit(w, 0) ELSE word_next_reset_bit(w, 0)
       IN IF bit # NoBit THEN current + bit
          ELSE NextInWords(b, set, wi + 1, current + WordBits,
                           remaining - Min({remaining, WordBits}))

\* Slip: bits past the end of the bitset are not ruled out.
NextBitPastEnd(b, start, set) ==
  LET offset == word_offset(b, start)
      w      == b.words[word_index(b, start)]
      bit    == IF set THEN word_next_set_bit(w, offset) ELSE word_next_reset_bit(w, offset)
  IN IF get_word(b, start) = npos THEN npos
     ELSE IF bit # NoBit THEN start + bit - offset
     ELSE NextInWords(b, set, word_index(b, start) + 1, start + WordBits - offset,
                      Max({0, total_bits(b) - start - WordBits + offset}))

NextBit(b, start, set) ==
  IF get_word(b, start) = npos THEN npos
  ELSE LET offset  == word_offset(b, start)
           wi      == word_index(b, start)
           w       == b.words[wi]
           bit     == IF set THEN word_next_set_bit(w, offset) ELSE word_next_reset_bit(w, offset)
           current == start + WordBits - offset
           ret     == IF bit # NoBit THEN start + bit - offset
                      ELSE NextInWords(b, set, wi + 1, current,
                                       IF current > total_bits(b) THEN 0
                                       ELSE total_bits(b) - current)
       IN IF ret >= total_bits(b) THEN npos ELSE ret

get_next_set_bit(b, start) == NextBit(b, start, TRUE)
get_next_reset_bit(b, start) == NextBit(b, start, FALSE)

RECURSIVE CountWords(_, _, _)
CountWords(b, wi, remaining) ==
  CASE remaining = 0 -> 0
    [] remaining >= WordBits ->
         get_set_bit_count(b.words[wi]) + CountWords(b, wi + 1, remaining - WordBits)
    [] OTHER -> get_set_bit_count(b.words[wi] \cap consecutive_bitmask(remaining))

get_set_count(b, start, end) ==
  LET num    == Min({total_bits(b) - 1, end}) - start + 1
      offset == word_offset(b, start)
      wi     == word_index(b, start)
  IN IF get_word(b, start) = npos THEN 0
     ELSE IF offset + num <= WordBits
          THEN get_set_bit_count(extract(b.words[wi], offset, num))
          ELSE get_set_bit_count(shift_right(b.words[wi], offset))
               + CountWords(b, wi + 1, num - (WordBits - offset))

RECURSIVE TestWords(_, _, _, _)
TestWords(b, wi, remaining, expected) ==
  LET count == Min({remaining, WordBits})
  IN CASE remaining = 0 -> TRUE
       [] remaining > 0 /\ wi = total_words(b.nbits) -> FALSE
       [] OTHER -> /\ word_bits_set_reset(b.words[wi], 0, count, expected)
                   /\ TestWords(b, wi + 1, remaining - count, expected)

is_bits_set_reset(b, start, nbits, expected) ==
  LET remaining == Min({nbits, total_bits(b) - start})
      offset    == word_offset(b, start)
      count     == Min({remaining, WordBits - offset})
  IN IF get_word(b, start) = npos THEN nbits = 0
     ELSE /\ word_bits_set_reset(b.words[word_index(b, start)], offset, count, expected)
          /\ TestWords(b, word_index(b, start) + 1, remaining - count, expected)

------------------------------------------------------------------------------
\* The loop of get_next_contiguous_n_reset_bits: block is retb, current the
\* caller's bit at bit `offset' of word wi, r what the search in that word found.
RECURSIVE Contiguous(_, _, _, _, _, _, _, _)
Extend(b, block, current, offset, wi, final, min, max, r) ==
  LET here   == [start |-> current + r.start - offset, nbits |-> r.count]
      beyond == [start |-> current + WordBits - offset, nbits |-> 0]
      longer == [block EXCEPT !.nbits = @ + r.count]
      enough == block.nbits >= min
      next   == CASE r.type \in {"full_match", "lsb_match"} -> longer
                  [] r.type = "mid_match" -> IF r.count > block.nbits THEN here ELSE block
                  [] r.type = "msb_match" -> IF enough THEN block ELSE here
                  [] r.type = "no_match" -> IF enough THEN block ELSE beyond
      ends   == CASE r.type = "full_match" -> FALSE
                  [] r.type = "lsb_match" -> longer.nbits >= min
                  [] r.type = "mid_match" -> TRUE
                  [] r.type \in {"msb_match", "no_match"} -> enough
  IN IF ends THEN next
     ELSE Contiguous(b, next, current + WordBits - offset, 0, wi + 1, final, min, max)
Contiguous(b, block, current, offset, wi, final, min, max) ==
  IF block.nbits >= max \/ current >= final THEN block
  ELSE Extend(b, block, current, offset, wi, final, min, max,
              get_next_reset_bits_filtered(b.words[wi], offset,
                [lsb |-> IF block.nbits >= min THEN 1 ELSE Min({min - block.nbits, WordBits}),
                 mid |-> min, msb |-> 1]))

NoBlock == [start |-> npos, nbits |-> 0]

\* Slip: the block found is not cut at the end of the range.
BlockNotCut(block, final, min, max) ==
  LET n == Min({block.nbits, max})
  IN IF block.nbits = 0 \/ block.start >= final \/ n < min
     THEN NoBlock ELSE [start |-> block.start, nbits |-> n]

\* What is left of the block within the range and the length asked for.
CutBlock(block, final, min, max) ==
  LET n == Min({block.nbits, final - block.start, max})
  IN IF block.nbits = 0 \/ block.start >= final \/ n < min
     THEN NoBlock ELSE [start |-> block.start, nbits |-> n]

get_next_contiguous_n_reset_bits(b, start, end, min, max) ==
  LET final == Min({end + 1, total_bits(b)})
  IN IF get_word(b, start) = npos THEN NoBlock
     ELSE CutBlock(Contiguous(b, [start |-> start, nbits |-> 0], start, word_offset(b, start),
                              word_index(b, start), final, min, max),
                   final, min, max)

------------------------------------------------------------------------------
\* Slip: the last words are compared without masking the bits past the end.
LastWordUnmasked(a, b) ==
  LET n     == total_bits(a)
      head  == Min({n, WordBits - word_offset(a, 0)})
      words == (n - head + WordBits - 1) \div WordBits
  IN /\ n = total_bits(b)
     /\ \/ n = 0 \/ word_offset(a, 0) # word_offset(b, 0)
        \/ \A k \in 1 .. words : a.words[word_index(a, 0) + k] = b.words[word_index(b, 0) + k]

operator_eq(a, b) ==
  LET n  == total_bits(a)
      ao == word_offset(a, 0)
      bo == word_offset(b, 0)
      aw == word_index(a, 0)
      bw == word_index(b, 0)
      head  == Min({n, WordBits - ao})
      whole == (n - head) \div WordBits
      last  == (n - head) % WordBits
  IN /\ n = total_bits(b)
     /\ \/ n = 0
        \/ /\ ao = bo
           /\ Assemble(a, aw, ao, head) = Assemble(b, bw, bo, head)
           /\ \A k \in 1 .. whole : a.words[aw + k] = b.words[bw + k]
           /\ last > 0 => Assemble(a, aw + whole + 1, 0, last) = Assemble(b, bw + whole + 1, 0, last)
        \/ /\ ao # bo
           /\ \A k \in 0 .. (n - 1) \div WordBits :
                LET m == Min({WordBits, n - k * WordBits})
                IN Assemble(a, aw + k, ao, m) = Assemble(b, bw + k, bo, m)

WordsFrom(b) == total_words(b.nbits) - word_index(b, 0)

\* copy_unshifted_locked: the bits of b without the skipped ones.
copy_unshifted(b) ==
  LET n == total_bits(b)
  IN [nbits |-> n, skip |-> 0,
      words |-> [k \in 0 .. total_words(n) - 1 |->
                  IF word_offset(b, 0) = 0 THEN b.words[word_index(b, 0) + k]
                  ELSE Assemble(b, word_index(b, 0) + k, word_offset(b, 0),
                                Min({WordBits, n - k * WordBits}))]]

\* serialize() of atomic words: word by word, unshifted.
serialize_values(b) ==
  LET n == total_bits(b)
  IN [nbits |-> n, skip |-> 0,
      words |-> [k \in 0 .. total_words(n) - 1 |-> get_word_value(b, k * WordBits)]]

\* serialize() of plain words with force_copy or another alignment: the words
\* from the first one in use on, copied into a buffer of `room' words.
serialize_copy(b) ==
  [room |-> total_words(total_bits(b)),
   image |-> [nbits |-> total_bits(b) + word_offset(b, 0), skip |-> word_offset(b, 0),
              words |-> [k \in 0 .. WordsFrom(b) - 1 |-> b.words[word_index(b, 0) + k]]]]

------------------------------------------------------------------------------
\* Slip: the words already shifted out are not left behind.
SkippedWordsKept(b, nbits, value) ==
  LET skip == b.skip % WordBits
      cap  == total_words(nbits + skip)
  IN [nbits |-> nbits + skip, skip |-> skip,
      words |-> [k \in 0 .. cap - 1 |-> IF k < total_words(b.nbits) THEN b.words[k]
                                        ELSE IF value THEN BitPositions ELSE {}]]

\* Slip: room for the bits, and none for the skipped ones before them.
NoRoomForSkipped(b, nbits, value) ==
  LET shrink == b.skip \div WordBits
      skip   == b.skip % WordBits
  IN [nbits |-> nbits + skip, skip |-> skip,
      words |-> [k \in 0 .. total_words(nbits) - 1 |->
                  IF k < total_words(b.nbits) - shrink THEN b.words[shrink + k] ELSE {}]]

resize_impl(b, nbits, value) ==
  LET shrink == b.skip \div WordBits
      skip   == b.skip % WordBits
      cap    == total_words(nbits + skip)
      move   == Min({total_words(b.nbits) - shrink, cap})
  IN [nbits |-> nbits + skip, skip |-> skip,
      words |-> [k \in 0 .. cap - 1 |-> IF k < move THEN b.words[shrink + k]
                                        ELSE IF value THEN BitPositions ELSE {}]]

shrink_head(b, nbits) ==
  LET skipped == [b EXCEPT !.skip = @ + nbits]
  IN IF skipped.skip >= CompactAt
     THEN resize_impl(skipped, total_bits(skipped), FALSE) ELSE skipped

\* set_bits and reset_bits: the rest of the first word, then the words after it
\* up to the last one (the call then throws if bits are left).
set_reset_bits(b, start, nbits, value) ==
  LET first  == word_index(b, start)
      offset == word_offset(b, start)
  IN [b EXCEPT !.words = [wi \in DOMAIN b.words |->
        LET from  == IF wi = first THEN offset ELSE 0
            count == Min({offset + nbits - (wi - first) * WordBits, WordBits}) - from
        IN IF wi >= first /\ count > 0
           THEN set_reset_word_bits(b.words[wi], from, count, value) ELSE b.words[wi]]]

set_bit(b, bit) == IF get_word(b, bit) = npos THEN b ELSE set_reset_bits(b, bit, 1, TRUE)
reset_bit(b, bit) == IF get_word(b, bit) = npos THEN b ELSE set_reset_bits(b, bit, 1, FALSE)

new_bitset(nbits) ==
  [nbits |-> nbits, skip |-> 0, words |-> [k \in 0 .. total_words(nbits) - 1 |-> {}]]
===============================================================================
