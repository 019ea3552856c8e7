---------------------------- MODULE CompactBitSet -----------------------------
(* CompactBitSet (fds/compact_bitset.hpp): a bitset of whole words over a     *)
(* caller's buffer or one of its own, without locks, resizing or shifting.    *)
EXTENDS Bitword

CONSTANT CompactWords      \* words of the buffer

VARIABLE cwords            \* s_->words

inval_bit == -1
cbits == CompactWords * WordBits      \* nbits_, a multiple of the word size

cword(bit) == IF bit >= cbits THEN inval_bit ELSE bit \div WordBits
coffset(bit) == bit % WordBits

is_bit_set(bit) == cword(bit) # inval_bit /\ coffset(bit) \in cwords[cword(bit)]

RECURSIVE NextInCompact(_, _, _, _)
NextInCompact(set, wi, current, remaining) ==
  IF remaining = 0 THEN inval_bit
  ELSE LET bit == IF set THEN word_next_set_bit(cwords[wi], 0)
                  ELSE word_next_reset_bit(cwords[wi], 0)
       IN IF bit # NoBit THEN current + bit
          ELSE NextInCompact(set, wi + 1, current + WordBits,
                             remaining - Min({remaining, WordBits}))

\* Slip: the position of the next word forgets the offset into this one.
NextWordFromStart(start, set) ==
  IF cword(start) = inval_bit THEN inval_bit
  ELSE LET w       == cwords[cword(start)]
           offset  == coffset(start)
           bit     == IF set THEN word_next_set_bit(w, offset) ELSE word_next_reset_bit(w, offset)
           current == start + WordBits
       IN IF bit # NoBit THEN start + bit - offset
          ELSE NextInCompact(set, cword(start) + 1, current, Max({0, cbits - current}))

get_next_set_or_reset_bit(start, set) ==
  IF cword(start) = inval_bit THEN inval_bit
  ELSE LET w       == cwords[cword(start)]
           offset  == coffset(start)
           bit     == IF set THEN word_next_set_bit(w, offset) ELSE word_next_reset_bit(w, offset)
           current == start + WordBits - offset
           ret     == IF bit # NoBit THEN start + bit - offset
                      ELSE NextInCompact(set, cword(start) + 1, current,
                                         IF current > cbits THEN 0 ELSE cbits - current)
       IN IF ret >= cbits THEN inval_bit ELSE ret

\* The do-while loop of get_prev_set_bit: after the first word the search
\* starts one past the top bit of the word below.
RECURSIVE PrevInCompact(_, _, _)
PrevInCompact(wi, start, offset) ==
  LET bit == word_prev_set_bit(cwords[wi], offset)
  IN CASE bit # NoBit -> start - (offset - bit)
       [] bit = NoBit /\ wi = 0 -> inval_bit
       [] OTHER -> PrevInCompact(wi - 1, start - offset, WordBits)

compact_prev_set_bit(start) == PrevInCompact(start \div WordBits, start, coffset(start))

\* A fresh buffer, or one handed over with whatever bits it holds.
CompactInit == cwords \in {[k \in 0 .. CompactWords - 1 |-> {}],
                           [k \in 0 .. CompactWords - 1 |-> BitPositions]}

set_reset_compact_bit(bit, value) ==
  cwords' = IF cword(bit) = inval_bit THEN cwords
            ELSE [cwords EXCEPT ![cword(bit)] =
                    set_reset_word_bits(@, coffset(bit), 1, value)]

CompactNext == \E bit \in 0 .. cbits, value \in BOOLEAN : set_reset_compact_bit(bit, value)

CompactSpec == CompactInit /\ [][CompactNext]_cwords

------------------------------------------------------------------------------
\* The searches forwards and backwards return the nearest bit across word
\* boundaries, for every start bit below size() (get_next_set_bit,
\* get_next_reset_bit, get_prev_set_bit).
CompactSearchesExact ==
  LET set == {i \in 0 .. cbits - 1 : is_bit_set(i)}
  IN \A start \in 0 .. cbits - 1 :
       LET above == {i \in set : i >= start}
           clear == start .. cbits - 1 \ set
           below == {i \in set : i <= start}
       IN /\ get_next_set_or_reset_bit(start, TRUE) = IF above = {} THEN inval_bit ELSE Min(above)
          /\ get_next_set_or_reset_bit(start, FALSE) = IF clear = {} THEN inval_bit ELSE Min(clear)
          /\ compact_prev_set_bit(start) = IF below = {} THEN inval_bit ELSE Max(below)
===============================================================================
