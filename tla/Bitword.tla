------------------------------- MODULE Bitword -------------------------------
(* One word of a bitset: Bitword over unsafe_bits or safe_bits                *)
(* (fds/bitword.hpp).  A word is the set of the positions of its one bits, so *)
(* that `&', `|' and `~' are the set operations and a shift renumbers.  The   *)
(* operators keep the names of the methods; an out parameter is part of the   *)
(* result, NoBit standing for "returned false".                               *)
EXTENDS Integers, FiniteSets, FiniteSetsExt

CONSTANT WordBits          \* bits()

BitPositions == 0 .. WordBits - 1
Word == SUBSET BitPositions
NoBit == -1

\* consecutive_bitmask[n - 1]: the n low bits (every bit for n = bits()).
consecutive_bitmask(n) == 0 .. n - 1

shift_left(w, n) == {i + n : i \in w} \cap BitPositions
shift_right(w, n) == {i - n : i \in {j \in w : j >= n}}

\* Position of the highest one bit; 255 for a word without one.
logBase2(w) == IF w = {} THEN 255 ELSE Max(w)
\* Number of zero bits below the lowest one bit.
get_trailing_zeros(w) == IF w = {} THEN WordBits ELSE Min(w)
get_set_bit_count(w) == Cardinality(w)

extract(w, start, nbits) ==
  LET wanted == Min({WordBits - start, nbits})
  IN shift_right(w \cap shift_left(consecutive_bitmask(wanted), start), start)

set_reset_word_bits(w, start, nbits, set) ==
  LET wanted == Min({WordBits - start, nbits})
      mask   == shift_left(consecutive_bitmask(wanted), start)
  IN IF set THEN w \cup mask ELSE w \ mask

word_bits_set_reset(w, start, nbits, set) ==
  extract(w, start, nbits) = IF set THEN consecutive_bitmask(nbits) ELSE {}

word_next_set_bit(w, start) ==
  LET e == extract(w, start, WordBits)
  IN IF e # {} THEN get_trailing_zeros(e) + start ELSE NoBit

word_next_reset_bit(w, start) ==
  LET e   == BitPositions \ extract(w, start, WordBits)
      bit == get_trailing_zeros(e) + start
  IN IF e # {} /\ bit < WordBits THEN bit ELSE NoBit

word_prev_set_bit(w, start) ==
  LET e == extract(w, 0, start + 1)
  IN IF e # {} THEN logBase2(e) ELSE NoBit

word_next_reset_bits(w, start) ==
  LET e     == extract(w, start, WordBits)
      first == get_trailing_zeros(BitPositions \ e) + start
  IN CASE e = {} -> [first |-> start, count |-> WordBits - start]
       [] e # {} /\ first >= WordBits -> [first |-> WordBits, count |-> 0]
       [] OTHER -> [first |-> first,
                    count |-> Min({get_trailing_zeros(shift_right(e, first - start)),
                                   WordBits - first})]

set_next_reset_word_bit(w, start, maxbits) ==
  LET bit == word_next_reset_bit(w, start)
  IN IF bit = NoBit \/ bit >= maxbits
     THEN [word |-> w, bit |-> NoBit]
     ELSE [word |-> set_reset_word_bits(w, bit, 1, TRUE), bit |-> bit]

\* The loop of get_next_reset_bits_filtered: e is what is left of the word,
\* nbits its length and start the position of its lowest bit.
RECURSIVE FilterScan(_, _, _, _, _)
FilterScan(e, nbits, start, lsb_search, filter) ==
  LET first == get_trailing_zeros(BitPositions \ e)
      e1    == shift_right(e, first)
      left  == nbits - first
      count == IF e1 # {} THEN get_trailing_zeros(e1) ELSE left
      found(type) == [type |-> type, start |-> start + first, count |-> count]
  IN CASE nbits = 0 -> [type |-> "no_match", start |-> start, count |-> 0]
       [] nbits > 0 /\ first >= nbits ->
            [type |-> "no_match", start |-> start + first, count |-> 0]
       [] nbits > 0 /\ first < nbits ->
            CASE lsb_search /\ first = 0 /\ count >= filter.lsb ->
                   found(IF e1 = {} THEN "full_match" ELSE "lsb_match")
              [] ~(lsb_search /\ first = 0 /\ count >= filter.lsb) /\ e1 = {} ->
                   found(IF count >= filter.mid \/ count >= filter.msb
                         THEN "msb_match" ELSE "no_match")
              [] ~(lsb_search /\ first = 0 /\ count >= filter.lsb) /\ e1 # {}
                   /\ count >= filter.mid -> found("mid_match")
              [] OTHER -> FilterScan(shift_right(e1, count), left - count,
                                     start + first + count, FALSE, filter)

\* Slip: a search from the middle of a word takes its bits for the lowest ones.
LsbFromAnywhere(w, offset, filter) ==
  FilterScan(extract(w, offset, WordBits), WordBits - offset, offset, TRUE, filter)

get_next_reset_bits_filtered(w, offset, filter) ==
  FilterScan(extract(w, offset, WordBits), WordBits - offset, offset, offset = 0, filter)

\* The loop of get_max_contiguous_reset_bits.
RECURSIVE MaxScan(_, _, _)
MaxScan(e, offset, best) ==
  LET first == get_trailing_zeros(BitPositions \ e)
      e1    == shift_right(e, first)
      off   == offset + first
      zeros == IF e1 # {} THEN get_trailing_zeros(e1) ELSE WordBits - off
      better(at, n) == IF n > best.count THEN [first |-> at, count |-> n] ELSE best
  IN CASE offset >= WordBits -> best
       [] offset < WordBits /\ e = {} -> better(offset, WordBits - offset)
       [] offset < WordBits /\ e # {} /\ first >= WordBits -> best
       [] OTHER -> MaxScan(shift_right(e1, zeros), off + zeros, better(off, zeros))

get_max_contiguous_reset_bits(w, start) ==
  MaxScan(extract(w, start, WordBits), start, [first |-> 255, count |-> 0])

------------------------------------------------------------------------------
\* What the methods promise, without a scan.

\* The maximal runs of zero bits of w at or above bit `from'.
ZeroRuns(w, from) ==
  {r \in [first : from .. WordBits - 1, count : 1 .. WordBits] :
     /\ r.first + r.count <= WordBits
     /\ r.first .. r.first + r.count - 1 \cap w = {}
     /\ r.first = from \/ r.first - 1 \in w
     /\ r.first + r.count = WordBits \/ r.first + r.count \in w}

\* How a run matches the filter: bits at the bottom of the word, at its top or
\* in between ("All of them are or'd", bit_filter).
RunType(r, offset, filter) ==
  LET bottom == offset = 0 /\ r.first = 0
      top    == r.first + r.count = WordBits
  IN CASE bottom /\ r.count >= filter.lsb -> IF top THEN "full_match" ELSE "lsb_match"
       [] ~(bottom /\ r.count >= filter.lsb) /\ top ->
            IF r.count >= filter.mid \/ r.count >= filter.msb THEN "msb_match" ELSE "no_match"
       [] ~(bottom /\ r.count >= filter.lsb) /\ ~top ->
            IF r.count >= filter.mid THEN "mid_match" ELSE "no_match"

FilterExact(w, offset, filter) ==
  LET runs    == {r \in ZeroRuns(w, offset) : RunType(r, offset, filter) # "no_match"}
      lowest  == CHOOSE r \in runs : \A q \in runs : r.first <= q.first
      result  == get_next_reset_bits_filtered(w, offset, filter)
  IN IF runs = {}
     THEN result.type = "no_match"
     ELSE result = [type |-> RunType(lowest, offset, filter),
                    start |-> lowest.first, count |-> lowest.count]

ScansExact(w, start) ==
  LET ones  == {i \in w : i >= start}
      zeros == start .. WordBits - 1 \ w
      runs  == ZeroRuns(w, start)
      low   == word_next_reset_bits(w, start)
      large == get_max_contiguous_reset_bits(w, start)
      taken == set_next_reset_word_bit(w, start, WordBits - 1)
  IN /\ word_next_set_bit(w, start) = IF ones = {} THEN NoBit ELSE Min(ones)
     /\ word_next_reset_bit(w, start) = IF zeros = {} THEN NoBit ELSE Min(zeros)
     /\ word_prev_set_bit(w, start) =
          LET below == {i \in w : i <= start} IN IF below = {} THEN NoBit ELSE Max(below)
     /\ IF runs = {} THEN low = [first |-> WordBits, count |-> 0]
        ELSE low \in runs /\ \A r \in runs : low.first <= r.first
     /\ IF runs = {} THEN large.count = 0
        ELSE /\ large \in runs
             /\ \A r \in runs : r.count < large.count \/
                                (r.count = large.count /\ large.first <= r.first)
     /\ taken.word = IF taken.bit = NoBit THEN w ELSE w \cup {taken.bit}
     /\ taken.bit = IF zeros \ {WordBits - 1} = {} \/ Min(zeros) = WordBits - 1
                    THEN NoBit ELSE Min(zeros)
==============================================================================
