-------------------------------- MODULE Lists --------------------------------
(* The list operations of the models that theorems are about.  SequencesExt    *)
(* has them too, and bags with them, which every proof would then carry.       *)
EXTENDS Integers, Sequences, FiniteSetsExt, Functions

\* erase(it) and insert(it, e) of a list, it being at position i.
DropAt(s, i) == SubSeq(s, 1, i - 1) \o SubSeq(s, i + 1, Len(s))
PutAt(s, i, e) == SubSeq(s, 1, i - 1) \o <<e>> \o SubSeq(s, i, Len(s))

\* The first place of e, and the list without the entry there.
FirstAt(s, e) == Min({i \in 1 .. Len(s) : s[i] = e})
Unlink(s, e) == IF e \in Range(s) THEN DropAt(s, FirstAt(s, e)) ELSE s

\* The lists of ss, one after the other.
Flatten(ss) ==
  LET upto[n \in 0 .. Len(ss)] == IF n = 0 THEN <<>> ELSE upto[n - 1] \o ss[n]
  IN  upto[Len(ss)]
==============================================================================
