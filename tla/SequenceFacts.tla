--------------------------- MODULE SequenceFacts ----------------------------
(***************************************************************************)
(* What taking an entry off a list, putting it back and appending it do    *)
(* to a list on which no entry occurs twice, and the least of a set of     *)
(* numbers.                                                                *)
(***************************************************************************)
EXTENDS Integers, Sequences, Lists, TLAPS

\* The provers of a leaf that names none, and how long each may take.
USE SMTT(20), ZenonT(30)

(* Removing the record under the cursor shortens the list by one ...       *)
LEMMA DropAtProperties ==
    ASSUME NEW S, NEW s \in Seq(S), NEW i \in 1 .. Len(s)
    PROVE  /\ DropAt(s, i) \in Seq(S)
           /\ Len(DropAt(s, i)) = Len(s) - 1
           /\ \A j \in 1 .. Len(s) - 1 :
                 DropAt(s, i)[j] = IF j < i THEN s[j] ELSE s[j + 1]
<1> DEFINE left == SubSeq(s, 1, i - 1)
           right == SubSeq(s, i + 1, Len(s))
<1>1. /\ left \in Seq(S) /\ Len(left) = i - 1
      /\ \A j \in 1 .. i - 1 : left[j] = s[j]
  OBVIOUS
<1>2. /\ right \in Seq(S) /\ Len(right) = Len(s) - i
      /\ \A j \in 1 .. Len(s) - i : right[j] = s[i + j]
  OBVIOUS
<1>3. DropAt(s, i) = left \o right
  BY DEF DropAt
<1> HIDE DEF left, right
<1>4. /\ left \o right \in Seq(S) /\ Len(left \o right) = Len(left) + Len(right)
      /\ \A j \in 1 .. Len(left) + Len(right) :
            (left \o right)[j] = IF j <= Len(left) THEN left[j] ELSE right[j - Len(left)]
  <2>1. left \in Seq(S) /\ right \in Seq(S)
    BY <1>1, <1>2
  <2>2. QED  BY <2>1
<1>5. Len(s) \in Nat
  OBVIOUS
<1>6. QED
  BY <1>1, <1>2, <1>3, <1>4, <1>5, SMTT(120)

(* ... and, when no record is on the list twice, leaves the others on it.  *)
LEMMA DropAtSet ==
    ASSUME NEW S, NEW s \in Seq(S), IsInjective(s), NEW i \in 1 .. Len(s)
    PROVE  /\ IsInjective(DropAt(s, i))
           /\ Range(DropAt(s, i)) = Range(s) \ {s[i]}
<1> DEFINE r == DropAt(s, i)
<1>1. /\ r \in Seq(S) /\ Len(r) = Len(s) - 1 /\ Len(s) \in Nat
      /\ \A j \in 1 .. Len(s) - 1 : r[j] = IF j < i THEN s[j] ELSE s[j + 1]
  <2>1. Len(s) \in Nat
    OBVIOUS
  <2>2. QED  BY <2>1, DropAtProperties, ZenonT(30)
<1> HIDE DEF r
<1>2. DOMAIN r = 1 .. Len(s) - 1 /\ DOMAIN s = 1 .. Len(s)
  BY <1>1
<1>3. IsInjective(r)
  <2> SUFFICES ASSUME NEW a \in 1 .. Len(s) - 1, NEW b \in 1 .. Len(s) - 1, r[a] = r[b]
               PROVE  a = b
    BY <1>2 DEF IsInjective
  <2> DEFINE p(j) == IF j < i THEN j ELSE j + 1
  <2>1. p(a) \in 1 .. Len(s) /\ p(b) \in 1 .. Len(s)
    BY <1>1
  <2>2. s[p(a)] = s[p(b)]
    BY <1>1
  <2>3. p(a) = p(b)
    BY <1>2, <2>1, <2>2 DEF IsInjective
  <2>4. QED
    BY <1>1, <2>3
<1>4. ASSUME NEW x \in Range(r) PROVE x \in Range(s) /\ x # s[i]
  BY <1>1, <1>2 DEF Range, IsInjective
<1>5. ASSUME NEW x \in Range(s), x # s[i] PROVE x \in Range(r)
  <2>1. PICK n \in 1 .. Len(s) : x = s[n]
    BY <1>2 DEF Range
  <2>2. CASE n < i
    <3>1. n \in DOMAIN r /\ r[n] = x
      BY <1>1, <1>2, <2>1, <2>2
    <3>2. QED  BY <3>1 DEF Range
  <2>3. CASE n > i
    <3>1. n - 1 \in DOMAIN r /\ r[n - 1] = x
      BY <1>1, <1>2, <2>1, <2>3
    <3>2. QED  BY <3>1 DEF Range
  <2>4. QED
    BY <1>5, <2>1, <2>2, <2>3
<1>6. QED
  BY <1>3, <1>4, <1>5 DEF r

(* Putting a record back under the cursor lengthens the list by one ...    *)
LEMMA PutAtProperties ==
    ASSUME NEW S, NEW s \in Seq(S), NEW i \in 1 .. Len(s) + 1, NEW e \in S
    PROVE  /\ PutAt(s, i, e) \in Seq(S)
           /\ Len(PutAt(s, i, e)) = Len(s) + 1
           /\ \A j \in 1 .. Len(s) + 1 :
                 PutAt(s, i, e)[j] = IF j < i THEN s[j]
                                        ELSE IF j = i THEN e ELSE s[j - 1]
<1> DEFINE left == SubSeq(s, 1, i - 1)
           mid == <<e>>
           right == SubSeq(s, i, Len(s))
<1>1. /\ left \in Seq(S) /\ Len(left) = i - 1
      /\ \A j \in 1 .. i - 1 : left[j] = s[j]
  OBVIOUS
<1>2. /\ right \in Seq(S) /\ Len(right) = Len(s) + 1 - i
      /\ \A j \in 1 .. Len(s) + 1 - i : right[j] = s[i + j - 1]
  OBVIOUS
<1>3. mid \in Seq(S) /\ Len(mid) = 1 /\ mid[1] = e
  OBVIOUS
<1>4. PutAt(s, i, e) = left \o mid \o right
  BY DEF PutAt
<1> HIDE DEF left, mid, right
<1> DEFINE lm == left \o mid
<1>5. /\ lm \in Seq(S) /\ Len(lm) = Len(left) + Len(mid)
      /\ \A j \in 1 .. Len(left) + Len(mid) :
            lm[j] = IF j <= Len(left) THEN left[j] ELSE mid[j - Len(left)]
  <2>1. left \in Seq(S) /\ mid \in Seq(S)
    BY <1>1, <1>3
  <2>2. QED  BY <2>1
<1> HIDE DEF lm
<1>6. /\ lm \o right \in Seq(S) /\ Len(lm \o right) = Len(lm) + Len(right)
      /\ \A j \in 1 .. Len(lm) + Len(right) :
            (lm \o right)[j] = IF j <= Len(lm) THEN lm[j] ELSE right[j - Len(lm)]
  <2>1. lm \in Seq(S) /\ right \in Seq(S)
    BY <1>2, <1>5
  <2>2. QED  BY <2>1
<1>7. Len(s) \in Nat /\ PutAt(s, i, e) = lm \o right
  BY <1>4 DEF lm
<1>8. QED
  BY <1>1, <1>2, <1>3, <1>5, <1>6, <1>7, SMTT(120)

(* ... and adds that record to the ones on it.                             *)
LEMMA PutAtSet ==
    ASSUME NEW S, NEW s \in Seq(S), IsInjective(s), NEW i \in 1 .. Len(s) + 1,
           NEW e \in S, e \notin Range(s)
    PROVE  /\ IsInjective(PutAt(s, i, e))
           /\ Range(PutAt(s, i, e)) = Range(s) \cup {e}
<1> DEFINE r == PutAt(s, i, e)
<1>1. /\ r \in Seq(S) /\ Len(r) = Len(s) + 1 /\ Len(s) \in Nat
      /\ \A j \in 1 .. Len(s) + 1 :
            r[j] = IF j < i THEN s[j] ELSE IF j = i THEN e ELSE s[j - 1]
  BY PutAtProperties
<1> HIDE DEF r
<1>2. DOMAIN r = 1 .. Len(s) + 1 /\ DOMAIN s = 1 .. Len(s)
  BY <1>1
<1>3. \A j \in 1 .. Len(s) : s[j] # e
  BY <1>2 DEF Range
<1>4. IsInjective(r)
  <2>1. SUFFICES ASSUME NEW j \in 1 .. Len(s) + 1, NEW l \in 1 .. Len(s) + 1,
                        j < l, r[j] = r[l]
                 PROVE  FALSE
    BY <1>1, <1>2, SMTT(120) DEF IsInjective
  <2>2. \A m, n \in 1 .. Len(s) : s[m] = s[n] => m = n
    BY <1>2 DEF IsInjective
  <2>3. CASE l < i
    BY <1>1, <2>1, <2>2, <2>3
  <2>4. CASE l = i
    BY <1>1, <1>3, <2>1, <2>4
  <2>5. CASE l > i
    <3>1. r[l] = s[l - 1] /\ l - 1 \in 1 .. Len(s)
      BY <1>1, <2>5
    <3>2. CASE j < i
      <4>1. r[j] = s[j] /\ j \in 1 .. Len(s)
        BY <1>1, <3>2
      <4>2. QED  BY <2>1, <2>2, <2>5, <3>1, <3>2, <4>1
    <3>3. CASE j = i
      BY <1>1, <1>3, <2>1, <3>1, <3>3
    <3>4. CASE j > i
      <4>1. r[j] = s[j - 1] /\ j - 1 \in 1 .. Len(s)
        BY <1>1, <2>1, <3>4
      <4>2. QED  BY <2>1, <2>2, <3>1, <4>1
    <3>5. QED  BY <3>2, <3>3, <3>4
  <2>6. QED  BY <2>3, <2>4, <2>5
<1>5. ASSUME NEW x \in Range(r) PROVE x \in Range(s) \cup {e}
  <2>1. PICK n \in 1 .. Len(s) + 1 : x = r[n]
    BY <1>2 DEF Range
  <2>2. CASE n < i
    <3>1. n \in DOMAIN s /\ s[n] = x
      BY <1>1, <1>2, <2>1, <2>2
    <3>2. QED  BY <3>1 DEF Range
  <2>3. CASE n = i
    BY <1>1, <2>1, <2>3
  <2>4. CASE n > i
    <3>1. n - 1 \in DOMAIN s /\ s[n - 1] = x
      BY <1>1, <1>2, <2>1, <2>4
    <3>2. QED  BY <3>1 DEF Range
  <2>5. QED
    BY <2>2, <2>3, <2>4
<1>6. ASSUME NEW x \in Range(s) PROVE x \in Range(r)
  <2>1. PICK n \in 1 .. Len(s) : x = s[n]
    BY <1>2 DEF Range
  <2>2. CASE n < i
    <3>1. n \in DOMAIN r /\ r[n] = x
      BY <1>1, <1>2, <2>1, <2>2
    <3>2. QED  BY <3>1 DEF Range
  <2>3. CASE n >= i
    <3>1. n + 1 \in DOMAIN r /\ r[n + 1] = x
      BY <1>1, <1>2, <2>1, <2>3
    <3>2. QED  BY <3>1 DEF Range
  <2>4. QED
    BY <2>1, <2>2, <2>3
<1>7. e \in Range(r)
  <2>1. i \in DOMAIN r /\ r[i] = e
    BY <1>1, <1>2
  <2>2. QED  BY <2>1 DEF Range
<1>8. QED
  BY <1>4, <1>5, <1>6, <1>7 DEF r

(* A record added at the end joins the ones on the list.                   *)
LEMMA AppendSet ==
    ASSUME NEW S, NEW s \in Seq(S), IsInjective(s), NEW e \in S, e \notin Range(s)
    PROVE  /\ IsInjective(Append(s, e))
           /\ Range(Append(s, e)) = Range(s) \cup {e}
           /\ Append(s, e) \in Seq(S)
           /\ Len(Append(s, e)) = Len(s) + 1
<1> DEFINE r == Append(s, e)
<1>1. /\ r \in Seq(S) /\ Len(r) = Len(s) + 1 /\ Len(s) \in Nat
      /\ \A j \in 1 .. Len(s) : r[j] = s[j]
      /\ r[Len(s) + 1] = e
  OBVIOUS
<1> HIDE DEF r
<1>2. DOMAIN r = 1 .. Len(s) + 1 /\ DOMAIN s = 1 .. Len(s)
  BY <1>1
<1>3. \A j \in 1 .. Len(s) : s[j] # e
  BY <1>2 DEF Range
<1>4. IsInjective(r)
  <2>1. SUFFICES ASSUME NEW j \in 1 .. Len(s) + 1, NEW l \in 1 .. Len(s) + 1,
                        j < l, r[j] = r[l]
                 PROVE  FALSE
    BY <1>1, <1>2, SMTT(120) DEF IsInjective
  <2>2. j \in 1 .. Len(s) /\ r[j] = s[j]
    BY <1>1, <2>1
  <2>3. CASE l = Len(s) + 1
    BY <1>1, <1>3, <2>1, <2>2, <2>3, ZenonT(30)
  <2>4. CASE l \in 1 .. Len(s)
    <3>1. r[l] = s[l] /\ l # j
      BY <1>1, <2>1, <2>4
    <3>2. QED  BY <1>2, <2>1, <2>2, <2>4, <3>1, ZenonT(30) DEF IsInjective
  <2>5. QED  BY <1>1, <2>3, <2>4
<1>5. Range(r) = Range(s) \cup {e}
  <2>1. Range(r) = {r[j] : j \in 1 .. Len(s)} \cup {r[Len(s) + 1]}
    <3>1. 1 .. Len(s) + 1 = (1 .. Len(s)) \cup {Len(s) + 1}
      BY <1>1
    <3>2. QED  BY <1>2, <3>1 DEF Range
  <2>2. {r[j] : j \in 1 .. Len(s)} = Range(s)
    BY <1>1, <1>2 DEF Range
  <2>3. QED  BY <1>1, <2>1, <2>2
<1>6. QED
  BY <1>1, <1>4, <1>5 DEF r

(* Unlinking a record that is on the list takes it off, and only it.       *)
LEMMA UnlinkSet ==
    ASSUME NEW S, NEW s \in Seq(S), IsInjective(s), NEW e \in Range(s)
    PROVE  /\ Unlink(s, e) \in Seq(S)
           /\ Len(Unlink(s, e)) = Len(s) - 1
           /\ IsInjective(Unlink(s, e))
           /\ Range(Unlink(s, e)) = Range(s) \ {e}
<1> DEFINE I == {i \in 1 .. Len(s) : s[i] = e}
<1>1. PICK i \in 1 .. Len(s) : s[i] = e
  BY DEF Range
<1>2. I = {i}
  BY <1>1 DEF IsInjective
<1>3. Min({i}) = i
  BY <1>1 DEF Min
<1>4. FirstAt(s, e) = i
  BY <1>2, <1>3, ZenonT(30) DEF FirstAt
<1>5. Unlink(s, e) = DropAt(s, i)
  BY <1>1, <1>4 DEF Unlink
<1>6. /\ DropAt(s, i) \in Seq(S)
      /\ Len(DropAt(s, i)) = Len(s) - 1
  BY DropAtProperties, ZenonT(30)
<1>7. /\ IsInjective(DropAt(s, i))
      /\ Range(DropAt(s, i)) = Range(s) \ {s[i]}
  BY DropAtSet, ZenonT(30)
<1>8. QED
  BY <1>1, <1>5, <1>6, <1>7, ZenonT(30)

(* A record that is not on the list cannot be unlinked.                    *)
LEMMA UnlinkAbsent ==
    ASSUME NEW S, NEW s \in Seq(S), NEW e, e \notin Range(s)
    PROVE  Unlink(s, e) = s
BY DEF Unlink, Range

(* A list that is worked off from its head: what is left, and what it was. *)
LEMMA TailSet ==
    ASSUME NEW S, NEW s \in Seq(S), IsInjective(s), s # <<>>
    PROVE  /\ Tail(s) \in Seq(S) /\ IsInjective(Tail(s))
           /\ Head(s) \in Range(s) /\ Head(s) \in S
           /\ Range(Tail(s)) = Range(s) \ {Head(s)}
<1> DEFINE r == Tail(s)
<1>1. /\ r \in Seq(S) /\ Len(r) = Len(s) - 1 /\ Len(s) \in Nat \ {0}
      /\ \A j \in 1 .. Len(s) - 1 : r[j] = s[j + 1]
      /\ Head(s) = s[1]
  OBVIOUS
<1> HIDE DEF r
<1>2. DOMAIN r = 1 .. Len(s) - 1 /\ DOMAIN s = 1 .. Len(s)
  BY <1>1
<1>3. IsInjective(r)
  BY <1>1, <1>2 DEF IsInjective
<1>4. Head(s) \in Range(s) /\ Head(s) \in S
  BY <1>1, <1>2 DEF Range
<1>5. ASSUME NEW e \in Range(r) PROVE e \in Range(s) \ {Head(s)}
  <2>1. PICK j \in 1 .. Len(s) - 1 : e = s[j + 1]
    BY <1>1, <1>2 DEF Range
  <2>2. j + 1 \in 1 .. Len(s) /\ j + 1 # 1 /\ 1 \in 1 .. Len(s)
    BY <1>1
  <2>3. e # s[1]
    BY <1>2, <2>1, <2>2 DEF IsInjective
  <2>4. QED  BY <1>1, <1>2, <2>1, <2>2, <2>3 DEF Range
<1>6. ASSUME NEW e \in Range(s), e # Head(s) PROVE e \in Range(r)
  <2>1. PICK i \in 1 .. Len(s) : e = s[i]
    BY <1>2 DEF Range
  <2>2. i - 1 \in 1 .. Len(s) - 1 /\ (i - 1) + 1 = i
    BY <1>1, <1>6, <2>1
  <2>3. r[i - 1] = e
    BY <1>1, <2>1, <2>2
  <2>4. QED  BY <1>2, <2>2, <2>3 DEF Range
<1>7. QED  BY <1>1, <1>3, <1>4, <1>5, <1>6 DEF r
=============================================================================
