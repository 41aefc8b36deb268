---------------------- MODULE CredentialsFile_proofs ----------------------
(* Proofs about CredentialsFile, for every file of any length: what parse  *)
(* makes of a line and of a file, by positions in what the person wrote.   *)
EXTENDS CredentialsFile, SequenceTheorems, WellFoundedInduction, TLAPS

(* Every non-empty set of numbers has a least one.                          *)
LEMMA LeastNatural ==
    ASSUME NEW T \in SUBSET Nat, T # {}
    PROVE  \E n \in T : \A m \in T : n <= m
<1> DEFINE R == OpToRel(<, Nat)
<1>1. IsWellFoundedOn(R, Nat)
  BY NatLessThanWellFounded, Zenon
<1>2. \A x, y \in Nat : x < y => <<x, y>> \in R
  BY DEF OpToRel
<1> HIDE DEF R
<1>3. PICK n \in T : \A m \in T : ~(<<m, n>> \in R)
  BY <1>1, WFMin
<1>4. \A m \in T : ~(m < n)
  BY <1>2, <1>3
<1>5. QED BY <1>4

(* Min and Max of positions are what their names say. *)
LEMMA MinIs ==
    ASSUME NEW T \in SUBSET Nat, T # {}
    PROVE  Min(T) \in T /\ \A m \in T : Min(T) <= m
<1>1. \E n \in T : \A m \in T : n <= m
  BY LeastNatural
<1>2. QED BY <1>1 DEF Min

LEMMA MaxIs ==
    ASSUME NEW b \in Nat, NEW T \in SUBSET (1..b), T # {}
    PROVE  Max(T) \in T /\ \A m \in T : m <= Max(T)
<1> DEFINE D == {d \in Nat : b - d \in T}
<1>1. \A m \in T : m \in Int /\ b - m \in D
  OBVIOUS
<1>2. PICK d \in D : \A e \in D : d <= e
  BY <1>1, LeastNatural
<1>3. \A m \in T : d <= b - m
  BY <1>1, <1>2
<1>4. b - d \in T /\ d \in Nat
  BY <1>2
<1>5. \A m \in T : b - d >= m
  BY <1>1, <1>3, <1>4
<1>6. Max(T) \in T /\ \A m \in T : Max(T) >= m
  BY <1>4, <1>5 DEF Max
<1>7. QED BY <1>1, <1>6

Line == Seq(Characters)

(* What a stretch of a line holds.                                          *)
LEMMA StretchIs ==
    ASSUME NEW line \in Line, NEW lo \in 1..(Len(line) + 1), NEW hi \in (lo - 1)..Len(line)
    PROVE  /\ SubSeq(line, lo, hi) \in Line
           /\ Len(SubSeq(line, lo, hi)) = hi - lo + 1
           /\ DOMAIN SubSeq(line, lo, hi) = 1..(hi - lo + 1)
           /\ \A i \in 1..(hi - lo + 1) : SubSeq(line, lo, hi)[i] = line[lo + i - 1]
<1>1. \A i \in lo..hi : line[i] \in Characters
  BY DEF Line
<1>2. /\ SubSeq(line, lo, hi) \in Seq(Characters)
      /\ Len(SubSeq(line, lo, hi)) = IF lo <= hi THEN hi - lo + 1 ELSE 0
      /\ \A i \in 1..hi - lo + 1 : SubSeq(line, lo, hi)[i] = line[lo + i - 1]
  BY <1>1, SubSeqProperties
<1>3. QED BY <1>2, LenProperties DEF Line

(* strip takes the blanks off both ends of a stretch, and nothing else.     *)
LEMMA StripOfBlanks ==
    ASSUME NEW line \in Line, NEW lo \in 1..(Len(line) + 1), NEW hi \in (lo - 1)..Len(line),
           OnlyBlank(line, lo, hi)
    PROVE  strip(SubSeq(line, lo, hi)) = << >>
<1> DEFINE s == SubSeq(line, lo, hi)
<1>1. \A i \in DOMAIN s : s[i] = Blank
  BY StretchIs DEF OnlyBlank, Line
<1>2. QED BY <1>1 DEF strip

LEMMA StripOfStretch ==
    ASSUME NEW line \in Line, NEW lo \in 1..(Len(line) + 1), NEW hi \in (lo - 1)..Len(line),
           NEW a \in lo..hi, NEW b \in a..hi, line[a] # Blank, line[b] # Blank,
           OnlyBlank(line, lo, a - 1), OnlyBlank(line, b + 1, hi)
    PROVE  strip(SubSeq(line, lo, hi)) = SubSeq(line, a, b)
<1> DEFINE s == SubSeq(line, lo, hi)
           n == hi - lo + 1
           x == a - lo + 1
           y == b - lo + 1
           kept == {i \in DOMAIN s : s[i] # Blank}
<1>1. s \in Line /\ DOMAIN s = 1..n /\ \A i \in 1..n : s[i] = line[lo + i - 1]
  BY StretchIs
<1>2. /\ lo \in Nat /\ hi \in Nat /\ a \in Nat /\ b \in Nat /\ Len(line) \in Nat /\ n \in Nat
      /\ lo \in 1..Len(line) /\ hi \in 1..Len(line)
  BY DEF Line
<1>3. x \in 1..n /\ y \in 1..n /\ lo + x - 1 = a /\ lo + y - 1 = b
  BY <1>2
<1> HIDE DEF s
<1>4. \A i : i \in kept <=> i \in 1..n /\ line[lo + i - 1] # Blank
  BY <1>1
<1> HIDE DEF kept
<1>5. x \in kept /\ y \in kept
  BY <1>3, <1>4, Zenon
<1>6. \A i \in kept : x <= i /\ i <= y
  <2>1. ASSUME NEW i \in 1..n, i < x PROVE lo + i - 1 \in lo..(a - 1)
    BY <1>2, <2>1
  <2>2. ASSUME NEW i \in 1..n, y < i PROVE lo + i - 1 \in (b + 1)..hi
    BY <1>2, <2>2
  <2>3. ASSUME NEW i \in 1..n, line[lo + i - 1] # Blank PROVE ~(i < x) /\ ~(y < i)
    BY <2>1, <2>2, <2>3, Zenon DEF OnlyBlank
  <2> HIDE DEF x, y, n
  <2>4. ASSUME NEW i \in kept PROVE x <= i /\ i <= y
    <3>1. i \in 1..n /\ ~(i < x) /\ ~(y < i)
      BY <1>4, <2>3, <2>4
    <3>2. i \in Nat /\ x \in Nat /\ y \in Nat
      BY <1>2, <1>3, <3>1
    <3>3. QED BY <3>1, <3>2
  <2>5. QED BY <2>4
<1> HIDE DEF x, y, n
<1>7. Min(kept) = x /\ Max(kept) = y
  <2>1. kept \in SUBSET Nat /\ kept \in SUBSET (1..n) /\ kept # {}
    BY <1>2, <1>4, <1>5, SMTT(30)
  <2>2. /\ Min(kept) \in kept /\ Max(kept) \in kept /\ Min(kept) <= x /\ y <= Max(kept)
    BY <1>2, <1>5, <2>1, MinIs, MaxIs
  <2>3. x <= Min(kept) /\ Max(kept) <= y
    BY <1>6, <2>2
  <2>4. x \in Nat /\ y \in Nat /\ Min(kept) \in Nat /\ Max(kept) \in Nat
    BY <1>5, <2>1, <2>2
  <2>5. QED BY <2>2, <2>3, <2>4
<1>8. strip(s) = SubSeq(s, x, y)
  BY <1>5, <1>7 DEF strip, kept
<1>9. SubSeq(s, x, y) = SubSeq(line, a, b)
  BY <1>2, <1>3, SubSeqOfSubSeq DEF s, n, Line
<1>10. QED BY <1>8, <1>9 DEF s

LEMMA StripCases ==
    ASSUME NEW line \in Line, NEW lo \in 1..(Len(line) + 1), NEW hi \in (lo - 1)..Len(line)
    PROVE  \/ OnlyBlank(line, lo, hi)
           \/ \E a \in lo..hi : \E b \in a..hi :
                /\ line[a] # Blank /\ line[b] # Blank
                /\ OnlyBlank(line, lo, a - 1) /\ OnlyBlank(line, b + 1, hi)
<1> DEFINE T == {i \in lo..hi : line[i] # Blank}
<1> SUFFICES ASSUME T # {}
             PROVE  \E a \in lo..hi : \E b \in a..hi :
                      /\ line[a] # Blank /\ line[b] # Blank
                      /\ OnlyBlank(line, lo, a - 1) /\ OnlyBlank(line, b + 1, hi)
    BY DEF OnlyBlank
<1>1. T \in SUBSET Nat /\ T \in SUBSET (1..Len(line)) /\ Len(line) \in Nat
  BY DEF Line
<1>2. /\ Min(T) \in T /\ \A i \in T : Min(T) <= i
      /\ Max(T) \in T /\ \A i \in T : i <= Max(T)
  BY <1>1, MinIs, MaxIs
<1>3. Min(T) \in lo..hi /\ Max(T) \in Min(T)..hi /\ line[Min(T)] # Blank /\ line[Max(T)] # Blank
  BY <1>2
<1>4. OnlyBlank(line, lo, Min(T) - 1) /\ OnlyBlank(line, Max(T) + 1, hi)
  <2>1. ASSUME NEW i \in lo..(Min(T) - 1) PROVE line[i] = Blank
    BY <1>2, <1>3
  <2>2. ASSUME NEW i \in (Max(T) + 1)..hi PROVE line[i] = Blank
    BY <1>2, <1>3
  <2>3. QED BY <2>1, <2>2 DEF OnlyBlank
<1>5. QED BY <1>3, <1>4

LEMMA StretchOfStretch ==
    ASSUME NEW line \in Line, NEW lo \in 1..(Len(line) + 1), NEW hi \in (lo - 1)..Len(line),
           NEW m \in 1..(hi - lo + 2), NEW k \in (m - 1)..(hi - lo + 1),
           NEW a, NEW b, a = lo + m - 1, b = lo + k - 1
    PROVE  SubSeq(SubSeq(line, lo, hi), m, k) = SubSeq(line, a, b)
<1>1. /\ lo \in Nat /\ hi \in Nat /\ m \in Nat /\ k \in Int /\ Len(line) \in Nat
  BY DEF Line
<1>2. CASE k = m - 1
  <2>1. SubSeq(SubSeq(line, lo, hi), m, k) = << >>
    BY <1>1, <1>2, SubSeqEmpty
  <2>2. b < a /\ a \in Int /\ b \in Int
    BY <1>1, <1>2
  <2>3. SubSeq(line, a, b) = << >>
    BY <2>2, SubSeqEmpty
  <2>4. QED BY <2>1, <2>3
<1>3. CASE k # m - 1
  <2>1. /\ lo \in 1..Len(line) /\ hi \in 1..Len(line) /\ m \in 1..(hi - lo + 1) /\ k \in 1..(hi - lo + 1)
    BY <1>1, <1>3
  <2>2. QED BY <2>1, SubSeqOfSubSeq DEF Line
<1>4. QED BY <1>2, <1>3

(* What is blank at the end of a stretch makes no difference to strip.      *)
LEMMA StripIgnoresTheEnd ==
    ASSUME NEW line \in Line, NEW lo \in 1..(Len(line) + 1), NEW hi \in (lo - 1)..Len(line),
           OnlyBlank(line, hi + 1, Len(line))
    PROVE  strip(SubSeq(line, lo, hi)) = strip(SubSeq(line, lo, Len(line)))
<1>1. lo \in Nat /\ hi \in Nat /\ Len(line) \in Nat /\ Len(line) \in (lo - 1)..Len(line)
  BY DEF Line
<1>2. CASE OnlyBlank(line, lo, hi)
  <2>1. OnlyBlank(line, lo, Len(line))
    BY <1>1, <1>2 DEF OnlyBlank
  <2>2. QED BY <1>1, <1>2, <2>1, StripOfBlanks
<1>3. ASSUME NEW a \in lo..hi, NEW b \in a..hi, line[a] # Blank, line[b] # Blank,
             OnlyBlank(line, lo, a - 1), OnlyBlank(line, b + 1, hi)
      PROVE  strip(SubSeq(line, lo, hi)) = strip(SubSeq(line, lo, Len(line)))
  <2>1. a \in lo..Len(line) /\ b \in a..Len(line) /\ OnlyBlank(line, b + 1, Len(line))
    BY <1>1, <1>3 DEF OnlyBlank
  <2>2. strip(SubSeq(line, lo, hi)) = SubSeq(line, a, b)
    BY <1>3, StripOfStretch
  <2>3. strip(SubSeq(line, lo, Len(line))) = SubSeq(line, a, b)
    BY <1>1, <1>3, <2>1, StripOfStretch
  <2>4. QED BY <2>2, <2>3
<1>4. QED BY <1>2, <1>3, StripCases

(* partition splits a stretch at its first assignment sign.                 *)
LEMMA PartitionOfStretch ==
    ASSUME NEW line \in Line, NEW lo \in 1..Len(line), NEW hi \in lo..Len(line),
           NEW at \in lo..hi, line[at] = ASSIGNMENT,
           \A i \in lo..(at - 1) : line[i] # ASSIGNMENT
    PROVE  partition(SubSeq(line, lo, hi)) = <<SubSeq(line, lo, at - 1), SubSeq(line, at + 1, hi)>>
<1> DEFINE s == SubSeq(line, lo, hi)
           n == hi - lo + 1
           x == at - lo + 1
           signs == {i \in DOMAIN s : s[i] = ASSIGNMENT}
<1>1. lo \in 1..(Len(line) + 1) /\ hi \in (lo - 1)..Len(line)
  OBVIOUS
<1>2. /\ lo \in Nat /\ hi \in Nat /\ at \in Nat /\ Len(line) \in Nat /\ n \in Nat
  BY DEF Line
<1>3. Len(s) = n /\ DOMAIN s = 1..n /\ \A i \in 1..n : s[i] = line[lo + i - 1]
  BY <1>1, StretchIs
<1>4. x \in 1..n /\ lo + x - 1 = at
  BY <1>2
<1> HIDE DEF s
<1>5. \A i : i \in signs <=> i \in 1..n /\ line[lo + i - 1] = ASSIGNMENT
  BY <1>3
<1> HIDE DEF signs
<1>6. x \in signs
  BY <1>4, <1>5, Zenon
<1>7. \A i \in signs : x <= i
  <2>1. ASSUME NEW i \in 1..n, i < x PROVE lo + i - 1 \in lo..(at - 1)
    BY <1>2, <2>1
  <2>2. ASSUME NEW i \in signs PROVE i \in 1..n /\ ~(i < x)
    BY <1>5, <2>1, <2>2, Zenon
  <2> HIDE DEF x, n
  <2>3. ASSUME NEW i \in signs PROVE x <= i
    <3>1. i \in Nat /\ x \in Nat
      BY <1>2, <1>4, <2>2
    <3>2. QED BY <2>2, <3>1
  <2>4. QED BY <2>3
<1>8. Min(signs) = x
  <2> HIDE DEF x
  <2>1. signs \in SUBSET Nat
    BY <1>2, <1>5
  <2>2. Min(signs) \in signs /\ Min(signs) <= x /\ x <= Min(signs)
    BY <1>6, <1>7, <2>1, MinIs
  <2>3. Min(signs) \in Nat /\ x \in Nat
    BY <1>6, <2>1, <2>2
  <2>4. QED BY <2>2, <2>3
<1>9. partition(s) = <<SubSeq(s, 1, x - 1), SubSeq(s, x + 1, Len(s))>>
  BY <1>8 DEF partition, signs
<1>10. ASSUME NEW k, k = x - 1 PROVE SubSeq(s, 1, k) = SubSeq(line, lo, at - 1)
  <2>1. 1 \in 1..(hi - lo + 2) /\ k \in (1 - 1)..(hi - lo + 1) /\ lo = lo + 1 - 1 /\ at - 1 = lo + k - 1
    BY <1>2, <1>4, <1>10
  <2>2. QED BY <1>1, <2>1, StretchOfStretch DEF s
<1>11. ASSUME NEW m, m = x + 1, NEW k, k = Len(s) PROVE SubSeq(s, m, k) = SubSeq(line, at + 1, hi)
  <2>1. k = n
    BY <1>3, <1>11
  <2>2. m \in 1..(hi - lo + 2) /\ k \in (m - 1)..(hi - lo + 1) /\ at + 1 = lo + m - 1 /\ hi = lo + k - 1
    BY <1>2, <1>4, <1>11, <2>1
  <2>3. QED BY <1>1, <2>2, StretchOfStretch DEF s
<1>12. QED BY <1>9, <1>10, <1>11 DEF s

(* A line begins with the word export and a blank, or it does not.          *)
LEMMA PrefixIs ==
    ASSUME NEW s \in Line
    PROVE  IsPrefix(EXPORT_PREFIX, s) <=> Len(s) >= 2 /\ s[1] = "export" /\ s[2] = Blank
<1>1. Len(EXPORT_PREFIX) = 2 /\ EXPORT_PREFIX[1] = "export" /\ EXPORT_PREFIX[2] = Blank
  BY DEF EXPORT_PREFIX
<1>2. EXPORT_PREFIX \in Line
  BY DEF EXPORT_PREFIX, Line, Characters
<1>3. SubSeq(EXPORT_PREFIX, 1, 2) = EXPORT_PREFIX
  BY <1>1, <1>2, SubSeqFull DEF Line
<1>4. ASSUME Len(s) >= 2
      PROVE  EXPORT_PREFIX = SubSeq(s, 1, 2) <=> s[1] = "export" /\ s[2] = Blank
  <2>1. 2 \in (1 - 1)..Len(s) /\ 1 \in 1..(Len(s) + 1)
    BY <1>4 DEF Line
  <2>2. /\ SubSeq(s, 1, 2) \in Line /\ Len(SubSeq(s, 1, 2)) = 2
        /\ SubSeq(s, 1, 2)[1] = s[1] /\ SubSeq(s, 1, 2)[2] = s[2]
    BY <2>1, StretchIs
  <2>3. EXPORT_PREFIX = SubSeq(s, 1, 2)
          <=> EXPORT_PREFIX[1] = SubSeq(s, 1, 2)[1] /\ EXPORT_PREFIX[2] = SubSeq(s, 1, 2)[2]
    BY <1>1, <1>2, <2>2, SeqEqual DEF Line
  <2>4. QED BY <1>1, <2>2, <2>3
<1>5. QED BY <1>1, <1>3, <1>4 DEF IsPrefix

-----------------------------------------------------------------------------
(* How a line that assigns reads: what follows the word export, or all of   *)
(* it, stands from lo to b among blanks, and the first sign is at `at'.     *)
Shape(line, lo, at, b) ==
    /\ lo \in 1..at /\ at \in 1..b /\ b \in 1..Len(line)
    /\ line[at] = ASSIGNMENT /\ \A i \in 1..(at - 1) : line[i] # ASSIGNMENT
    /\ OnlyBlank(line, b + 1, Len(line))
    /\ \/ /\ OnlyBlank(line, 1, lo - 1) /\ line[lo] # Blank
          /\ ~(line[lo] = "export" /\ line[lo + 1] = Blank)
       \/ /\ lo >= 3 /\ line[lo - 2] = "export" /\ line[lo - 1] = Blank
          /\ OnlyBlank(line, 1, lo - 3)

LEMMA Letters ==
    /\ Blank # ASSIGNMENT /\ Blank # COMMENT /\ ASSIGNMENT # COMMENT
    /\ "export" \notin {Blank, ASSIGNMENT, COMMENT, "K"} /\ "K" \notin {Blank, ASSIGNMENT, COMMENT}
    /\ \A q \in QUOTES : q \notin {Blank, ASSIGNMENT, COMMENT, "K", "export"}
    /\ QUOTES \subseteq Characters /\ {Blank, ASSIGNMENT, COMMENT, "K", "export"} \subseteq Characters
<1> QED BY DEF Blank, ASSIGNMENT, COMMENT, QUOTES, Characters

(* strip keeps a stretch that begins and ends with something else, or       *)
(* nothing of a line of blanks.                                             *)
LEMMA StripOfLine ==
    ASSUME NEW line \in Line
    PROVE  \/ OnlyBlank(line, 1, Len(line)) /\ strip(line) = << >>
           \/ \E a \in 1..Len(line) : \E b \in a..Len(line) :
                /\ line[a] # Blank /\ line[b] # Blank
                /\ OnlyBlank(line, 1, a - 1) /\ OnlyBlank(line, b + 1, Len(line))
                /\ strip(line) = SubSeq(line, a, b)
<1>1. Len(line) \in Nat /\ 1 \in 1..(Len(line) + 1) /\ Len(line) \in (1 - 1)..Len(line)
  BY DEF Line
<1>2. SubSeq(line, 1, Len(line)) = line
  BY SubSeqFull DEF Line
<1>3. CASE OnlyBlank(line, 1, Len(line))
  BY <1>1, <1>2, <1>3, StripOfBlanks
<1>4. ASSUME NEW a \in 1..Len(line), NEW b \in a..Len(line), line[a] # Blank, line[b] # Blank,
             OnlyBlank(line, 1, a - 1), OnlyBlank(line, b + 1, Len(line))
      PROVE  strip(line) = SubSeq(line, a, b)
  BY <1>1, <1>2, <1>4, StripOfStretch
<1>5. \/ OnlyBlank(line, 1, Len(line))
      \/ \E a \in 1..Len(line) : \E b \in a..Len(line) :
           /\ line[a] # Blank /\ line[b] # Blank
           /\ OnlyBlank(line, 1, a - 1) /\ OnlyBlank(line, b + 1, Len(line))
  BY <1>1, StripCases
<1>6. QED BY <1>3, <1>4, <1>5, Zenon

(* What _assignment looks at, in a line whose ends are known.               *)
LEMMA ReadFrom ==
    ASSUME NEW line \in Line, NEW a \in 1..Len(line), NEW b \in a..Len(line),
           line[a] # Blank, line[b] # Blank,
           OnlyBlank(line, 1, a - 1), OnlyBlank(line, b + 1, Len(line)),
           strip(line) = SubSeq(line, a, b),
           NEW at \in a..b, line[at] = ASSIGNMENT, \A i \in 1..(at - 1) : line[i] # ASSIGNMENT
    PROVE  \E lo \in 1..Len(line) :
             /\ Shape(line, lo, at, b)
             /\ removeprefix(strip(line), EXPORT_PREFIX) = SubSeq(line, lo, b)
<1> DEFINE s == SubSeq(line, a, b)
<1>1. /\ a \in Nat /\ b \in Nat /\ at \in Nat /\ Len(line) \in Nat
      /\ a \in 1..(Len(line) + 1) /\ b \in (a - 1)..Len(line)
      /\ at \in 1..b /\ b \in 1..Len(line)
  BY DEF Line
<1>2. s \in Line /\ Len(s) = b - a + 1 /\ \A i \in 1..(b - a + 1) : s[i] = line[a + i - 1]
  BY <1>1, StretchIs
<1>3. Len(EXPORT_PREFIX) = 2
  BY DEF EXPORT_PREFIX
<1> HIDE DEF s
<1>4. CASE Len(s) >= 2 /\ s[1] = "export" /\ s[2] = Blank
  <2>1. line[a] = "export" /\ line[a + 1] = Blank
    <3>1. 1 \in 1..(b - a + 1) /\ 2 \in 1..(b - a + 1) /\ a + 1 - 1 = a /\ a + 2 - 1 = a + 1
      BY <1>1, <1>2, <1>4
    <3>2. s[1] = line[a + 1 - 1] /\ s[2] = line[a + 2 - 1]
      BY <1>2, <3>1
    <3>3. QED BY <1>4, <3>1, <3>2
  <2>2. at # a /\ at # a + 1
    BY <2>1, Letters
  <2>3. a + 2 \in 1..at /\ a + 2 \in 1..Len(line) /\ a + 2 >= 3
    BY <1>1, <2>2
  <2>4. SubSeq(s, 3, Len(s)) = SubSeq(line, a + 2, b)
    <3>1. ASSUME NEW k, k = Len(s) PROVE SubSeq(s, 3, k) = SubSeq(line, a + 2, b)
      <4>1. 3 \in 1..(b - a + 2) /\ k \in (3 - 1)..(b - a + 1) /\ a + 2 = a + 3 - 1 /\ b = a + k - 1
        BY <1>1, <1>2, <2>3, <3>1
      <4>2. QED BY <1>1, <4>1, StretchOfStretch DEF s
    <3>2. QED BY <3>1
  <2>5. removeprefix(strip(line), EXPORT_PREFIX) = SubSeq(line, a + 2, b)
    <3>1. IsPrefix(EXPORT_PREFIX, s)
      BY <1>2, <1>4, PrefixIs
    <3>2. strip(line) = s
      BY DEF s
    <3>3. Len(EXPORT_PREFIX) + 1 = 3
      BY <1>3
    <3>4. QED BY <2>4, <3>1, <3>2, <3>3, Zenon DEF removeprefix
  <2>6. Shape(line, a + 2, at, b)
    <3>1. a + 2 - 2 = a /\ a + 2 - 1 = a + 1 /\ a + 2 - 3 = a - 1
      BY <1>1
    <3>2. QED BY <1>1, <2>1, <2>3, <3>1 DEF Shape
  <2>7. QED BY <2>3, <2>5, <2>6
<1>5. CASE ~(Len(s) >= 2 /\ s[1] = "export" /\ s[2] = Blank)
  <2>1. removeprefix(strip(line), EXPORT_PREFIX) = SubSeq(line, a, b)
    <3>1. ~IsPrefix(EXPORT_PREFIX, s) /\ strip(line) = s
      BY <1>2, <1>5, PrefixIs DEF s
    <3>2. QED BY <3>1 DEF removeprefix, s
  <2>2. ~(line[a] = "export" /\ line[a + 1] = Blank)
    <3> SUFFICES ASSUME line[a] = "export", line[a + 1] = Blank PROVE FALSE
        OBVIOUS
    <3>1. a # at
      BY Letters
    <3>2. 1 \in 1..(b - a + 1) /\ 2 \in 1..(b - a + 1) /\ a + 1 - 1 = a /\ a + 2 - 1 = a + 1
      BY <1>1, <3>1
    <3>3. s[1] = line[a + 1 - 1] /\ s[2] = line[a + 2 - 1]
      BY <1>2, <3>2
    <3>4. QED BY <1>1, <1>2, <1>5, <3>2, <3>3
  <2>3. Shape(line, a, at, b)
    BY <1>1, <2>2 DEF Shape
  <2>4. QED BY <2>1, <2>3
<1>6. QED BY <1>4, <1>5

(* A line that assigns is split at its first sign, and both sides stripped. *)
LEMMA LineReads ==
    ASSUME NEW line \in Line, _is_an_assignment(line)
    PROVE  \E lo, at, b \in 1..Len(line) :
             /\ Shape(line, lo, at, b)
             /\ _assignment(line).name = strip(SubSeq(line, lo, at - 1))
             /\ _assignment(line).value = _unquoted(strip(SubSeq(line, at + 1, Len(line))))
<1>1. strip(line) # << >>
  BY DEF _is_an_assignment
<1>0. PICK a \in 1..Len(line) : \E b \in a..Len(line) :
        /\ line[a] # Blank /\ line[b] # Blank
        /\ OnlyBlank(line, 1, a - 1) /\ OnlyBlank(line, b + 1, Len(line))
        /\ strip(line) = SubSeq(line, a, b)
  BY <1>1, StripOfLine, Zenon
<1>2. PICK b \in a..Len(line) :
        /\ line[a] # Blank /\ line[b] # Blank
        /\ OnlyBlank(line, 1, a - 1) /\ OnlyBlank(line, b + 1, Len(line))
        /\ strip(line) = SubSeq(line, a, b)
  BY <1>0
<1> DEFINE P == {i \in 1..Len(line) : line[i] = ASSIGNMENT}
           at == Min(P)
<1>3. /\ a \in Nat /\ b \in Nat /\ Len(line) \in Nat /\ b \in 1..Len(line)
      /\ a \in 1..(Len(line) + 1) /\ b \in (a - 1)..Len(line)
  BY DEF Line
<1>4. at \in a..b /\ line[at] = ASSIGNMENT /\ \A i \in 1..(at - 1) : line[i] # ASSIGNMENT
  <2>1. \E i \in DOMAIN strip(line) : strip(line)[i] = ASSIGNMENT
    BY DEF _is_an_assignment
  <2>A. /\ DOMAIN SubSeq(line, a, b) = 1..(b - a + 1)
        /\ \A i \in 1..(b - a + 1) : SubSeq(line, a, b)[i] = line[a + i - 1]
    BY <1>3, StretchIs
  <2>B. \E i \in 1..(b - a + 1) : line[a + i - 1] = ASSIGNMENT
    BY <1>2, <2>1, <2>A, Zenon
  <2>2. PICK i \in 1..(b - a + 1) : line[a + i - 1] = ASSIGNMENT
    BY <2>B
  <2>3. a + i - 1 \in P
    BY <1>3, <2>2
  <2>4. at \in P /\ \A m \in P : at <= m
    <3>1. P \in SUBSET Nat /\ P # {}
      BY <2>3
    <3>2. QED BY <3>1, MinIs, Zenon
  <2>5. at \in 1..Len(line) /\ line[at] = ASSIGNMENT
    BY <2>4
  <2> HIDE DEF at
  <2>6. ~(at \in 1..(a - 1)) /\ ~(at \in (b + 1)..Len(line))
    BY <1>2, <2>5, Letters DEF OnlyBlank
  <2>7. at \in a..b
    BY <1>3, <2>5, <2>6
  <2>8. ASSUME NEW m \in 1..(at - 1) PROVE line[m] # ASSIGNMENT
    <3>1. m \in 1..Len(line) /\ ~(at <= m)
      BY <1>3, <2>5
    <3>2. QED BY <2>4, <3>1
  <2>9. QED BY <2>5, <2>7, <2>8
<1> HIDE DEF at
<1>5. PICK lo \in 1..Len(line) :
        /\ Shape(line, lo, at, b)
        /\ removeprefix(strip(line), EXPORT_PREFIX) = SubSeq(line, lo, b)
  BY <1>2, <1>4, ReadFrom
<1>6. lo \in 1..at /\ at \in 1..b /\ at \in 1..Len(line) /\ at \in Nat /\ lo \in Nat
  BY <1>3, <1>5 DEF Shape
<1>7. partition(SubSeq(line, lo, b)) = <<SubSeq(line, lo, at - 1), SubSeq(line, at + 1, b)>>
  <2>1. /\ b \in lo..Len(line) /\ at \in lo..b
        /\ \A i \in lo..(at - 1) : line[i] # ASSIGNMENT
    BY <1>3, <1>4, <1>6
  <2>2. QED BY <1>4, <2>1, PartitionOfStretch
<1>8. strip(SubSeq(line, at + 1, b)) = strip(SubSeq(line, at + 1, Len(line)))
  <2>1. ASSUME NEW m, m = at + 1
        PROVE  strip(SubSeq(line, m, b)) = strip(SubSeq(line, m, Len(line)))
    <3>1. m \in 1..(Len(line) + 1) /\ b \in (m - 1)..Len(line)
      BY <1>3, <1>6, <2>1
    <3>2. QED BY <1>2, <3>1, StripIgnoresTheEnd
  <2>2. QED BY <2>1
<1>9. /\ _assignment(line).name = strip(SubSeq(line, lo, at - 1))
      /\ _assignment(line).value = _unquoted(strip(SubSeq(line, at + 1, Len(line))))
  <2> DEFINE parts == partition(removeprefix(strip(line), EXPORT_PREFIX))
  <2>1. parts[1] = SubSeq(line, lo, at - 1) /\ parts[2] = SubSeq(line, at + 1, b)
    <3>1. parts = <<SubSeq(line, lo, at - 1), SubSeq(line, at + 1, b)>>
      BY <1>5, <1>7, Zenon
    <3>2. ASSUME NEW x, NEW y, parts = <<x, y>> PROVE parts[1] = x /\ parts[2] = y
      <4> HIDE DEF parts
      <4>1. QED BY <3>2
    <3>3. QED BY <3>1, <3>2, Zenon
  <2>2. _assignment(line) = [name |-> strip(parts[1]), value |-> _unquoted(strip(parts[2]))]
    BY DEF _assignment
  <2> HIDE DEF parts
  <2>3. _assignment(line).name = strip(parts[1]) /\ _assignment(line).value = _unquoted(strip(parts[2]))
    BY <2>2
  <2>4. QED BY <1>8, <2>1, <2>3, Zenon
<1>10. QED BY <1>3, <1>5, <1>6, <1>9

(* Up to its sign the line is the key among blanks, exported or not: that   *)
(* is what it assigns.                                                      *)
LEMMA KeyStands ==
    ASSUME NEW line \in Line, NEW lo \in Nat, NEW at \in Nat, NEW k \in lo..(at - 1),
           1 <= lo, at <= Len(line), line[k] = "K",
           OnlyBlank(line, lo, k - 1), OnlyBlank(line, k + 1, at - 1)
    PROVE  strip(SubSeq(line, lo, at - 1)) = Key
<1>1. /\ k \in Nat /\ Len(line) \in Nat /\ line[k] # Blank
      /\ lo \in 1..(Len(line) + 1) /\ at - 1 \in (lo - 1)..Len(line)
      /\ k \in 1..(Len(line) + 1) /\ k \in (k - 1)..Len(line) /\ k \in k..(at - 1)
  BY Letters DEF Line
<1>2. strip(SubSeq(line, lo, at - 1)) = SubSeq(line, k, k)
  BY <1>1, StripOfStretch
<1>3. SubSeq(line, k, k) \in Line /\ Len(SubSeq(line, k, k)) = 1 /\ SubSeq(line, k, k)[1] = "K"
  <2>1. k - k + 1 = 1 /\ k + 1 - 1 = k
    BY <1>1
  <2>2. /\ SubSeq(line, k, k) \in Line /\ Len(SubSeq(line, k, k)) = k - k + 1
        /\ \A i \in 1..(k - k + 1) : SubSeq(line, k, k)[i] = line[k + i - 1]
    BY <1>1, StretchIs
  <2>3. 1 \in 1..(k - k + 1)
    BY <2>1
  <2>4. SubSeq(line, k, k)[1] = line[k + 1 - 1]
    BY <2>2, <2>3
  <2>5. QED BY <2>1, <2>2, <2>4
<1>4. SubSeq(line, k, k) = Key
  <2>1. Key \in Line /\ Len(Key) = 1 /\ Key[1] = "K"
    BY Letters DEF Key, Line
  <2>2. QED BY <1>3, <2>1, SeqEqual DEF Line
<1>5. QED BY <1>2, <1>4

LEMMA KeyFound ==
    ASSUME NEW line \in Line, NEW lo \in Nat, NEW at \in Nat, 1 <= lo, lo <= at, at <= Len(line),
           strip(SubSeq(line, lo, at - 1)) = Key
    PROVE  \E k \in lo..(at - 1) :
             line[k] = "K" /\ OnlyBlank(line, lo, k - 1) /\ OnlyBlank(line, k + 1, at - 1)
<1>1. Len(line) \in Nat /\ lo \in 1..(Len(line) + 1) /\ at - 1 \in (lo - 1)..Len(line)
  BY DEF Line
<1>2. Key # << >> /\ Len(Key) = 1 /\ Key[1] = "K"
  BY DEF Key
<1>3. ~OnlyBlank(line, lo, at - 1)
  BY <1>1, <1>2, StripOfBlanks
<1>A. PICK a \in lo..(at - 1) : \E b \in a..(at - 1) :
        /\ line[a] # Blank /\ line[b] # Blank
        /\ OnlyBlank(line, lo, a - 1) /\ OnlyBlank(line, b + 1, at - 1)
  BY <1>1, <1>3, StripCases
<1>4. PICK b \in a..(at - 1) :
        /\ line[a] # Blank /\ line[b] # Blank
        /\ OnlyBlank(line, lo, a - 1) /\ OnlyBlank(line, b + 1, at - 1)
  BY <1>A
<1>5. SubSeq(line, a, b) = Key
  BY <1>1, <1>4, StripOfStretch
<1>6. /\ a \in Nat /\ b \in Nat /\ a <= b
      /\ a \in 1..(Len(line) + 1) /\ b \in (a - 1)..Len(line)
  BY <1>1
<1>7. /\ Len(SubSeq(line, a, b)) = b - a + 1
      /\ \A i \in 1..(b - a + 1) : SubSeq(line, a, b)[i] = line[a + i - 1]
  BY <1>6, StretchIs
<1>8. b - a + 1 = 1
  BY <1>2, <1>5, <1>7
<1>9. b = a /\ 1 \in 1..(b - a + 1) /\ a + 1 - 1 = a
  BY <1>6, <1>8
<1>10. line[a] = "K"
  <2>1. SubSeq(line, a, b)[1] = line[a + 1 - 1]
    BY <1>7, <1>9
  <2>2. QED BY <1>2, <1>5, <1>9, <2>1
<1>11. QED BY <1>4, <1>9, <1>10

LEMMA SignIsFirst ==
    ASSUME NEW line \in Line, NEW at \in 1..Len(line), Assigns(line, at), NEW i \in 1..(at - 1)
    PROVE  line[i] # ASSIGNMENT /\ line[i] # COMMENT
<1>1. PICK k \in 1..(at - 1) :
        /\ line[k] = "K" /\ OnlyBlank(line, k + 1, at - 1)
        /\ \/ OnlyBlank(line, 1, k - 1)
           \/ \E e \in 1..(k - 2) : line[e] = "export" /\ OnlyBlank(line, 1, e - 1)
                                                       /\ OnlyBlank(line, e + 1, k - 1)
  BY DEF Assigns
<1>2. i \in Nat /\ k \in Nat /\ at \in Nat
  BY DEF Line
<1>3. line[i] \in {Blank, "K", "export"}
  <2>1. CASE i \in (k + 1)..(at - 1)
    BY <1>1, <2>1 DEF OnlyBlank
  <2>2. CASE i = k
    BY <1>1, <2>2
  <2>3. CASE i \in 1..(k - 1) /\ OnlyBlank(line, 1, k - 1)
    BY <2>3 DEF OnlyBlank
  <2>4. ASSUME i \in 1..(k - 1), NEW e \in 1..(k - 2), line[e] = "export",
               OnlyBlank(line, 1, e - 1), OnlyBlank(line, e + 1, k - 1)
        PROVE  line[i] \in {Blank, "K", "export"}
    <3>1. i \in 1..(e - 1) \/ i = e \/ i \in (e + 1)..(k - 1)
      BY <1>2, <2>4
    <3>2. QED BY <2>4, <3>1 DEF OnlyBlank
  <2>5. i \in 1..(k - 1) \/ i = k \/ i \in (k + 1)..(at - 1)
    BY <1>2
  <2>6. QED BY <1>1, <2>1, <2>2, <2>3, <2>4, <2>5, Zenon
<1>4. QED BY <1>3, Letters

(* A line that a person reads as assigning the key does so, and its value   *)
(* is what follows the sign.                                                *)
LEMMA AssignsReads ==
    ASSUME NEW line \in Line, NEW at \in 1..Len(line), Assigns(line, at)
    PROVE  /\ _is_an_assignment(line)
           /\ _assignment(line).name = Key
           /\ _assignment(line).value = _unquoted(strip(SubSeq(line, at + 1, Len(line))))
<1>1. PICK k \in 1..(at - 1) :
        /\ line[k] = "K" /\ OnlyBlank(line, k + 1, at - 1)
        /\ \/ OnlyBlank(line, 1, k - 1)
           \/ \E e \in 1..(k - 2) : line[e] = "export" /\ OnlyBlank(line, 1, e - 1)
                                                       /\ OnlyBlank(line, e + 1, k - 1)
  BY DEF Assigns
<1>2. /\ k \in Nat /\ at \in Nat /\ Len(line) \in Nat /\ k < at /\ k \in 1..Len(line)
      /\ line[at] = ASSIGNMENT
  BY DEF Line, Assigns
<1>3. \A i \in 1..(at - 1) : line[i] # ASSIGNMENT /\ line[i] # COMMENT
  BY SignIsFirst
<1>4. _is_an_assignment(line)
  <2>1. ~OnlyBlank(line, 1, Len(line))
    BY <1>1, <1>2, Letters DEF OnlyBlank
  <2>2. PICK a \in 1..Len(line) : \E b \in a..Len(line) :
          /\ line[a] # Blank /\ line[b] # Blank
          /\ OnlyBlank(line, 1, a - 1) /\ OnlyBlank(line, b + 1, Len(line))
          /\ strip(line) = SubSeq(line, a, b)
    BY <2>1, StripOfLine, Zenon
  <2>3. PICK b \in a..Len(line) :
          /\ line[a] # Blank /\ line[b] # Blank
          /\ OnlyBlank(line, 1, a - 1) /\ OnlyBlank(line, b + 1, Len(line))
          /\ strip(line) = SubSeq(line, a, b)
    BY <2>2
  <2>4. ~(k \in 1..(a - 1)) /\ ~(at \in (b + 1)..Len(line))
    BY <1>1, <1>2, <2>3, Letters DEF OnlyBlank
  <2>5. a <= k /\ at \in a..b /\ a \in 1..(Len(line) + 1) /\ b \in (a - 1)..Len(line)
    BY <1>2, <2>4
  <2>6. /\ strip(line) \in Line /\ Len(strip(line)) = b - a + 1 /\ DOMAIN strip(line) = 1..(b - a + 1)
        /\ \A i \in 1..(b - a + 1) : strip(line)[i] = line[a + i - 1]
    BY <2>3, <2>5, StretchIs
  <2>7. strip(line) # << >> /\ Head(strip(line)) # COMMENT
    <3>1. 1 \in 1..(b - a + 1) /\ a + 1 - 1 = a /\ a \in 1..(at - 1)
      BY <1>2, <2>5
    <3>2. strip(line)[1] = line[a]
      <4>1. strip(line)[1] = line[a + 1 - 1]
        BY <2>6, <3>1
      <4>2. QED BY <3>1, <4>1
    <3>3. Len(strip(line)) # 0
      BY <2>5, <2>6
    <3>4. strip(line) # << >> /\ Head(strip(line)) = strip(line)[1]
      BY <2>6, <3>3, HeadTailProperties DEF Line
    <3>5. QED BY <1>3, <3>1, <3>2, <3>4
  <2>8. \E i \in DOMAIN strip(line) : strip(line)[i] = ASSIGNMENT
    <3>1. ASSUME NEW x, x = at - a + 1 PROVE x \in 1..(b - a + 1) /\ a + x - 1 = at
      BY <1>2, <2>5, <3>1
    <3>2. ASSUME NEW x, x = at - a + 1 PROVE x \in DOMAIN strip(line) /\ strip(line)[x] = ASSIGNMENT
      BY <1>2, <2>6, <3>1, <3>2
    <3>3. QED BY <3>2
  <2>9. QED BY <2>7, <2>8 DEF _is_an_assignment
<1>5. PICK lo, at2, b \in 1..Len(line) :
        /\ Shape(line, lo, at2, b)
        /\ _assignment(line).name = strip(SubSeq(line, lo, at2 - 1))
        /\ _assignment(line).value = _unquoted(strip(SubSeq(line, at2 + 1, Len(line))))
  BY <1>4, LineReads
<1>6. at2 = at
  <2>1. at2 \in Nat /\ 1 <= at2 /\ line[at2] = ASSIGNMENT /\ ~(at \in 1..(at2 - 1))
    BY <1>2, <1>5 DEF Shape
  <2>2. ~(at2 \in 1..(at - 1))
    BY <1>3, <2>1
  <2>3. QED BY <1>2, <2>1, <2>2
<1>7. Shape(line, lo, at, b) /\ lo \in Nat /\ 1 <= lo /\ lo <= at
  BY <1>5, <1>6 DEF Shape
<1>8. k \in lo..(at - 1) /\ OnlyBlank(line, lo, k - 1)
  <2>1. CASE OnlyBlank(line, 1, k - 1) /\ OnlyBlank(line, 1, lo - 1)
    <3>1. ~(k \in 1..(lo - 1))
      BY <1>1, <2>1, Letters DEF OnlyBlank
    <3>2. k \in lo..(at - 1)
      BY <1>2, <1>7, <3>1
    <3>3. QED BY <1>7, <2>1, <3>2 DEF OnlyBlank
  <2>2. CASE OnlyBlank(line, 1, k - 1) /\ lo >= 3 /\ line[lo - 2] = "export"
    <3>1. lo - 2 \in 1..(k - 1) \/ lo - 2 = k \/ lo - 2 \in (k + 1)..(at - 1)
      BY <1>2, <1>7, <2>2
    <3>2. QED BY <1>1, <2>2, <3>1, Letters DEF OnlyBlank
  <2>3. ASSUME NEW e \in 1..(k - 2), line[e] = "export",
               OnlyBlank(line, 1, e - 1), OnlyBlank(line, e + 1, k - 1)
        PROVE  k \in lo..(at - 1) /\ OnlyBlank(line, lo, k - 1)
    <3>1. CASE /\ OnlyBlank(line, 1, lo - 1) /\ line[lo] # Blank
               /\ ~(line[lo] = "export" /\ line[lo + 1] = Blank)
      <4>1. ~(e \in 1..(lo - 1)) /\ ~(lo \in 1..(e - 1))
        BY <2>3, <3>1, Letters DEF OnlyBlank
      <4>2. lo = e /\ lo + 1 \in (e + 1)..(k - 1)
        BY <1>2, <1>7, <4>1
      <4>3. QED BY <2>3, <3>1, <4>2 DEF OnlyBlank
    <3>2. CASE lo >= 3 /\ line[lo - 2] = "export"
      <4>1. \/ lo - 2 \in 1..(e - 1) \/ lo - 2 = e \/ lo - 2 \in (e + 1)..(k - 1)
            \/ lo - 2 = k \/ lo - 2 \in (k + 1)..(at - 1)
        BY <1>2, <1>7, <3>2
      <4>2. lo - 2 = e
        BY <1>1, <2>3, <3>2, <4>1, Letters DEF OnlyBlank
      <4>3. k \in lo..(at - 1) /\ lo \in Nat /\ e + 1 <= lo
        BY <1>2, <1>7, <4>2
      <4>4. QED BY <2>3, <4>3 DEF OnlyBlank
    <3>3. QED BY <1>7, <3>1, <3>2 DEF Shape
  <2>4. QED BY <1>1, <1>7, <2>1, <2>2, <2>3 DEF Shape
<1>9. strip(SubSeq(line, lo, at - 1)) = Key
  BY <1>1, <1>2, <1>7, <1>8, KeyStands
<1>10. QED BY <1>4, <1>5, <1>6, <1>9

(* And a line that assigns the key is one a person reads so. *)
LEMMA NamedIs ==
    ASSUME NEW line \in Line, _is_an_assignment(line), _assignment(line).name = Key
    PROVE  \E at \in 1..Len(line) : Assigns(line, at)
<1>1. PICK lo, at, b \in 1..Len(line) :
        /\ Shape(line, lo, at, b)
        /\ _assignment(line).name = strip(SubSeq(line, lo, at - 1))
  BY LineReads
<1>2. /\ lo \in Nat /\ at \in Nat /\ Len(line) \in Nat /\ 1 <= lo /\ lo <= at /\ at <= Len(line)
      /\ line[at] = ASSIGNMENT
  BY <1>1 DEF Shape, Line
<1>3. PICK k \in lo..(at - 1) :
        line[k] = "K" /\ OnlyBlank(line, lo, k - 1) /\ OnlyBlank(line, k + 1, at - 1)
  BY <1>1, <1>2, KeyFound
<1>4. k \in Nat /\ k \in 1..(at - 1)
  BY <1>2
<1>5. CASE OnlyBlank(line, 1, lo - 1)
  <2>1. OnlyBlank(line, 1, k - 1)
    BY <1>2, <1>3, <1>4, <1>5 DEF OnlyBlank
  <2>2. QED BY <1>2, <1>3, <1>4, <2>1 DEF Assigns
<1>6. CASE lo >= 3 /\ line[lo - 2] = "export" /\ line[lo - 1] = Blank /\ OnlyBlank(line, 1, lo - 3)
  <2>1. ASSUME NEW e, e = lo - 2
        PROVE  /\ e \in 1..(k - 2) /\ line[e] = "export" /\ OnlyBlank(line, 1, e - 1)
               /\ OnlyBlank(line, e + 1, k - 1)
    <3>1. e \in 1..(k - 2) /\ e - 1 = lo - 3 /\ e + 1 = lo - 1
      BY <1>2, <1>4, <1>6, <2>1
    <3>2. ASSUME NEW i \in (e + 1)..(k - 1) PROVE line[i] = Blank
      <4>1. i = lo - 1 \/ i \in lo..(k - 1)
        BY <1>2, <1>4, <3>1
      <4>2. QED BY <1>3, <1>6, <4>1 DEF OnlyBlank
    <3>3. QED BY <1>6, <2>1, <3>1, <3>2 DEF OnlyBlank
  <2>2. \E e \in 1..(k - 2) : line[e] = "export" /\ OnlyBlank(line, 1, e - 1)
                                                /\ OnlyBlank(line, e + 1, k - 1)
    BY <2>1
  <2>3. QED BY <1>2, <1>3, <1>4, <2>2 DEF Assigns
<1>7. QED BY <1>1, <1>5, <1>6 DEF Shape

-----------------------------------------------------------------------------
(* The value.                                                               *)

LEMMA UnquotedIsNothing ==
    ASSUME NEW v \in Line
    PROVE  _unquoted(v) = << >> <=> v = << >> \/ (Len(v) = 2 /\ v[1] \in QUOTES /\ v[2] = v[1])
<1>1. Len(v) \in Nat
  BY DEF Line
<1>2. CASE Len(v) < 2
  <2>1. _unquoted(v) = v
    BY <1>1, <1>2 DEF _unquoted
  <2>2. QED BY <1>1, <1>2, <2>1
<1>3. CASE Len(v) >= 2
  <2>1. v # << >> /\ Head(v) = v[1] /\ Last(v) = v[Len(v)]
    <3>1. v # << >>
      BY <1>3
    <3>2. QED BY <3>1, HeadTailProperties DEF Last, Line
  <2>2. CASE v[1] \in QUOTES /\ v[Len(v)] = v[1]
    <3>1. _unquoted(v) = SubSeq(v, 2, Len(v) - 1)
      BY <1>3, <2>1, <2>2 DEF _unquoted
    <3>2. ASSUME NEW k, k = Len(v) - 1 PROVE SubSeq(v, 2, k) = << >> <=> Len(v) = 2
      <4>1. 2 \in 1..(Len(v) + 1) /\ k \in (2 - 1)..Len(v)
        BY <1>1, <1>3, <3>2
      <4>2. Len(SubSeq(v, 2, k)) = k - 2 + 1 /\ SubSeq(v, 2, k) \in Line
        BY <4>1, StretchIs
      <4>3. SubSeq(v, 2, k) = << >> <=> Len(SubSeq(v, 2, k)) = 0
        BY <4>2, EmptySeq DEF Line
      <4>4. QED BY <1>1, <1>3, <3>2, <4>2, <4>3
    <3>3. SubSeq(v, 2, Len(v) - 1) = << >> <=> Len(v) = 2
      BY <3>2
    <3>4. QED BY <2>1, <2>2, <3>1, <3>3
  <2>3. CASE ~(v[1] \in QUOTES /\ v[Len(v)] = v[1])
    <3>1. _unquoted(v) = v
      BY <2>1, <2>3 DEF _unquoted
    <3>2. QED BY <2>1, <2>3, <3>1
  <2>4. QED BY <2>2, <2>3
<1>4. QED BY <1>1, <1>2, <1>3

(* What is read after the sign is nothing exactly if a person sees nothing  *)
(* there, or a pair of quotes around nothing.                               *)
LEMMA ValueVoid ==
    ASSUME NEW line \in Line, NEW at \in 1..Len(line)
    PROVE  _unquoted(strip(SubSeq(line, at + 1, Len(line)))) = << >> <=> Void(line, at)
<1> DEFINE n == Len(line)
<1>1. n \in Nat /\ at \in Nat
  BY DEF Line
<1>2. ASSUME NEW m, m = at + 1
      PROVE  _unquoted(strip(SubSeq(line, m, n))) = << >> <=> Void(line, at)
  <2>1. m \in Nat /\ m \in 1..(n + 1) /\ n \in (m - 1)..n
    BY <1>1, <1>2
  <2>2. Void(line, at) <=> \/ OnlyBlank(line, m, n)
                           \/ \E q \in m..(n - 1) : /\ line[q] \in QUOTES /\ line[q + 1] = line[q]
                                                    /\ OnlyBlank(line, m, q - 1)
                                                    /\ OnlyBlank(line, q + 2, n)
    BY <1>2 DEF Void
  <2>3. CASE OnlyBlank(line, m, n)
    <3>1. strip(SubSeq(line, m, n)) = << >>
      BY <2>1, <2>3, StripOfBlanks
    <3>2. << >> \in Line
      BY DEF Line
    <3>3. _unquoted(<< >>) = << >>
      BY <3>2, UnquotedIsNothing
    <3>4. QED BY <2>2, <2>3, <3>1, <3>3
  <2>4. ASSUME NEW a \in m..n, NEW b \in a..n, line[a] # Blank, line[b] # Blank,
               OnlyBlank(line, m, a - 1), OnlyBlank(line, b + 1, n)
        PROVE  _unquoted(strip(SubSeq(line, m, n))) = << >> <=> Void(line, at)
    <3> DEFINE v == SubSeq(line, a, b)
    <3>1. strip(SubSeq(line, m, n)) = v
      BY <2>1, <2>4, StripOfStretch
    <3>2. a \in Nat /\ b \in Nat /\ a \in 1..(n + 1) /\ b \in (a - 1)..n
      BY <2>1
    <3>3. v \in Line /\ Len(v) = b - a + 1 /\ \A i \in 1..(b - a + 1) : v[i] = line[a + i - 1]
      BY <3>2, StretchIs
    <3> HIDE DEF v
    <3>4. v # << >>
      <4>1. Len(v) # 0
        BY <3>2, <3>3
      <4>2. QED BY <4>1
    <3>5. _unquoted(v) = << >> <=> b = a + 1 /\ line[a] \in QUOTES /\ line[a + 1] = line[a]
      <4>1. Len(v) = 2 <=> b = a + 1
        BY <3>2, <3>3
      <4>2. ASSUME b = a + 1 PROVE v[1] = line[a] /\ v[2] = line[a + 1]
        <5>1. 1 \in 1..(b - a + 1) /\ 2 \in 1..(b - a + 1) /\ a + 1 - 1 = a /\ a + 2 - 1 = a + 1
          BY <3>2, <4>2
        <5>2. v[1] = line[a + 1 - 1] /\ v[2] = line[a + 2 - 1]
          BY <3>3, <5>1
        <5>3. QED BY <5>1, <5>2
      <4>3. QED BY <3>3, <3>4, <4>1, <4>2, UnquotedIsNothing
    <3>6. ASSUME b = a + 1, line[a] \in QUOTES, line[a + 1] = line[a] PROVE Void(line, at)
      <4>1. a \in m..(n - 1) /\ b + 1 = a + 2
        BY <1>1, <2>1, <3>2, <3>6
      <4>2. OnlyBlank(line, a + 2, n)
        BY <2>4, <4>1
      <4>3. QED BY <2>2, <2>4, <3>6, <4>1, <4>2
    <3>7. ASSUME Void(line, at) PROVE b = a + 1 /\ line[a] \in QUOTES /\ line[a + 1] = line[a]
      <4>1. ~OnlyBlank(line, m, n)
        BY <2>1, <2>4 DEF OnlyBlank
      <4>2. PICK q \in m..(n - 1) : /\ line[q] \in QUOTES /\ line[q + 1] = line[q]
                                    /\ OnlyBlank(line, m, q - 1) /\ OnlyBlank(line, q + 2, n)
        BY <2>2, <3>7, <4>1
      <4>3. /\ ~(a \in m..(q - 1)) /\ ~(a \in (q + 2)..n) /\ ~(b \in m..(q - 1)) /\ ~(b \in (q + 2)..n)
        BY <2>4, <4>2 DEF OnlyBlank
      <4>4. line[q] # Blank /\ line[q + 1] # Blank
        BY <4>2, Letters
      <4>5. /\ ~(q \in m..(a - 1)) /\ ~(q + 1 \in (b + 1)..n)
        BY <2>4, <4>4 DEF OnlyBlank
      <4>6. a = q /\ b = q + 1
        BY <1>1, <2>1, <3>2, <4>3, <4>5
      <4>7. QED BY <4>2, <4>6
    <3>8. QED BY <3>1, <3>5, <3>6, <3>7, Zenon
  <2>5. QED BY <2>1, <2>3, <2>4, StripCases
<1>3. QED BY <1>2

-----------------------------------------------------------------------------
(* A file.  What FoldLeft computes is a function on the sets of line        *)
(* numbers; on the first k numbers it is what parse has read after k lines. *)

ReadLine(mapping, line) ==
    IF _is_an_assignment(line) THEN Assign(mapping, _assignment(line)) ELSE mapping
Nothing == [name \in {} |-> << >>]
Iterates(h, file, k) ==
    h = [s \in SUBSET (1..k) |-> IF s = {} THEN Nothing ELSE ReadLine(h[s \ {Max(s)}], file[Max(s)])]

LEMMA ParseIterates ==
    ASSUME NEW file, DOMAIN file = 1..Len(file)
    PROVE  parse(file) = (CHOOSE h : Iterates(h, file, Len(file)))[1..Len(file)]
<1> QED BY Zenon DEF parse, FoldLeft, MapThenFoldSet, Iterates, ReadLine, Nothing

LEMMA IterationExists ==
    ASSUME NEW file, NEW n \in Nat
    PROVE  \E h : Iterates(h, file, n)
<1> DEFINE T == {k \in Nat : ~ \E h : Iterates(h, file, k)}
<1> SUFFICES ASSUME T # {} PROVE FALSE
    OBVIOUS
<1>1. PICK k \in T : \A m \in T : k <= m
  <2>1. T \in SUBSET Nat
    OBVIOUS
  <2>2. QED BY <2>1, LeastNatural
<1>2. k # 0
  <2> SUFFICES ASSUME k = 0 PROVE FALSE
      OBVIOUS
  <2> DEFINE h == [s \in SUBSET (1..0) |-> Nothing]
  <2>1. \A s \in SUBSET (1..0) : s = {}
    OBVIOUS
  <2>2. h = [s \in SUBSET (1..0) |-> IF s = {} THEN Nothing ELSE ReadLine(h[s \ {Max(s)}], file[Max(s)])]
    BY <2>1
  <2>3. Iterates(h, file, 0)
    BY <2>2 DEF Iterates
  <2>4. QED BY <1>1, <2>3
<1>3. ASSUME NEW j, j = k - 1 PROVE FALSE
  <2>1. j \in Nat /\ j < k /\ k \in Nat /\ 1..j = (1..k) \ {k} /\ k \in 1..k
    BY <1>1, <1>2, <1>3
  <2>2. PICK h : Iterates(h, file, j)
    <3>1. j \notin T
      BY <1>1, <2>1
    <3>2. QED BY <2>1, <3>1
  <2>3. \A s \in SUBSET (1..j) :
          h[s] = IF s = {} THEN Nothing ELSE ReadLine(h[s \ {Max(s)}], file[Max(s)])
    BY <2>2 DEF Iterates
  <2> DEFINE g == [s \in SUBSET (1..k) |-> IF k \in s THEN ReadLine(h[s \ {k}], file[k]) ELSE h[s]]
  <2>4. ASSUME NEW s \in SUBSET (1..k)
        PROVE  g[s] = IF s = {} THEN Nothing ELSE ReadLine(g[s \ {Max(s)}], file[Max(s)])
    <3>1. CASE k \in s
      <4>1. Max(s) = k
        <5>1. Max(s) \in s /\ k <= Max(s)
          BY <2>1, <3>1, MaxIs
        <5>2. \A i \in s : i \in Nat /\ i <= k
          <6> HIDE DEF T, g
          <6>1. ASSUME NEW i \in s PROVE i \in 1..k
            OBVIOUS
          <6>2. ASSUME NEW i \in 1..k PROVE i \in Nat /\ i <= k
            BY <2>1
          <6>3. QED BY <6>1, <6>2, Zenon
        <5> HIDE DEF T, g
        <5>3. Max(s) \in Nat /\ Max(s) <= k /\ k <= Max(s)
          BY <5>1, <5>2, Zenon
        <5>4. k \in Nat
          BY <2>1
        <5>5. QED BY <5>3, <5>4
      <4>2. s \ {k} \in SUBSET (1..k) /\ k \notin s \ {k} /\ g[s] = ReadLine(h[s \ {k}], file[k])
        BY <3>1
      <4>3. g[s \ {k}] = h[s \ {k}]
        BY <4>2
      <4> HIDE DEF g
      <4>4. QED BY <3>1, <4>1, <4>2, <4>3, Zenon
    <3>2. CASE k \notin s
      <4>1. s \in SUBSET (1..j) /\ g[s] = h[s]
        BY <2>1, <3>2
      <4>2. CASE s = {}
        BY <2>3, <4>1, <4>2
      <4>3. CASE s # {}
        <5>1. s \ {Max(s)} \in SUBSET (1..k) /\ k \notin s \ {Max(s)}
          BY <3>2
        <5>2. g[s \ {Max(s)}] = h[s \ {Max(s)}]
          BY <5>1
        <5>3. h[s] = ReadLine(h[s \ {Max(s)}], file[Max(s)])
          BY <2>3, <4>1, <4>3
        <5> HIDE DEF g
        <5>4. QED BY <4>1, <4>3, <5>2, <5>3, Zenon
      <4>4. QED BY <4>2, <4>3
    <3>3. QED BY <3>1, <3>2
  <2>5. Iterates(g, file, k)
    <3>1. g = [s \in SUBSET (1..k) |-> g[s]]
      OBVIOUS
    <3> HIDE DEF g
    <3>2. QED BY <2>4, <3>1 DEF Iterates
  <2>6. QED BY <1>1, <2>5
<1>4. QED BY <1>3

(* Line by line: what is read of k lines is what was read of k - 1 and what *)
(* the k-th says.                                                           *)
LEMMA ParseIsLineByLine ==
    ASSUME NEW file \in Seq(Line)
    PROVE  \E read : /\ read[0] = Nothing /\ parse(file) = read[Len(file)]
                     /\ \A k \in 1..Len(file) : \A j : j = k - 1 => read[k] = ReadLine(read[j], file[k])
<1> DEFINE n == Len(file)
           h == CHOOSE f : Iterates(f, file, n)
           read == [k \in 0..n |-> h[1..k]]
<1>1. n \in Nat /\ DOMAIN file = 1..n
  OBVIOUS
<1>2. Iterates(h, file, n)
  BY <1>1, IterationExists
<1>3. parse(file) = h[1..n]
  BY <1>1, ParseIterates
<1> HIDE DEF h
<1>4. \A s \in SUBSET (1..n) : h[s] = IF s = {} THEN Nothing ELSE ReadLine(h[s \ {Max(s)}], file[Max(s)])
  BY <1>2 DEF Iterates
<1>5. read[0] = Nothing
  <2>1. 1..0 = {} /\ 0 \in 0..n /\ 1..0 \in SUBSET (1..n)
    BY <1>1
  <2>2. QED BY <1>4, <2>1
<1>6. parse(file) = read[n]
  BY <1>1, <1>3
<1>7. ASSUME NEW k \in 1..n, NEW j, j = k - 1 PROVE read[k] = ReadLine(read[j], file[k])
  <2>1. k \in Nat /\ j \in 0..n /\ k \in 0..n /\ 1..j = (1..k) \ {k} /\ 1..k \in SUBSET (1..n) /\ 1..k # {}
    <3> HIDE DEF n, read
    <3>1. k \in Nat /\ j \in Nat /\ k <= n /\ k >= 1 /\ j <= n
      BY <1>1, <1>7
    <3>2. \A i : i \in 1..j <=> i \in (1..k) \ {k}
      BY <1>7, <3>1
    <3>3. 1 \in 1..k /\ \A i \in 1..k : i \in 1..n
      BY <1>1, <3>1
    <3>4. j \in 0..n /\ k \in 0..n
      BY <1>1, <3>1
    <3>5. 1..j = (1..k) \ {k}
      BY <3>2
    <3>6. QED BY <3>1, <3>3, <3>4, <3>5
  <2>2. Max(1..k) = k
    <3>1. k \in 1..k /\ 1..k \in SUBSET (1..k)
      BY <2>1
    <3>2. Max(1..k) \in 1..k /\ k <= Max(1..k)
      BY <2>1, <3>1, MaxIs
    <3>3. QED BY <2>1, <3>2
  <2>3. h[1..k] = ReadLine(h[(1..k) \ {k}], file[k])
    BY <1>4, <2>1, <2>2, Zenon
  <2>4. read[k] = h[1..k] /\ read[j] = h[1..j]
    BY <2>1
  <2> HIDE DEF read
  <2>5. QED BY <2>1, <2>3, <2>4, Zenon
<1>8. QED
  <2> HIDE DEF read
  <2>1. \A k \in 1..n : \A j : j = k - 1 => read[k] = ReadLine(read[j], file[k])
    BY <1>7
  <2>2. QED BY <1>5, <1>6, <2>1, Zenon

(* Which name a line assigns, if any.                                       *)
Names(line, name) == _is_an_assignment(line) /\ _assignment(line).name = name

(* Whatever a file holds and however long it is: parse knows exactly the    *)
(* names some line assigns, and of each the value of the last such line.    *)
THEOREM ParseIs ==
    ASSUME NEW file \in Seq(Line), NEW name
    PROVE  /\ name \in DOMAIN parse(file) <=> \E l \in DOMAIN file : Names(file[l], name)
           /\ \A l \in DOMAIN file :
                Names(file[l], name) /\ (\A m \in (l + 1)..Len(file) : ~Names(file[m], name))
                  => parse(file)[name] = _assignment(file[l]).value
<1> DEFINE n == Len(file)
<1>1. n \in Nat /\ DOMAIN file = 1..n
  OBVIOUS
<1>2. PICK read : /\ read[0] = Nothing /\ parse(file) = read[n]
                  /\ \A k \in 1..n : \A j : j = k - 1 => read[k] = ReadLine(read[j], file[k])
  BY ParseIsLineByLine
<1> DEFINE Known(k) == name \in DOMAIN read[k] <=> \E l \in 1..k : Names(file[l], name)
           Value(k) == \A l \in 1..k :
                         Names(file[l], name) /\ (\A m \in (l + 1)..k : ~Names(file[m], name))
                           => read[k][name] = _assignment(file[l]).value
           T == {k \in Nat : k <= n /\ ~(Known(k) /\ Value(k))}
<1>3. T = {}
  <2> SUFFICES ASSUME T # {} PROVE FALSE
      OBVIOUS
  <2>1. PICK k \in T : \A m \in T : k <= m
    <3>1. T \in SUBSET Nat
      OBVIOUS
    <3>2. QED BY <3>1, LeastNatural
  <2>2. k \in Nat /\ k <= n /\ ~(Known(k) /\ Value(k))
    BY <2>1
  <2>3. k # 0
    <3> SUFFICES ASSUME k = 0 PROVE FALSE
        OBVIOUS
    <3>1. 1..0 = {} /\ DOMAIN read[0] = {}
      BY <1>2 DEF Nothing
    <3>2. Known(0) /\ Value(0)
      BY <3>1
    <3>3. QED BY <2>2, <3>2
  <2>4. ASSUME NEW j, j = k - 1 PROVE FALSE
    <3>1. j \in Nat /\ j < k /\ j <= n /\ k \in 1..n
      BY <1>1, <2>2, <2>3, <2>4
    <3>2. Known(j) /\ Value(j)
      <4>1. j \notin T
        BY <2>1, <2>2, <3>1
      <4>2. QED BY <3>1, <4>1
    <3>3. read[k] = ReadLine(read[j], file[k])
      BY <1>2, <2>4, <3>1
    <3>4. \A l : l \in 1..k <=> l \in 1..j \/ l = k
      BY <2>4, <3>1
    <3>5. CASE Names(file[k], name)
      <4>1. read[k] = Assign(read[j], _assignment(file[k])) /\ _assignment(file[k]).name = name
        BY <3>3, <3>5 DEF ReadLine, Names
      <4>2. name \in DOMAIN read[k] /\ read[k][name] = _assignment(file[k]).value
        BY <4>1 DEF Assign
      <4>3. Known(k)
        BY <3>1, <3>4, <3>5, <4>2
      <4>4. ASSUME NEW l \in 1..k, \A m \in (l + 1)..k : ~Names(file[m], name) PROVE l = k
        <5>1. ~(k \in (l + 1)..k)
          BY <3>5, <4>4
        <5>2. QED BY <3>1, <5>1
      <4>5. Value(k)
        BY <4>2, <4>4
      <4>6. QED BY <2>2, <4>3, <4>5
    <3>6. CASE ~Names(file[k], name)
      <4>1. /\ name \in DOMAIN read[k] <=> name \in DOMAIN read[j]
            /\ name \in DOMAIN read[j] => read[k][name] = read[j][name]
        <5>1. CASE _is_an_assignment(file[k])
          <6>1. read[k] = Assign(read[j], _assignment(file[k])) /\ _assignment(file[k]).name # name
            BY <3>3, <3>6, <5>1 DEF ReadLine, Names
          <6>2. QED BY <6>1 DEF Assign
        <5>2. CASE ~_is_an_assignment(file[k])
          BY <3>3, <5>2 DEF ReadLine
        <5>3. QED BY <5>1, <5>2
      <4>2. Known(k)
        BY <3>2, <3>4, <3>6, <4>1
      <4>3. ASSUME NEW l \in 1..k, Names(file[l], name), \A m \in (l + 1)..k : ~Names(file[m], name)
            PROVE  read[k][name] = _assignment(file[l]).value
        <5>1. l \in 1..j
          BY <3>4, <3>6, <4>3
        <5>2. \A m \in (l + 1)..j : m \in (l + 1)..k
          BY <3>1, <5>1
        <5>3. name \in DOMAIN read[j] /\ read[j][name] = _assignment(file[l]).value
          BY <3>2, <4>3, <5>1, <5>2
        <5>4. QED BY <4>1, <5>3
      <4>4. Value(k)
        BY <4>3
      <4>5. QED BY <2>2, <4>2, <4>4
    <3>7. QED BY <3>5, <3>6
  <2>5. QED BY <2>4
<1>4. Known(n) /\ Value(n)
  BY <1>1, <1>3
<1>5. QED BY <1>1, <1>2, <1>4

-----------------------------------------------------------------------------
(* What a person types is a file of lines of characters, of one line at     *)
(* least.                                                                   *)
Typed == text \in Seq(Line) /\ text # << >>

LEMMA TypedAlways == Spec => []Typed
<1>1. Init => Typed
  <2>1. << << >> >> \in Seq(Line) /\ << << >> >> # << >>
    BY DEF Line
  <2>2. QED BY <2>1 DEF Init, Typed
<1>2. Typed /\ [Next]_text => Typed'
  <2> SUFFICES ASSUME Typed, [Next]_text PROVE Typed'
      OBVIOUS
  <2>1. text \in Seq(Line) /\ Len(text) \in 1..Len(text)
    BY EmptySeq DEF Typed
  <2>2. ASSUME NEW c \in Characters, text' = [text EXCEPT ![Len(text)] = Append(@, c)]
        PROVE  Typed'
    <3>1. text[Len(text)] \in Line
      BY <2>1
    <3>2. Append(text[Len(text)], c) \in Line
      BY <3>1, AppendProperties DEF Line
    <3>3. text' \in Seq(Line) /\ Len(text') = Len(text)
      BY <2>1, <2>2, <3>2, ExceptSeq
    <3>4. text' # << >>
      BY <2>1, <3>3
    <3>5. QED BY <3>3, <3>4 DEF Typed
  <2>3. CASE WriteCharacter
    BY <2>2, <2>3 DEF WriteCharacter
  <2>4. CASE NewLine
    <3>1. << >> \in Line
      BY DEF Line
    <3>2. QED BY <2>1, <2>4, <3>1, AppendProperties DEF NewLine, Typed
  <2>5. CASE UNCHANGED text
    BY <2>5 DEF Typed
  <2>6. QED BY <2>3, <2>4, <2>5 DEF Next
<1>3. QED BY <1>1, <1>2, PTL DEF Spec

(* require of one key is refused unless the key is there and has a value.   *)
LEMMA RequireKey ==
    ASSUME NEW mapping
    PROVE  require(mapping, <<Key>>) # << >> <=> Key \notin DOMAIN mapping \/ mapping[Key] = << >>
<1> DEFINE keys == <<Key>>
           missing == {i \in DOMAIN keys : keys[i] \notin DOMAIN mapping \/ mapping[keys[i]] = << >>}
<1>1. DOMAIN keys = {1} /\ keys[1] = Key /\ Key # << >>
  BY DEF Key
<1>2. require(mapping, keys) = IF missing = {} THEN << >> ELSE keys[Min(missing)]
  BY DEF require
<1> HIDE DEF keys
<1>3. CASE Key \notin DOMAIN mapping \/ mapping[Key] = << >>
  <2>1. missing = {1}
    BY <1>1, <1>3
  <2> HIDE DEF missing
  <2>2. Min(missing) \in missing
    BY <2>1, MinIs
  <2>3. missing # {} /\ Min(missing) = 1
    BY <2>1, <2>2
  <2>4. QED BY <1>1, <1>2, <1>3, <2>3 DEF keys
<1>4. CASE ~(Key \notin DOMAIN mapping \/ mapping[Key] = << >>)
  <2>1. missing = {}
    BY <1>1, <1>4
  <2>2. QED BY <1>2, <1>4, <2>1 DEF keys
<1>5. QED BY <1>3, <1>4

LEMMA LastLineDecides ==
    ASSUME Typed
    PROVE  RefusedForTheLastLine
<1> DEFINE by == {l \in DOMAIN text : \E at \in DOMAIN text[l] : Assigns(text[l], at)}
           last == text[Max(by)]
           void == \E at \in DOMAIN last : Assigns(last, at) /\ Void(last, at)
<1>1. /\ text \in Seq(Line) /\ Len(text) \in Nat /\ DOMAIN text = 1..Len(text)
      /\ \A l \in DOMAIN text : text[l] \in Line /\ DOMAIN text[l] = 1..Len(text[l])
  BY DEF Typed, Line
<1>2. \A l \in DOMAIN text : l \in by <=> Names(text[l], Key)
  <2>1. ASSUME NEW line \in Line, NEW at \in 1..Len(line), Assigns(line, at) PROVE Names(line, Key)
    BY <2>1, AssignsReads DEF Names
  <2>2. ASSUME NEW line \in Line, Names(line, Key) PROVE \E at \in 1..Len(line) : Assigns(line, at)
    BY <2>2, NamedIs DEF Names
  <2>3. QED BY <1>1, <2>1, <2>2
<1>3. Key \in DOMAIN parse(text) <=> by # {}
  <2>1. Key \in DOMAIN parse(text) <=> \E l \in DOMAIN text : Names(text[l], Key)
    BY <1>1, ParseIs
  <2>2. by \subseteq DOMAIN text
    OBVIOUS
  <2> HIDE DEF by
  <2>3. QED BY <1>2, <2>1, <2>2
<1>4. ASSUME by # {} PROVE parse(text)[Key] = << >> <=> void
  <2>1. by \in SUBSET (1..Len(text))
    BY <1>1
  <2> HIDE DEF by
  <2>2. Max(by) \in by /\ \A m \in by : m <= Max(by)
    BY <1>1, <1>4, <2>1, MaxIs
  <2>3. Max(by) \in Nat /\ Max(by) \in DOMAIN text /\ last \in Line /\ DOMAIN last = 1..Len(last)
    <3>1. Max(by) \in 1..Len(text)
      BY <2>1, <2>2
    <3>2. \A m \in 1..Len(text) : m \in Nat
      OBVIOUS
    <3>3. QED BY <1>1, <3>1, <3>2, Zenon
  <2>4. \A m \in (Max(by) + 1)..Len(text) : ~Names(text[m], Key)
    <3> SUFFICES ASSUME NEW m \in (Max(by) + 1)..Len(text), m \in by PROVE FALSE
      <4>1. ASSUME NEW m \in (Max(by) + 1)..Len(text) PROVE m \in DOMAIN text
        BY <1>1, <2>3
      <4>2. QED BY <1>2, <4>1
    <3>1. m \in Nat /\ Max(by) < m
      BY <2>3
    <3>2. m <= Max(by)
      BY <2>2
    <3>3. QED BY <2>3, <3>1, <3>2
  <2>5. Names(last, Key)
    BY <1>2, <2>2, <2>3
  <2>6. parse(text)[Key] = _assignment(last).value
    BY <1>1, <2>3, <2>4, <2>5, ParseIs
  <2> HIDE DEF last
  <2>7. ASSUME NEW at \in DOMAIN last, Assigns(last, at)
        PROVE  parse(text)[Key] = << >> <=> Void(last, at)
    <3>1. _assignment(last).value = _unquoted(strip(SubSeq(last, at + 1, Len(last))))
      BY <2>3, <2>7, AssignsReads
    <3>2. _unquoted(strip(SubSeq(last, at + 1, Len(last)))) = << >> <=> Void(last, at)
      BY <2>3, ValueVoid
    <3>3. QED BY <2>6, <3>1, <3>2
  <2>8. \E at \in DOMAIN last : Assigns(last, at)
    BY <2>3, <2>5, NamedIs DEF Names
  <2>9. QED BY <2>7, <2>8
<1>5. require(parse(text), <<Key>>) # << >> <=> Key \notin DOMAIN parse(text) \/ parse(text)[Key] = << >>
  BY RequireKey
<1>6. require(parse(text), <<Key>>) # << >> <=> by = {} \/ void
  <2> HIDE DEF by, void
  <2>1. QED BY <1>3, <1>4, <1>5
<1>7. QED BY <1>3, <1>6, Zenon DEF RefusedForTheLastLine

(* Whatever a file says, of any number of lines of any length, a service is *)
(* refused for its key exactly when the last line that assigns it, as a     *)
(* person reads the file, assigns nothing, or no line assigns it: what      *)
(* parse, _assignment, _unquoted and require of credentials_file.py do      *)
(* between them with blanks, quotes, comments, export and repeated names.   *)
THEOREM LastLine == Spec => []RefusedForTheLastLine
<1>1. Typed => RefusedForTheLastLine
  BY LastLineDecides
<1>2. QED BY <1>1, TypedAlways, PTL

-----------------------------------------------------------------------------
(* What is quoted is read as it stands.                                     *)

(* What s holds at its first a places t holds there too.                    *)
Begins(s, a, t) == \A i \in 1..a : t[i] = s[i]
(* And after its first a places it holds u.                                 *)
Follows(t, a, u, b) == \A i \in 1..b : t[a + i] = u[i]

LEMMA Joined ==
    ASSUME NEW s \in Line, NEW u \in Line
    PROVE  /\ s \o u \in Line /\ Len(s \o u) = Len(s) + Len(u)
           /\ Begins(s, Len(s), s \o u) /\ Follows(s \o u, Len(s), u, Len(u))
<1>1. Len(s) \in Nat /\ Len(u) \in Nat
  BY DEF Line
<1>2. s \o u \in Line /\ Len(s \o u) = Len(s) + Len(u)
  BY ConcatProperties DEF Line
<1>3. \A i \in 1..(Len(s) + Len(u)) : (s \o u)[i] = IF i <= Len(s) THEN s[i] ELSE u[i - Len(s)]
  BY ConcatProperties DEF Line
<1>4. ASSUME NEW i \in 1..Len(s) PROVE (s \o u)[i] = s[i]
  <2>1. i \in 1..(Len(s) + Len(u)) /\ i <= Len(s)
    BY <1>1
  <2>2. QED BY <1>3, <2>1
<1>5. ASSUME NEW i \in 1..Len(u) PROVE (s \o u)[Len(s) + i] = u[i]
  <2>1. Len(s) + i \in 1..(Len(s) + Len(u)) /\ ~(Len(s) + i <= Len(s)) /\ Len(s) + i - Len(s) = i
    BY <1>1
  <2>2. (s \o u)[Len(s) + i] = u[Len(s) + i - Len(s)]
    BY <1>3, <2>1
  <2>3. QED BY <2>1, <2>2
<1>6. Begins(s, Len(s), s \o u) /\ Follows(s \o u, Len(s), u, Len(u))
  BY <1>4, <1>5, Zenon DEF Begins, Follows
<1>7. QED BY <1>2, <1>6

LEMMA JoinedOne ==
    ASSUME NEW s \in Line, NEW e \in Characters
    PROVE  /\ s \o <<e>> \in Line /\ Len(s \o <<e>>) = Len(s) + 1
           /\ Begins(s, Len(s), s \o <<e>>) /\ (s \o <<e>>)[Len(s) + 1] = e
<1>1. <<e>> \in Line /\ Len(<<e>>) = 1 /\ <<e>>[1] = e
  BY DEF Line
<1>2. /\ s \o <<e>> \in Line /\ Len(s \o <<e>>) = Len(s) + Len(<<e>>)
      /\ Begins(s, Len(s), s \o <<e>>) /\ Follows(s \o <<e>>, Len(s), <<e>>, Len(<<e>>))
  BY <1>1, Joined, Zenon
<1>3. 1 \in 1..1
  OBVIOUS
<1>4. (s \o <<e>>)[Len(s) + 1] = <<e>>[1]
  BY <1>1, <1>2, <1>3, Zenon DEF Follows
<1>5. QED BY <1>1, <1>2, <1>4, Zenon

LEMMA BeginsOn ==
    ASSUME NEW s, NEW t, NEW u, NEW a \in Nat, NEW b \in Nat, a <= b, Begins(s, a, t), Begins(t, b, u)
    PROVE  Begins(s, a, u)
<1>1. \A i \in 1..a : i \in 1..b
  OBVIOUS
<1>2. QED BY <1>1, Zenon DEF Begins

(* The last of a beginning stands where it stood.                           *)
LEMMA LastOfBeginning ==
    ASSUME NEW s, NEW t, NEW c \in Nat \ {0}, Begins(s, c, t)
    PROVE  t[c] = s[c]
<1>1. c \in 1..c
  OBVIOUS
<1>2. QED BY <1>1, Zenon DEF Begins

LEMMA EndOfBeginning ==
    ASSUME NEW s, NEW t, NEW u, NEW a \in Nat, NEW b \in Nat, NEW c, c = a + b,
           Follows(s, a, u, b), Begins(s, c, t)
    PROVE  Follows(t, a, u, b)
<1>1. \A i \in 1..b : a + i \in 1..c
  OBVIOUS
<1>2. QED BY <1>1, Zenon DEF Begins, Follows

Quoted(before, pad, quote, v) ==
    before \o Key \o pad \o <<ASSIGNMENT>> \o pad \o <<quote>> \o v \o <<quote>> \o pad

(* The places of the key, the sign and the two quotes, and of what stands   *)
(* between them.                                                            *)
Places(f, p, m, key, c2, at, c4, q, c6, r, n) ==
    /\ key = f + 1 /\ c2 = key + p /\ at = c2 + 1 /\ c4 = at + p /\ q = c4 + 1
    /\ c6 = q + m /\ r = c6 + 1 /\ n = r + p

(* A line put together from its parts, by positions.                        *)
LEMMA Parts ==
    ASSUME NEW before \in Line, NEW pad \in Line, NEW v \in Line, NEW quote \in QUOTES,
           NEW f, NEW p, NEW m, Len(before) = f, Len(pad) = p, Len(v) = m,
           NEW key, NEW c2, NEW at, NEW c4, NEW q, NEW c6, NEW r, NEW n,
           Places(f, p, m, key, c2, at, c4, q, c6, r, n),
           NEW line, line = Quoted(before, pad, quote, v)
    PROVE  /\ line \in Line /\ Len(line) = n
           /\ Begins(before, f, line)
           /\ line[key] = "K" /\ Follows(line, key, pad, p)
           /\ line[at] = ASSIGNMENT /\ Follows(line, at, pad, p)
           /\ line[q] = quote /\ Follows(line, q, v, m)
           /\ line[r] = quote /\ Follows(line, r, pad, p)
<1> DEFINE x1 == before \o <<"K">>
           x2 == x1 \o pad
           x3 == x2 \o <<ASSIGNMENT>>
           x4 == x3 \o pad
           x5 == x4 \o <<quote>>
           x6 == x5 \o v
           x7 == x6 \o <<quote>>
<1>1. line = x7 \o pad
  BY Zenon DEF Quoted, Key
<1>2. "K" \in Characters /\ ASSIGNMENT \in Characters /\ quote \in Characters
  BY Letters
<1>3. /\ key = f + 1 /\ c2 = key + p /\ at = c2 + 1 /\ c4 = at + p /\ q = c4 + 1
      /\ c6 = q + m /\ r = c6 + 1 /\ n = r + p
  BY Zenon DEF Places
<1>4. x1 \in Line /\ Len(x1) = key /\ Begins(before, f, x1) /\ x1[key] = "K"
  <2>1. /\ x1 \in Line /\ Len(x1) = Len(before) + 1
        /\ Begins(before, Len(before), x1) /\ x1[Len(before) + 1] = "K"
    BY <1>2, JoinedOne, Zenon
  <2> HIDE DEF x1
  <2>2. QED BY <1>3, <2>1, Zenon
<1> HIDE DEF x1
<1>5. x2 \in Line /\ Len(x2) = c2 /\ Begins(x1, key, x2) /\ Follows(x2, key, pad, p)
  <2>1. /\ x2 \in Line /\ Len(x2) = Len(x1) + Len(pad)
        /\ Begins(x1, Len(x1), x2) /\ Follows(x2, Len(x1), pad, Len(pad))
    BY <1>4, Joined, Zenon
  <2> HIDE DEF x2
  <2>2. QED BY <1>4, <1>3, <2>1, Zenon
<1> HIDE DEF x2
<1>6. x3 \in Line /\ Len(x3) = at /\ Begins(x2, c2, x3) /\ x3[at] = ASSIGNMENT
  <2>1. /\ x3 \in Line /\ Len(x3) = Len(x2) + 1
        /\ Begins(x2, Len(x2), x3) /\ x3[Len(x2) + 1] = ASSIGNMENT
    BY <1>5, <1>2, JoinedOne, Zenon
  <2> HIDE DEF x3
  <2>2. QED BY <1>5, <1>3, <2>1, Zenon
<1> HIDE DEF x3
<1>7. x4 \in Line /\ Len(x4) = c4 /\ Begins(x3, at, x4) /\ Follows(x4, at, pad, p)
  <2>1. /\ x4 \in Line /\ Len(x4) = Len(x3) + Len(pad)
        /\ Begins(x3, Len(x3), x4) /\ Follows(x4, Len(x3), pad, Len(pad))
    BY <1>6, Joined, Zenon
  <2> HIDE DEF x4
  <2>2. QED BY <1>6, <1>3, <2>1, Zenon
<1> HIDE DEF x4
<1>8. x5 \in Line /\ Len(x5) = q /\ Begins(x4, c4, x5) /\ x5[q] = quote
  <2>1. /\ x5 \in Line /\ Len(x5) = Len(x4) + 1
        /\ Begins(x4, Len(x4), x5) /\ x5[Len(x4) + 1] = quote
    BY <1>7, <1>2, JoinedOne, Zenon
  <2> HIDE DEF x5
  <2>2. QED BY <1>7, <1>3, <2>1, Zenon
<1> HIDE DEF x5
<1>9. x6 \in Line /\ Len(x6) = c6 /\ Begins(x5, q, x6) /\ Follows(x6, q, v, m)
  <2>1. /\ x6 \in Line /\ Len(x6) = Len(x5) + Len(v)
        /\ Begins(x5, Len(x5), x6) /\ Follows(x6, Len(x5), v, Len(v))
    BY <1>8, Joined, Zenon
  <2> HIDE DEF x6
  <2>2. QED BY <1>8, <1>3, <2>1, Zenon
<1> HIDE DEF x6
<1>10. x7 \in Line /\ Len(x7) = r /\ Begins(x6, c6, x7) /\ x7[r] = quote
  <2>1. /\ x7 \in Line /\ Len(x7) = Len(x6) + 1
        /\ Begins(x6, Len(x6), x7) /\ x7[Len(x6) + 1] = quote
    BY <1>9, <1>2, JoinedOne, Zenon
  <2> HIDE DEF x7
  <2>2. QED BY <1>9, <1>3, <2>1, Zenon
<1> HIDE DEF x7
<1>11. line \in Line /\ Len(line) = n /\ Begins(x7, r, line) /\ Follows(line, r, pad, p)
  <2>1. /\ line \in Line /\ Len(line) = Len(x7) + Len(pad)
        /\ Begins(x7, Len(x7), line) /\ Follows(line, Len(x7), pad, Len(pad))
    BY <1>10, <1>1, Joined, Zenon
  <2>2. QED BY <1>10, <1>3, <2>1, Zenon
<1>12. f \in Nat /\ p \in Nat /\ m \in Nat
  BY DEF Line
<1>13. /\ key \in Nat \ {0} /\ c2 \in Nat /\ at \in Nat \ {0} /\ c4 \in Nat /\ q \in Nat \ {0}
       /\ c6 \in Nat /\ r \in Nat \ {0} /\ n \in Nat
       /\ f <= key /\ key <= c2 /\ c2 <= at /\ at <= c4 /\ c4 <= q /\ q <= c6 /\ c6 <= r
  <2> DEFINE Later(x, y) == x + y \in Nat /\ x <= x + y
             Next1(x) == x + 1 \in Nat /\ x + 1 \in Nat \ {0} /\ x <= x + 1
  <2>a. \A x, y \in Nat : Later(x, y)
    OBVIOUS
  <2>b. \A x \in Nat : Next1(x)
    OBVIOUS
  <2>1. key \in Nat /\ key \in Nat \ {0} /\ f <= key
    BY <1>3, <1>12, <2>b, Zenon
  <2>2. c2 \in Nat /\ key <= c2
    BY <1>3, <1>12, <2>1, <2>a, Zenon
  <2>3. at \in Nat /\ at \in Nat \ {0} /\ c2 <= at
    BY <1>3, <2>2, <2>b, Zenon
  <2>4. c4 \in Nat /\ at <= c4
    BY <1>3, <1>12, <2>3, <2>a, Zenon
  <2>5. q \in Nat /\ q \in Nat \ {0} /\ c4 <= q
    BY <1>3, <2>4, <2>b, Zenon
  <2>6. c6 \in Nat /\ q <= c6
    BY <1>3, <1>12, <2>5, <2>a, Zenon
  <2>7. r \in Nat /\ r \in Nat \ {0} /\ c6 <= r
    BY <1>3, <2>6, <2>b, Zenon
  <2>8. n \in Nat
    BY <1>3, <1>12, <2>7, <2>a, Zenon
  <2>9. QED BY <2>1, <2>2, <2>3, <2>4, <2>5, <2>6, <2>7, <2>8
<1>14. key \in Nat /\ at \in Nat /\ q \in Nat /\ r \in Nat
  BY <1>13
<1>15. Begins(x6, c6, line)
  BY <1>10, <1>11, <1>13, <1>14, BeginsOn, Zenon
<1>16. Begins(x5, q, line)
  BY <1>9, <1>13, <1>14, <1>15, BeginsOn, Zenon
<1>17. Begins(x4, c4, line)
  BY <1>8, <1>13, <1>14, <1>16, BeginsOn, Zenon
<1>18. Begins(x3, at, line)
  BY <1>7, <1>13, <1>14, <1>17, BeginsOn, Zenon
<1>19. Begins(x2, c2, line)
  BY <1>6, <1>13, <1>14, <1>18, BeginsOn, Zenon
<1>20. Begins(x1, key, line)
  BY <1>5, <1>13, <1>14, <1>19, BeginsOn, Zenon
<1>21. Begins(before, f, line)
  BY <1>4, <1>12, <1>13, <1>14, <1>20, BeginsOn, Zenon
<1>22. line[key] = "K" /\ line[at] = ASSIGNMENT /\ line[q] = quote /\ line[r] = quote
  <2>1. line[key] = x1[key] /\ line[at] = x3[at]
    BY <1>13, <1>18, <1>20, LastOfBeginning, ZenonT(40)
  <2>2. line[q] = x5[q] /\ line[r] = x7[r]
    BY <1>11, <1>13, <1>16, LastOfBeginning, ZenonT(40)
  <2>3. QED BY <1>4, <1>6, <1>8, <1>10, <2>1, <2>2
<1>23. Follows(line, key, pad, p) /\ Follows(line, at, pad, p) /\ Follows(line, q, v, m)
  BY <1>3, <1>5, <1>7, <1>9, <1>12, <1>14, <1>15, <1>17, <1>19, EndOfBeginning, Zenon
<1>24. QED BY <1>11, <1>21, <1>22, <1>23, Zenon

LEMMA PadIsBlank ==
    ASSUME NEW line, NEW pad, NEW x \in Nat, NEW p \in Nat, OnlyBlank(pad, 1, p), Follows(line, x, pad, p),
           NEW lo, lo = x + 1, NEW hi, hi = x + p
    PROVE  OnlyBlank(line, lo, hi)
<1>1. ASSUME NEW i \in lo..hi PROVE line[i] = Blank
  <2>1. ASSUME NEW y, y = i - x PROVE y \in 1..p /\ i = x + y
    BY <2>1
  <2>2. ASSUME NEW y, y = i - x PROVE line[i] = Blank
    BY <2>1, <2>2, Zenon DEF Follows, OnlyBlank
  <2>3. QED BY <2>2
<1>2. QED BY <1>1 DEF OnlyBlank

(* What may stand before the key: blanks, or the word export among blanks.  *)
MayPrecede(before, f) ==
    \/ OnlyBlank(before, 1, f)
    \/ \E e \in 1..(f - 1) : before[e] = "export" /\ OnlyBlank(before, 1, e - 1) /\ OnlyBlank(before, e + 1, f)

LEMMA QuotedReads ==
    ASSUME NEW before \in Line, NEW pad \in Line, NEW v \in Line, NEW quote \in QUOTES,
           OnlyBlank(pad, 1, Len(pad)), MayPrecede(before, Len(before)),
           NEW line, line = Quoted(before, pad, quote, v)
    PROVE  _is_an_assignment(line) /\ _assignment(line) = [name |-> Key, value |-> v]
<1> DEFINE Goal == _is_an_assignment(line) /\ _assignment(line) = [name |-> Key, value |-> v]
<1> SUFFICES Goal
    OBVIOUS
<1> HIDE DEF Goal
<1>1. ASSUME NEW f, NEW p, NEW m, Len(before) = f, Len(pad) = p, Len(v) = m,
             NEW key, NEW c2, NEW at, NEW c4, NEW q, NEW c6, NEW r, NEW n,
             Places(f, p, m, key, c2, at, c4, q, c6, r, n)
      PROVE  Goal
  <2>1. /\ line \in Line /\ Len(line) = n
        /\ Begins(before, f, line)
        /\ line[key] = "K" /\ Follows(line, key, pad, p)
        /\ line[at] = ASSIGNMENT /\ Follows(line, at, pad, p)
        /\ line[q] = quote /\ Follows(line, q, v, m)
        /\ line[r] = quote /\ Follows(line, r, pad, p)
    BY <1>1, Parts, SMTT(30)
  <2>2. f \in Nat /\ p \in Nat /\ m \in Nat
    BY <1>1 DEF Line
  <2>3. /\ key = f + 1 /\ at = key + p + 1 /\ q = at + p + 1 /\ r = q + m + 1 /\ n = r + p
    BY <1>1, <2>2 DEF Places
  <2>4. /\ key \in Nat /\ at \in Nat /\ q \in Nat /\ r \in Nat /\ n \in Nat
        /\ 1 <= key /\ key < at /\ at < q /\ q < r /\ r <= n
    BY <2>2, <2>3
  <2>5. OnlyBlank(pad, 1, p)
    BY <1>1, Zenon
  <2>6. OnlyBlank(line, key + 1, at - 1)
    <3>1. at - 1 = key + p
      BY <2>2, <2>3, <2>4
    <3>2. QED BY <2>1, <2>2, <2>4, <2>5, <3>1, PadIsBlank
  <2>7. OnlyBlank(line, at + 1, q - 1)
    <3>1. q - 1 = at + p
      BY <2>2, <2>3, <2>4
    <3>2. QED BY <2>1, <2>2, <2>4, <2>5, <3>1, PadIsBlank
  <2>8. OnlyBlank(line, r + 1, n)
    BY <2>1, <2>2, <2>3, <2>4, <2>5, PadIsBlank
  <2>9. key - 1 = f
    BY <2>2, <2>3
  <2>10. Assigns(line, at)
    <3>1. \A i \in 1..f : line[i] = before[i]
      BY <2>1 DEF Begins
    <3>2. ASSUME OnlyBlank(before, 1, f) PROVE OnlyBlank(line, 1, key - 1)
      BY <2>9, <3>1, <3>2, Zenon DEF OnlyBlank
    <3>3. ASSUME NEW e \in 1..(f - 1), before[e] = "export", OnlyBlank(before, 1, e - 1), OnlyBlank(before, e + 1, f)
          PROVE  /\ e \in 1..(key - 2) /\ line[e] = "export" /\ OnlyBlank(line, 1, e - 1)
                 /\ OnlyBlank(line, e + 1, key - 1)
      <4>1. /\ e \in 1..(key - 2) /\ e \in 1..f /\ \A i \in 1..(e - 1) : i \in 1..f
            /\ \A i \in (e + 1)..f : i \in 1..f
        BY <2>2, <2>3
      <4>2. QED BY <2>9, <3>1, <3>3, <4>1, Zenon DEF OnlyBlank
    <3>4. MayPrecede(before, f)
      BY <1>1, Zenon
    <3>5. \/ OnlyBlank(line, 1, key - 1)
          \/ \E e \in 1..(key - 2) : line[e] = "export" /\ OnlyBlank(line, 1, e - 1)
                                                        /\ OnlyBlank(line, e + 1, key - 1)
      BY <3>2, <3>3, <3>4, Zenon DEF MayPrecede
    <3>6. key \in 1..(at - 1)
      BY <2>4
    <3>7. QED BY <2>1, <2>6, <3>5, <3>6, Zenon DEF Assigns
  <2>11. at \in 1..Len(line)
    BY <2>1, <2>4
  <2>12. /\ _is_an_assignment(line) /\ _assignment(line).name = Key
         /\ _assignment(line).value = _unquoted(strip(SubSeq(line, at + 1, Len(line))))
    BY <2>1, <2>10, <2>11, AssignsReads
  <2>13. strip(SubSeq(line, at + 1, Len(line))) = SubSeq(line, q, r)
    <3>1. ASSUME NEW lo, lo = at + 1 PROVE strip(SubSeq(line, lo, Len(line))) = SubSeq(line, q, r)
      <4>1. /\ lo \in 1..(Len(line) + 1) /\ Len(line) \in (lo - 1)..Len(line)
            /\ q \in lo..Len(line) /\ r \in q..Len(line)
        BY <2>1, <2>4, <3>1
      <4>2. line[q] # Blank /\ line[r] # Blank
        BY <2>1, Letters
      <4>3. OnlyBlank(line, lo, q - 1) /\ OnlyBlank(line, r + 1, Len(line))
        BY <2>1, <2>7, <2>8, <3>1
      <4>4. QED BY <2>1, <4>1, <4>2, <4>3, StripOfStretch
    <3>2. QED BY <3>1
  <2>14. _unquoted(SubSeq(line, q, r)) = v
    <3> DEFINE w == SubSeq(line, q, r)
    <3>1. q \in 1..(Len(line) + 1) /\ r \in (q - 1)..Len(line) /\ r - q + 1 = m + 2
      BY <2>1, <2>2, <2>3, <2>4
    <3>2. w \in Line /\ Len(w) = m + 2 /\ \A i \in 1..(r - q + 1) : w[i] = line[q + i - 1]
      BY <2>1, <3>1, StretchIs
    <3>3. w[1] = quote /\ w[m + 2] = quote
      <4>1. 1 \in 1..(r - q + 1) /\ q + 1 - 1 = q
        BY <2>2, <2>4, <3>1
      <4>2. ASSUME NEW z, z = m + 2 PROVE z \in 1..(r - q + 1) /\ q + z - 1 = r
        BY <2>2, <2>3, <2>4, <3>1, <4>2
      <4> HIDE DEF w
      <4>3. ASSUME NEW z, z = m + 2 PROVE w[z] = quote
        <5>1. z \in 1..(r - q + 1) /\ q + z - 1 = r
          BY <4>2, <4>3
        <5>2. w[z] = line[q + z - 1]
          BY <3>2, <5>1, Zenon
        <5>3. QED BY <2>1, <5>1, <5>2
      <4>4. w[1] = line[q + 1 - 1]
        BY <3>2, <4>1, Zenon
      <4>5. w[1] = quote
        BY <2>1, <4>1, <4>4
      <4>6. QED BY <4>3, <4>5
    <3> HIDE DEF w
    <3>4. _unquoted(w) = SubSeq(w, 2, Len(w) - 1)
      <4>1. Len(w) >= 2
        BY <2>2, <3>2
      <4>2. w # << >> /\ Head(w) = w[1] /\ Last(w) = w[Len(w)]
        <5>1. w # << >>
          BY <4>1
        <5>2. QED BY <3>2, <5>1, HeadTailProperties DEF Last, Line
      <4>3. Head(w) \in QUOTES /\ Last(w) = Head(w)
        BY <3>2, <3>3, <4>2
      <4>4. QED BY <4>1, <4>3 DEF _unquoted
    <3>5. ASSUME NEW a, a = q + 1, NEW b, b = r - 1, NEW k, k = Len(w) - 1
          PROVE  SubSeq(w, 2, k) = v
      <4>1. 2 \in 1..(r - q + 2) /\ k \in (2 - 1)..(r - q + 1) /\ a = q + 2 - 1 /\ b = q + k - 1
        BY <2>2, <2>3, <2>4, <3>1, <3>2, <3>5
      <4>2. SubSeq(w, 2, k) = SubSeq(line, a, b)
        BY <2>1, <3>1, <4>1, StretchOfStretch DEF w
      <4>3. a \in 1..(Len(line) + 1) /\ b \in (a - 1)..Len(line) /\ b - a + 1 = m
        BY <2>1, <2>2, <2>3, <2>4, <3>5
      <4>4. /\ SubSeq(line, a, b) \in Line /\ Len(SubSeq(line, a, b)) = m
            /\ \A i \in 1..m : SubSeq(line, a, b)[i] = line[a + i - 1]
        BY <2>1, <4>3, StretchIs
      <4>5. ASSUME NEW i \in 1..m PROVE SubSeq(line, a, b)[i] = v[i]
        <5>1. a + i - 1 = q + i
          BY <2>2, <2>4, <3>5
        <5>2. line[q + i] = v[i]
          BY <2>1 DEF Follows
        <5>3. SubSeq(line, a, b)[i] = line[a + i - 1]
          BY <4>4, Zenon
        <5>4. QED BY <5>1, <5>2, <5>3
      <4>6. SubSeq(line, a, b) = v
        BY <1>1, <4>4, <4>5, SeqEqual DEF Line
      <4>7. QED BY <4>2, <4>6
    <3>6. QED BY <3>4, <3>5 DEF w
  <2>15. _assignment(line).value = v
    BY <2>12, <2>13, <2>14
  <2>16. _assignment(line) = [name |-> _assignment(line).name, value |-> _assignment(line).value]
    BY DEF _assignment
  <2>17. QED BY <2>12, <2>15, <2>16, Zenon DEF Goal
<1> DEFINE f == Len(before)
           p == Len(pad)
           m == Len(v)
           key == f + 1
           c2 == key + p
           at == c2 + 1
           c4 == at + p
           q == c4 + 1
           c6 == q + m
           r == c6 + 1
           n == r + p
<1>2. Places(f, p, m, key, c2, at, c4, q, c6, r, n) /\ Len(before) = f /\ Len(pad) = p /\ Len(v) = m
  BY Zenon DEF Places
<1> HIDE DEF f, p, m, key, c2, at, c4, q, c6, r, n
<1>3. QED BY <1>1, <1>2, Zenon

(* A value without quotes: what strip and _unquoted leave of it.            *)
LEMMA UnquotedIs ==
    ASSUME NEW v \in Line
    PROVE  IF Len(v) >= 2 /\ v[1] \in QUOTES /\ v[Len(v)] = v[1]
           THEN Len(_unquoted(v)) = Len(v) - 2 ELSE _unquoted(v) = v
<1>1. Len(v) \in Nat
  BY DEF Line
<1>2. CASE Len(v) < 2
  BY <1>1, <1>2 DEF _unquoted
<1>3. CASE Len(v) >= 2
  <2>1. v # << >> /\ Head(v) = v[1] /\ Last(v) = v[Len(v)]
    <3>1. v # << >>
      BY <1>3
    <3>2. QED BY <3>1, HeadTailProperties DEF Last, Line
  <2>2. CASE v[1] \in QUOTES /\ v[Len(v)] = v[1]
    <3>1. _unquoted(v) = SubSeq(v, 2, Len(v) - 1)
      BY <1>3, <2>1, <2>2 DEF _unquoted
    <3>2. ASSUME NEW k, k = Len(v) - 1 PROVE Len(SubSeq(v, 2, k)) = Len(v) - 2
      <4>1. 2 \in 1..(Len(v) + 1) /\ k \in (2 - 1)..Len(v)
        BY <1>1, <1>3, <3>2
      <4>2. Len(SubSeq(v, 2, k)) = k - 2 + 1
        BY <4>1, StretchIs
      <4>3. QED BY <1>1, <3>2, <4>2
    <3>3. Len(SubSeq(v, 2, Len(v) - 1)) = Len(v) - 2
      BY <3>2
    <3>4. QED BY <1>3, <2>2, <3>1, <3>3
  <2>3. CASE ~(v[1] \in QUOTES /\ v[Len(v)] = v[1])
    <3>1. _unquoted(v) = v
      BY <2>1, <2>3 DEF _unquoted
    <3>2. QED BY <2>3, <3>1
  <2>4. QED BY <2>2, <2>3
<1>4. QED BY <1>1, <1>2, <1>3

LEMMA BareReads ==
    ASSUME NEW v \in Line, NEW line, line = Key \o <<ASSIGNMENT>> \o v
    PROVE  _assignment(line).value = _unquoted(strip(v))
<1> DEFINE x == Key \o <<ASSIGNMENT>>
<1>1. Key \in Line /\ Len(Key) = 1 /\ Key[1] = "K" /\ ASSIGNMENT \in Characters
  BY Letters DEF Key, Line
<1>2. x \in Line /\ Len(x) = 2 /\ x[1] = "K" /\ x[2] = ASSIGNMENT
  <2>1. /\ x \in Line /\ Len(x) = Len(Key) + 1
        /\ Begins(Key, Len(Key), x) /\ x[Len(Key) + 1] = ASSIGNMENT
    BY <1>1, JoinedOne, Zenon
  <2>2. x[1] = Key[1]
    BY <1>1, <2>1 DEF Begins
  <2>3. Len(Key) + 1 = 2
    BY <1>1
  <2> HIDE DEF x
  <2>4. QED BY <1>1, <2>1, <2>2, <2>3
<1>3. line = x \o v
  OBVIOUS
<1> HIDE DEF x
<1>4. /\ line \in Line /\ Len(line) = Len(x) + Len(v)
      /\ Begins(x, Len(x), line) /\ Follows(line, Len(x), v, Len(v))
  <2>1. /\ x \o v \in Line /\ Len(x \o v) = Len(x) + Len(v)
        /\ Begins(x, Len(x), x \o v) /\ Follows(x \o v, Len(x), v, Len(v))
    BY <1>2, Joined, Zenon
  <2>2. QED BY <1>3, <2>1, Zenon
<1>5. line \in Line /\ Len(line) = Len(v) + 2 /\ Len(v) \in Nat
  BY <1>2, <1>4 DEF Line
<1>6. line[1] = "K" /\ line[2] = ASSIGNMENT /\ \A i \in 1..Len(v) : line[2 + i] = v[i]
  <2>1. 1 \in 1..2 /\ 2 \in 1..2
    OBVIOUS
  <2>2. line[1] = x[1] /\ line[2] = x[2]
    BY <1>2, <1>4, <2>1, Zenon DEF Begins
  <2>3. \A i \in 1..Len(v) : line[2 + i] = v[i]
    BY <1>2, <1>4, Zenon DEF Follows
  <2>4. QED BY <1>2, <2>2, <2>3
<1>7. Assigns(line, 2) /\ 2 \in 1..Len(line)
  <2>1. OnlyBlank(line, 1, 1 - 1) /\ OnlyBlank(line, 1 + 1, 2 - 1) /\ 1 \in 1..(2 - 1)
    BY DEF OnlyBlank
  <2>2. 2 \in 1..Len(line)
    BY <1>5
  <2>3. QED BY <1>6, <2>1, <2>2, Zenon DEF Assigns
<1>8. _assignment(line).value = _unquoted(strip(SubSeq(line, 2 + 1, Len(line))))
  BY <1>5, <1>7, AssignsReads
<1>9. SubSeq(line, 2 + 1, Len(line)) = v
  <2>1. ASSUME NEW lo, lo = 2 + 1, NEW hi, hi = Len(line) PROVE SubSeq(line, lo, hi) = v
    <3>1. lo \in 1..(Len(line) + 1) /\ hi \in (lo - 1)..Len(line) /\ hi - lo + 1 = Len(v)
      BY <1>5, <2>1
    <3>2. /\ SubSeq(line, lo, hi) \in Line /\ Len(SubSeq(line, lo, hi)) = hi - lo + 1
          /\ \A i \in 1..(hi - lo + 1) : SubSeq(line, lo, hi)[i] = line[lo + i - 1]
      BY <1>5, <3>1, StretchIs
    <3>3. ASSUME NEW i \in 1..Len(v) PROVE SubSeq(line, lo, hi)[i] = v[i]
      <4>1. lo + i - 1 = 2 + i
        BY <1>5, <2>1
      <4>2. QED BY <1>6, <3>1, <3>2, <4>1
    <3>4. Len(SubSeq(line, lo, hi)) = Len(v)
      BY <3>1, <3>2
    <3>5. QED BY <3>2, <3>3, <3>4, SeqEqual DEF Line
  <2>2. QED BY <2>1
<1>10. QED BY <1>8, <1>9

LEMMA BareIsExact ==
    ASSUME NEW v \in Line
    PROVE  BareValueIsExactUnlessDressed(v)
<1> DEFINE edge == v # << >> /\ (Head(v) = Blank \/ Last(v) = Blank)
           pair == \E quote \in QUOTES : Len(v) > 1 /\ v[1] = quote /\ v[Len(v)] = quote
           w == strip(v)
<1> SUFFICES _unquoted(w) = v <=> ~edge /\ ~pair
    BY BareReads DEF BareValueIsExactUnlessDressed
<1>1. Len(v) \in Nat /\ << >> \in Line /\ Len(<< >>) = 0
  BY DEF Line
<1>2. _unquoted(<< >>) = << >>
  BY <1>1, UnquotedIsNothing
<1>3. v # << >> => Len(v) > 0 /\ Head(v) = v[1] /\ Last(v) = v[Len(v)]
  BY EmptySeq, HeadTailProperties DEF Last, Line
<1>4. pair <=> Len(v) >= 2 /\ v[1] \in QUOTES /\ v[Len(v)] = v[1]
  BY <1>1
<1>5. CASE OnlyBlank(v, 1, Len(v)) /\ w = << >>
  <2>1. CASE v = << >>
    <3>1. ~edge /\ ~pair
      BY <1>1, <1>4, <2>1
    <3>2. QED BY <1>2, <1>5, <2>1, <3>1
  <2>2. CASE v # << >>
    <3>1. edge
      BY <1>1, <1>3, <1>5, <2>2 DEF OnlyBlank
    <3>2. QED BY <1>2, <1>5, <2>2, <3>1
  <2>3. QED BY <2>1, <2>2
<1>6. ASSUME NEW a \in 1..Len(v), NEW b \in a..Len(v), v[a] # Blank, v[b] # Blank,
             OnlyBlank(v, 1, a - 1), OnlyBlank(v, b + 1, Len(v)), w = SubSeq(v, a, b)
      PROVE  _unquoted(w) = v <=> ~edge /\ ~pair
  <2>1. /\ a \in Nat /\ b \in Nat /\ a \in 1..(Len(v) + 1) /\ b \in (a - 1)..Len(v) /\ v # << >>
        /\ Len(v) > 0
    BY <1>1
  <2>2. w \in Line /\ Len(w) = b - a + 1
    BY <1>6, <2>1, StretchIs
  <2>3. CASE a = 1 /\ b = Len(v)
    <3>1. w = v
      BY <1>6, <2>3, SubSeqFull DEF Line
    <3>2. ~edge
      BY <1>3, <1>6, <2>1, <2>3
    <3>3. _unquoted(v) = v <=> ~pair
      <4>1. CASE pair
        <5>1. Len(_unquoted(v)) = Len(v) - 2
          BY <1>4, <4>1, UnquotedIs
        <5>2. Len(_unquoted(v)) # Len(v)
          BY <1>1, <5>1
        <5>3. QED BY <4>1, <5>2
      <4>2. CASE ~pair
        BY <1>4, <4>2, UnquotedIs
      <4>3. QED BY <4>1, <4>2
    <3> HIDE DEF w, edge, pair
    <3>4. QED BY <3>1, <3>2, <3>3
  <2>4. CASE ~(a = 1 /\ b = Len(v))
    <3>1. edge
      <4>1. CASE a # 1
        <5>1. v[1] = Blank
          BY <1>6, <2>1, <4>1 DEF OnlyBlank
        <5>2. QED BY <1>3, <2>1, <5>1
      <4>2. CASE b # Len(v)
        <5>1. v[Len(v)] = Blank
          BY <1>1, <1>6, <2>1, <4>2 DEF OnlyBlank
        <5>2. QED BY <1>3, <2>1, <5>1
      <4>3. QED BY <2>4, <4>1, <4>2
    <3>2. Len(w) < Len(v)
      BY <1>1, <2>1, <2>2, <2>4
    <3>3. Len(_unquoted(w)) # Len(v)
      <4> HIDE DEF w
      <4>1. Len(w) \in Nat
        BY <2>2 DEF Line
      <4>2. Len(_unquoted(w)) = Len(w) - 2 \/ _unquoted(w) = w
        BY <2>2, UnquotedIs
      <4>3. QED BY <1>1, <3>2, <4>1, <4>2
    <3> HIDE DEF w, edge
    <3>4. QED BY <3>1, <3>3
  <2>5. QED BY <2>3, <2>4
<1>7. QED
  <2> HIDE DEF edge, pair, w
  <2>1. \/ OnlyBlank(v, 1, Len(v)) /\ w = << >>
        \/ \E a \in 1..Len(v) : \E b \in a..Len(v) :
             /\ v[a] # Blank /\ v[b] # Blank
             /\ OnlyBlank(v, 1, a - 1) /\ OnlyBlank(v, b + 1, Len(v))
             /\ w = SubSeq(v, a, b)
    BY StripOfLine, Zenon DEF w
  <2>2. QED BY <1>5, <1>6, <2>1, Zenon

LEMMA QuotedIsExact ==
    ASSUME NEW v \in Line
    PROVE  QuotedValueIsExact(v)
<1>1. << >> \in Line /\ <<Blank>> \in Line /\ EXPORT_PREFIX \in Line
  BY DEF Line, EXPORT_PREFIX, Characters
<1>2. ASSUME NEW pad \in {<< >>, <<Blank>>} PROVE OnlyBlank(pad, 1, Len(pad))
  <2>1. CASE pad = << >>
    <3>1. Len(pad) = 0
      BY <2>1
    <3>2. QED BY <3>1 DEF OnlyBlank
  <2>2. CASE pad = <<Blank>>
    BY <2>2 DEF OnlyBlank
  <2>3. QED BY <2>1, <2>2
<1>3. ASSUME NEW before \in {<< >>, <<Blank>>, EXPORT_PREFIX} PROVE MayPrecede(before, Len(before))
  <2>1. CASE before \in {<< >>, <<Blank>>}
    BY <1>2, <2>1 DEF MayPrecede
  <2>2. CASE before = EXPORT_PREFIX
    <3>1. Len(before) = 2 /\ before[1] = "export" /\ before[2] = Blank
      BY <2>2 DEF EXPORT_PREFIX
    <3>2. 1 \in 1..(2 - 1) /\ OnlyBlank(before, 1, 1 - 1) /\ OnlyBlank(before, 1 + 1, 2)
      BY <3>1 DEF OnlyBlank
    <3>3. QED BY <3>1, <3>2 DEF MayPrecede
  <2>3. QED BY <2>1, <2>2
<1>4. ASSUME NEW quote \in QUOTES, NEW before \in {<< >>, <<Blank>>, EXPORT_PREFIX}, NEW pad \in {<< >>, <<Blank>>}
      PROVE  /\ _is_an_assignment(Quoted(before, pad, quote, v))
             /\ _assignment(Quoted(before, pad, quote, v)) = [name |-> Key, value |-> v]
  <2>1. before \in Line /\ pad \in Line
    BY <1>1
  <2>2. OnlyBlank(pad, 1, Len(pad)) /\ MayPrecede(before, Len(before))
    BY <1>2, <1>3
  <2>3. ASSUME NEW line, line = Quoted(before, pad, quote, v)
        PROVE  _is_an_assignment(line) /\ _assignment(line) = [name |-> Key, value |-> v]
    BY <2>1, <2>2, <2>3, QuotedReads
  <2>4. QED BY <2>3, Zenon
<1>5. QED BY <1>4, Zenon DEF QuotedValueIsExact, Quoted

(* A person says what a service runs on with the quotes alone, whatever the *)
(* value is made of and however long it is: in quotes _assignment reads it  *)
(* character for character, in a line dressed with blanks and export; bare  *)
(* it does so exactly if neither strip nor _unquoted has anything to take.  *)
THEOREM Quoting == Spec => []QuotingDecides
<1>1. Typed => QuotingDecides
  <2> SUFFICES ASSUME Typed PROVE QuotingDecides
      OBVIOUS
  <2>1. Last(text) \in Line
    BY EmptySeq DEF Typed, Last
  <2>2. QED BY <2>1, QuotedIsExact, BareIsExact DEF QuotingDecides
<1>2. QED BY <1>1, TypedAlways, PTL
===========================================================================
