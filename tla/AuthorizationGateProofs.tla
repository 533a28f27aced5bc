----------------------- MODULE AuthorizationGateProofs -----------------------
(***************************************************************************)
(* The gate for host names of any length over any characters: what         *)
(* AuthorizationGateMC checks of the names of a few characters.            *)
(*                                                                         *)
(* Three ideas carry the proofs.  Trimming the dots of a name cuts out the *)
(* piece between its first and its last other character, so it does not    *)
(* depend on what is outside that piece.  To end in a domain is to have    *)
(* its characters at a fixed distance and a dot before them, which is an   *)
(* order on names.  And the dots cut a name so that every character is in  *)
(* one label or is a cut, so that labels placed alike are characters       *)
(* placed alike.                                                           *)
(***************************************************************************)
EXTENDS AuthorizationGateMC, TLAPS, WellFoundedInduction, SequenceTheorems

-----------------------------------------------------------------------------
(* First and last                                                          *)

LEMMA LessIsInRelation == \A x, y \in Nat : x < y => <<x, y>> \in OpToRel(<, Nat)
  BY DEF OpToRel

LEMMA MinOfNumbers ==
  ASSUME NEW T \in SUBSET Nat, T # {}
  PROVE  Min(T) \in T /\ \A y \in T : Min(T) <= y
<1>1. PICK x \in T : \A y \in T : <<y, x>> \notin OpToRel(<, Nat)
  BY NatLessThanWellFounded, WFMin
<1>2. \A y \in T : ~(y < x)
  BY <1>1, LessIsInRelation
<1>3. \A y \in T : x <= y
  BY <1>2
<1> QED
  BY <1>3 DEF Min

LEMMA MaxOfNumbers ==
  ASSUME NEW n \in Nat, NEW T \in SUBSET (0..n), T # {}
  PROVE  Max(T) \in T /\ \A y \in T : y <= Max(T)
<1> DEFINE Flipped == {n - x : x \in T}
<1>1. \A x \in T : n - x \in Nat
  OBVIOUS
<1>2. Flipped \in SUBSET Nat /\ Flipped # {}
  BY <1>1
<1>3. PICK x \in T : n - x = Min(Flipped)
  <2>1. Min(Flipped) \in Flipped
    <3> HIDE DEF Flipped
    <3> QED BY <1>2, MinOfNumbers
  <2> QED
    BY <2>1
<1>4. \A y \in T : n - x <= n - y
  <2>1. \A v \in Flipped : Min(Flipped) <= v
    <3> HIDE DEF Flipped
    <3> QED BY <1>2, MinOfNumbers
  <2> QED
    BY <1>3, <2>1
<1>5. \A y \in T : y <= x
  BY <1>4
<1> QED
  BY <1>5 DEF Max

-----------------------------------------------------------------------------
(* Trimming dots                                                           *)

Letter(c) == c # Dot

Named(h) == {i \in DOMAIN h : Letter(h[i])}

\* The piece of a name from its m-th to its n-th character holds all its letters.
Cut(h, m, n) ==
  /\ 1 <= m /\ m <= n /\ n <= Len(h)
  /\ Letter(h[m]) /\ Letter(h[n])
  /\ \A i \in 1..Len(h) : Letter(h[i]) => m <= i /\ i <= n

LEMMA FirstAndLast ==
  ASSUME NEW S, NEW h \in Seq(S), Named(h) # {}
  PROVE  /\ Min(Named(h)) \in Nat /\ Max(Named(h)) \in Nat
         /\ Cut(h, Min(Named(h)), Max(Named(h)))
<1>1. Len(h) \in Nat /\ DOMAIN h = 1..Len(h)
  OBVIOUS
<1>2. Named(h) \in SUBSET (1..Len(h)) /\ Named(h) \in SUBSET Nat
  <2>1. \A i \in Named(h) : i \in 1..Len(h)
    BY <1>1 DEF Named
  <2>2. \A i \in 1..Len(h) : i \in Nat
    BY <1>1
  <2> QED
    BY <2>1, <2>2
<1>3. Min(Named(h)) \in Named(h) /\ \A i \in Named(h) : Min(Named(h)) <= i
  BY <1>2, MinOfNumbers
<1>4. Max(Named(h)) \in Named(h) /\ \A i \in Named(h) : i <= Max(Named(h))
  <2>1. Named(h) \in SUBSET (0..Len(h))
    BY <1>1, <1>2
  <2> QED
    BY <1>1, <2>1, MaxOfNumbers
<1>5. \A i \in DOMAIN h : Letter(h[i]) => i \in Named(h)
  BY DEF Named
<1>6. \A i \in Named(h) : i \in 1..Len(h) /\ Letter(h[i])
  BY <1>1 DEF Named
<1> DEFINE m == Min(Named(h))
           n == Max(Named(h))
<1> HIDE DEF m, n
<1>7. /\ m \in Named(h) /\ n \in Named(h)
      /\ \A i \in Named(h) : m <= i /\ i <= n
  BY <1>3, <1>4 DEF m, n
<1>8. m \in Nat /\ n \in Nat /\ Cut(h, m, n)
  BY <1>1, <1>5, <1>6, <1>7 DEF Cut
<1> QED
  BY <1>8 DEF m, n

LEMMA OneCut ==
  ASSUME NEW S, NEW h \in Seq(S), NEW m \in Nat, NEW n \in Nat, Cut(h, m, n)
  PROVE  Named(h) # {} /\ Min(Named(h)) = m /\ Max(Named(h)) = n
<1>0. Len(h) \in Nat /\ DOMAIN h = 1..Len(h)
  OBVIOUS
<1>1. m \in DOMAIN h /\ n \in DOMAIN h /\ Letter(h[m]) /\ Letter(h[n])
  BY <1>0 DEF Cut
<1>2. Named(h) # {}
  BY <1>1 DEF Named
<1> DEFINE k == Min(Named(h))
           l == Max(Named(h))
<1> HIDE DEF k, l
<1>3. k \in Nat /\ l \in Nat /\ Cut(h, k, l)
  BY <1>2, FirstAndLast DEF k, l
<1>4. k \in DOMAIN h /\ l \in DOMAIN h /\ Letter(h[k]) /\ Letter(h[l])
  BY <1>0, <1>3 DEF Cut
<1>5. k = m /\ l = n
  BY <1>1, <1>3, <1>4 DEF Cut
<1> QED
  BY <1>2, <1>5 DEF k, l

\* The trimmed name is the piece cut out, or empty when nothing is named.
LEMMA StripDotsCuts ==
  ASSUME NEW S, NEW h \in Seq(S)
  PROVE  /\ \A m, n \in Nat : Cut(h, m, n) => StripDots(h) = SubSeq(h, m, n)
         /\ Named(h) = {} => StripDots(h) = <<>>
         /\ Named(h) # {} => \E m, n \in Nat : Cut(h, m, n)
<1>1. ASSUME NEW m \in Nat, NEW n \in Nat, Cut(h, m, n)
      PROVE  StripDots(h) = SubSeq(h, m, n)
  BY <1>1, OneCut DEF StripDots, Named, Letter
<1>2. Named(h) = {} => StripDots(h) = <<>>
  BY DEF StripDots, Named, Letter
<1> QED
  BY <1>1, <1>2, FirstAndLast

LEMMA CutPiece ==
  ASSUME NEW S, NEW h \in Seq(S), NEW m \in Nat, NEW n \in Nat, Cut(h, m, n)
  PROVE  /\ SubSeq(h, m, n) \in Seq(S)
         /\ Len(SubSeq(h, m, n)) = n - m + 1
         /\ \A i \in 1..(n - m + 1) : SubSeq(h, m, n)[i] = h[m + i - 1]
<1>1. \A i \in m..n : h[i] \in S
  <2>1. Len(h) \in Nat /\ \A i \in 1..Len(h) : h[i] \in S
    OBVIOUS
  <2>2. \A i \in m..n : i \in 1..Len(h)
    BY <2>1 DEF Cut
  <2> QED
    BY <2>1, <2>2
<1>2. m \in Int /\ n \in Int /\ m <= n
  BY DEF Cut
<1> QED
  BY <1>1, <1>2, SubSeqProperties

LEMMA StripDotsType ==
  ASSUME NEW S, NEW h \in Seq(S)
  PROVE  StripDots(h) \in Seq(S)
<1>1. CASE Named(h) = {}
  BY <1>1, StripDotsCuts, EmptySeq
<1>2. CASE Named(h) # {}
  <2>1. PICK m \in Nat, n \in Nat : Cut(h, m, n)
    BY <1>2, StripDotsCuts
  <2> QED
    BY <2>1, StripDotsCuts, CutPiece
<1> QED
  BY <1>1, <1>2

\* A name with a letter at both ends is its own trimmed form, so that trimming
\* twice is trimming once.
LEMMA StripDotsTwice ==
  ASSUME NEW S, NEW h \in Seq(S)
  PROVE  StripDots(StripDots(h)) = StripDots(h)
<1>1. CASE Named(h) = {}
  <2>1. StripDots(h) = <<>>
    BY <1>1, StripDotsCuts
  <2>2. <<>> \in Seq(S) /\ DOMAIN <<>> = {}
    OBVIOUS
  <2>3. Named(<<>>) = {}
    BY <2>2 DEF Named
  <2> QED
    BY <2>1, <2>2, <2>3, StripDotsCuts
<1>2. CASE Named(h) # {}
  <2>1. PICK m \in Nat, n \in Nat : Cut(h, m, n)
    BY <1>2, StripDotsCuts
  <2> DEFINE piece == SubSeq(h, m, n)
  <2>2. StripDots(h) = piece
    BY <2>1, StripDotsCuts
  <2>3. /\ piece \in Seq(S) /\ Len(piece) = n - m + 1
        /\ \A i \in 1..(n - m + 1) : piece[i] = h[m + i - 1]
    BY <2>1, CutPiece
  <2> HIDE DEF piece
  <2>4. Cut(piece, 1, Len(piece)) /\ Len(piece) \in Nat
    <3>1. 1 \in 1..(n - m + 1) /\ n - m + 1 \in 1..(n - m + 1) /\ n - m + 1 \in Nat
      <4>1. m <= n
        BY <2>1 DEF Cut
      <4> QED
        BY <4>1
    <3>2. piece[1] = h[m] /\ piece[n - m + 1] = h[n]
      <4>1. m + 1 - 1 = m /\ m + (n - m + 1) - 1 = n
        OBVIOUS
      <4> QED
        BY <2>3, <3>1, <4>1
    <3>3. DOMAIN piece = 1..(n - m + 1)
      BY <2>3
    <3>4. Letter(h[m]) /\ Letter(h[n])
      BY <2>1 DEF Cut
    <3> QED
      BY <2>3, <3>1, <3>2, <3>3, <3>4 DEF Cut
  <2>5. StripDots(piece) = SubSeq(piece, 1, Len(piece))
    BY <2>3, <2>4, StripDotsCuts
  <2> QED
    BY <2>2, <2>3, <2>5, SubSeqFull
<1> QED
  BY <1>1, <1>2

\* A dot more at the end of a name, or at its beginning, is trimmed away.
LEMMA DotAfter ==
  ASSUME NEW S, NEW dot \in S, ~Letter(dot), NEW h \in Seq(S)
  PROVE  StripDots(Append(h, dot)) = StripDots(h)
<1> DEFINE dotted == Append(h, dot)
<1>1. /\ dotted \in Seq(S) /\ Len(dotted) = Len(h) + 1 /\ Len(h) \in Nat
      /\ \A i \in 1..Len(h) : dotted[i] = h[i]
      /\ ~Letter(dotted[Len(h) + 1])
  BY AppendProperties
<1>2. DOMAIN h = 1..Len(h) /\ DOMAIN dotted = 1..(Len(h) + 1)
  BY <1>1, LenProperties
<1> HIDE DEF dotted
<1>3. CASE Named(h) = {}
  <2>1. Named(dotted) = {}
    <3>1. \A i \in 1..(Len(h) + 1) : i \in 1..Len(h) \/ i = Len(h) + 1
      BY <1>1
    <3> QED
      BY <1>1, <1>2, <1>3, <3>1 DEF Named
  <2> QED
    BY <1>1, <1>3, <2>1, StripDotsCuts DEF dotted
<1>4. CASE Named(h) # {}
  <2>1. PICK m \in Nat, n \in Nat : Cut(h, m, n)
    BY <1>4, StripDotsCuts
  <2>2. 1 <= m /\ m <= n /\ n <= Len(h) /\ n <= Len(h) + 1
    BY <1>1, <2>1 DEF Cut
  <2>3. \A i \in m..n : i \in 1..Len(h)
    BY <1>1, <2>2
  <2>4. m \in m..n /\ n \in m..n
    BY <2>2
  <2>5. Letter(dotted[m]) /\ Letter(dotted[n])
    BY <1>1, <2>1, <2>3, <2>4 DEF Cut
  <2>6. \A i \in 1..(Len(h) + 1) : Letter(dotted[i]) => m <= i /\ i <= n
    <3> SUFFICES ASSUME NEW i \in 1..(Len(h) + 1), Letter(dotted[i])
                 PROVE  m <= i /\ i <= n
      OBVIOUS
    <3>1. i \in 1..Len(h)
      <4>1. i # Len(h) + 1
        BY <1>1
      <4> QED
        BY <1>1, <4>1
    <3> QED
      BY <1>1, <2>1, <3>1 DEF Cut
  <2>7. Cut(dotted, m, n)
    BY <1>1, <2>2, <2>5, <2>6 DEF Cut
  <2>8. SubSeq(dotted, m, n) = SubSeq(h, m, n)
    <3> DEFINE x == SubSeq(dotted, m, n)
               y == SubSeq(h, m, n)
    <3>1. /\ x \in Seq(S) /\ Len(x) = n - m + 1
          /\ \A i \in 1..(n - m + 1) : x[i] = dotted[m + i - 1]
      BY <1>1, <2>7, CutPiece
    <3>2. /\ y \in Seq(S) /\ Len(y) = n - m + 1
          /\ \A i \in 1..(n - m + 1) : y[i] = h[m + i - 1]
      BY <2>1, CutPiece
    <3>3. \A i \in 1..(n - m + 1) : m + i - 1 \in 1..Len(h)
      BY <1>1, <2>2
    <3> HIDE DEF x, y
    <3>4. \A i \in 1..Len(x) : x[i] = y[i]
      BY <1>1, <3>1, <3>2, <3>3
    <3>5. x = y
      BY <3>1, <3>2, <3>4, SeqEqual
    <3> QED
      BY <3>5 DEF x, y
  <2> QED
    BY <1>1, <2>1, <2>7, <2>8, StripDotsCuts DEF dotted
<1> QED
  BY <1>3, <1>4

LEMMA DotBefore ==
  ASSUME NEW S, NEW dot \in S, ~Letter(dot), NEW h \in Seq(S)
  PROVE  StripDots(<<dot>> \o h) = StripDots(h)
<1> DEFINE dotted == <<dot>> \o h
<1>0. <<dot>> \in Seq(S) /\ Len(<<dot>>) = 1 /\ <<dot>>[1] = dot
  OBVIOUS
<1>1. /\ dotted \in Seq(S) /\ Len(dotted) = Len(h) + 1 /\ Len(h) \in Nat
      /\ \A i \in 1..Len(h) : dotted[i + 1] = h[i]
      /\ ~Letter(dotted[1])
  <2>1. /\ dotted \in Seq(S) /\ Len(dotted) = 1 + Len(h) /\ Len(h) \in Nat
        /\ \A i \in 1..(1 + Len(h)) : dotted[i] = IF i <= 1 THEN <<dot>>[i] ELSE h[i - 1]
    BY <1>0, ConcatProperties, LenProperties
  <2> HIDE DEF dotted
  <2>2. \A i \in 1..Len(h) : i + 1 \in 1..(1 + Len(h)) /\ ~(i + 1 <= 1) /\ i + 1 - 1 = i
    BY <2>1
  <2>3. 1 \in 1..(1 + Len(h))
    BY <2>1
  <2>4. \A i \in 1..Len(h) : dotted[i + 1] = h[i]
    BY <2>1, <2>2
  <2>5. dotted[1] = dot
    BY <1>0, <2>1, <2>3
  <2> QED
    BY <2>1, <2>4, <2>5
<1>2. DOMAIN h = 1..Len(h) /\ DOMAIN dotted = 1..(Len(h) + 1)
  BY <1>1, LenProperties
<1> HIDE DEF dotted
<1>3. \A i \in 1..(Len(h) + 1) : Letter(dotted[i]) => i - 1 \in 1..Len(h) /\ Letter(h[i - 1])
  <2> SUFFICES ASSUME NEW i \in 1..(Len(h) + 1), Letter(dotted[i])
               PROVE  i - 1 \in 1..Len(h) /\ Letter(h[i - 1])
    OBVIOUS
  <2>1. i # 1
    BY <1>1
  <2>2. i - 1 \in 1..Len(h) /\ i - 1 + 1 = i
    BY <1>1, <2>1
  <2>3. dotted[i - 1 + 1] = h[i - 1]
    BY <1>1, <2>2
  <2> QED
    BY <2>2, <2>3
<1>4. CASE Named(h) = {}
  <2>1. Named(dotted) = {}
    BY <1>2, <1>3, <1>4 DEF Named
  <2> QED
    BY <1>1, <1>4, <2>1, StripDotsCuts DEF dotted
<1>5. CASE Named(h) # {}
  <2>1. PICK m \in Nat, n \in Nat : Cut(h, m, n)
    BY <1>5, StripDotsCuts
  <2>2. 1 <= m /\ m <= n /\ n <= Len(h) /\ m + 1 \in Nat /\ n + 1 \in Nat
    BY <1>1, <2>1 DEF Cut
  <2>3. m \in 1..Len(h) /\ n \in 1..Len(h)
    BY <1>1, <2>2
  <2>4. Letter(dotted[m + 1]) /\ Letter(dotted[n + 1])
    BY <1>1, <2>1, <2>3 DEF Cut
  <2>5. \A i \in 1..(Len(h) + 1) : Letter(dotted[i]) => m + 1 <= i /\ i <= n + 1
    <3> SUFFICES ASSUME NEW i \in 1..(Len(h) + 1), Letter(dotted[i])
                 PROVE  m + 1 <= i /\ i <= n + 1
      OBVIOUS
    <3>1. i - 1 \in 1..Len(h) /\ Letter(h[i - 1])
      BY <1>3
    <3>2. m <= i - 1 /\ i - 1 <= n
      BY <2>1, <3>1 DEF Cut
    <3> QED
      BY <3>2, <1>1
  <2>6. Cut(dotted, m + 1, n + 1)
    <3>1. 1 <= m + 1 /\ m + 1 <= n + 1 /\ n + 1 <= Len(dotted)
      BY <1>1, <2>2
    <3> QED
      BY <1>1, <2>4, <2>5, <3>1 DEF Cut
  <2>7. SubSeq(dotted, m + 1, n + 1) = SubSeq(h, m, n)
    <3> DEFINE x == SubSeq(dotted, m + 1, n + 1)
               y == SubSeq(h, m, n)
    <3>1. /\ x \in Seq(S) /\ Len(x) = n + 1 - (m + 1) + 1
          /\ \A i \in 1..(n + 1 - (m + 1) + 1) : x[i] = dotted[m + 1 + i - 1]
      BY <1>1, <2>2, <2>6, CutPiece
    <3>2. /\ y \in Seq(S) /\ Len(y) = n - m + 1
          /\ \A i \in 1..(n - m + 1) : y[i] = h[m + i - 1]
      BY <2>1, CutPiece
    <3>3. n + 1 - (m + 1) + 1 = n - m + 1
      OBVIOUS
    <3>4. \A i \in 1..(n - m + 1) : m + i - 1 \in 1..Len(h) /\ m + 1 + i - 1 = m + i - 1 + 1
      BY <1>1, <2>2
    <3> HIDE DEF x, y
    <3>5. \A i \in 1..(n - m + 1) : x[i] = y[i]
      BY <1>1, <3>1, <3>2, <3>3, <3>4
    <3>6. x = y
      BY <3>1, <3>2, <3>3, <3>5, SeqEqual
    <3> QED
      BY <3>6 DEF x, y
  <2>8. StripDots(dotted) = SubSeq(dotted, m + 1, n + 1)
    BY <1>1, <2>2, <2>6, StripDotsCuts
  <2> QED
    BY <2>1, <2>7, <2>8, StripDotsCuts DEF dotted
<1> QED
  BY <1>4, <1>5

-----------------------------------------------------------------------------
(* Scope                                                                   *)

LEMMA EndsWithIs ==
  ASSUME NEW S, NEW r \in Seq(S), NEW e \in Seq(S)
  PROVE  EndsWith(r, e) <=>
           Len(e) <= Len(r) /\ \A i \in 1..Len(e) : r[Len(r) - Len(e) + i] = e[i]
<1>1. Len(e) \in Nat /\ Len(r) \in Nat
  BY LenProperties
<1>2. ASSUME Len(e) <= Len(r)
      PROVE  SubSeq(r, Len(r) - Len(e) + 1, Len(r)) = e
               <=> \A i \in 1..Len(e) : r[Len(r) - Len(e) + i] = e[i]
  <2> DEFINE from == Len(r) - Len(e) + 1
             piece == SubSeq(r, from, Len(r))
  <2>1. /\ from \in Int /\ Len(r) \in Int
        /\ (IF from <= Len(r) THEN Len(r) - from + 1 ELSE 0) = Len(e)
        /\ Len(r) - from + 1 = Len(e)
        /\ \A i \in from..Len(r) : i \in 1..Len(r)
        /\ \A i \in 1..Len(e) : from + i - 1 = Len(r) - Len(e) + i
    BY <1>1, <1>2
  <2>2. \A i \in 1..Len(r) : r[i] \in S
    OBVIOUS
  <2> HIDE DEF from
  <2>3. \A i \in from..Len(r) : r[i] \in S
    BY <2>1, <2>2
  <2>4. /\ piece \in Seq(S) /\ Len(piece) = Len(e)
        /\ \A i \in 1..Len(e) : piece[i] = r[from + i - 1]
    BY <2>1, <2>3, SubSeqProperties
  <2> HIDE DEF piece
  <2>5. piece = e <=> \A i \in 1..Len(e) : piece[i] = e[i]
    BY <2>4, SeqEqual
  <2>6. \A i \in 1..Len(e) : piece[i] = r[Len(r) - Len(e) + i]
    BY <2>1, <2>4
  <2> QED
    BY <2>5, <2>6 DEF piece, from
<1> QED
  BY <1>1, <1>2 DEF EndsWith

\* The characters of the domain at the end, and a dot before them.
LEMMA EndsInDomainIs ==
  ASSUME NEW S, NEW r \in Seq(S), NEW a \in Seq(S)
  PROVE  /\ Len(a) \in Nat /\ Len(r) \in Nat
         /\ EndsInDomain(r, a) <=>
              /\ Len(a) < Len(r)
              /\ r[Len(r) - Len(a)] = Dot
              /\ \A i \in 1..Len(a) : r[Len(r) - Len(a) + i] = a[i]
<1> DEFINE T == S \cup {Dot}
           e == <<Dot>> \o a
<1>1. Len(a) \in Nat /\ Len(r) \in Nat
  BY LenProperties
<1>2. r \in Seq(T) /\ a \in Seq(T) /\ Dot \in T
  <2>1. S \subseteq T /\ Dot \in T
    OBVIOUS
  <2> HIDE DEF T
  <2> QED
    BY <2>1, SeqMonotonic
<1> HIDE DEF T
<1>3. <<Dot>> \in Seq(T) /\ Len(<<Dot>>) = 1 /\ <<Dot>>[1] = Dot
  BY <1>2
<1>4. /\ e \in Seq(T) /\ Len(e) = 1 + Len(a)
      /\ e[1] = Dot
      /\ \A i \in 1..Len(a) : e[i + 1] = a[i]
  <2>1. /\ e \in Seq(T) /\ Len(e) = 1 + Len(a)
        /\ \A i \in 1..(1 + Len(a)) : e[i] = IF i <= 1 THEN <<Dot>>[i] ELSE a[i - 1]
    BY <1>2, <1>3, ConcatProperties
  <2> HIDE DEF e
  <2>2. /\ 1 \in 1..(1 + Len(a))
        /\ \A i \in 1..Len(a) : i + 1 \in 1..(1 + Len(a)) /\ ~(i + 1 <= 1) /\ i + 1 - 1 = i
    BY <1>1
  <2> QED
    BY <1>3, <2>1, <2>2
<1> HIDE DEF e
<1>5. EndsInDomain(r, a) <=>
        Len(e) <= Len(r) /\ \A i \in 1..Len(e) : r[Len(r) - Len(e) + i] = e[i]
  <2>1. EndsInDomain(r, a) <=> EndsWith(r, e)
    BY DEF EndsInDomain, e
  <2>2. r \in Seq(T) /\ e \in Seq(T)
    BY <1>2, <1>4
  <2>3. EndsWith(r, e) <=>
          Len(e) <= Len(r) /\ \A i \in 1..Len(e) : r[Len(r) - Len(e) + i] = e[i]
    BY ONLY <2>2, EndsWithIs
  <2> QED
    BY ONLY <2>1, <2>3
<1>6. ASSUME \A i \in 1..Len(e) : r[Len(r) - Len(e) + i] = e[i]
      PROVE  /\ r[Len(r) - Len(a)] = Dot
             /\ \A i \in 1..Len(a) : r[Len(r) - Len(a) + i] = a[i]
  <2>1. /\ 1 \in 1..Len(e) /\ Len(r) - Len(e) + 1 = Len(r) - Len(a)
        /\ \A i \in 1..Len(a) :
             i + 1 \in 1..Len(e) /\ Len(r) - Len(e) + (i + 1) = Len(r) - Len(a) + i
    BY <1>1, <1>4
  <2>2. r[Len(r) - Len(a)] = Dot
    BY <1>4, <1>6, <2>1
  <2>3. ASSUME NEW i \in 1..Len(a) PROVE r[Len(r) - Len(a) + i] = a[i]
    <3>1. r[Len(r) - Len(e) + (i + 1)] = e[i + 1]
      BY <1>6, <2>1
    <3> QED
      BY <1>4, <2>1, <3>1
  <2> QED
    BY <2>2, <2>3
<1>7. ASSUME r[Len(r) - Len(a)] = Dot, \A i \in 1..Len(a) : r[Len(r) - Len(a) + i] = a[i],
             NEW i \in 1..Len(e)
      PROVE  r[Len(r) - Len(e) + i] = e[i]
  <2>1. CASE i = 1
    <3>1. Len(r) - Len(e) + 1 = Len(r) - Len(a)
      BY <1>1, <1>4
    <3> QED
      BY <1>4, <1>7, <2>1, <3>1
  <2>2. CASE i # 1
    <3>1. i - 1 \in 1..Len(a) /\ i - 1 + 1 = i
          /\ Len(r) - Len(a) + (i - 1) = Len(r) - Len(e) + i
      BY <1>1, <1>4, <2>2
    <3>2. r[Len(r) - Len(a) + (i - 1)] = a[i - 1] /\ e[i - 1 + 1] = a[i - 1]
      BY <1>4, <1>7, <3>1
    <3> QED
      BY <3>1, <3>2
  <2> QED
    BY <2>1, <2>2
<1>8. Len(e) <= Len(r) <=> Len(a) < Len(r)
  BY <1>1, <1>4
<1> QED
  BY <1>1, <1>5, <1>6, <1>7, <1>8

\* What is below a host that is below another is below that other.
LEMMA EndsInDomainTransitive ==
  ASSUME NEW S, NEW x \in Seq(S), NEW y \in Seq(S), NEW z \in Seq(S),
         EndsInDomain(y, x), EndsInDomain(z, y)
  PROVE  EndsInDomain(z, x)
<1>1. /\ Len(x) \in Nat /\ Len(y) \in Nat /\ Len(z) \in Nat
      /\ Len(x) < Len(y) /\ Len(y) < Len(z)
      /\ y[Len(y) - Len(x)] = Dot
      /\ \A i \in 1..Len(x) : y[Len(y) - Len(x) + i] = x[i]
      /\ \A i \in 1..Len(y) : z[Len(z) - Len(y) + i] = y[i]
  BY EndsInDomainIs
<1>2. ASSUME NEW i \in 0..Len(x)
      PROVE  z[Len(z) - Len(x) + i] = y[Len(y) - Len(x) + i]
  <2>1. /\ Len(y) - Len(x) + i \in 1..Len(y)
        /\ Len(z) - Len(y) + (Len(y) - Len(x) + i) = Len(z) - Len(x) + i
    BY <1>1
  <2>2. z[Len(z) - Len(y) + (Len(y) - Len(x) + i)] = y[Len(y) - Len(x) + i]
    BY <1>1, <2>1
  <2> QED
    BY <2>1, <2>2
<1>3. z[Len(z) - Len(x)] = Dot
  <2>1. /\ 0 \in 0..Len(x) /\ Len(z) - Len(x) + 0 = Len(z) - Len(x)
        /\ Len(y) - Len(x) + 0 = Len(y) - Len(x)
    BY <1>1
  <2>2. z[Len(z) - Len(x) + 0] = y[Len(y) - Len(x) + 0]
    BY <1>2, <2>1
  <2> QED
    BY <1>1, <2>1, <2>2
<1>4. ASSUME NEW i \in 1..Len(x) PROVE z[Len(z) - Len(x) + i] = x[i]
  <2>1. i \in 0..Len(x)
    BY <1>1
  <2> QED
    BY <1>1, <1>2, <2>1
<1>5. Len(x) < Len(z)
  BY <1>1
<1> QED
  BY <1>1, <1>3, <1>4, <1>5, EndsInDomainIs

-----------------------------------------------------------------------------
(* Labels                                                                  *)

\* A label of a name between two of its cuts.
Adjacent(h, i, j) ==
  /\ i \in Cuts(h) /\ j \in Cuts(h) /\ i < j
  /\ \A k \in Cuts(h) : ~(i < k /\ k < j)

LEMMA CutIs ==
  ASSUME NEW S, NEW h \in Seq(S)
  PROVE  /\ Len(h) \in Nat
         /\ \A i : i \in Cuts(h) <=> i = 0 \/ i = Len(h) + 1 \/ (i \in 1..Len(h) /\ h[i] = Dot)
         /\ Cuts(h) \in SUBSET (0..(Len(h) + 1))
<1>1. Len(h) \in Nat /\ DOMAIN h = 1..Len(h)
  BY LenProperties
<1>2. \A i : i \in Cuts(h) <=> i = 0 \/ i = Len(h) + 1 \/ (i \in 1..Len(h) /\ h[i] = Dot)
  BY <1>1 DEF Cuts
<1>3. Cuts(h) \in SUBSET (0..(Len(h) + 1))
  BY <1>1, <1>2
<1> QED
  BY <1>1, <1>2, <1>3

\* A label begins at every cut but the last.
LEMMA LabelAfter ==
  ASSUME NEW S, NEW h \in Seq(S), NEW i \in Cuts(h), i <= Len(h)
  PROVE  \E j \in Cuts(h) : Adjacent(h, i, j)
<1> DEFINE Later == {k \in Cuts(h) : i < k}
           j == Min(Later)
<1>1. Len(h) \in Nat /\ i \in Int /\ Len(h) + 1 \in Cuts(h) /\ Cuts(h) \in SUBSET Nat
  BY CutIs
<1>2. Later \in SUBSET Nat /\ Later # {}
  BY <1>1
<1>3. j \in Later /\ \A k \in Later : j <= k
  <2> HIDE DEF Later
  <2> QED BY <1>2, MinOfNumbers
<1> HIDE DEF j
<1>4. \A k \in Cuts(h) : ~(i < k /\ k < j)
  BY <1>1, <1>3
<1> QED
  BY <1>3, <1>4 DEF Adjacent

\* Every letter of a name is in a label of it.
LEMMA LabelAround ==
  ASSUME NEW S, NEW h \in Seq(S), NEW m \in 1..Len(h), h[m] # Dot
  PROVE  \E i, j \in Cuts(h) : Adjacent(h, i, j) /\ i < m /\ m < j
<1> DEFINE Earlier == {k \in Cuts(h) : k < m}
           i == Max(Earlier)
<1>1. /\ Len(h) \in Nat /\ m \in Nat /\ m \notin Cuts(h) /\ 0 \in Cuts(h) /\ 0 < m
      /\ Cuts(h) \in SUBSET (0..(Len(h) + 1))
  BY CutIs
<1>2. Earlier \in SUBSET (0..(Len(h) + 1)) /\ Earlier # {} /\ Len(h) + 1 \in Nat
  BY <1>1
<1>3. i \in Earlier /\ \A k \in Earlier : k <= i
  <2> HIDE DEF Earlier
  <2> QED BY <1>2, MaxOfNumbers
<1> HIDE DEF i
<1>4. i \in Cuts(h) /\ i < m /\ i <= Len(h) /\ i \in Int
  BY <1>1, <1>3
<1>5. PICK j \in Cuts(h) : Adjacent(h, i, j)
  BY <1>4, LabelAfter
<1>6. i < j /\ j # m /\ j \in Int
  BY <1>1, <1>5 DEF Adjacent
<1>7. ~(j < m)
  BY <1>3, <1>4, <1>6
<1>8. m < j
  BY <1>1, <1>6, <1>7
<1> QED
  BY <1>4, <1>5, <1>8

\* The text of a label.
LEMMA LabelText ==
  ASSUME NEW S, NEW h \in Seq(S), NEW i, NEW j, Adjacent(h, i, j)
  PROVE  /\ SubSeq(h, i + 1, j - 1) \in Seq(S)
         /\ Len(SubSeq(h, i + 1, j - 1)) = j - i - 1
         /\ \A k \in 1..(j - i - 1) : SubSeq(h, i + 1, j - 1)[k] = h[i + k]
<1>1. i \in 0..(Len(h) + 1) /\ j \in 0..(Len(h) + 1) /\ i < j /\ Len(h) \in Nat
  BY CutIs DEF Adjacent
<1>2. /\ i + 1 \in Int /\ j - 1 \in Int
      /\ (IF i + 1 <= j - 1 THEN j - 1 - (i + 1) + 1 ELSE 0) = j - i - 1
      /\ \A k \in (i + 1)..(j - 1) : k \in 1..Len(h)
      /\ \A k \in 1..(j - i - 1) : i + 1 + k - 1 = i + k
      /\ \A k \in 1..(j - i - 1) : k \in 1..(j - 1 - (i + 1) + 1)
  BY <1>1
<1>3. \A k \in (i + 1)..(j - 1) : h[k] \in S
  BY <1>2, LenProperties
<1> DEFINE from == i + 1
           to == j - 1
           piece == SubSeq(h, from, to)
<1> HIDE DEF from, to
<1>4. /\ piece \in Seq(S)
      /\ Len(piece) = IF from <= to THEN to - from + 1 ELSE 0
      /\ \A k \in 1..(to - from + 1) : piece[k] = h[from + k - 1]
  BY <1>2, <1>3, SubSeqProperties DEF from, to
<1> HIDE DEF piece
<1>5. Len(piece) = j - i - 1
  BY <1>2, <1>4 DEF from, to
<1>6. ASSUME NEW k \in 1..(j - i - 1) PROVE piece[k] = h[i + k]
  <2>1. k \in 1..(to - from + 1) /\ from + k - 1 = i + k
    BY <1>2 DEF from, to
  <2> QED
    BY <1>4, <2>1
<1> QED
  BY <1>4, <1>5, <1>6 DEF piece, from, to

\* A label of a stands in r when r has a label d characters further on, with the
\* same characters, d being how much longer r is.
StandsIn(r, a, i, j) ==
  LET d == Len(r) - Len(a)
  IN  Adjacent(r, i + d, j + d) /\ \A m \in (i + 1)..(j - 1) : r[m + d] = a[m]

LEMMA PlacedAlike ==
  ASSUME NEW S, NEW r \in Seq(S), NEW a \in Seq(S),
         NEW i, NEW j, Adjacent(a, i, j)
  PROVE  <<Len(a) + 1 - j, SubSeq(a, i + 1, j - 1)>> \in PlacedLabels(r) <=> StandsIn(r, a, i, j)
<1> DEFINE d == Len(r) - Len(a)
           at == SubSeq(a, i + 1, j - 1)
<1>1. /\ Len(a) \in Nat /\ Len(r) \in Nat /\ i \in Int /\ j \in Int /\ i < j
      /\ d \in Int
  BY CutIs DEF Adjacent
<1>2. /\ at \in Seq(S) /\ Len(at) = j - i - 1
      /\ \A k \in 1..(j - i - 1) : at[k] = a[i + k]
  BY LabelText
<1> HIDE DEF at
<1>3. ASSUME NEW k, NEW l, Adjacent(r, k, l)
      PROVE  <<Len(a) + 1 - j, at>> = <<Len(r) + 1 - l, SubSeq(r, k + 1, l - 1)>>
               <=> k = i + d /\ l = j + d /\ \A m \in (i + 1)..(j - 1) : r[m + d] = a[m]
  <2> DEFINE rt == SubSeq(r, k + 1, l - 1)
  <2>1. k \in Int /\ l \in Int /\ k < l
    BY <1>3, CutIs DEF Adjacent
  <2>2. /\ rt \in Seq(S) /\ Len(rt) = l - k - 1
        /\ \A n \in 1..(l - k - 1) : rt[n] = r[k + n]
    BY <1>3, LabelText
  <2> HIDE DEF rt
  <2>3. Len(a) + 1 - j = Len(r) + 1 - l <=> l = j + d
    BY <1>1, <2>1
  <2>4. at = rt <=> Len(at) = Len(rt) /\ \A n \in 1..Len(at) : at[n] = rt[n]
    BY <1>2, <2>2, SeqEqual
  <2>5. ASSUME l = j + d
        PROVE  Len(at) = Len(rt) <=> k = i + d
    <3>1. Len(at) = j - i - 1 /\ Len(rt) = l - k - 1
      BY <1>2, <2>2
    <3> HIDE DEF d
    <3> QED
      BY <1>1, <2>1, <2>5, <3>1
  <2>6. ASSUME l = j + d, k = i + d
        PROVE  (\A n \in 1..Len(at) : at[n] = rt[n])
                 <=> \A m \in (i + 1)..(j - 1) : r[m + d] = a[m]
    <3>0. Len(at) = j - i - 1 /\ l - k - 1 = j - i - 1
      BY <1>1, <1>2, <2>6
    <3>1. ASSUME \A n \in 1..Len(at) : at[n] = rt[n], NEW m \in (i + 1)..(j - 1)
          PROVE  r[m + d] = a[m]
      <4>1. m - i \in 1..(j - i - 1) /\ i + (m - i) = m /\ k + (m - i) = m + d
        BY <1>1, <2>6
      <4> QED
        BY <1>2, <2>2, <3>0, <3>1, <4>1
    <3>2. ASSUME \A m \in (i + 1)..(j - 1) : r[m + d] = a[m], NEW n \in 1..Len(at)
          PROVE  at[n] = rt[n]
      <4>1. n \in 1..(j - i - 1) /\ i + n \in (i + 1)..(j - 1) /\ i + n + d = k + n
        BY <1>1, <2>6, <3>0
      <4>2. r[i + n + d] = a[i + n]
        BY <3>2, <4>1
      <4> QED
        BY <1>2, <2>2, <3>0, <4>1, <4>2
    <3> QED
      BY <3>1, <3>2
  <2> QED
    BY <2>3, <2>4, <2>5, <2>6 DEF rt
<1>4. <<Len(a) + 1 - j, at>> \in PlacedLabels(r) <=>
        \E k, l : /\ Adjacent(r, k, l)
                  /\ <<Len(a) + 1 - j, at>> = <<Len(r) + 1 - l, SubSeq(r, k + 1, l - 1)>>
  <2> DEFINE x == <<Len(a) + 1 - j, at>>
             P(k, l) == <<Len(r) + 1 - l, SubSeq(r, k + 1, l - 1)>>
  <2>1. PlacedLabels(r) = {P(c[1], c[2]) : c \in Labels(r)}
    BY DEF PlacedLabels
  <2>2. \A k, l : <<k, l>> \in Labels(r) <=> Adjacent(r, k, l)
    BY DEF Labels, Adjacent
  <2>3. \A c \in Labels(r) : c = <<c[1], c[2]>>
    BY DEF Labels
  <2> HIDE DEF P, x
  <2>4. x \in PlacedLabels(r) <=> \E k, l : Adjacent(r, k, l) /\ x = P(k, l)
    <3>1. ASSUME NEW k, NEW l, Adjacent(r, k, l)
          PROVE  P(k, l) \in PlacedLabels(r)
      <4>1. <<k, l>> \in Labels(r) /\ <<k, l>>[1] = k /\ <<k, l>>[2] = l
        BY <2>2, <3>1
      <4> QED
        BY <2>1, <4>1
    <3>2. ASSUME NEW c \in Labels(r)
          PROVE  Adjacent(r, c[1], c[2])
      BY <2>2, <2>3
    <3> QED
      BY <2>1, <3>1, <3>2
  <2> QED
    BY <2>4 DEF P, x
<1>5. StandsIn(r, a, i, j) <=>
        Adjacent(r, i + d, j + d) /\ \A m \in (i + 1)..(j - 1) : r[m + d] = a[m]
  BY DEF StandsIn
<1> HIDE DEF d
<1>6. <<Len(a) + 1 - j, at>> \in PlacedLabels(r) <=> StandsIn(r, a, i, j)
  BY <1>3, <1>4, <1>5
<1> QED
  BY <1>6 DEF at

LEMMA WithinIs ==
  ASSUME NEW S, NEW r \in Seq(S), NEW a \in Seq(S)
  PROVE  IsWithin(r, a) <=> \A i, j : Adjacent(a, i, j) => StandsIn(r, a, i, j)
<1> DEFINE P(i, j) == <<Len(a) + 1 - j, SubSeq(a, i + 1, j - 1)>>
<1>1. PlacedLabels(a) = {P(c[1], c[2]) : c \in Labels(a)}
  BY DEF PlacedLabels
<1>2. /\ \A i, j : <<i, j>> \in Labels(a) <=> Adjacent(a, i, j)
      /\ \A c \in Labels(a) : c = <<c[1], c[2]>>
  BY DEF Labels, Adjacent
<1>3. \A i, j : Adjacent(a, i, j) => (P(i, j) \in PlacedLabels(r) <=> StandsIn(r, a, i, j))
  BY PlacedAlike
<1> HIDE DEF P
<1>4. IsWithin(r, a) <=> \A i, j : Adjacent(a, i, j) => P(i, j) \in PlacedLabels(r)
  <2>1. ASSUME NEW i, NEW j, Adjacent(a, i, j)
        PROVE  P(i, j) \in PlacedLabels(a)
    <3>1. <<i, j>> \in Labels(a) /\ <<i, j>>[1] = i /\ <<i, j>>[2] = j
      BY <1>2, <2>1
    <3> QED
      BY <1>1, <3>1
  <2>2. ASSUME NEW c \in Labels(a)
        PROVE  Adjacent(a, c[1], c[2])
    BY <1>2
  <2> QED
    BY <1>1, <2>1, <2>2 DEF IsWithin
<1> QED
  BY <1>3, <1>4

\* A suffix of characters after a dot is a suffix of whole labels, and the other way
\* round.
LEMMA ScopeByLabels ==
  ASSUME NEW S, NEW r \in Seq(S), NEW a \in Seq(S)
  PROVE  r = a \/ EndsInDomain(r, a) <=> IsWithin(r, a)
<1> DEFINE d == Len(r) - Len(a)
<1>1. Len(a) \in Nat /\ Len(r) \in Nat /\ d \in Int
  BY CutIs
<1>2. EndsInDomain(r, a) <=>
        Len(a) < Len(r) /\ r[d] = Dot /\ \A i \in 1..Len(a) : r[d + i] = a[i]
  BY EndsInDomainIs
<1>3. ASSUME EndsInDomain(r, a), NEW i, NEW j, Adjacent(a, i, j)
      PROVE  StandsIn(r, a, i, j)
  <2>1. d >= 1 /\ r[d] = Dot /\ \A m \in 1..Len(a) : r[d + m] = a[m]
    BY <1>1, <1>2, <1>3
  <2>2. /\ i \in Cuts(a) /\ j \in Cuts(a) /\ i < j
        /\ i \in 0..(Len(a) + 1) /\ j \in 0..(Len(a) + 1)
    BY <1>3, CutIs DEF Adjacent
  <2>3. ASSUME NEW k \in Cuts(a) PROVE k + d \in Cuts(r)
    <3>1. k = 0 \/ k = Len(a) + 1 \/ (k \in 1..Len(a) /\ a[k] = Dot)
      BY CutIs
    <3>2. CASE k = 0
      <4>1. k + d \in 1..Len(r) /\ r[k + d] = Dot
        BY <1>1, <2>1, <3>2
      <4> QED
        BY <4>1, CutIs
    <3>3. CASE k = Len(a) + 1
      <4>1. k + d = Len(r) + 1
        BY <1>1, <3>3
      <4> QED
        BY <4>1, CutIs
    <3>4. CASE k \in 1..Len(a) /\ a[k] = Dot
      <4>1. k + d \in 1..Len(r) /\ k + d = d + k
        BY <1>1, <2>1, <3>4
      <4> QED
        BY <2>1, <3>4, <4>1, CutIs
    <3> QED
      BY <3>1, <3>2, <3>3, <3>4
  <2>4. ASSUME NEW k \in Cuts(r), i + d < k, k < j + d PROVE FALSE
    <3>1. k \in 0..(Len(r) + 1) /\ (k = 0 \/ k = Len(r) + 1 \/ (k \in 1..Len(r) /\ r[k] = Dot))
      BY CutIs
    <3>2. k - d \in 1..Len(a) /\ d + (k - d) = k /\ i < k - d /\ k - d < j
          /\ k # 0 /\ k # Len(r) + 1
      BY <1>1, <2>1, <2>2, <2>4, <3>1
    <3>3. a[k - d] = Dot
      BY <2>1, <3>1, <3>2
    <3>4. k - d \in Cuts(a)
      BY <3>2, <3>3, CutIs
    <3> QED
      BY <1>3, <3>2, <3>4 DEF Adjacent
  <2>5. i + d < j + d
    BY <1>1, <2>2
  <2>6. Adjacent(r, i + d, j + d)
    BY <2>2, <2>3, <2>4, <2>5 DEF Adjacent
  <2>7. ASSUME NEW m \in (i + 1)..(j - 1) PROVE r[m + d] = a[m]
    <3>1. m \in 1..Len(a) /\ m + d = d + m
      BY <1>1, <2>2
    <3> QED
      BY <2>1, <3>1
  <2> QED
    BY <2>6, <2>7 DEF StandsIn
<1>4. ASSUME \A i, j : Adjacent(a, i, j) => StandsIn(r, a, i, j)
      PROVE  r = a \/ EndsInDomain(r, a)
  <2>0. \A i, j : Adjacent(a, i, j) =>
          /\ i + d \in Cuts(r)
          /\ \A m \in (i + 1)..(j - 1) : r[m + d] = a[m]
    BY <1>4 DEF StandsIn, Adjacent
  <2>1. d \in Cuts(r)
    <3>1. 0 \in Cuts(a) /\ 0 <= Len(a)
      BY <1>1, CutIs
    <3>2. PICK j \in Cuts(a) : Adjacent(a, 0, j)
      BY <3>1, LabelAfter
    <3>3. 0 + d \in Cuts(r) /\ 0 + d = d
      BY <1>1, <2>0, <3>2
    <3> QED
      BY <3>3
  <2>2. d >= 0 /\ (d = 0 \/ (d \in 1..Len(r) /\ r[d] = Dot))
    <3>1. d = 0 \/ d = Len(r) + 1 \/ (d \in 1..Len(r) /\ r[d] = Dot)
      BY <2>1, CutIs
    <3>2. d # Len(r) + 1
      BY <1>1
    <3> QED
      BY <1>1, <3>1, <3>2
  <2>3. ASSUME NEW m \in 1..Len(a) PROVE r[d + m] = a[m]
    <3>1. CASE a[m] = Dot
      <4>1. m \in Cuts(a) /\ m <= Len(a)
        BY <1>1, <3>1, CutIs
      <4>2. PICK j \in Cuts(a) : Adjacent(a, m, j)
        BY <4>1, LabelAfter
      <4>3. m + d \in Cuts(r) /\ m + d = d + m
        BY <1>1, <2>0, <4>2
      <4>4. d + m # 0 /\ d + m # Len(r) + 1
        BY <1>1, <2>2
      <4>5. r[d + m] = Dot
        BY <4>3, <4>4, CutIs
      <4> QED
        BY <3>1, <4>5
    <3>2. CASE a[m] # Dot
      <4>1. PICK i \in Cuts(a), j \in Cuts(a) : Adjacent(a, i, j) /\ i < m /\ m < j
        BY <3>2, LabelAround
      <4>2. i \in 0..(Len(a) + 1) /\ j \in 0..(Len(a) + 1)
        BY CutIs
      <4>3. m \in (i + 1)..(j - 1) /\ m + d = d + m
        BY <1>1, <4>1, <4>2
      <4> QED
        BY <2>0, <4>1, <4>3
    <3> QED
      BY <3>1, <3>2
  <2>4. CASE d = 0
    <3>1. Len(r) = Len(a) /\ \A m \in 1..Len(a) : d + m = m
      BY <1>1, <2>4
    <3>2. \A m \in 1..Len(r) : r[m] = a[m]
      BY <2>3, <3>1
    <3> QED
      BY <3>1, <3>2, SeqEqual
  <2>5. CASE d # 0
    <3>1. Len(a) < Len(r)
      BY <1>1, <2>2, <2>5
    <3> QED
      BY <1>2, <2>2, <2>3, <2>5, <3>1
  <2> QED
    BY <2>4, <2>5
<1>5. r = a => IsWithin(r, a)
  BY DEF IsWithin
<1> QED
  BY <1>3, <1>4, <1>5, WithinIs

\* A name trimmed at its end only ends in all that the trimmed name ends in: what
\* looks for a domain at the end of the one misses none at the end of the other.
LEMMA RightTrimEndsAlike ==
  ASSUME NEW S, NEW h \in Seq(S), NEW a \in Seq(S), a # <<>>,
         StripDots(h) = a \/ EndsInDomain(StripDots(h), a)
  PROVE  /\ Named(h) # {}
         /\ SubSeq(h, 1, Max(Named(h))) = a \/ EndsInDomain(SubSeq(h, 1, Max(Named(h))), a)
<1>0. Len(a) \in Nat /\ Len(a) > 0
  BY EmptySeq, LenProperties
<1>1. Named(h) # {}
  <2> SUFFICES ASSUME Named(h) = {} PROVE FALSE
    OBVIOUS
  <2>1. StripDots(h) = <<>> /\ Len(<<>>) = 0 /\ <<>> \in Seq(S)
    BY StripDotsCuts
  <2>2. ~EndsInDomain(<<>>, a)
    <3>1. EndsInDomain(<<>>, a) => Len(a) < Len(<<>>)
      BY <2>1, EndsInDomainIs
    <3> QED
      BY <1>0, <2>1, <3>1
  <2> QED
    BY <2>1, <2>2
<1>2. PICK m \in Nat, n \in Nat : Cut(h, m, n)
  BY <1>1, StripDotsCuts
<1>3. Max(Named(h)) = n
  BY <1>2, OneCut
<1>4. 1 <= m /\ m <= n /\ n <= Len(h) /\ Len(h) \in Nat
  BY <1>2, LenProperties DEF Cut
<1> DEFINE piece == StripDots(h)
           right == SubSeq(h, 1, n)
<1>5. /\ piece \in Seq(S) /\ Len(piece) = n - m + 1
      /\ \A i \in 1..(n - m + 1) : piece[i] = h[m + i - 1]
  <2>1. StripDots(h) = SubSeq(h, m, n)
    BY <1>2, StripDotsCuts
  <2>2. /\ SubSeq(h, m, n) \in Seq(S) /\ Len(SubSeq(h, m, n)) = n - m + 1
        /\ \A i \in 1..(n - m + 1) : SubSeq(h, m, n)[i] = h[m + i - 1]
    BY <1>2, CutPiece
  <2>3. piece = SubSeq(h, m, n)
    BY <2>1
  <2> HIDE DEF piece
  <2> QED
    BY <2>2, <2>3
<1>6. /\ right \in Seq(S) /\ Len(right) = n
      /\ \A i \in 1..n : right[i] = h[i]
  <2>1. 1 \in Int /\ n \in Int /\ 1 <= n /\ n - 1 + 1 = n /\ \A i \in 1..n : 1 + i - 1 = i
    BY <1>4
  <2>2. \A i \in 1..n : h[i] \in S
    <3>1. \A i \in 1..n : i \in 1..Len(h)
      BY <1>4
    <3> QED
      BY <3>1, LenProperties
  <2>3. /\ right \in Seq(S) /\ Len(right) = n - 1 + 1
        /\ \A i \in 1..(n - 1 + 1) : right[i] = h[1 + i - 1]
    BY <2>1, <2>2, SubSeqProperties
  <2> HIDE DEF right
  <2> QED
    BY <2>1, <2>3
<1>7. piece = a \/ EndsInDomain(piece, a)
  OBVIOUS
<1> HIDE DEF piece, right
<1>8. \A i \in 1..(n - m + 1) : right[m - 1 + i] = piece[i]
  <2>1. \A i \in 1..(n - m + 1) : m - 1 + i \in 1..n /\ m + i - 1 = m - 1 + i
    BY <1>4
  <2> QED
    BY <1>5, <1>6, <2>1
<1>9. CASE piece = a /\ m = 1
  <2>1. Len(a) = n /\ \A i \in 1..n : m - 1 + i = i /\ i \in 1..(n - m + 1)
    BY <1>4, <1>5, <1>9
  <2>2. \A i \in 1..n : right[i] = a[i]
    BY <1>8, <1>9, <2>1
  <2>3. right = a
    BY <1>6, <2>1, <2>2, SeqEqual
  <2> QED
    BY <1>1, <1>3, <2>3 DEF right
<1>10. CASE piece = a /\ m # 1
  <2>1. /\ Len(a) = n - m + 1 /\ Len(a) < n /\ n - Len(a) = m - 1
        /\ m - 1 \in 1..n /\ m - 1 \in 1..Len(h) /\ ~(m <= m - 1)
    BY <1>4, <1>5, <1>10
  <2>2. right[m - 1] = Dot
    BY <1>2, <1>6, <2>1 DEF Cut, Letter
  <2>3. \A i \in 1..Len(a) : right[n - Len(a) + i] = a[i]
    BY <1>8, <1>10, <2>1
  <2>4. EndsInDomain(right, a)
    BY <1>6, <2>1, <2>2, <2>3, EndsInDomainIs
  <2> QED
    BY <1>1, <1>3, <2>4 DEF right
<1>11. CASE EndsInDomain(piece, a)
  <2>1. /\ Len(a) < n - m + 1
        /\ piece[n - m + 1 - Len(a)] = Dot
        /\ \A i \in 1..Len(a) : piece[n - m + 1 - Len(a) + i] = a[i]
    <3>1. /\ Len(a) < Len(piece)
          /\ piece[Len(piece) - Len(a)] = Dot
          /\ \A i \in 1..Len(a) : piece[Len(piece) - Len(a) + i] = a[i]
      <4>1. piece \in Seq(S) /\ a \in Seq(S)
        BY <1>5
      <4> QED
        BY ONLY <4>1, <1>11, EndsInDomainIs
    <3> QED
      BY <1>5, <3>1
  <2>2. /\ n - m + 1 - Len(a) \in 1..(n - m + 1)
        /\ m - 1 + (n - m + 1 - Len(a)) = n - Len(a)
        /\ Len(a) < n
        /\ \A i \in 1..Len(a) :
             /\ n - m + 1 - Len(a) + i \in 1..(n - m + 1)
             /\ m - 1 + (n - m + 1 - Len(a) + i) = n - Len(a) + i
    BY <1>0, <1>4, <2>1
  <2>3. right[n - Len(a)] = Dot
    BY <1>8, <2>1, <2>2
  <2>4. ASSUME NEW i \in 1..Len(a) PROVE right[n - Len(a) + i] = a[i]
    <3>1. right[m - 1 + (n - m + 1 - Len(a) + i)] = piece[n - m + 1 - Len(a) + i]
      BY <1>8, <2>2
    <3> QED
      BY <2>1, <2>2, <3>1
  <2>5. EndsInDomain(right, a)
    BY <1>6, <2>2, <2>3, <2>4, EndsInDomainIs
  <2> QED
    BY <1>1, <1>3, <2>5 DEF right
<1> QED
  BY <1>7, <1>9, <1>10, <1>11

-----------------------------------------------------------------------------
(* Names as they are written                                               *)

TextsOf(L) == {l.text : l \in L} \cup {Dot}

LEMMA LowerType ==
  ASSUME NEW L, NEW name \in Seq(L)
  PROVE  /\ Lower(name) \in Seq(TextsOf(L))
         /\ Len(Lower(name)) = Len(name)
         /\ \A i \in 1..Len(name) : Lower(name)[i] = name[i].text
<1>1. Len(name) \in Nat /\ DOMAIN name = 1..Len(name) /\ \A i \in 1..Len(name) : name[i] \in L
  OBVIOUS
<1>2. Lower(name) = [i \in 1..Len(name) |-> name[i].text]
  BY <1>1 DEF Lower
<1>3. \A i \in 1..Len(name) : name[i].text \in TextsOf(L)
  BY <1>1 DEF TextsOf
<1> QED
  BY <1>1, <1>2, <1>3

LEMMA NormalizedType ==
  ASSUME NEW L, NEW name \in Seq(L)
  PROVE  Normalized(name) \in Seq(TextsOf(L))
  BY LowerType, StripDotsType DEF Normalized

\* A dot at either end, and writing a name in its normal form, change nothing.
LEMMA NormalForms ==
  ASSUME NEW L, NEW name \in Seq(L)
  PROVE  LET n == Normalized(name)
             dot == Small(Dot)
         IN  /\ Normalized(Append(name, dot)) = n
             /\ Normalized(<<dot>> \o name) = n
             /\ Normalized([i \in DOMAIN n |-> Small(n[i])]) = n
<1> DEFINE dot == Small(Dot)
           K == L \cup {dot}
           h == Lower(name)
           n == Normalized(name)
           plain == [i \in DOMAIN n |-> Small(n[i])]
           blank == Dot
           T == TextsOf(L)
<1>1. h \in Seq(T) /\ Len(h) = Len(name) /\ \A i \in 1..Len(name) : h[i] = name[i].text
  BY LowerType
<1>2. blank \in T /\ ~Letter(blank) /\ dot.text = blank
  BY DEF TextsOf, Letter, Small
<1>3. name \in Seq(K) /\ dot \in K /\ Len(name) \in Nat
  <2>1. L \subseteq K /\ dot \in K
    OBVIOUS
  <2> HIDE DEF K, dot
  <2> QED
    BY <2>1, SeqMonotonic
<1>4. n \in Seq(T) /\ n = StripDots(h)
  BY NormalizedType DEF Normalized
<1>5. plain \in [DOMAIN n -> [text : T, upper : BOOLEAN]] /\ \A i \in DOMAIN n : plain[i].text = n[i]
  BY <1>4 DEF Small
<1> HIDE DEF dot, K, h, n, plain, blank, T
<1>6. Normalized(Append(name, dot)) = n
  <2>1. /\ Append(name, dot) \in Seq(K) /\ Len(Append(name, dot)) = Len(name) + 1
        /\ \A i \in 1..Len(name) : Append(name, dot)[i] = name[i]
        /\ Append(name, dot)[Len(name) + 1] = dot
    BY <1>3, AppendProperties
  <2>2. /\ Append(h, blank) \in Seq(T) /\ Len(Append(h, blank)) = Len(name) + 1
        /\ \A i \in 1..Len(name) : Append(h, blank)[i] = h[i]
        /\ Append(h, blank)[Len(name) + 1] = blank
    BY <1>1, <1>2, AppendProperties
  <2>3. Lower(Append(name, dot)) = Append(h, blank)
    <3> DEFINE dotted == Append(name, dot)
               lowered == Append(h, blank)
    <3> HIDE DEF dotted, lowered
    <3>1. /\ DOMAIN dotted = 1..(Len(name) + 1) /\ DOMAIN lowered = 1..(Len(name) + 1)
          /\ lowered = [i \in 1..(Len(name) + 1) |-> lowered[i]]
      BY <2>1, <2>2, <1>3, LenProperties DEF dotted, lowered
    <3>2. ASSUME NEW i \in 1..(Len(name) + 1) PROVE dotted[i].text = lowered[i]
      <4>1. i \in 1..Len(name) \/ i = Len(name) + 1
        BY <1>3
      <4> QED
        BY <1>1, <1>2, <2>1, <2>2, <4>1 DEF dotted, lowered
    <3>3. Lower(dotted) = [i \in 1..(Len(name) + 1) |-> dotted[i].text]
      BY <3>1 DEF Lower
    <3>4. [i \in 1..(Len(name) + 1) |-> dotted[i].text] = [i \in 1..(Len(name) + 1) |-> lowered[i]]
      BY <3>2
    <3> QED
      BY <3>1, <3>3, <3>4 DEF dotted, lowered
  <2>4. StripDots(Append(h, blank)) = StripDots(h)
    BY <1>1, <1>2, DotAfter
  <2> QED
    BY <1>4, <2>3, <2>4 DEF Normalized
<1>7. Normalized(<<dot>> \o name) = n
  <2>0. /\ <<dot>> \in Seq(K) /\ Len(<<dot>>) = 1 /\ <<dot>>[1] = dot
        /\ <<blank>> \in Seq(T) /\ Len(<<blank>>) = 1 /\ <<blank>>[1] = blank
    BY <1>2, <1>3
  <2> DEFINE dotted == <<dot>> \o name
             lowered == <<blank>> \o h
  <2>1. /\ dotted \in Seq(K) /\ Len(dotted) = 1 + Len(name)
        /\ \A i \in 1..(1 + Len(name)) : dotted[i] = IF i <= 1 THEN <<dot>>[i] ELSE name[i - 1]
    BY <1>3, <2>0, ConcatProperties
  <2>2. /\ lowered \in Seq(T) /\ Len(lowered) = 1 + Len(name)
        /\ \A i \in 1..(1 + Len(name)) : lowered[i] = IF i <= 1 THEN <<blank>>[i] ELSE h[i - 1]
    <3>1. /\ lowered \in Seq(T) /\ Len(lowered) = 1 + Len(h)
          /\ \A i \in 1..(1 + Len(h)) : lowered[i] = IF i <= 1 THEN <<blank>>[i] ELSE h[i - 1]
      BY <1>1, <2>0, ConcatProperties
    <3> QED
      BY <1>1, <3>1
  <2> HIDE DEF dotted, lowered
  <2>3. /\ DOMAIN dotted = 1..(1 + Len(name)) /\ DOMAIN lowered = 1..(1 + Len(name))
        /\ lowered = [i \in 1..(1 + Len(name)) |-> lowered[i]]
    BY <2>1, <2>2, <1>3, LenProperties
  <2>4. ASSUME NEW i \in 1..(1 + Len(name)) PROVE dotted[i].text = lowered[i]
    <3>1. CASE i <= 1
      <4>1. i = 1
        BY <1>3, <3>1
      <4> QED
        BY <1>2, <2>0, <2>1, <2>2, <3>1, <4>1
    <3>2. CASE ~(i <= 1)
      <4>1. i - 1 \in 1..Len(name)
        BY <1>3, <3>2
      <4> QED
        BY <1>1, <2>1, <2>2, <3>2, <4>1
    <3> QED
      BY <3>1, <3>2
  <2>5. Lower(dotted) = [i \in 1..(1 + Len(name)) |-> dotted[i].text]
    BY <2>3 DEF Lower
  <2>6. [i \in 1..(1 + Len(name)) |-> dotted[i].text] = [i \in 1..(1 + Len(name)) |-> lowered[i]]
    BY <2>4
  <2>7. Lower(dotted) = lowered
    BY <2>3, <2>5, <2>6
  <2>8. StripDots(lowered) = StripDots(h)
    BY <1>1, <1>2, DotBefore DEF lowered
  <2> QED
    BY <1>4, <2>7, <2>8 DEF Normalized, dotted
<1>8. Normalized(plain) = n
  <2>1. DOMAIN plain = DOMAIN n /\ n = [i \in DOMAIN n |-> n[i]]
    BY <1>4, <1>5, LenProperties
  <2>2. Lower(plain) = [i \in DOMAIN n |-> plain[i].text]
    BY <2>1 DEF Lower
  <2>3. [i \in DOMAIN n |-> plain[i].text] = [i \in DOMAIN n |-> n[i]]
    BY <1>5
  <2>4. Lower(plain) = n
    BY <2>1, <2>2, <2>3
  <2>5. StripDots(n) = n
    BY <1>1, <1>4, StripDotsTwice
  <2> QED
    BY <2>4, <2>5 DEF Normalized
<1> QED
  BY <1>6, <1>7, <1>8 DEF dot, plain, n
-----------------------------------------------------------------------------
(* The gate                                                                *)

\* Covering is transitive: what is in scope of a host in scope of the
\* authorized host is in scope of the authorized host.
THEOREM ScopeIsTransitive ==
  ASSUME NEW L, NEW x \in Seq(L), NEW y \in Seq(L), NEW z \in Seq(L),
         HostsMatch(x, y), HostsMatch(y, z)
  PROVE  HostsMatch(x, z)
<1>1. /\ Normalized(x) \in Seq(TextsOf(L)) /\ Normalized(y) \in Seq(TextsOf(L))
      /\ Normalized(z) \in Seq(TextsOf(L))
  BY NormalizedType
<1> QED
  BY <1>1, EndsInDomainTransitive DEF HostsMatch

\* Whatever lines a manifest has: a target it declares and the gate together let
\* an active analyzer at a host only below a name on a line that is no comment.
THEOREM ManifestGrantsItsSubtrees ==
  ASSUME NEW target, NEW host, NEW manifest,
         Admits(SelfOwnedProof(target, manifest), FALSE, host, "active")
  PROVE  \E line \in DeclaredIn(manifest) : HostsMatch(line, host)
<1>1. /\ SelfOwnedProof(target, manifest).held
      /\ HostsMatch(SelfOwnedProof(target, manifest).target, host)
  BY DEF Admits
<1>2. PICK line \in DeclaredIn(manifest) : Lower(line) = Lower(target)
  BY <1>1 DEF SelfOwnedProof, NoAuthorization
<1>3. SelfOwnedProof(target, manifest).target = target
  BY <1>1 DEF SelfOwnedProof, NoAuthorization, AuthorizationFor
<1>4. HostsMatch(line, host)
  BY <1>1, <1>2, <1>3 DEF HostsMatch, Normalized
<1> QED
  BY <1>4

\* The scope of the gate is what names mean by it, for any two names.
THEOREM ScopeIsOfLabels ==
  ASSUME NEW L, NEW x \in Seq(L), NEW y \in Seq(L)
  PROVE  HostsMatch(x, y) <=> IsWithin(Normalized(y), Normalized(x))
<1>1. Normalized(x) \in Seq(TextsOf(L)) /\ Normalized(y) \in Seq(TextsOf(L))
  BY NormalizedType
<1> QED
  BY <1>1, ScopeByLabels DEF HostsMatch

Names == authorized \in Seq(Characters) /\ requested \in Seq(Characters)

LEMMA NamesGrow == Spec => []Names
<1>1. Init => Names
  BY DEF Init, Names
<1>2. Names /\ [Next]_vars => Names'
  <2> SUFFICES ASSUME Names, [Next]_vars PROVE Names'
    OBVIOUS
  <2>1. CASE ExtendAuthorized
    <3>1. PICK c \in Characters : authorized' = Append(authorized, c)
      BY <2>1 DEF ExtendAuthorized
    <3>2. Append(authorized, c) \in Seq(Characters)
      BY AppendProperties DEF Names
    <3> QED
      BY <2>1, <3>1, <3>2 DEF Names, ExtendAuthorized
  <2>2. CASE ExtendRequested
    <3>1. PICK c \in Characters : requested' = Append(requested, c)
      BY <2>2 DEF ExtendRequested
    <3>2. Append(requested, c) \in Seq(Characters)
      BY AppendProperties DEF Names
    <3> QED
      BY <2>2, <3>1, <3>2 DEF Names, ExtendRequested
  <2>3. CASE UNCHANGED vars
    BY <2>3 DEF Names, vars
  <2> QED
    BY <2>1, <2>2, <2>3 DEF Next
<1> QED
  BY <1>1, <1>2, PTL DEF Spec

\* For names of any length over any characters: though it compares characters from
\* the end, _hosts_match decides by whole labels, and its scope is the authorized
\* host with what is below it.
THEOREM ScopeIsTheSubtree == Spec => []ScopeIsSubtree
<1>1. Names => ScopeIsSubtree
  BY ScopeIsOfLabels DEF Names, ScopeIsSubtree
<1> QED
  BY <1>1, NamesGrow, PTL

\* For names of any length over any characters, neither capitals nor dots at the
\* ends decide whether the gate covers a host.
THEOREM FormNeverMatters == Spec => []FormIsIrrelevant
<1>1. Names => FormIsIrrelevant
  <2> SUFFICES ASSUME Names PROVE FormIsIrrelevant
    OBVIOUS
  <2> DEFINE dot == Small(Dot)
             Plain(name) == [i \in DOMAIN Normalized(name) |-> Small(Normalized(name)[i])]
  <2>1. /\ Normalized(Append(authorized, dot)) = Normalized(authorized)
        /\ Normalized(Plain(authorized)) = Normalized(authorized)
        /\ Normalized(<<dot>> \o requested) = Normalized(requested)
        /\ Normalized(Plain(requested)) = Normalized(requested)
    BY NormalForms DEF Names
  <2> HIDE DEF dot, Plain
  <2>2. /\ HostsMatch(authorized, requested) <=> HostsMatch(Plain(authorized), Plain(requested))
        /\ HostsMatch(authorized, requested)
             <=> HostsMatch(Append(authorized, dot), <<dot>> \o requested)
    BY <2>1 DEF HostsMatch
  <2> QED
    BY <2>2 DEF FormIsIrrelevant, Plain, dot
<1> QED
  BY <1>1, NamesGrow, PTL

\* For names of any length over any characters, authority is inherited all the way
\* down the tree of hosts.
THEOREM AuthorityIsInherited == Spec => []ScopeIsInherited
<1>1. Names => ScopeIsInherited
  <2> SUFFICES ASSUME Names, NEW c \in Characters, HostsMatch(authorized, requested),
                      HostsMatch(requested, <<c, Small(Dot)>> \o requested)
               PROVE  HostsMatch(authorized, <<c, Small(Dot)>> \o requested)
    BY DEF ScopeIsInherited
  <2> DEFINE L == Characters \cup {Small(Dot)}
  <2>1. Characters \subseteq L /\ c \in L /\ Small(Dot) \in L
    OBVIOUS
  <2> HIDE DEF L
  <2>2. authorized \in Seq(L) /\ requested \in Seq(L)
    BY <2>1, SeqMonotonic DEF Names
  <2>3. <<c, Small(Dot)>> \o requested \in Seq(L)
    BY <2>1, <2>2, ConcatProperties
  <2> QED
    BY <2>2, <2>3, ScopeIsTransitive
<1> QED
  BY <1>1, NamesGrow, PTL

\* For names of any length, a manifest's declaration and the gate together never
\* let an active analyzer out of the subtrees the manifest names.
THEOREM GrantsStayInside == Spec => []GrantStaysInManifest
<1>1. Names => GrantStaysInManifest
  <2> SUFFICES ASSUME Names, NEW target \in {authorized, requested},
                      Admits(SelfOwnedProof(target, [exists |-> TRUE, lines |-> {authorized}]),
                             FALSE, requested, "active")
               PROVE  /\ authorized # <<>> /\ authorized[1].text # Hash
                      /\ IsWithin(Normalized(requested), Normalized(authorized))
    BY DEF GrantStaysInManifest
  <2> DEFINE manifest == [exists |-> TRUE, lines |-> {authorized}]
  <2>1. PICK line \in DeclaredIn(manifest) : HostsMatch(line, requested)
    BY ManifestGrantsItsSubtrees
  <2>2. line = authorized /\ authorized # <<>> /\ authorized[1].text # Hash
    BY <2>1 DEF DeclaredIn
  <2> QED
    BY <2>1, <2>2, ScopeIsOfLabels DEF Names
<1> QED
  BY <1>1, NamesGrow, PTL
=============================================================================
