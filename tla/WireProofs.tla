---- MODULE WireProofs ----
(***************************************************************************)
(* Theorems about the JSON text of a log (LogWire) and the places of a DID *)
(* (DidPlace), for logs, documents and paths of any length.                *)
(*                                                                         *)
(* Induction over a sequence is by its least or greatest counterexample:   *)
(* the numbers are well founded, so a set of them that is not empty has a  *)
(* least one.  A function that is defined by recursion over the prefixes   *)
(* of a sequence (Dropping) has a unique value at each of them.            *)
(*                                                                         *)
(* The parts, in order: what Dropping keeps; a URL, its DID and back; the  *)
(* members of a document read, written and read again; parameters, entries *)
(* and proofs as the pipelines write them and the readers read them; the   *)
(* placeholder replaced by the SCID and back; the inductive invariant      *)
(* WireInv with one lemma for each action; the theorems that follow; and   *)
(* what a verified log's last versionId says of all its entries.           *)
(***************************************************************************)
EXTENDS LogWire, DidPlace, SequenceTheorems, WellFoundedInduction, TLAPS

-----------------------------------------------------------------------------
(* A set of numbers that is not empty has a least one.                                    *)
LEMMA LeastNumber ==
  ASSUME NEW T \in SUBSET Nat, T # {}
  PROVE  \E m \in T : \A k \in T : m <= k
<1>1. PICK m \in T : \A y \in T : <<y, m>> \notin OpToRel(<, Nat)
  BY WFMin, NatLessThanWellFounded, Zenon
<1>2. \A y \in T : ~(y < m)
  BY <1>1 DEF OpToRel
<1>3. QED BY <1>2

(* The function that Dropping is defined by, on a prefix of s.             *)
Keeps(s, e, n, f) ==
  f = [i \in 0 .. n |-> IF i = 0 THEN << >>
                        ELSE IF s[i] = e THEN f[i - 1] ELSE Append(f[i - 1], s[i])]

(* What the kept elements of a prefix are, from those of the prefix one shorter.          *)
LEMMA KeepsStep ==
  ASSUME NEW s, NEW e, NEW n \in Nat, NEW f, Keeps(s, e, n, f)
  PROVE  /\ f[0] = << >>
         /\ \A m \in 1 .. n : f[m] = IF s[m] = e THEN f[m - 1] ELSE Append(f[m - 1], s[m])
<1>1. \A i \in 0 .. n : f[i] = IF i = 0 THEN << >> ELSE IF s[i] = e THEN f[i - 1]
                                                    ELSE Append(f[i - 1], s[i])
  BY DEF Keeps
<1>2. 0 \in 0 .. n
  OBVIOUS
<1>3. ASSUME NEW m \in 1 .. n
      PROVE  f[m] = IF s[m] = e THEN f[m - 1] ELSE Append(f[m - 1], s[m])
  <2>1. m \in 0 .. n /\ m # 0
    OBVIOUS
  <2>2. QED BY <1>1, <2>1
<1>4. QED BY <1>1, <1>2, <1>3

(* There is one for every prefix.                                          *)
LEMMA KeepsExists ==
  ASSUME NEW s, NEW e, NEW n \in Nat
  PROVE  \E f : Keeps(s, e, n, f)
<1> DEFINE Bad == {m \in Nat : ~ \E f : Keeps(s, e, m, f)}
<1>1. SUFFICES ASSUME Bad # {} PROVE FALSE
  OBVIOUS
<1>2. PICK m \in Bad : \A k \in Bad : m <= k
  BY <1>1, LeastNumber
<1>3. CASE m = 0
  <2>1. Keeps(s, e, 0, [i \in 0 .. 0 |-> << >>])
    BY DEF Keeps
  <2>2. QED BY <1>2, <1>3, <2>1
<1>4. CASE m # 0
  <2>1. m - 1 \in Nat /\ m - 1 \notin Bad
    BY <1>2, <1>4
  <2>2. PICK f : Keeps(s, e, m - 1, f)
    BY <2>1
  <2> DEFINE g == [i \in 0 .. m |-> IF i < m THEN f[i]
                                    ELSE IF s[m] = e THEN f[m - 1] ELSE Append(f[m - 1], s[m])]
  <2>3. \A i \in 0 .. m - 1 :
          f[i] = IF i = 0 THEN << >> ELSE IF s[i] = e THEN f[i - 1] ELSE Append(f[i - 1], s[i])
    BY <2>2 DEF Keeps
  <2>4. \A i \in 0 .. m :
          g[i] = IF i = 0 THEN << >> ELSE IF s[i] = e THEN g[i - 1] ELSE Append(g[i - 1], s[i])
    BY <2>1, <2>3, <1>4
  <2>5. Keeps(s, e, m, g)
    BY <2>4 DEF Keeps
  <2>6. QED BY <1>2, <2>5
<1>5. QED BY <1>3, <1>4

(* And one only.                                                           *)
LEMMA KeepsUnique ==
  ASSUME NEW s, NEW e, NEW n \in Nat, NEW f, Keeps(s, e, n, f), NEW m \in Nat, m <= n,
         NEW g, Keeps(s, e, m, g)
  PROVE  f[m] = g[m]
<1> DEFINE Bad == {i \in 0 .. m : f[i] # g[i]}
<1>1. SUFFICES ASSUME Bad # {} PROVE FALSE
  OBVIOUS
<1>2. PICK i \in Bad : \A k \in Bad : i <= k
  <2>1. Bad \in SUBSET Nat
    OBVIOUS
  <2>2. QED BY <1>1, <2>1, LeastNumber
<1>3. i \in 0 .. m /\ i \in 0 .. n /\ f[i] # g[i]
  BY <1>2
<1>4. /\ f[i] = IF i = 0 THEN << >> ELSE IF s[i] = e THEN f[i - 1] ELSE Append(f[i - 1], s[i])
      /\ g[i] = IF i = 0 THEN << >> ELSE IF s[i] = e THEN g[i - 1] ELSE Append(g[i - 1], s[i])
  BY <1>3 DEF Keeps
<1>5. i # 0
  BY <1>3, <1>4
<1>6. i - 1 \in 0 .. m /\ i - 1 \notin Bad
  BY <1>2, <1>3, <1>5
<1>7. f[i - 1] = g[i - 1]
  BY <1>6
<1>8. QED BY <1>3, <1>4, <1>7

(* Dropping is the last value of the function that keeps element after element.           *)
LEMMA DroppingIs ==
  ASSUME NEW s, NEW e, Len(s) \in Nat
  PROVE  \E f : Keeps(s, e, Len(s), f) /\ Dropping(s, e) = f[Len(s)]
<1> DEFINE F == CHOOSE f : Keeps(s, e, Len(s), f)
<1>1. Keeps(s, e, Len(s), F)
  BY KeepsExists
<1>2. Dropping(s, e) = F[Len(s)]
  BY DEF Dropping, Keeps
<1>3. QED BY <1>1, <1>2

-----------------------------------------------------------------------------
(* What Dropping keeps, for sequences of any length.                       *)

(* One more element is appended unless it is e.                            *)
LEMMA DroppingAppend ==
  ASSUME NEW S, NEW s \in Seq(S), NEW x \in S, NEW e
  PROVE  Dropping(Append(s, x), e)
           = IF x = e THEN Dropping(s, e) ELSE Append(Dropping(s, e), x)
<1> DEFINE t == Append(s, x)
           n == Len(s)
<1>1. /\ n \in Nat /\ Len(t) = n + 1 /\ t[n + 1] = x
      /\ \A i \in 1 .. n : t[i] = s[i]
  OBVIOUS
<1> HIDE DEF t, n
<1>2. PICK f : Keeps(t, e, n + 1, f) /\ Dropping(t, e) = f[n + 1]
  BY <1>1, DroppingIs
<1>3. PICK g : Keeps(s, e, n, g) /\ Dropping(s, e) = g[n]
  BY <1>1, DroppingIs DEF n
<1>4. Keeps(t, e, n, g)
  <2>1. g = [i \in 0 .. n |-> IF i = 0 THEN << >>
                             ELSE IF s[i] = e THEN g[i - 1] ELSE Append(g[i - 1], s[i])]
    BY <1>3 DEF Keeps
  <2>2. \A i \in 0 .. n : i # 0 => i \in 1 .. n
    BY <1>1
  <2>3. QED BY <1>1, <2>1, <2>2 DEF Keeps
<1>5. f[n] = g[n]
  BY <1>1, <1>2, <1>4, KeepsUnique
<1>6. f[n + 1] = IF t[n + 1] = e THEN f[n] ELSE Append(f[n], t[n + 1])
  <2>1. n + 1 \in Nat /\ n + 1 \in 1 .. n + 1 /\ (n + 1) - 1 = n
    BY <1>1
  <2>2. \A k \in 1 .. n + 1 : f[k] = IF t[k] = e THEN f[k - 1] ELSE Append(f[k - 1], t[k])
    BY <1>2, <2>1, KeepsStep
  <2>3. QED BY <2>1, <2>2
<1>7. QED BY <1>1, <1>2, <1>3, <1>5, <1>6 DEF t

(* What is kept is of the same kind and is not e.                          *)
LEMMA DroppingType ==
  ASSUME NEW S, NEW s \in Seq(S), NEW e
  PROVE  Dropping(s, e) \in Seq(S \ {e})
<1> DEFINE n == Len(s)
<1>1. n \in Nat /\ \A i \in 1 .. n : s[i] \in S
  OBVIOUS
<1>2. PICK f : Keeps(s, e, n, f) /\ Dropping(s, e) = f[n]
  BY DroppingIs
<1> HIDE DEF n
<1> DEFINE Bad == {i \in 0 .. n : f[i] \notin Seq(S \ {e})}
<1>3. SUFFICES ASSUME Bad # {} PROVE FALSE
  <2>1. n \in 0 .. n
    BY <1>1
  <2>2. QED BY <1>2, <2>1
<1>4. PICK i \in Bad : \A k \in Bad : i <= k
  <2>1. Bad \in SUBSET Nat
    BY <1>1
  <2>2. QED BY <1>3, <2>1, LeastNumber
<1>5. i \in 0 .. n /\ f[i] \notin Seq(S \ {e})
  BY <1>4
<1>6. f[0] = << >> /\ \A m \in 1 .. n : f[m] = IF s[m] = e THEN f[m - 1] ELSE Append(f[m - 1], s[m])
  <2> HIDE DEF Bad
  <2>1. Keeps(s, e, n, f)
    BY <1>2
  <2>2. QED BY <1>1, <2>1, KeepsStep
<1>7. i \in 1 .. n /\ i - 1 \in 0 .. n /\ i - 1 \notin Bad
  <2>1. i # 0
    <3>1. << >> \in Seq(S \ {e})
      OBVIOUS
    <3>2. QED BY <1>5, <1>6, <3>1
  <2>2. QED BY <1>1, <1>4, <1>5, <2>1
<1>8. f[i - 1] \in Seq(S \ {e}) /\ f[i] = IF s[i] = e THEN f[i - 1] ELSE Append(f[i - 1], s[i])
  BY <1>6, <1>7
<1>9. s[i] \in S
  BY <1>1, <1>7
<1>10. QED BY <1>5, <1>8, <1>9

(* Without an e everything is kept.                                        *)
LEMMA DroppingNone ==
  ASSUME NEW S, NEW s \in Seq(S), NEW e, \A i \in DOMAIN s : s[i] # e
  PROVE  Dropping(s, e) = s
<1> DEFINE n == Len(s)
<1>1. n \in Nat /\ \A i \in 1 .. n : s[i] # e
  OBVIOUS
<1>2. PICK f : Keeps(s, e, n, f) /\ Dropping(s, e) = f[n]
  BY DroppingIs
<1> DEFINE Bad == {i \in 0 .. n : f[i] # SubSeq(s, 1, i)}
<1>3. SUFFICES ASSUME Bad # {} PROVE FALSE
  <2>1. n \in 0 .. n /\ SubSeq(s, 1, n) = s
    OBVIOUS
  <2>2. QED BY <1>2, <2>1
<1>4. PICK i \in Bad : \A k \in Bad : i <= k
  <2>1. Bad \in SUBSET Nat
    BY <1>1
  <2>2. QED BY <1>3, <2>1, LeastNumber
<1>5. i \in 0 .. n /\ f[i] # SubSeq(s, 1, i)
  BY <1>4
<1>6. f[0] = << >> /\ \A m \in 1 .. n : f[m] = IF s[m] = e THEN f[m - 1] ELSE Append(f[m - 1], s[m])
  BY <1>1, <1>2, KeepsStep
<1>7. i # 0
  <2>1. SubSeq(s, 1, 0) = << >>
    OBVIOUS
  <2>2. QED BY <1>5, <1>6, <2>1
<1>8. i \in 1 .. n /\ i - 1 \in 0 .. n /\ i - 1 \notin Bad
  BY <1>1, <1>4, <1>5, <1>7
<1>9. f[i - 1] = SubSeq(s, 1, i - 1) /\ f[i] = Append(f[i - 1], s[i])
  BY <1>1, <1>6, <1>8
<1>10. SubSeq(s, 1, i) = Append(SubSeq(s, 1, i - 1), s[i])
  BY <1>8
<1>11. QED BY <1>5, <1>9, <1>10

(* Of nothing but e nothing is kept.                                       *)
LEMMA DroppingAll ==
  ASSUME NEW S, NEW s \in Seq(S), NEW e, \A i \in 1 .. Len(s) : s[i] = e
  PROVE  Dropping(s, e) = << >>
<1> DEFINE d == Dropping(s, e)
           n == Len(s)
<1>1. PICK f : Keeps(s, e, n, f) /\ d = f[n]
  BY DroppingIs
<1>2. n \in Nat
  OBVIOUS
<1> HIDE DEF d, n
<1>3. f[0] = << >> /\ \A m \in 1 .. n : f[m] = IF s[m] = e THEN f[m - 1] ELSE Append(f[m - 1], s[m])
  BY <1>1, <1>2, KeepsStep
<1> DEFINE Bad == {i \in 0 .. n : f[i] # << >>}
<1>4. SUFFICES ASSUME Bad # {} PROVE FALSE
  <2>1. n \in 0 .. n
    BY <1>2
  <2>2. QED BY <1>1, <2>1 DEF d
<1>5. PICK i \in Bad : \A k \in Bad : i <= k
  <2>1. Bad \in SUBSET Nat
    BY <1>2
  <2>2. QED BY <1>4, <2>1, LeastNumber
<1>6. i \in 0 .. n /\ f[i] # << >> /\ i # 0
  BY <1>3, <1>5
<1>7. i \in 1 .. n /\ i - 1 \in 0 .. n /\ i - 1 \notin Bad
  BY <1>2, <1>5, <1>6
<1>8. f[i - 1] = << >> /\ s[i] = e
  BY <1>7 DEF n
<1>9. f[i] = f[i - 1]
  BY <1>3, <1>7, <1>8
<1>10. QED BY <1>6, <1>8, <1>9

(* The last element kept is the last one that is not e.                    *)
LEMMA DroppingLast ==
  ASSUME NEW S, NEW s \in Seq(S), NEW e, NEW m \in 1 .. Len(s), s[m] # e,
         \A k \in m + 1 .. Len(s) : s[k] = e
  PROVE  Dropping(s, e) = Append(Dropping(SubSeq(s, 1, m - 1), e), s[m])
<1> DEFINE n == Len(s)
           r == SubSeq(s, 1, m - 1)
<1>1. /\ n \in Nat /\ m \in 1 .. n /\ r \in Seq(S) /\ Len(r) = m - 1 /\ m - 1 \in Nat
      /\ \A i \in 1 .. m - 1 : r[i] = s[i]
  OBVIOUS
<1>2. PICK f : Keeps(s, e, n, f) /\ Dropping(s, e) = f[n]
  BY DroppingIs
<1>3. PICK g : Keeps(r, e, m - 1, g) /\ Dropping(r, e) = g[m - 1]
  BY <1>1, DroppingIs
<1> HIDE DEF n, r
<1>4. \A i \in 1 .. n : f[i] = IF s[i] = e THEN f[i - 1] ELSE Append(f[i - 1], s[i])
  <2>1. n \in Nat /\ Keeps(s, e, n, f)
    BY <1>1, <1>2
  <2>2. QED BY <2>1, KeepsStep
<1>5. Keeps(s, e, m - 1, g)
  <2>1. g = [i \in 0 .. m - 1 |-> IF i = 0 THEN << >>
                             ELSE IF r[i] = e THEN g[i - 1] ELSE Append(g[i - 1], r[i])]
    BY <1>3 DEF Keeps
  <2>2. \A i \in 0 .. m - 1 : i # 0 => i \in 1 .. m - 1
    BY <1>1
  <2>3. QED BY <1>1, <2>1, <2>2 DEF Keeps
<1>6. f[m - 1] = g[m - 1]
  BY <1>1, <1>2, <1>5, KeepsUnique
<1>7. f[m] = Append(g[m - 1], s[m])
  BY <1>1, <1>4, <1>6
<1> DEFINE Bad == {k \in m .. n : f[k] # f[m]}
<1>8. Bad = {}
  <2>1. SUFFICES ASSUME Bad # {} PROVE FALSE
    OBVIOUS
  <2>2. PICK i \in Bad : \A k \in Bad : i <= k
    <3>1. Bad \in SUBSET Nat
      BY <1>1
    <3>2. QED BY <2>1, <3>1, LeastNumber
  <2>3. i \in m .. n /\ f[i] # f[m]
    BY <2>2
  <2>4. i \in m + 1 .. n /\ i \in 1 .. n /\ i - 1 \in m .. n /\ i - 1 \notin Bad
    BY <1>1, <2>2, <2>3
  <2>5. s[i] = e
    BY <2>4 DEF n
  <2>6. f[i] = f[i - 1] /\ f[i - 1] = f[m]
    BY <1>4, <2>4, <2>5
  <2>7. QED BY <2>3, <2>6
<1>9. f[n] = f[m]
  <2>1. n \in m .. n
    BY <1>1
  <2>2. QED BY <1>8, <2>1
<1>10. QED BY <1>2, <1>3, <1>7, <1>9 DEF r

-----------------------------------------------------------------------------
(* The words of segments without a colon.                                  *)

FirstWords(segs) == [i \in 1 .. Len(segs) |-> segs[i][1]]

Flattens(segs, f) ==
  f = [i \in 1 .. Len(segs) |-> IF i = 1 THEN segs[i] ELSE f[i - 1] \o segs[i]]

(* An appended element is the last one, and before it is the sequence it was appended to. *)
LEMMA AppendedBack ==
  ASSUME NEW S, NEW s \in Seq(S), NEW x \in S
  PROVE  /\ Append(s, x) # << >> /\ Append(s, x)[Len(Append(s, x))] = x
         /\ SubSeq(Append(s, x), 1, Len(Append(s, x)) - 1) = s
<1> DEFINE a == Append(s, x)
           b == SubSeq(a, 1, Len(s))
<1>1. a \in Seq(S) /\ Len(a) = Len(s) + 1 /\ a[Len(s) + 1] = x /\ \A i \in 1 .. Len(s) : a[i] = s[i]
  OBVIOUS
<1> HIDE DEF a
<1>2. Len(s) \in Nat /\ Len(a) - 1 = Len(s) /\ a # << >>
  BY <1>1
<1>3. b \in Seq(S) /\ Len(b) = Len(s) /\ \A i \in 1 .. Len(s) : b[i] = a[i]
  BY <1>1, <1>2
<1> HIDE DEF b
<1>4. b = s
  BY <1>1, <1>3, SeqEqual
<1>5. QED BY <1>1, <1>2, <1>4 DEF a, b

(* A sequence that agrees with p up to its last element is p followed by that element.    *)
LEMMA OneMore ==
  ASSUME NEW S, NEW p \in Seq(S), NEW q \in Seq(S), NEW r \in Seq(S), NEW i \in Nat,
         Len(q) = 1, Len(p) = i - 1, Len(r) = i,
         \A j \in 1 .. i - 1 : r[j] = p[j], r[i] = q[1]
  PROVE  r = p \o q
<1> DEFINE t == p \o q
<1>1. /\ t \in Seq(S) /\ Len(t) = Len(p) + Len(q)
      /\ \A j \in 1 .. Len(p) + Len(q) : t[j] = IF j <= Len(p) THEN p[j] ELSE q[j - Len(p)]
  BY ConcatProperties
<1> HIDE DEF t
<1>2. Len(p) + Len(q) = i /\ 1 .. Len(p) + Len(q) = 1 .. i
  OBVIOUS
<1>3. ASSUME NEW j \in 1 .. i PROVE r[j] = t[j]
  <2>1. CASE j <= i - 1
    <3>1. j \in 1 .. i - 1 /\ j <= Len(p)
      BY <2>1
    <3>2. QED BY <1>1, <1>2, <3>1
  <2>2. CASE ~(j <= i - 1)
    <3>1. j = i /\ ~(j <= Len(p)) /\ j - Len(p) = 1
      BY <2>2
    <3>2. QED BY <1>1, <1>2, <3>1
  <2>3. QED BY <2>1, <2>2
<1>4. Len(r) = Len(t)
  BY <1>1, <1>2
<1>5. r = t
  BY <1>1, <1>3, <1>4, SeqEqual
<1>6. QED BY <1>5 DEF t

(* A sequence of length one is its element.                                               *)
LEMMA SingleElement ==
  ASSUME NEW S, NEW s \in Seq(S), Len(s) = 1
  PROVE  s[1] \in S /\ s = <<s[1]>>
<1>1. s[1] \in S
  <2>1. 1 \in 1 .. Len(s)
    OBVIOUS
  <2>2. QED BY <2>1, ElementOfSeq
<1> DEFINE t == <<s[1]>>
<1>2. t \in Seq(S) /\ Len(t) = 1 /\ t[1] = s[1]
  BY <1>1
<1> HIDE DEF t
<1>3. \A i \in 1 .. Len(s) : s[i] = t[i]
  BY <1>2
<1>4. s = t
  BY <1>2, <1>3, SeqEqual
<1>5. QED BY <1>1, <1>4 DEF t

(* The words of segments of one word each are their first words, in their order.          *)
LEMMA WordsOfSegments ==
  ASSUME NEW S, NEW segs \in Seq(Seq(S)), \A i \in DOMAIN segs : Len(segs[i]) = 1
  PROVE  Words(segs) = FirstWords(segs) /\ FirstWords(segs) \in Seq(S)
                       /\ Len(FirstWords(segs)) = Len(segs)
<1> DEFINE n == Len(segs)
           W(i) == [j \in 1 .. i |-> segs[j][1]]
<1>1. n \in Nat /\ \A i \in 1 .. n : segs[i] \in Seq(S) /\ Len(segs[i]) = 1
  OBVIOUS
<1>2. \A i \in 1 .. n : segs[i][1] \in S /\ segs[i] = <<segs[i][1]>>
  <2>1. SUFFICES ASSUME NEW i \in 1 .. n
                 PROVE  segs[i][1] \in S /\ segs[i] = <<segs[i][1]>>
    OBVIOUS
  <2>2. segs[i] \in Seq(S) /\ Len(segs[i]) = 1
    BY <1>1
  <2>3. QED BY <2>2, SingleElement
<1>3. \A i \in 0 .. n : W(i) \in Seq(S) /\ Len(W(i)) = i
  BY <1>1, <1>2
<1>4. FirstWords(segs) \in Seq(S) /\ Len(FirstWords(segs)) = n /\ FirstWords(segs) = W(n)
  BY <1>1, <1>3 DEF FirstWords
<1>5. CASE n = 0
  <2>1. segs = << >> /\ FirstWords(segs) = << >>
    BY <1>4, <1>5
  <2>2. QED BY <1>4, <1>5, <2>1 DEF Words, Ext!FlattenSeq
<1>6. CASE n # 0
  <2> DEFINE F == CHOOSE f : Flattens(segs, f)
             G == [i \in 1 .. n |-> W(i)]
  <2>1. Flattens(segs, G)
    <3>1. \A i \in 1 .. n : G[i] = IF i = 1 THEN segs[i] ELSE G[i - 1] \o segs[i]
      <4>1. SUFFICES ASSUME NEW i \in 1 .. n
                     PROVE  W(i) = IF i = 1 THEN segs[i] ELSE G[i - 1] \o segs[i]
        OBVIOUS
      <4>2. CASE i = 1
        <5>1. W(1) = <<segs[1][1]>>
          BY <1>2, <4>2
        <5>2. QED BY <1>2, <4>2, <5>1
      <4>3. CASE i # 1
        <5>1. i - 1 \in 1 .. n /\ i - 1 \in 0 .. n /\ i \in 0 .. n
          BY <1>1, <4>3
        <5>2. G[i - 1] = W(i - 1)
          BY <5>1
        <5>3. W(i - 1) \in Seq(S) /\ Len(W(i - 1)) = i - 1 /\ W(i) \in Seq(S) /\ Len(W(i)) = i
          BY <1>3, <5>1
        <5>4. \A j \in 1 .. i : W(i)[j] = IF j <= i - 1 THEN W(i - 1)[j] ELSE segs[i][1]
          BY <5>1
        <5> HIDE DEF W
        <5>5. segs[i] \in Seq(S) /\ Len(segs[i]) = 1
          BY <1>1
        <5>6. W(i) = W(i - 1) \o segs[i]
          <6>1. \A j \in 1 .. i - 1 : W(i)[j] = W(i - 1)[j]
            BY <5>1, <5>4
          <6>2. W(i)[i] = segs[i][1]
            BY <5>1, <5>4
          <6>3. i \in Nat
            BY <1>1
          <6> DEFINE p == W(i - 1)
                     q == segs[i]
                     r == W(i)
          <6>4. p \in Seq(S) /\ q \in Seq(S) /\ r \in Seq(S)
            BY <5>3, <5>5
          <6>5. Len(q) = 1 /\ Len(p) = i - 1 /\ Len(r) = i
            BY <5>3, <5>5
          <6>6. (\A j \in 1 .. i - 1 : r[j] = p[j]) /\ r[i] = q[1]
            BY <6>1, <6>2
          <6> HIDE DEF p, q, r
          <6>7. r = p \o q
            BY <6>3, <6>4, <6>5, <6>6, OneMore, ZenonT(60)
          <6>8. QED BY <6>7 DEF p, q, r
        <5>7. QED BY <4>3, <5>2, <5>6
      <4>4. QED BY <4>2, <4>3
    <3>2. QED BY <3>1 DEF Flattens
  <2>2. Flattens(segs, F)
    BY <2>1
  <2>3. Words(segs) = F[n]
    BY <1>1, <1>6 DEF Words, Ext!FlattenSeq, Flattens
  <2> HIDE DEF F, W
  <2>4. \A i \in 1 .. n : F[i] = IF i = 1 THEN segs[i] ELSE F[i - 1] \o segs[i]
    BY <2>2 DEF Flattens
  <2>5. \A i \in 1 .. n : G[i] = IF i = 1 THEN segs[i] ELSE G[i - 1] \o segs[i]
    BY <2>1 DEF Flattens
  <2> DEFINE Bad == {i \in 1 .. n : F[i] # G[i]}
  <2>6. Bad = {}
    <3> HIDE DEF G
    <3>1. SUFFICES ASSUME Bad # {} PROVE FALSE
      OBVIOUS
    <3>2. PICK i \in Bad : \A k \in Bad : i <= k
      <4>1. Bad \in SUBSET Nat
        OBVIOUS
      <4>2. QED BY <3>1, <4>1, LeastNumber
    <3>3. i \in 1 .. n /\ F[i] # G[i]
      BY <3>2
    <3>4. i # 1
      BY <2>4, <2>5, <3>3
    <3>5. i - 1 \in 1 .. n /\ i - 1 \notin Bad
      BY <3>2, <3>3, <3>4
    <3>6. F[i - 1] = G[i - 1]
      BY <3>5
    <3>7. QED BY <2>4, <2>5, <3>3, <3>4, <3>6
  <2>7. n \in 1 .. n
    BY <1>1, <1>6
  <2>8. F[n] = G[n]
    BY <2>6, <2>7
  <2>9. QED BY <1>4, <2>3, <2>7, <2>8
<1>7. QED BY <1>5, <1>6

-----------------------------------------------------------------------------
(* From a URL to its DID and back.                                         *)

(* A segment without a colon.                                              *)
Word == STRING \cup {"did.jsonl", ".well-known"}
Segment == {s \in Seq(Word) : Len(s) = 1}

(* The two segments that the code names are segments, not empty, and different.           *)
LEMMA SpecialSegments ==
  /\ DidJsonl \in Segment /\ WellKnown \in Segment
  /\ DidJsonl # NoText /\ WellKnown # NoText /\ DidJsonl # WellKnown
<1>1. "did.jsonl" # NoWord /\ ".well-known" # NoWord
  BY DEF NoWord
<1>2. /\ DidJsonl = <<"did.jsonl">> /\ WellKnown = <<".well-known">> /\ NoText = <<NoWord>>
  BY DEF DidJsonl, WellKnown, NoText
<1>3. DidJsonl \in Segment /\ WellKnown \in Segment
  <2>1. \A x \in Word : <<x>> \in Segment
    BY DEF Segment
  <2>2. "did.jsonl" \in Word /\ ".well-known" \in Word
    BY DEF Word
  <2>3. QED BY <1>2, <2>1, <2>2
<1>4. DidJsonl # NoText /\ WellKnown # NoText
  BY <1>1, <1>2
<1>5. DidJsonl # WellKnown
  BY <1>2
<1>6. QED BY <1>3, <1>4, <1>5

(* A segment is one word, and it is empty when the word is.                               *)
LEMMA SegmentIs ==
  ASSUME NEW s \in Segment
  PROVE  s[1] \in Word /\ s = <<s[1]>> /\ (s = NoText <=> s[1] = NoWord)
BY DEF Segment, NoText

(* The segments that are kept, and their words.                            *)
LEMMA KeptSegments ==
  ASSUME NEW path \in Seq(Segment)
  PROVE  /\ PathSegments(path) \in Seq(Segment \ {NoText})
         /\ PathSegments(path) \in Seq(Segment)
         /\ Words(PathSegments(path)) = FirstWords(PathSegments(path))
         /\ FirstWords(PathSegments(path)) \in Seq(Word)
         /\ Len(FirstWords(PathSegments(path))) = Len(PathSegments(path))
         /\ IsValidPath(FirstWords(PathSegments(path)))
<1> DEFINE d == Dropping(path, NoText)
           p == PathSegments(path)
<1>1. d \in Seq(Segment \ {NoText})
  BY DroppingType
<1>2. p \in Seq(Segment \ {NoText})
  <2>1. p = IF d # << >> /\ Ext!Last(d) = DidJsonl THEN Ext!Front(d) ELSE d
    BY DEF PathSegments
  <2> HIDE DEF d, p
  <2>2. d # << >> => SubSeq(d, 1, Len(d) - 1) \in Seq(Segment \ {NoText})
    BY <1>1
  <2>3. QED BY <1>1, <2>1, <2>2 DEF Ext!Front
<1> HIDE DEF d, p
<1>3. /\ p \in Seq(Segment) /\ p \in Seq(Seq(Word))
      /\ \A i \in DOMAIN p : p[i] \in Segment \ {NoText}
  BY <1>2 DEF Segment
<1>4. \A i \in DOMAIN p : Len(p[i]) = 1
  BY <1>3 DEF Segment
<1>5. /\ Words(p) = FirstWords(p) /\ FirstWords(p) \in Seq(Word)
      /\ Len(FirstWords(p)) = Len(p)
  BY <1>3, <1>4, WordsOfSegments
<1>6. IsValidPath(FirstWords(p))
  <2>1. SUFFICES ASSUME NEW i \in DOMAIN FirstWords(p) PROVE FirstWords(p)[i] # NoWord
    BY DEF IsValidPath
  <2>2. i \in DOMAIN p /\ FirstWords(p)[i] = p[i][1]
    BY <1>3 DEF FirstWords
  <2>3. QED BY <1>3, <2>2, SegmentIs
<1>7. QED BY <1>2, <1>3, <1>5, <1>6 DEF p

(* The name of the file is dropped from the end of a path.                 *)
LEMMA FileNameGoes ==
  ASSUME NEW s \in Seq(Segment), \A i \in DOMAIN s : s[i] # NoText
  PROVE  PathSegments(s \o <<DidJsonl>>) = s /\ s \o <<DidJsonl>> \in Seq(Segment)
<1>1. DidJsonl \in Segment /\ DidJsonl # NoText
  BY SpecialSegments
<1>2. s \o <<DidJsonl>> = Append(s, DidJsonl) /\ Append(s, DidJsonl) \in Seq(Segment)
  BY <1>1
<1>3. Dropping(s, NoText) = s
  BY DroppingNone
<1>4. Dropping(Append(s, DidJsonl), NoText)
        = IF DidJsonl = NoText THEN Dropping(s, NoText) ELSE Append(Dropping(s, NoText), DidJsonl)
  BY <1>1, DroppingAppend
<1> DEFINE a == Append(s, DidJsonl)
<1>5. a # << >> /\ a[Len(a)] = DidJsonl /\ SubSeq(a, 1, Len(a) - 1) = s
  BY <1>1, AppendedBack
<1>6. Dropping(a, NoText) = a
  BY <1>1, <1>3, <1>4
<1>7. QED BY <1>2, <1>5, <1>6 DEF PathSegments, Ext!Last, Ext!Front

(* The segments of the path that log_url writes.                           *)
Written(words) == [i \in DOMAIN words |-> <<words[i]>>]

(* A path that keeps all its segments is written as it was.                *)
LEMMA WrittenBack ==
  ASSUME NEW p \in Seq(Segment)
  PROVE  Written(FirstWords(p)) = p
<1> DEFINE n == Len(p)
           t == Written(FirstWords(p))
<1>1. n \in Nat /\ DOMAIN FirstWords(p) = 1 .. n /\ \A i \in 1 .. n : FirstWords(p)[i] = p[i][1]
  BY DEF FirstWords
<1>2. \A i \in 1 .. n : p[i] \in Segment /\ p[i] = <<p[i][1]>>
  <2>1. \A i \in 1 .. n : p[i] \in Segment
    OBVIOUS
  <2>2. QED BY <2>1, SegmentIs
<1>3. DOMAIN t = 1 .. n /\ \A i \in 1 .. n : t[i] = p[i]
  BY <1>1, <1>2 DEF Written
<1>4. t = [i \in 1 .. n |-> p[i]]
  BY <1>1, <1>2 DEF Written
<1>5. p = [i \in 1 .. n |-> p[i]]
  OBVIOUS
<1>6. QED BY <1>4, <1>5

(* What UrlToDid makes of a URL that it accepts.                           *)
DidOf(url) == [scid |-> "scid", domain |-> url.host, path |-> DidPath(url.path)]

Addressed(url) ==
  /\ url.scheme = "https" /\ ~(url.host.labels = NoText /\ url.host.port = None)
  /\ IsValidDomain(url.host)

(* When the DID of a URL is found, and which one it is.                                   *)
LEMMA UrlToDidIs ==
  ASSUME NEW url, url.path \in Seq(Segment)
  PROVE  /\ UrlToDid(url).ok => Addressed(url)
         /\ Addressed(url) => UrlToDid(url) = Ok(DidOf(url))
<1>1. DidPath(url.path) # None => IsValidPath(DidPath(url.path)[1])
  <2>1. DidPath(url.path) # None => DidPath(url.path) = Some(Words(PathSegments(url.path)))
    BY DEF DidPath
  <2>2. QED BY <2>1, KeptSegments DEF Some
<1>2. UrlToDid(url).ok => Addressed(url)
  BY DEF UrlToDid, Addressed, Err
<1>3. Addressed(url) => UrlToDid(url) = Ok(DidOf(url))
  BY <1>1 DEF UrlToDid, Addressed, DidOf
<1>4. QED BY <1>2, <1>3

(* What is known of the URL of a log that was accepted.                                   *)
LEMMA AcceptedUrl ==
  ASSUME Accepted
  PROVE  /\ logUrl.path \in Seq(Segment) /\ Addressed(logUrl)
         /\ UrlToDid(logUrl) = Ok(DidOf(logUrl))
         /\ logUrl = [scheme |-> "https", host |-> logUrl.host, path |-> logUrl.path]
<1>1. /\ logUrl \in [scheme : STRING, host : [labels : Seq(STRING), port : Seq(STRING)],
                     path : Seq(Seq(STRING))]
      /\ HasNoColon(logUrl) /\ UrlToDid(logUrl).ok
  BY UrlsAssumption DEF Accepted
<1>2. /\ logUrl.path \in Seq(Seq(STRING))
      /\ logUrl = [scheme |-> logUrl.scheme, host |-> logUrl.host, path |-> logUrl.path]
  BY <1>1
<1>3. logUrl.path \in Seq(Segment)
  <2> DEFINE p == logUrl.path
  <2>1. \A i \in 1 .. Len(p) : p[i] \in Seq(STRING) /\ Len(p[i]) = 1
    BY <1>1, <1>2 DEF HasNoColon
  <2>2. \A x : x \in Seq(STRING) => x \in Seq(Word)
    BY SeqMonotonic DEF Word
  <2>3. \A i \in 1 .. Len(p) : p[i] \in Segment
    BY <2>1, <2>2 DEF Segment
  <2>4. p \in Seq(Seq(STRING))
    BY <1>2
  <2> HIDE DEF p
  <2>5. p \in Seq(Segment)
    <3>1. Len(p) \in Nat /\ DOMAIN p = 1 .. Len(p) /\ p = [i \in 1 .. Len(p) |-> p[i]]
      BY <2>4
    <3>2. QED BY <2>3, <3>1, IsASeq
  <2>6. QED BY <2>5 DEF p
<1>4. Addressed(logUrl) /\ UrlToDid(logUrl) = Ok(DidOf(logUrl))
  BY <1>1, <1>3, UrlToDidIs
<1>5. QED BY <1>2, <1>3, <1>4 DEF Addressed

(* The path of a DID, if it has one.                                       *)
LEMMA PathOfDid ==
  ASSUME NEW path \in Seq(Segment)
  PROVE  \/ DidPath(path) = None /\ PathSegments(path) \in {<< >>, <<WellKnown>>}
         \/ /\ PathSegments(path) \notin {<< >>, <<WellKnown>>}
            /\ DidPath(path) = <<FirstWords(PathSegments(path))>> /\ DidPath(path) # None
            /\ DidPath(path)[1] = FirstWords(PathSegments(path))
            /\ FirstWords(PathSegments(path)) # << >>
<1> DEFINE p == PathSegments(path)
<1>1. p \in Seq(Segment) /\ Words(p) = FirstWords(p) /\ Len(FirstWords(p)) = Len(p)
  BY KeptSegments
<1>2. DidPath(path) = IF p \in {<< >>, <<WellKnown>>} THEN << >> ELSE <<Words(p)>>
  BY DEF DidPath, None, Some
<1> HIDE DEF p
<1>3. CASE p \in {<< >>, <<WellKnown>>}
  BY <1>2, <1>3 DEF None, p
<1>4. CASE p \notin {<< >>, <<WellKnown>>}
  <2>1. DidPath(path) = <<FirstWords(p)>>
    BY <1>1, <1>2, <1>4
  <2>2. DidPath(path) # << >> /\ DidPath(path)[1] = FirstWords(p)
    BY <2>1
  <2>3. FirstWords(p) # << >>
    BY <1>1, <1>4
  <2>4. QED BY <1>4, <2>1, <2>2, <2>3 DEF None, p
<1>5. QED BY <1>3, <1>4

(* The DID of the URL where a DID is looked for has the same path.         *)
LEMMA PathLeadsBack ==
  ASSUME NEW path \in Seq(Segment), NEW host
  PROVE  LET did == [scid |-> "scid", domain |-> host, path |-> DidPath(path)] IN
         LogUrl(did).path \in Seq(Segment) /\ DidPath(LogUrl(did).path) = DidPath(path)
<1> DEFINE did == [scid |-> "scid", domain |-> host, path |-> DidPath(path)]
           p == PathSegments(path)
           word == FirstWords(p)
<1>1. CASE DidPath(path) = None
  <2>1. LogUrl(did).path = <<WellKnown>> \o <<DidJsonl>>
    BY <1>1 DEF LogUrl
  <2>2. /\ <<WellKnown>> \in Seq(Segment)
        /\ \A i \in DOMAIN <<WellKnown>> : <<WellKnown>>[i] # NoText
    BY SpecialSegments
  <2>3. /\ PathSegments(LogUrl(did).path) = <<WellKnown>>
        /\ LogUrl(did).path \in Seq(Segment)
    BY <2>1, <2>2, FileNameGoes
  <2> HIDE DEF did
  <2>4. DidPath(LogUrl(did).path) = None
    BY <2>3 DEF DidPath
  <2>5. QED BY <1>1, <2>3, <2>4 DEF did
<1>2. CASE DidPath(path) # None
  <2>1. /\ p \notin {<< >>, <<WellKnown>>} /\ DidPath(path) = <<word>> /\ DidPath(path)[1] = word
        /\ word # << >>
    BY <1>2, PathOfDid
  <2>2. word \in Seq(Word) /\ IsValidPath(word) /\ p \in Seq(Segment) /\ Len(word) = Len(p)
    BY KeptSegments
  <2>3. Written(word) = p
    BY <2>2, WrittenBack
  <2>4. LogUrl(did).path = Written(word) \o <<DidJsonl>>
    BY <1>2, <2>1 DEF LogUrl, Written
  <2>5. p \in Seq(Segment \ {NoText})
    BY KeptSegments
  <2>6. LogUrl(did).path \in Seq(Segment) /\ PathSegments(LogUrl(did).path) = p
    <3> HIDE DEF p, word, did
    <3>1. \A i \in DOMAIN p : p[i] # NoText
      BY <2>5
    <3>2. QED BY <2>2, <2>3, <2>4, <3>1, FileNameGoes
  <2> HIDE DEF did
  <2>7. DidPath(LogUrl(did).path) = DidPath(path)
    BY <2>6 DEF DidPath
  <2>8. QED BY <2>6, <2>7 DEF did
<1>3. QED BY <1>1, <1>2

(* The parts of a DID: method and SCID first, then the segments of its place.             *)
LEMMA AfterTwo ==
  ASSUME NEW S, NEW a \in S, NEW b \in S, NEW r \in Seq(S), NEW t, t = <<a, b>> \o r
  PROVE  t[1] = a /\ t[2] = b /\ Len(t) = Len(r) + 2 /\ Len(t) \in Nat /\ SubSeq(t, 3, Len(t)) = r
<1> DEFINE u == <<a, b>>
           v == SubSeq(t, 3, Len(t))
<1>1. u \in Seq(S) /\ Len(u) = 2 /\ u[1] = a /\ u[2] = b
  OBVIOUS
<1> HIDE DEF u
<1>2. /\ t \in Seq(S) /\ Len(t) = 2 + Len(r)
      /\ \A i \in 1 .. 2 + Len(r) : t[i] = IF i <= 2 THEN u[i] ELSE r[i - 2]
  <2>1. /\ t \in Seq(S) /\ Len(t) = Len(u) + Len(r)
        /\ \A i \in 1 .. Len(u) + Len(r) : t[i] = IF i <= Len(u) THEN u[i] ELSE r[i - Len(u)]
    BY <1>1, ConcatProperties DEF u
  <2>2. QED BY <1>1, <2>1
<1>3. Len(r) \in Nat
  OBVIOUS
<1>4. v \in Seq(S) /\ Len(v) = Len(r) /\ \A i \in 1 .. Len(r) : v[i] = t[i + 2]
  BY <1>2, <1>3
<1>5. \A i \in 1 .. Len(r) : v[i] = r[i]
  BY <1>2, <1>3, <1>4
<1> HIDE DEF v
<1>6. v = r
  BY <1>4, <1>5, SeqEqual
<1>7. QED BY <1>1, <1>2, <1>3, <1>6 DEF v

(* `did create` makes a DID of a URL with a path of any length, and every reader of the   *)
(* DID looks for the log at that URL, unless the name of the file is left to be guessed;  *)
(* a DID is read as it was written.                                                       *)
THEOREM UrlsLeadBack == LogUrlLeadsBack
<1> DEFINE did == DidOf(logUrl)
           path == logUrl.path
           p == PathSegments(path)
<1>1. SUFFICES ASSUME Accepted
               PROVE  /\ DidFromWords(DidToWords(did)) = Ok(did)
                      /\ UrlToDid(LogUrl(did)) = Ok(did)
                      /\ ( /\ Len(path) > 1 /\ Ext!Last(path) = DidJsonl
                           /\ \A i \in DOMAIN path : path[i] # NoText )
                           => LogUrl(did) = logUrl
  <2>1. Accepted => UrlToDid(logUrl).v = did
    BY AcceptedUrl DEF Ok
  <2>2. QED BY <2>1 DEF LogUrlLeadsBack
<1>2. /\ path \in Seq(Segment) /\ Addressed(logUrl)
      /\ logUrl = [scheme |-> "https", host |-> logUrl.host, path |-> path]
  BY <1>1, AcceptedUrl
<1>3. did = [scid |-> "scid", domain |-> logUrl.host, path |-> DidPath(path)]
  BY DEF DidOf
<1> HIDE DEF did
<1>4. did.scid = "scid" /\ did.domain = logUrl.host /\ did.path = DidPath(path)
  BY <1>3
<1>5. IsValidDomain(did.domain)
  BY <1>2, <1>4 DEF Addressed
<1>6. DidFromWords(DidToWords(did)) = Ok(did)
  <2> DEFINE rest == IF did.path = None THEN << >> ELSE did.path[1]
             S == Word \cup {did.scid, did.domain}
             t == DidToWords(did)
  <2>1. rest \in Seq(Word) /\ IsValidPath(rest)
        /\ did.path = IF rest = << >> THEN None ELSE Some(rest)
    <3>1. CASE DidPath(path) = None
      BY <1>4, <3>1 DEF IsValidPath
    <3>2. CASE DidPath(path) # None
      <4>1. DidPath(path) = <<FirstWords(p)>> /\ DidPath(path)[1] = FirstWords(p) /\ FirstWords(p) # << >>
        BY <1>2, <3>2, PathOfDid
      <4>2. FirstWords(p) \in Seq(Word) /\ IsValidPath(FirstWords(p))
        BY <1>2, KeptSegments
      <4>3. QED BY <1>4, <3>2, <4>1, <4>2 DEF Some
    <3>3. QED BY <3>1, <3>2
  <2>2. t = <<did.scid, did.domain>> \o rest
    BY DEF DidToWords
  <2> HIDE DEF rest, t
  <2>3. rest \in Seq(S) /\ did.scid \in S /\ did.domain \in S
    BY <2>1, SeqMonotonic
  <2>4. t[1] = did.scid /\ t[2] = did.domain /\ Len(t) = Len(rest) + 2 /\ Len(t) \in Nat
        /\ SubSeq(t, 3, Len(t)) = rest
    <3> HIDE DEF S
    <3>1. QED BY <2>2, <2>3, AfterTwo
  <2>5. Len(rest) \in Nat
    BY <2>1
  <2>6. ~(Len(t) < 2)
    BY <2>4, <2>5
  <2>7. [scid |-> t[1], domain |-> t[2], path |-> IF rest = << >> THEN None ELSE Some(rest)] = did
    BY <1>3, <1>4, <2>1, <2>4
  <2>8. QED BY <1>5, <2>1, <2>4, <2>6, <2>7 DEF DidFromWords, t
<1>7. UrlToDid(LogUrl(did)) = Ok(did)
  <2> DEFINE url == LogUrl(did)
  <2>1. url.path \in Seq(Segment) /\ DidPath(url.path) = DidPath(path)
    BY <1>2, <1>3, PathLeadsBack
  <2>2. url.scheme = "https" /\ url.host = logUrl.host
    BY <1>4 DEF LogUrl
  <2> HIDE DEF url
  <2>3. Addressed(url)
    BY <1>2, <2>2 DEF Addressed
  <2>4. UrlToDid(url) = Ok(DidOf(url))
    BY <2>1, <2>3, UrlToDidIs
  <2>5. DidOf(url) = did
    BY <1>3, <2>1, <2>2 DEF DidOf
  <2>6. QED BY <2>4, <2>5 DEF url
<1>8. ASSUME Len(path) > 1, Ext!Last(path) = DidJsonl, \A i \in DOMAIN path : path[i] # NoText
      PROVE  LogUrl(did) = logUrl
  <2> DEFINE f == SubSeq(path, 1, Len(path) - 1)
  <2>1. f \in Seq(Segment) /\ f # << >> /\ (\A i \in DOMAIN f : f[i] # NoText) /\ path = f \o <<DidJsonl>>
    <3>1. Len(path) \in Nat /\ path[Len(path)] = DidJsonl
      BY <1>2, <1>8 DEF Ext!Last
    <3>2. f \in Seq(Segment) /\ Len(f) = Len(path) - 1 /\ \A i \in 1 .. Len(path) - 1 : f[i] = path[i]
      BY <1>2, <1>8, <3>1
    <3> HIDE DEF f
    <3>3. DOMAIN f = 1 .. Len(path) - 1 /\ \A i \in 1 .. Len(path) - 1 : i \in DOMAIN path
      BY <1>2, <3>1, <3>2
    <3>4. f # << >> /\ \A i \in DOMAIN f : f[i] # NoText
      BY <1>8, <3>1, <3>2, <3>3
    <3>5. /\ <<DidJsonl>> \in Seq(Segment) /\ Len(<<DidJsonl>>) = 1 /\ <<DidJsonl>>[1] = DidJsonl
      BY SpecialSegments
    <3>6. path = f \o <<DidJsonl>>
      <4> DEFINE q == <<DidJsonl>>
                 i == Len(path)
      <4>1. /\ f \in Seq(Segment) /\ q \in Seq(Segment) /\ path \in Seq(Segment) /\ i \in Nat
            /\ Len(q) = 1 /\ Len(f) = i - 1 /\ Len(path) = i
            /\ (\A j \in 1 .. i - 1 : path[j] = f[j]) /\ path[i] = q[1]
        BY <1>2, <3>1, <3>2, <3>5
      <4> HIDE DEF q, i
      <4>2. path = f \o q
        BY <4>1, OneMore
      <4>3. QED BY <4>2 DEF q
    <3>7. QED BY <3>2, <3>4, <3>6
  <2> HIDE DEF f
  <2>2. p = f
    BY <2>1, FileNameGoes
  <2>3. LogUrl(did).path = path
    <3>1. CASE DidPath(path) = None
      <4>1. f = <<WellKnown>>
        BY <1>2, <2>1, <2>2, <3>1, PathOfDid
      <4>2. QED BY <1>4, <2>1, <3>1, <4>1 DEF LogUrl
    <3>2. CASE DidPath(path) # None
      <4>1. DidPath(path)[1] = FirstWords(f)
        BY <1>2, <2>2, <3>2, PathOfDid
      <4>2. Written(FirstWords(f)) = f
        BY <2>1, WrittenBack
      <4>3. QED BY <1>4, <2>1, <3>2, <4>1, <4>2 DEF LogUrl, Written
    <3>3. QED BY <3>1, <3>2
  <2>4. LogUrl(did) = [scheme |-> "https", host |-> logUrl.host, path |-> LogUrl(did).path]
    BY <1>4 DEF LogUrl
  <2>5. QED BY <1>2, <2>3, <2>4
<1>9. QED BY <1>6, <1>7, <1>8

-----------------------------------------------------------------------------
(* The identifier of the registry.                                         *)

(* A set of numbers up to n that is not empty has a greatest one.                         *)
LEMMA GreatestNumber ==
  ASSUME NEW n \in Nat, NEW T \in SUBSET (1 .. n), T # {}
  PROVE  \E m \in T : \A k \in T : k <= m
<1> DEFINE U == {n - i : i \in T}
<1>1. U \in SUBSET Nat /\ U # {}
  <2>1. \A i \in T : i \in 1 .. n
    OBVIOUS
  <2>2. \A i \in T : n - i \in Nat
    BY <2>1
  <2>3. \A u \in U : u \in Nat
    BY <2>2
  <2>4. PICK i \in T : TRUE
    OBVIOUS
  <2>5. n - i \in U
    BY <2>4
  <2>6. QED BY <2>3, <2>5
<1>2. PICK u \in U : \A k \in U : u <= k
  <2> HIDE DEF U
  <2>1. QED BY <1>1, LeastNumber
<1>3. PICK m \in T : u = n - m
  OBVIOUS
<1>4. \A k \in T : n - m <= n - k
  BY <1>2, <1>3
<1>5. QED BY <1>3, <1>4

(* A path without anything but empty segments is trimmed to nothing; any   *)
(* other path to the last segment that PathSegments sees.                  *)
LEMMA TrimmedPath ==
  ASSUME NEW path \in Seq(Segment)
  PROVE  LET d == Dropping(path, NoText)
             t == TrimEnd(path) IN
         \/ d = << >> /\ t = << >>
         \/ /\ d # << >> /\ t # << >> /\ Ext!Last(t) \in Segment /\ Ext!Last(t) # NoText
            /\ Ext!Last(d) = Ext!Last(t)
<1> DEFINE d == Dropping(path, NoText)
           t == TrimEnd(path)
           n == Len(path)
           full == {i \in DOMAIN path : path[i] # NoText}
<1>1. n \in Nat /\ DOMAIN path = 1 .. n /\ \A i \in 1 .. n : path[i] \in Segment
  OBVIOUS
<1>2. t = SubSeq(path, 1, IF full = {} THEN 0 ELSE CHOOSE i \in full : \A j \in full : j <= i)
  BY DEF TrimEnd
<1>3. CASE full = {}
  <2>1. t = << >>
    BY <1>2, <1>3
  <2>2. d \in Seq(Segment \ {NoText})
    BY DroppingType
  <2>3. \A i \in 1 .. n : path[i] = NoText
    BY <1>1, <1>3
  <2>4. d = << >>
    BY <1>1, <2>3, DroppingAll
  <2>5. QED BY <2>1, <2>4
<1>4. CASE full # {}
  <2>1. full \in SUBSET (1 .. n)
    BY <1>1
  <2> DEFINE m == CHOOSE i \in full : \A j \in full : j <= i
  <2>2. m \in full /\ \A j \in full : j <= m
    <3> HIDE DEF full
    <3>1. \E i \in full : \A j \in full : j <= i
      BY <1>1, <1>4, <2>1, GreatestNumber
    <3>2. QED BY <3>1
  <2> HIDE DEF m
  <2>3. t = SubSeq(path, 1, m)
    BY <1>2, <1>4 DEF m
  <2>4. m \in 1 .. n /\ path[m] # NoText /\ path[m] \in Segment
    BY <1>1, <2>2
  <2>5. \A k \in m + 1 .. n : path[k] = NoText
    <3>1. SUFFICES ASSUME NEW k \in m + 1 .. n, path[k] # NoText PROVE FALSE
      OBVIOUS
    <3>2. k \in 1 .. n /\ ~(k <= m)
      BY <1>1, <2>4
    <3>3. QED BY <1>1, <2>2, <3>1, <3>2
  <2>6. d = Append(Dropping(SubSeq(path, 1, m - 1), NoText), path[m])
    BY <2>4, <2>5, DroppingLast
  <2>7. Dropping(SubSeq(path, 1, m - 1), NoText) \in Seq(Segment)
    <3> DEFINE r == SubSeq(path, 1, m - 1)
    <3>1. r \in Seq(Segment)
      BY <2>4
    <3> HIDE DEF r
    <3>2. Dropping(r, NoText) \in Seq(Segment \ {NoText})
      BY <3>1, DroppingType
    <3>3. QED BY <3>2, SeqMonotonic DEF r
  <2>8. d # << >> /\ d[Len(d)] = path[m]
    BY <2>4, <2>6, <2>7, AppendedBack
  <2>9. t # << >> /\ t[Len(t)] = path[m]
    BY <1>1, <2>3, <2>4
  <2>10. QED BY <2>4, <2>8, <2>9 DEF Ext!Last
<1>5. QED BY <1>3, <1>4

(* A path that ends with the name of the file, without it.                 *)
LEMMA FileNameCut ==
  ASSUME NEW path \in Seq(Segment), path # << >>, Ext!Last(path) = DidJsonl
  PROVE  /\ Ext!Front(path) \in Seq(Segment)
         /\ PathSegments(path) = Dropping(Ext!Front(path), NoText)
<1> DEFINE f == SubSeq(path, 1, Len(path) - 1)
           a == Append(f, DidJsonl)
<1>1. DidJsonl \in Segment /\ DidJsonl # NoText
  BY SpecialSegments
<1>2. Ext!Front(path) = f /\ path[Len(path)] = DidJsonl
  BY DEF Ext!Front, Ext!Last
<1>3. f \in Seq(Segment) /\ Len(f) = Len(path) - 1 /\ \A i \in 1 .. Len(path) - 1 : f[i] = path[i]
  <2>1. Len(path) \in Nat /\ Len(path) >= 1
    OBVIOUS
  <2>2. \A i \in 1 .. Len(path) - 1 : i \in 1 .. Len(path) /\ path[i] \in Segment
    OBVIOUS
  <2> DEFINE n == Len(path) - 1
  <2>3. n \in Nat /\ n <= Len(path)
    BY <2>1
  <2>4. f = SubSeq(path, 1, n) /\ \A i \in 1 .. n : path[i] \in Segment
    BY <2>2
  <2> HIDE DEF n, f
  <2>5. f \in Seq(Segment) /\ Len(f) = n /\ \A i \in 1 .. n : f[i] = path[i]
    BY <2>3, <2>4
  <2>6. QED BY <2>5 DEF n
<1> HIDE DEF f
<1>4. /\ a \in Seq(Segment) /\ Len(a) = Len(path) /\ a[Len(path)] = DidJsonl
      /\ \A i \in 1 .. Len(path) - 1 : a[i] = path[i]
  BY <1>1, <1>3
<1>5. path = a
  <2> HIDE DEF a
  <2>1. \A i \in 1 .. Len(path) : i \in 1 .. Len(path) - 1 \/ i = Len(path)
    OBVIOUS
  <2>2. \A i \in 1 .. Len(path) : path[i] = a[i]
    BY <1>2, <1>4, <2>1
  <2>3. QED BY <1>4, <2>2, SeqEqual
<1>6. Dropping(path, NoText) = Append(Dropping(f, NoText), DidJsonl)
  BY <1>1, <1>3, <1>5, DroppingAppend
<1> DEFINE d == Dropping(f, NoText)
<1>7. d \in Seq(Segment)
  <2>1. d \in Seq(Segment \ {NoText})
    BY <1>3, DroppingType
  <2> HIDE DEF d
  <2>2. QED BY <2>1, SeqMonotonic
<1> HIDE DEF d
<1>8. PathSegments(path) = d
  <2>1. Dropping(path, NoText) = Append(d, DidJsonl)
    BY <1>6 DEF d
  <2>2. /\ Append(d, DidJsonl) # << >> /\ Ext!Last(Append(d, DidJsonl)) = DidJsonl
        /\ Ext!Front(Append(d, DidJsonl)) = d
    BY <1>1, <1>7, AppendedBack DEF Ext!Last, Ext!Front
  <2>3. QED BY <2>1, <2>2 DEF PathSegments
<1>9. QED BY <1>2, <1>3, <1>8 DEF d

(* The last segment that a DID keeps is the one that extract_identifier    *)
(* takes, unless a slash follows the name of the file.                     *)
LEMMA LastSegment ==
  ASSUME NEW url, url.path \in Seq(Segment), PathSegments(url.path) # << >>,
         TrimEnd(url.path) = url.path \/ Ext!Last(TrimEnd(url.path)) # DidJsonl
  PROVE  ExtractIdentifier(url) = Ext!Last(PathSegments(url.path))
<1> DEFINE path == url.path
           p == PathSegments(path)
           d == Dropping(path, NoText)
           t == TrimEnd(path)
<1>1. CASE path # << >> /\ Ext!Last(path) = DidJsonl
  <2> DEFINE f == Ext!Front(path)
  <2>1. f \in Seq(Segment) /\ p = Dropping(f, NoText)
    BY <1>1, FileNameCut
  <2>2. ExtractIdentifier(url) = IF TrimEnd(f) = << >> THEN <<url.host>> ELSE Ext!Last(TrimEnd(f))
    BY <1>1 DEF ExtractIdentifier
  <2> HIDE DEF f, p, path
  <2>3. TrimEnd(f) # << >> /\ Ext!Last(p) = Ext!Last(TrimEnd(f))
    BY <2>1, TrimmedPath DEF p, path
  <2>4. QED BY <2>2, <2>3 DEF p, path
<1>2. CASE path = << >> \/ Ext!Last(path) # DidJsonl
  <2>1. ExtractIdentifier(url) = IF t = << >> THEN <<url.host>> ELSE Ext!Last(t)
    BY <1>2 DEF ExtractIdentifier
  <2>2. p = IF d # << >> /\ Ext!Last(d) = DidJsonl THEN Ext!Front(d) ELSE d
    BY DEF PathSegments
  <2>3. \/ d = << >> /\ t = << >>
        \/ d # << >> /\ t # << >> /\ Ext!Last(d) = Ext!Last(t)
    BY TrimmedPath
  <2> HIDE DEF p, d, t
  <2>4. d # << >>
    BY <2>2 DEF p
  <2>5. Ext!Last(t) # DidJsonl
    BY <1>2, <2>3, <2>4 DEF t
  <2>6. p = d /\ ExtractIdentifier(url) = Ext!Last(d)
    BY <2>1, <2>2, <2>3, <2>4, <2>5
  <2>7. QED BY <2>6 DEF p
<1>3. QED BY <1>1, <1>2

(* `did create` and the later commands upload under the same identifier: the last segment *)
(* of the allocated URL is the last word of the DID, for paths of any length.             *)
THEOREM IdentifiersAlwaysAgree == IdentifiersAgree
<1> DEFINE did == DidOf(logUrl)
           path == logUrl.path
           p == PathSegments(path)
<1>1. SUFFICES ASSUME Accepted, did.path # None,
                      TrimEnd(path) = path \/ Ext!Last(TrimEnd(path)) # DidJsonl
               PROVE  ExtractRegistryIdentifier(did) = Some(ExtractIdentifier(logUrl)[1])
  <2>1. Accepted => UrlToDid(logUrl).v = did
    BY AcceptedUrl DEF Ok
  <2>2. QED BY <2>1 DEF IdentifiersAgree
<1>2. path \in Seq(Segment)
  BY <1>1, AcceptedUrl
<1>3. did.path = DidPath(path)
  BY DEF DidOf
<1>4. p # << >> /\ did.path[1] = FirstWords(p)
  BY <1>1, <1>2, <1>3, PathOfDid
<1>5. p \in Seq(Segment)
  BY <1>2, KeptSegments
<1>6. ExtractIdentifier(logUrl) = Ext!Last(p)
  BY <1>1, <1>2, <1>4, LastSegment
<1>7. ExtractRegistryIdentifier(did) = Some(Ext!Last(FirstWords(p)))
  BY <1>1, <1>4 DEF ExtractRegistryIdentifier
<1>8. Ext!Last(FirstWords(p)) = Ext!Last(p)[1]
  <2> HIDE DEF p
  <2>1. Len(p) \in 1 .. Len(p) /\ Len(FirstWords(p)) = Len(p)
    BY <1>4, <1>5 DEF FirstWords
  <2>2. QED BY <2>1 DEF FirstWords, Ext!Last
<1>9. QED BY <1>6, <1>7, <1>8

(* Results that are all good are collected to a good result, and only those.              *)
LEMMA Collected ==
  ASSUME NEW rs
  PROVE  /\ (\A i \in DOMAIN rs : rs[i].ok) => Collect(rs) = Ok([i \in DOMAIN rs |-> rs[i].v])
         /\ Collect(rs).ok => \A i \in DOMAIN rs : rs[i].ok
BY DEF Collect, Err

(* A good result is good and carries its value.                                           *)
LEMMA OkIs == ASSUME NEW x PROVE Ok(x).ok /\ Ok(x).v = x
BY DEF Ok

(* An error is not good.                                                                  *)
LEMMA ErrIs == ASSUME NEW k, NEW w PROVE ~Err(k, w).ok
BY DEF Err

(* An object is an object with its members, and neither a string nor an array.            *)
LEMMA ObjIs == ASSUME NEW o PROVE IsObject(Obj(o)) /\ Obj(o).o = o /\ ~IsString(Obj(o)) /\ ~IsArray(Obj(o))
BY DEF Obj, IsObject, IsString, IsArray

SameAt(o, p, k) == (k \in DOMAIN o <=> k \in DOMAIN p) /\ (k \in DOMAIN o => o[k] = p[k])

(* Objects that agree at a member are read alike there.                                   *)
LEMMA SameReads ==
  ASSUME NEW o, NEW p, NEW k, SameAt(o, p, k)
  PROVE  /\ RequiredString(o, k) = RequiredString(p, k)
         /\ OptionalString(o, k) = OptionalString(p, k)
         /\ OptionalStrings(o, k) = OptionalStrings(p, k)
BY DEF SameAt, RequiredString, OptionalString, OptionalStrings, OptionalOf

(* A required string that was read is a member and a string.                              *)
LEMMA RequiredIs ==
  ASSUME NEW o, NEW k, RequiredString(o, k).ok
  PROVE  k \in DOMAIN o /\ IsString(o[k]) /\ RequiredString(o, k) = Ok(o[k])
BY ErrIs DEF RequiredString

(* An optional member that was read is there, or is read as none.                         *)
LEMMA OptionalIs ==
  ASSUME NEW o, NEW k, NEW r, r.ok, r \in {OptionalString(o, k), OptionalStrings(o, k)}
  PROVE  \/ k \notin DOMAIN o /\ r.v = None
         \/ k \in DOMAIN o /\ r.v = Some(o[k])
BY ErrIs, OkIs DEF OptionalString, OptionalStrings, OptionalOf

(* An optional member is written as it was read: left out, or with its value.             *)
LEMMA IfSomeIs ==
  ASSUME NEW o, NEW k, NEW x,
         (k \notin DOMAIN o /\ x = None) \/ (k \in DOMAIN o /\ x = Some(o[k]))
  PROVE  SameAt(o, IfSome(k, x), k) /\ DOMAIN IfSome(k, x) \subseteq {k}
<1>1. CASE k \notin DOMAIN o /\ x = None
  BY <1>1 DEF SameAt, IfSome, NoMembers
<1>2. CASE k \in DOMAIN o /\ x = Some(o[k])
  <2>1. x # None /\ x[1] = o[k]
    BY <1>2 DEF Some, None
  <2>2. IfSome(k, x) = k :> o[k]
    BY <2>1 DEF IfSome
  <2>3. QED BY <1>2, <2>2 DEF SameAt, :>
<1>3. QED BY <1>1, <1>2

-----------------------------------------------------------------------------
(* Keys. *)

JwkNames == {"crv", "x", "y", "n", "e"}
OptionalNames == {"use", "key_ops", "alg", "kid"}

(* The member names of the three kinds of keys, none of them twice.                       *)
LEMMA JwkMembersAre ==
  /\ DOMAIN JwkMembers = {"EC", "OKP", "RSA"}
  /\ \A kty \in DOMAIN JwkMembers :
       /\ \A i \in DOMAIN JwkMembers[kty] : JwkMembers[kty][i] \in JwkNames
       /\ \A i, j \in DOMAIN JwkMembers[kty] : JwkMembers[kty][i] = JwkMembers[kty][j] => i = j
<1>1. /\ DOMAIN JwkMembers = {"EC", "OKP", "RSA"}
      /\ JwkMembers["EC"] = ECKey /\ JwkMembers["OKP"] = OKPKey /\ JwkMembers["RSA"] = RSAKey
  BY DEF JwkMembers, @@, :>
<1>2. QED BY <1>1, SMTT(60) DEF ECKey, OKPKey, RSAKey, JwkNames

(* The optional members of a key are written as they were read.                           *)
LEMMA OptionalsBack ==
  ASSUME NEW o, NEW opt,
         \A i \in 1 .. 4 : LET k == <<"use", "key_ops", "alg", "kid">>[i] IN
           \/ k \notin DOMAIN o /\ opt[i] = None
           \/ k \in DOMAIN o /\ opt[i] = Some(o[k])
  PROVE  /\ DOMAIN JwkOptionals(opt) \subseteq OptionalNames
         /\ \A k \in OptionalNames : SameAt(o, JwkOptionals(opt), k)
<1> DEFINE a == IfSome("use", opt[1])
           b == IfSome("key_ops", opt[2])
           c == IfSome("alg", opt[3])
           d == IfSome("kid", opt[4])
<1>1. SameAt(o, a, "use") /\ DOMAIN a \subseteq {"use"}
  <2>1. \/ "use" \notin DOMAIN o /\ opt[1] = None
        \/ "use" \in DOMAIN o /\ opt[1] = Some(o["use"])
    OBVIOUS
  <2>2. QED BY <2>1, IfSomeIs
<1>2. SameAt(o, b, "key_ops") /\ DOMAIN b \subseteq {"key_ops"}
  <2>1. \/ "key_ops" \notin DOMAIN o /\ opt[2] = None
        \/ "key_ops" \in DOMAIN o /\ opt[2] = Some(o["key_ops"])
    OBVIOUS
  <2>2. QED BY <2>1, IfSomeIs
<1>3. SameAt(o, c, "alg") /\ DOMAIN c \subseteq {"alg"}
  <2>1. \/ "alg" \notin DOMAIN o /\ opt[3] = None
        \/ "alg" \in DOMAIN o /\ opt[3] = Some(o["alg"])
    OBVIOUS
  <2>2. QED BY <2>1, IfSomeIs
<1>4. SameAt(o, d, "kid") /\ DOMAIN d \subseteq {"kid"}
  <2>1. \/ "kid" \notin DOMAIN o /\ opt[4] = None
        \/ "kid" \in DOMAIN o /\ opt[4] = Some(o["kid"])
    OBVIOUS
  <2>2. QED BY <2>1, IfSomeIs
<1>5. JwkOptionals(opt) = ((a @@ b) @@ c) @@ d
  BY SMTT(60) DEF JwkOptionals
<1> HIDE DEF a, b, c, d
<1>6. DOMAIN JwkOptionals(opt) \subseteq OptionalNames
  BY <1>1, <1>2, <1>3, <1>4, <1>5 DEF OptionalNames, @@
<1>7. SameAt(o, JwkOptionals(opt), "use") /\ SameAt(o, JwkOptionals(opt), "key_ops")
  BY <1>1, <1>2, <1>3, <1>4, <1>5 DEF SameAt, @@
<1>8. SameAt(o, JwkOptionals(opt), "alg") /\ SameAt(o, JwkOptionals(opt), "kid")
  BY <1>1, <1>2, <1>3, <1>4, <1>5 DEF SameAt, @@
<1>9. QED BY <1>6, <1>7, <1>8 DEF OptionalNames

(* What was read of a key: its required members and the optional ones.                    *)
LEMMA KeyIs ==
  ASSUME NEW kty, NEW o, KeyFromJson(kty, o).ok
  PROVE  LET names == JwkMembers[kty]
             jwk == KeyFromJson(kty, o).v IN
         /\ KeyFromJson(kty, o) = Ok(jwk)
         /\ \A i \in DOMAIN names : names[i] \in DOMAIN o /\ jwk.req[i] = o[names[i]]
         /\ jwk.kty = kty
         /\ \A i \in 1 .. 4 : LET k == <<"use", "key_ops", "alg", "kid">>[i] IN
              \/ k \notin DOMAIN o /\ jwk.opt[i] = None
              \/ k \in DOMAIN o /\ jwk.opt[i] = Some(o[k])
<1> DEFINE names == JwkMembers[kty]
           reqs == [i \in DOMAIN names |-> RequiredString(o, names[i])]
           opts == <<ParseKeyUse(o), OptionalStrings(o, "key_ops"),
                     OptionalString(o, "alg"), OptionalString(o, "kid")>>
           req == Collect(reqs)
           opt == Collect(opts)
<1>1. KeyFromJson(kty, o) = IF req.ok THEN IF opt.ok THEN Ok([kty |-> kty, req |-> req.v, opt |-> opt.v])
                                                     ELSE opt
                                      ELSE req
  BY DEF KeyFromJson, Then
<1>2. req.ok /\ opt.ok
  <2> HIDE DEF req, opt
  <2>1. QED BY <1>1
<1>3. KeyFromJson(kty, o) = Ok([kty |-> kty, req |-> req.v, opt |-> opt.v])
  BY <1>1, <1>2
<1>4. /\ \A i \in DOMAIN reqs : reqs[i].ok
      /\ req = Ok([i \in DOMAIN reqs |-> reqs[i].v])
  <2> HIDE DEF reqs
  <2>1. QED BY <1>2, Collected
<1>5. /\ \A i \in DOMAIN opts : opts[i].ok
      /\ opt = Ok([i \in DOMAIN opts |-> opts[i].v])
  <2> HIDE DEF opts
  <2>1. QED BY <1>2, Collected
<1>6. \A i \in DOMAIN names : names[i] \in DOMAIN o /\ req.v[i] = o[names[i]]
  <2>1. SUFFICES ASSUME NEW i \in DOMAIN names
                 PROVE  names[i] \in DOMAIN o /\ req.v[i] = o[names[i]]
    OBVIOUS
  <2>2. reqs[i] = RequiredString(o, names[i]) /\ i \in DOMAIN reqs
    OBVIOUS
  <2>3. RequiredString(o, names[i]).ok
    BY <1>4, <2>2
  <2>4. names[i] \in DOMAIN o /\ reqs[i] = Ok(o[names[i]])
    BY <2>2, <2>3, RequiredIs
  <2> HIDE DEF reqs
  <2>5. req.v[i] = reqs[i].v
    BY <1>4, <2>2 DEF Ok
  <2>6. QED BY <2>4, <2>5, OkIs
<1>7. ParseKeyUse(o).ok /\ OptionalStrings(o, "key_ops").ok
      /\ OptionalString(o, "alg").ok /\ OptionalString(o, "kid").ok
  BY <1>5
<1>8. /\ opt.v[1] = ParseKeyUse(o).v /\ opt.v[2] = OptionalStrings(o, "key_ops").v
      /\ opt.v[3] = OptionalString(o, "alg").v /\ opt.v[4] = OptionalString(o, "kid").v
  BY <1>5 DEF Ok
<1>9. OptionalString(o, "use").ok /\ ParseKeyUse(o).v = OptionalString(o, "use").v
  BY <1>7 DEF ParseKeyUse, Then, Ok, Err
<1> HIDE DEF opt, req
<1>10. \A i \in 1 .. 4 : LET k == <<"use", "key_ops", "alg", "kid">>[i] IN
              \/ k \notin DOMAIN o /\ opt.v[i] = None
              \/ k \in DOMAIN o /\ opt.v[i] = Some(o[k])
  <2>1. \/ "use" \notin DOMAIN o /\ opt.v[1] = None
        \/ "use" \in DOMAIN o /\ opt.v[1] = Some(o["use"])
    BY <1>8, <1>9, OptionalIs
  <2>2. \/ "key_ops" \notin DOMAIN o /\ opt.v[2] = None
        \/ "key_ops" \in DOMAIN o /\ opt.v[2] = Some(o["key_ops"])
    BY <1>7, <1>8, OptionalIs
  <2>3. \/ "alg" \notin DOMAIN o /\ opt.v[3] = None
        \/ "alg" \in DOMAIN o /\ opt.v[3] = Some(o["alg"])
    BY <1>7, <1>8, OptionalIs
  <2>4. \/ "kid" \notin DOMAIN o /\ opt.v[4] = None
        \/ "kid" \in DOMAIN o /\ opt.v[4] = Some(o["kid"])
    BY <1>7, <1>8, OptionalIs
  <2>5. QED BY <2>1, <2>2, <2>3, <2>4
<1>11. QED BY <1>3, <1>6, <1>10 DEF Ok

(* Objects that agree at the members of a key are read as the same key.                   *)
LEMMA SameKey ==
  ASSUME NEW kty \in DOMAIN JwkMembers, NEW o, NEW p,
         \A k \in JwkNames \cap {JwkMembers[kty][i] : i \in DOMAIN JwkMembers[kty]} : SameAt(o, p, k),
         \A k \in OptionalNames : SameAt(o, p, k)
  PROVE  KeyFromJson(kty, p) = KeyFromJson(kty, o)
<1> DEFINE names == JwkMembers[kty]
<1>1. \A i \in DOMAIN names : RequiredString(o, names[i]) = RequiredString(p, names[i])
  BY JwkMembersAre, SameReads
<1>2. [i \in DOMAIN names |-> RequiredString(o, names[i])]
        = [i \in DOMAIN names |-> RequiredString(p, names[i])]
  BY <1>1
<1>3. /\ OptionalString(o, "use") = OptionalString(p, "use")
      /\ OptionalStrings(o, "key_ops") = OptionalStrings(p, "key_ops")
      /\ OptionalString(o, "alg") = OptionalString(p, "alg")
      /\ OptionalString(o, "kid") = OptionalString(p, "kid")
  BY SameReads DEF OptionalNames
<1>4. ParseKeyUse(o) = ParseKeyUse(p)
  BY <1>3 DEF ParseKeyUse
<1> DEFINE reqs(x) == Collect([i \in DOMAIN names |-> RequiredString(x, names[i])])
           opts(x) == Collect(<<ParseKeyUse(x), OptionalStrings(x, "key_ops"),
                                OptionalString(x, "alg"), OptionalString(x, "kid")>>)
           key(r, q) == IF r.ok THEN IF q.ok THEN Ok([kty |-> kty, req |-> r.v, opt |-> q.v]) ELSE q
                                ELSE r
<1>5. KeyFromJson(kty, o) = key(reqs(o), opts(o)) /\ KeyFromJson(kty, p) = key(reqs(p), opts(p))
  BY DEF KeyFromJson, Then
<1>6. reqs(o) = reqs(p) /\ opts(o) = opts(p)
  BY <1>2, <1>3, <1>4
<1> HIDE DEF reqs, opts, key
<1>7. QED BY <1>5, <1>6

(* A key that was read, written and read again is the same key.                           *)
LEMMA JwkBack ==
  ASSUME NEW v, JwkFromJson(v).ok
  PROVE  JwkFromJson(JwkToJson(JwkFromJson(v).v)) = JwkFromJson(v)
<1> DEFINE o == v.o
           kty == o["kty"].s
           names == JwkMembers[kty]
           jwk == KeyFromJson(kty, o).v
           p == JwkToJson(jwk).o
           mem == {names[i] : i \in DOMAIN names}
<1>1. IsObject(v) /\ RequiredString(o, "kty").ok
  BY DEF JwkFromJson, Then, Err
<1>2. "kty" \in DOMAIN o /\ IsString(o["kty"]) /\ RequiredString(o, "kty") = Ok(o["kty"])
  BY <1>1, RequiredIs
<1>3. JwkFromJson(v) = IF \E k \in DOMAIN JwkMembers : o["kty"] = Text(k)
                         THEN KeyFromJson(kty, o) ELSE Err("InvalidFormat", "kty")
  BY <1>1, <1>2 DEF JwkFromJson, Then, Ok
<1>4. PICK k \in DOMAIN JwkMembers : o["kty"] = Text(k)
  BY <1>3, ErrIs
<1>5. kty = k /\ o["kty"] = Text(kty)
  BY <1>4 DEF Text
<1>6. JwkFromJson(v) = KeyFromJson(kty, o) /\ kty \in DOMAIN JwkMembers
  BY <1>3, <1>4, <1>5
<1>7. /\ JwkFromJson(v) = Ok(jwk) /\ jwk.kty = kty
      /\ \A i \in DOMAIN names : names[i] \in DOMAIN o /\ jwk.req[i] = o[names[i]]
      /\ \A i \in 1 .. 4 : LET m == <<"use", "key_ops", "alg", "kid">>[i] IN
              \/ m \notin DOMAIN o /\ jwk.opt[i] = None
              \/ m \in DOMAIN o /\ jwk.opt[i] = Some(o[m])
  BY <1>6, KeyIs
<1> HIDE DEF kty, jwk, o
<1> DEFINE opts == JwkOptionals(jwk.opt)
           reqs == [n \in mem |-> jwk.req[CHOOSE i \in DOMAIN names : names[i] = n]]
<1>8. DOMAIN opts \subseteq OptionalNames /\ \A m \in OptionalNames : SameAt(o, opts, m)
  BY <1>7, OptionalsBack
<1>9. mem \subseteq JwkNames /\ \A n \in mem : n \in DOMAIN o /\ reqs[n] = o[n]
  <2>1. \A i \in DOMAIN names : (CHOOSE j \in DOMAIN names : names[j] = names[i]) = i
    BY <1>6, JwkMembersAre
  <2>2. QED BY <1>6, <1>7, <2>1, JwkMembersAre
<1>10. JwkToJson(jwk) = Obj(("kty" :> Text(kty) @@ reqs) @@ opts)
  BY <1>7 DEF JwkToJson
<1>11. p = (("kty" :> Text(kty) @@ reqs) @@ opts) /\ IsObject(JwkToJson(jwk))
  BY <1>10, ObjIs
<1>12. DOMAIN reqs = mem
  BY SMTT(60)
<1> HIDE DEF opts, reqs, mem, p
<1>13. /\ "kty" \in DOMAIN p /\ p["kty"] = Text(kty)
       /\ \A n \in mem : SameAt(o, p, n)
  <2>1. "kty" \notin mem
    BY <1>9, SMTT(60) DEF JwkNames
  <2>2. QED BY <1>9, <1>11, <1>12, <2>1, ZenonT(60) DEF SameAt, @@, :>
<1>14. \A m \in OptionalNames : SameAt(o, p, m)
  BY <1>8, <1>9, <1>11, <1>12, ZenonT(60) DEF SameAt, @@, :>, OptionalNames, JwkNames
<1>15. KeyFromJson(kty, p) = KeyFromJson(kty, o)
  BY <1>6, <1>13, <1>14, SameKey DEF mem
<1>16. RequiredString(p, "kty") = Ok(Text(kty)) /\ Text(kty).s = kty
  BY <1>13 DEF RequiredString, Text, IsString
<1>17. JwkFromJson(JwkToJson(jwk)) = KeyFromJson(kty, p)
  BY <1>6, <1>11, <1>16 DEF JwkFromJson, Then, Ok, p
<1>18. QED BY <1>6, <1>7, <1>15, <1>17, OkIs DEF jwk

-----------------------------------------------------------------------------
(* Methods. *)

(* A method's public key is its JWK or, without one, its multikey.                        *)
LEMMA PublicKeyIs ==
  ASSUME NEW o, PublicKeyFromJson(o).ok
  PROVE  \/ /\ "publicKeyJwk" \in DOMAIN o /\ JwkFromJson(o["publicKeyJwk"]).ok
            /\ PublicKeyFromJson(o) = Ok(<<Some(JwkFromJson(o["publicKeyJwk"]).v), None>>)
         \/ /\ "publicKeyJwk" \notin DOMAIN o /\ "publicKeyMultibase" \in DOMAIN o
            /\ IsString(o["publicKeyMultibase"]) /\ "mk" \in DOMAIN o["publicKeyMultibase"]
            /\ PublicKeyFromJson(o) = Ok(<<None, Some(o["publicKeyMultibase"])>>)
<1> DEFINE j == JwkFromJson(o["publicKeyJwk"])
           s == o["publicKeyMultibase"]
<1> HIDE DEF j, s
<1>1. CASE "publicKeyJwk" \in DOMAIN o
  <2>1. PublicKeyFromJson(o) = IF j.ok THEN Ok(<<Some(j.v), None>>) ELSE j
    BY <1>1 DEF PublicKeyFromJson, Then, j
  <2>2. QED BY <1>1, <2>1 DEF j
<1>2. CASE "publicKeyJwk" \notin DOMAIN o
  <2>1. "publicKeyMultibase" \in DOMAIN o /\ IsString(s)
    BY <1>2, ErrIs DEF PublicKeyFromJson, s
  <2>2. PublicKeyFromJson(o)
          = IF MultibaseFromString(s).ok THEN Ok(<<None, Some(MultibaseFromString(s).v)>>)
                                         ELSE MultibaseFromString(s)
    BY <1>2, <2>1 DEF PublicKeyFromJson, Then, s
  <2>3. "mk" \in DOMAIN s /\ MultibaseFromString(s) = Ok(s)
    BY <2>2, ErrIs DEF MultibaseFromString
  <2>4. PublicKeyFromJson(o) = Ok(<<None, Some(s)>>)
    BY <2>2, <2>3, OkIs
  <2>5. QED BY <1>2, <2>1, <2>3, <2>4 DEF s
<1>3. QED BY <1>1, <1>2

MethodOf(o, k) == [id |-> o["id"], type |-> o["type"], controller |-> o["controller"],
                   jwk |-> k[1], multibase |-> k[2]]
Named(o) == /\ "id" \in DOMAIN o /\ IsString(o["id"])
            /\ "type" \in DOMAIN o /\ IsString(o["type"])
            /\ "controller" \in DOMAIN o /\ IsString(o["controller"])

(* A verification method is read when its names and its key are.                          *)
LEMMA MethodIs ==
  ASSUME NEW v
  PROVE  /\ MethodFromJson(v).ok =>
              IsObject(v) /\ Named(v.o) /\ PublicKeyFromJson(v.o).ok
         /\ IsObject(v) /\ Named(v.o) /\ PublicKeyFromJson(v.o).ok =>
              MethodFromJson(v) = Ok(MethodOf(v.o, PublicKeyFromJson(v.o).v))
<1> DEFINE o == v.o
           rs == <<RequiredString(o, "id"), RequiredString(o, "type"), RequiredString(o, "controller")>>
           s == Collect(rs)
           k == PublicKeyFromJson(o)
           vm == [id |-> s.v[1], type |-> s.v[2], controller |-> s.v[3],
                  jwk |-> k.v[1], multibase |-> k.v[2]]
<1>1. MethodFromJson(v) = IF ~IsObject(v) THEN Err("InvalidFieldType", "verification method")
                          ELSE IF s.ok THEN IF k.ok THEN Ok(vm) ELSE k ELSE s
  BY DEF MethodFromJson, Then
<1>2. s.ok => Named(o)
  <2>1. s.ok => \A i \in DOMAIN rs : rs[i].ok
    <3> HIDE DEF rs
    <3>1. QED BY Collected
  <2>2. s.ok => /\ RequiredString(o, "id").ok /\ RequiredString(o, "type").ok
                /\ RequiredString(o, "controller").ok
    BY <2>1
  <2>3. QED BY <2>2, RequiredIs DEF Named
<1>3. Named(o) => s.ok /\ s.v[1] = o["id"] /\ s.v[2] = o["type"] /\ s.v[3] = o["controller"]
  <2>1. SUFFICES ASSUME Named(o)
                 PROVE  s.ok /\ s.v[1] = o["id"] /\ s.v[2] = o["type"] /\ s.v[3] = o["controller"]
    OBVIOUS
  <2>2. rs = <<Ok(o["id"]), Ok(o["type"]), Ok(o["controller"])>>
    BY <2>1 DEF Named, RequiredString
  <2>3. /\ DOMAIN rs = 1 .. 3 /\ rs[1] = Ok(o["id"]) /\ rs[2] = Ok(o["type"])
        /\ rs[3] = Ok(o["controller"])
    BY <2>2
  <2> HIDE DEF rs
  <2>4. s = Ok([i \in 1 .. 3 |-> rs[i].v])
    BY <2>3, OkIs, Collected
  <2>5. QED BY <2>3, <2>4, OkIs
<1> HIDE DEF s, k, o
<1>4. MethodFromJson(v).ok => IsObject(v) /\ s.ok /\ k.ok
  BY <1>1, ErrIs
<1>5. IsObject(v) /\ Named(o) /\ k.ok => MethodFromJson(v) = Ok(MethodOf(o, k.v))
  BY <1>1, <1>3 DEF MethodOf
<1>6. QED BY <1>2, <1>4, <1>5 DEF k, o

(* A verification method that was read, written and read again is the same, and is no     *)
(* reference.                                                                             *)
LEMMA MethodBack ==
  ASSUME NEW v, MethodFromJson(v).ok
  PROVE  /\ MethodFromJson(MethodToJson(MethodFromJson(v).v)) = MethodFromJson(v)
         /\ ~IsString(MethodToJson(MethodFromJson(v).v))
<1> DEFINE o == v.o
           k == PublicKeyFromJson(o)
           vm == MethodOf(o, k.v)
           p == MethodToJson(vm).o
<1>1. IsObject(v) /\ Named(o) /\ k.ok /\ MethodFromJson(v) = Ok(vm)
  BY MethodIs
<1>2. /\ vm.id = o["id"] /\ vm.type = o["type"] /\ vm.controller = o["controller"]
      /\ vm.jwk = k.v[1] /\ vm.multibase = k.v[2]
  BY DEF MethodOf
<1> HIDE DEF vm
<1> DEFINE key == IF vm.jwk # None THEN "publicKeyJwk" :> JwkToJson(vm.jwk[1])
                                   ELSE "publicKeyMultibase" :> vm.multibase[1]
<1>3. MethodToJson(vm)
        = Obj((("id" :> o["id"] @@ "type" :> o["type"]) @@ "controller" :> o["controller"]) @@ key)
  BY <1>2 DEF MethodToJson
<1>4. IsObject(MethodToJson(vm)) /\ ~IsString(MethodToJson(vm))
      /\ p = ((("id" :> o["id"] @@ "type" :> o["type"]) @@ "controller" :> o["controller"]) @@ key)
  BY <1>3, ObjIs
<1> HIDE DEF p, key, o, k
<1>5. DOMAIN key \subseteq {"publicKeyJwk", "publicKeyMultibase"}
  BY SMTT(60) DEF key, :>
<1>6. /\ "id" \in DOMAIN p /\ p["id"] = o["id"]
      /\ "type" \in DOMAIN p /\ p["type"] = o["type"]
      /\ "controller" \in DOMAIN p /\ p["controller"] = o["controller"]
  BY <1>4 DEF @@, :>
<1>7. SameAt(key, p, "publicKeyJwk") /\ SameAt(key, p, "publicKeyMultibase")
  BY <1>4 DEF SameAt, @@, :>
<1>8. Named(p) /\ MethodOf(p, k.v) = vm
  BY <1>1, <1>6 DEF Named, MethodOf, vm
<1>9. PublicKeyFromJson(p) = k
  <2> DEFINE j == JwkFromJson(o["publicKeyJwk"])
             s == o["publicKeyMultibase"]
  <2>1. CASE "publicKeyJwk" \in DOMAIN o /\ j.ok /\ k = Ok(<<Some(j.v), None>>)
    <3>1. vm.jwk # None /\ vm.jwk[1] = j.v
      BY <1>2, <2>1 DEF Ok, Some, None
    <3>2. key = "publicKeyJwk" :> JwkToJson(j.v)
      BY <3>1 DEF key
    <3>3. "publicKeyJwk" \in DOMAIN p /\ p["publicKeyJwk"] = JwkToJson(j.v)
      BY <1>7, <3>2 DEF SameAt, :>
    <3>4. JwkFromJson(p["publicKeyJwk"]) = j
      BY <2>1, <3>3, JwkBack
    <3> HIDE DEF j
    <3>5. QED BY <2>1, <3>3, <3>4 DEF PublicKeyFromJson, Then
  <2>2. CASE /\ "publicKeyJwk" \notin DOMAIN o /\ "publicKeyMultibase" \in DOMAIN o
             /\ IsString(s) /\ "mk" \in DOMAIN s /\ k = Ok(<<None, Some(s)>>)
    <3>1. vm.jwk = None /\ vm.multibase[1] = s
      BY <1>2, <2>2 DEF Ok, Some, None
    <3>2. key = "publicKeyMultibase" :> s
      BY <3>1 DEF key
    <3>3. /\ "publicKeyJwk" \notin DOMAIN p
          /\ "publicKeyMultibase" \in DOMAIN p /\ p["publicKeyMultibase"] = s
      BY <1>7, <3>2 DEF SameAt, :>
    <3>4. MultibaseFromString(s) = Ok(s)
      BY <2>2 DEF MultibaseFromString
    <3> HIDE DEF s
    <3>5. QED BY <2>2, <3>3, <3>4, OkIs DEF PublicKeyFromJson, Then
  <2>3. QED BY <1>1, <2>1, <2>2, PublicKeyIs DEF k
<1>10. MethodFromJson(MethodToJson(vm)) = Ok(MethodOf(p, k.v))
  BY <1>1, <1>4, <1>8, <1>9, MethodIs DEF p
<1>11. QED BY <1>1, <1>4, <1>8, <1>10, OkIs

(* The same for an entry of a purpose's list: a reference or an embedded method.          *)
LEMMA ListedBack ==
  ASSUME NEW v, ListedFromJson(v).ok
  PROVE  ListedFromJson(ListedToJson(ListedFromJson(v).v)) = ListedFromJson(v)
<1>1. CASE IsString(v)
  <2>1. ListedFromJson(v) = Ok(Reference(v))
    BY <1>1 DEF ListedFromJson
  <2>2. ListedToJson(Reference(v)) = v
    BY DEF ListedToJson, Reference
  <2>3. QED BY <2>1, <2>2, OkIs
<1>2. CASE ~IsString(v)
  <2> DEFINE r == MethodFromJson(v)
  <2>1. ListedFromJson(v) = IF r.ok THEN Ok(Embedded(r.v)) ELSE r
    BY <1>2 DEF ListedFromJson, Then
  <2>2. r.ok /\ ListedFromJson(v) = Ok(Embedded(r.v))
    <3> HIDE DEF r
    <3>1. QED BY <2>1
  <2>3. ListedToJson(Embedded(r.v)) = MethodToJson(r.v)
    BY DEF ListedToJson, Embedded
  <2>4. ListedFromJson(MethodToJson(r.v)) = Ok(Embedded(r.v))
    BY <2>2, MethodBack DEF ListedFromJson, Then
  <2>5. QED BY <2>2, <2>3, <2>4, OkIs
<1>3. QED BY <1>1, <1>2

-----------------------------------------------------------------------------
(* Lists of strings, and services. *)

Strings(items) == /\ items = [i \in DOMAIN items |-> items[i]]
                  /\ \A i \in DOMAIN items : IsString(items[i])

(* A list of strings is read back from an array, and from a single string when it has     *)
(* one.                                                                                   *)
LEMMA StringsRead ==
  ASSUME NEW items, NEW k, Strings(items)
  PROVE  StringsOf(Arr(items), k) = Ok(items) /\ StringsOf(StringOrArray(items), k) = Ok(items)
<1> DEFINE rs == [i \in DOMAIN items |->
                    IF IsString(items[i]) THEN Ok(items[i]) ELSE Err("InvalidFieldType", k)]
<1>1. StringsOf(Arr(items), k) = Collect(rs)
  BY DEF StringsOf, Arr, IsString, IsArray
<1>2. DOMAIN rs = DOMAIN items /\ \A i \in DOMAIN items : rs[i] = Ok(items[i])
  BY DEF Strings
<1> HIDE DEF rs
<1>3. Collect(rs) = Ok([i \in DOMAIN items |-> items[i]])
  <2>1. \A i \in DOMAIN rs : rs[i].ok /\ rs[i].v = items[i]
    BY <1>2, OkIs
  <2>2. Collect(rs) = Ok([i \in DOMAIN rs |-> rs[i].v])
    BY <2>1, Collected
  <2>3. QED BY <1>2, <2>1, <2>2
<1>4. StringsOf(Arr(items), k) = Ok(items)
  BY <1>1, <1>3 DEF Strings
<1>5. CASE DOMAIN items = {1}
  <2>1. IsString(items[1]) /\ items = [i \in {1} |-> items[1]]
    BY <1>5 DEF Strings
  <2>2. items = <<items[1]>>
    BY <2>1
  <2>3. StringOrArray(items) = items[1]
    BY <1>5 DEF StringOrArray
  <2>4. StringsOf(items[1], k) = Ok(<<items[1]>>)
    BY <2>1 DEF StringsOf, IsString, IsArray
  <2>5. QED BY <1>4, <2>2, <2>3, <2>4
<1>6. CASE DOMAIN items # {1}
  BY <1>4, <1>6 DEF StringOrArray
<1>7. QED BY <1>5, <1>6

(* Strings that were read are a list of strings.                                          *)
LEMMA StringsAre ==
  ASSUME NEW v, NEW k, StringsOf(v, k).ok
  PROVE  StringsOf(v, k) = Ok(StringsOf(v, k).v) /\ Strings(StringsOf(v, k).v)
<1>1. CASE IsString(v)
  <2>1. StringsOf(v, k) = Ok(<<v>>)
    BY <1>1 DEF StringsOf, IsString, IsArray
  <2>2. Strings(<<v>>)
    BY <1>1 DEF Strings
  <2>3. QED BY <2>1, <2>2, OkIs
<1>2. CASE ~IsString(v)
  <2> DEFINE rs == [i \in DOMAIN v.a |->
                      IF IsString(v.a[i]) THEN Ok(v.a[i]) ELSE Err("InvalidFieldType", k)]
  <2>1. StringsOf(v, k) = Collect(rs)
    BY <1>2, ErrIs DEF StringsOf
  <2>2. DOMAIN rs = DOMAIN v.a
        /\ \A i \in DOMAIN v.a : rs[i] = IF IsString(v.a[i]) THEN Ok(v.a[i])
                                         ELSE Err("InvalidFieldType", k)
    OBVIOUS
  <2> HIDE DEF rs
  <2>3. (\A i \in DOMAIN rs : rs[i].ok) /\ Collect(rs) = Ok([i \in DOMAIN rs |-> rs[i].v])
    BY <2>1, Collected
  <2>4. \A i \in DOMAIN v.a : IsString(v.a[i]) /\ rs[i].v = v.a[i]
    BY <2>2, <2>3, OkIs, ErrIs
  <2>5. StringsOf(v, k) = Ok([i \in DOMAIN v.a |-> v.a[i]])
    BY <2>1, <2>2, <2>3, <2>4
  <2>6. Strings([i \in DOMAIN v.a |-> v.a[i]])
    BY <2>4 DEF Strings
  <2>7. QED BY <2>5, <2>6, OkIs
<1>3. QED BY <1>1, <1>2

ServiceOf(o, type) == [id |-> o["id"], type |-> type, endpoint |-> o["serviceEndpoint"]]

(* A service that was read, written and read again is the same.                           *)
LEMMA ServiceBack ==
  ASSUME NEW v, ServiceFromJson(v).ok
  PROVE  ServiceFromJson(ServiceToJson(ServiceFromJson(v).v)) = ServiceFromJson(v)
<1> DEFINE o == v.o
           type == StringsOf(o["type"], "type")
           s == ServiceOf(o, type.v)
           p == ServiceToJson(s).o
<1>1. IsObject(v) /\ RequiredString(o, "id").ok
  BY ErrIs DEF ServiceFromJson, Then
<1>2. "id" \in DOMAIN o /\ IsString(o["id"]) /\ RequiredString(o, "id") = Ok(o["id"])
  BY <1>1, RequiredIs
<1>3. "type" \in DOMAIN o
  BY <1>1, ErrIs DEF ServiceFromJson, Then
<1>4. ServiceFromJson(v) = IF type.ok
                             THEN IF "serviceEndpoint" \in DOMAIN o
                                    THEN Ok(s) ELSE Err("MissingField", "serviceEndpoint")
                             ELSE type
  BY <1>1, <1>2, <1>3, OkIs DEF ServiceFromJson, Then, ServiceOf
<1>5. type.ok /\ "serviceEndpoint" \in DOMAIN o /\ ServiceFromJson(v) = Ok(s)
  <2> HIDE DEF type, s
  <2>1. QED BY <1>4, ErrIs
<1>6. type = Ok(type.v) /\ Strings(type.v)
  BY <1>5, StringsAre
<1>7. s.id = o["id"] /\ s.type = type.v /\ s.endpoint = o["serviceEndpoint"]
  BY DEF ServiceOf
<1> HIDE DEF s, type, o
<1>8. ServiceToJson(s) = Obj(("id" :> o["id"] @@ "type" :> StringOrArray(type.v))
                             @@ "serviceEndpoint" :> o["serviceEndpoint"])
  BY <1>7 DEF ServiceToJson
<1>9. IsObject(ServiceToJson(s))
      /\ p = (("id" :> o["id"] @@ "type" :> StringOrArray(type.v))
                             @@ "serviceEndpoint" :> o["serviceEndpoint"])
  BY <1>8, ObjIs, SMTT(60)
<1> HIDE DEF p
<1>10. /\ "id" \in DOMAIN p /\ p["id"] = o["id"]
       /\ "type" \in DOMAIN p /\ p["type"] = StringOrArray(type.v)
       /\ "serviceEndpoint" \in DOMAIN p /\ p["serviceEndpoint"] = o["serviceEndpoint"]
  BY <1>9 DEF @@, :>
<1>11. StringsOf(p["type"], "type") = Ok(type.v)
  BY <1>6, <1>10, StringsRead
<1>12. RequiredString(p, "id") = Ok(o["id"])
  BY <1>2, <1>10 DEF RequiredString
<1>13. ServiceFromJson(ServiceToJson(s)) = Ok(s)
  BY <1>9, <1>10, <1>11, <1>12, OkIs DEF ServiceFromJson, Then, ServiceOf, s, p
<1>14. QED BY <1>5, <1>13, OkIs

-----------------------------------------------------------------------------
(* The arrays of a document. *)

(* A list of verification methods, left out when empty, is read back.                     *)
LEMMA MethodsBack ==
  ASSUME NEW o, NEW p, NEW k, ArrayOf(o, k, MethodFromJson).ok,
         LET items == Mapped(ArrayOf(o, k, MethodFromJson).v, MethodToJson) IN
         SameAt(IfAny(k, items), p, k)
  PROVE  ArrayOf(p, k, MethodFromJson) = ArrayOf(o, k, MethodFromJson)
<1> DEFINE r == ArrayOf(o, k, MethodFromJson)
           items == [i \in DOMAIN r.v |-> MethodToJson(r.v[i])]
<1>1. SameAt(IfAny(k, items), p, k)
  BY DEF Mapped
<1>2. CASE k \notin DOMAIN o
  <2>1. r = Ok(<< >>)
    BY <1>2 DEF ArrayOf
  <2>2. items = << >>
    BY <2>1, OkIs
  <2>3. k \notin DOMAIN p
    BY <1>1, <2>2 DEF IfAny, NoMembers, SameAt
  <2>4. QED BY <2>1, <2>3 DEF ArrayOf
<1>3. CASE k \in DOMAIN o
  <2> DEFINE a == o[k].a
             rs == [i \in DOMAIN a |-> MethodFromJson(a[i])]
             qs == [i \in DOMAIN items |-> MethodFromJson(items[i])]
  <2>1. r = Collect(rs)
    BY <1>3, ErrIs DEF ArrayOf, Mapped
  <2>2. /\ \A i \in DOMAIN a : MethodFromJson(a[i]).ok
        /\ r = Ok([i \in DOMAIN a |-> MethodFromJson(a[i]).v])
    <3>1. DOMAIN rs = DOMAIN a /\ \A i \in DOMAIN a : rs[i] = MethodFromJson(a[i])
      OBVIOUS
    <3> HIDE DEF rs, r
    <3>2. Collect(rs).ok
      BY <2>1 DEF r
    <3>3. /\ \A i \in DOMAIN rs : rs[i].ok
          /\ Collect(rs) = Ok([i \in DOMAIN rs |-> rs[i].v])
      BY <3>2, Collected
    <3>4. QED BY <2>1, <3>1, <3>3
  <2> HIDE DEF r
  <2>3. DOMAIN r.v = DOMAIN a /\ \A i \in DOMAIN a : r.v[i] = MethodFromJson(a[i]).v
    BY <2>2, OkIs, SMTT(60)
  <2>4. DOMAIN items = DOMAIN a /\ \A i \in DOMAIN a : MethodFromJson(items[i]) = MethodFromJson(a[i])
    BY <2>2, <2>3, MethodBack
  <2>5. qs = rs
    BY <2>4
  <2>6. CASE items = << >>
    <3>1. k \notin DOMAIN p
      BY <1>1, <2>6 DEF IfAny, NoMembers, SameAt
    <3>2. DOMAIN a = {}
      BY <2>4, <2>6
    <3>3. r = Ok(<< >>)
      BY <2>2, <3>2
    <3>4. QED BY <3>1, <3>3 DEF ArrayOf, r
  <2>7. CASE items # << >>
    <3> HIDE DEF items
    <3>1. IfAny(k, items) = k :> Arr(items)
      BY <2>7 DEF IfAny
    <3>2. k \in DOMAIN p /\ p[k] = Arr(items)
      BY <1>1, <3>1 DEF SameAt, :>
    <3>3. IsArray(p[k]) /\ p[k].a = items
      BY <3>2 DEF Arr, IsArray
    <3>4. ArrayOf(p, k, MethodFromJson) = Collect(qs)
      BY <3>2, <3>3 DEF ArrayOf, Mapped
    <3>5. QED BY <2>1, <2>5, <3>4 DEF r
  <2>8. QED BY <2>6, <2>7
<1>4. QED BY <1>2, <1>3

(* The list of a purpose, left out when empty, is read back.                              *)
LEMMA ListedsBack ==
  ASSUME NEW o, NEW p, NEW k, ArrayOf(o, k, ListedFromJson).ok,
         LET items == Mapped(ArrayOf(o, k, ListedFromJson).v, ListedToJson) IN
         SameAt(IfAny(k, items), p, k)
  PROVE  ArrayOf(p, k, ListedFromJson) = ArrayOf(o, k, ListedFromJson)
<1> DEFINE r == ArrayOf(o, k, ListedFromJson)
           items == [i \in DOMAIN r.v |-> ListedToJson(r.v[i])]
<1>1. SameAt(IfAny(k, items), p, k)
  BY DEF Mapped
<1>2. CASE k \notin DOMAIN o
  <2>1. r = Ok(<< >>)
    BY <1>2 DEF ArrayOf
  <2>2. items = << >>
    BY <2>1, OkIs
  <2>3. k \notin DOMAIN p
    BY <1>1, <2>2 DEF IfAny, NoMembers, SameAt
  <2>4. QED BY <2>1, <2>3 DEF ArrayOf
<1>3. CASE k \in DOMAIN o
  <2> DEFINE a == o[k].a
             rs == [i \in DOMAIN a |-> ListedFromJson(a[i])]
             qs == [i \in DOMAIN items |-> ListedFromJson(items[i])]
  <2>1. r = Collect(rs)
    BY <1>3, ErrIs DEF ArrayOf, Mapped
  <2>2. /\ \A i \in DOMAIN a : ListedFromJson(a[i]).ok
        /\ r = Ok([i \in DOMAIN a |-> ListedFromJson(a[i]).v])
    <3>1. DOMAIN rs = DOMAIN a /\ \A i \in DOMAIN a : rs[i] = ListedFromJson(a[i])
      OBVIOUS
    <3> HIDE DEF rs, r
    <3>2. Collect(rs).ok
      BY <2>1 DEF r
    <3>3. /\ \A i \in DOMAIN rs : rs[i].ok
          /\ Collect(rs) = Ok([i \in DOMAIN rs |-> rs[i].v])
      BY <3>2, Collected
    <3>4. QED BY <2>1, <3>1, <3>3
  <2> HIDE DEF r
  <2>3. DOMAIN r.v = DOMAIN a /\ \A i \in DOMAIN a : r.v[i] = ListedFromJson(a[i]).v
    BY <2>2, OkIs
  <2>4. DOMAIN items = DOMAIN a /\ \A i \in DOMAIN a : ListedFromJson(items[i]) = ListedFromJson(a[i])
    BY <2>2, <2>3, ListedBack
  <2>5. qs = rs
    BY <2>4
  <2>6. CASE items = << >>
    <3>1. k \notin DOMAIN p
      BY <1>1, <2>6 DEF IfAny, NoMembers, SameAt
    <3>2. DOMAIN a = {}
      BY <2>4, <2>6
    <3>3. r = Ok(<< >>)
      BY <2>2, <3>2
    <3>4. QED BY <3>1, <3>3 DEF ArrayOf, r
  <2>7. CASE items # << >>
    <3> HIDE DEF items
    <3>1. IfAny(k, items) = k :> Arr(items)
      BY <2>7 DEF IfAny
    <3>2. k \in DOMAIN p /\ p[k] = Arr(items)
      BY <1>1, <3>1 DEF SameAt, :>
    <3>3. IsArray(p[k]) /\ p[k].a = items
      BY <3>2 DEF Arr, IsArray
    <3>4. ArrayOf(p, k, ListedFromJson) = Collect(qs)
      BY <3>2, <3>3 DEF ArrayOf, Mapped
    <3>5. QED BY <2>1, <2>5, <3>4 DEF r
  <2>8. QED BY <2>6, <2>7
<1>4. QED BY <1>2, <1>3

(* A list of services, left out when empty, is read back.                                 *)
LEMMA ServicesBack ==
  ASSUME NEW o, NEW p, NEW k, ArrayOf(o, k, ServiceFromJson).ok,
         LET items == Mapped(ArrayOf(o, k, ServiceFromJson).v, ServiceToJson) IN
         SameAt(IfAny(k, items), p, k)
  PROVE  ArrayOf(p, k, ServiceFromJson) = ArrayOf(o, k, ServiceFromJson)
<1> DEFINE r == ArrayOf(o, k, ServiceFromJson)
           items == [i \in DOMAIN r.v |-> ServiceToJson(r.v[i])]
<1>1. SameAt(IfAny(k, items), p, k)
  BY DEF Mapped
<1>2. CASE k \notin DOMAIN o
  <2>1. r = Ok(<< >>)
    BY <1>2 DEF ArrayOf
  <2>2. items = << >>
    BY <2>1, OkIs
  <2>3. k \notin DOMAIN p
    BY <1>1, <2>2 DEF IfAny, NoMembers, SameAt
  <2>4. QED BY <2>1, <2>3 DEF ArrayOf
<1>3. CASE k \in DOMAIN o
  <2> DEFINE a == o[k].a
             rs == [i \in DOMAIN a |-> ServiceFromJson(a[i])]
             qs == [i \in DOMAIN items |-> ServiceFromJson(items[i])]
  <2>1. r = Collect(rs)
    BY <1>3, ErrIs DEF ArrayOf, Mapped
  <2>2. /\ \A i \in DOMAIN a : ServiceFromJson(a[i]).ok
        /\ r = Ok([i \in DOMAIN a |-> ServiceFromJson(a[i]).v])
    <3>1. DOMAIN rs = DOMAIN a /\ \A i \in DOMAIN a : rs[i] = ServiceFromJson(a[i])
      OBVIOUS
    <3> HIDE DEF rs, r
    <3>2. Collect(rs).ok
      BY <2>1 DEF r
    <3>3. /\ \A i \in DOMAIN rs : rs[i].ok
          /\ Collect(rs) = Ok([i \in DOMAIN rs |-> rs[i].v])
      BY <3>2, Collected
    <3>4. QED BY <2>1, <3>1, <3>3
  <2> HIDE DEF r
  <2>3. DOMAIN r.v = DOMAIN a /\ \A i \in DOMAIN a : r.v[i] = ServiceFromJson(a[i]).v
    BY <2>2, OkIs
  <2>4. DOMAIN items = DOMAIN a /\ \A i \in DOMAIN a : ServiceFromJson(items[i]) = ServiceFromJson(a[i])
    BY <2>2, <2>3, ServiceBack
  <2>5. qs = rs
    BY <2>4
  <2>6. CASE items = << >>
    <3>1. k \notin DOMAIN p
      BY <1>1, <2>6 DEF IfAny, NoMembers, SameAt
    <3>2. DOMAIN a = {}
      BY <2>4, <2>6
    <3>3. r = Ok(<< >>)
      BY <2>2, <3>2
    <3>4. QED BY <3>1, <3>3 DEF ArrayOf, r
  <2>7. CASE items # << >>
    <3> HIDE DEF items
    <3>1. IfAny(k, items) = k :> Arr(items)
      BY <2>7 DEF IfAny
    <3>2. k \in DOMAIN p /\ p[k] = Arr(items)
      BY <1>1, <3>1 DEF SameAt, :>
    <3>3. IsArray(p[k]) /\ p[k].a = items
      BY <3>2 DEF Arr, IsArray
    <3>4. ArrayOf(p, k, ServiceFromJson) = Collect(qs)
      BY <3>2, <3>3 DEF ArrayOf, Mapped
    <3>5. QED BY <2>1, <2>5, <3>4 DEF r
  <2>8. QED BY <2>6, <2>7
<1>4. QED BY <1>2, <1>3

-----------------------------------------------------------------------------
(* Documents. *)

(* What the reader takes from an object, in its order. *)
NamesOf(o) == Collect(<<OptionalStringOrArray(o, "alsoKnownAs"),
                        OptionalStringOrArray(o, "controller")>>)
ListedOf(o) == Collect([p \in 1 .. 5 |-> ArrayOf(o, Purposes[p], ListedFromJson)])
DocOf(context, id, names, methods, listed, service) ==
  IF ~id.ok THEN id
  ELSE IF ~names.ok THEN names
  ELSE IF ~methods.ok THEN methods
  ELSE IF ~listed.ok THEN listed
  ELSE IF ~service.ok THEN service
  ELSE Ok([context |-> context, id |-> id.v, also_known_as |-> names.v[1],
           controller |-> names.v[2], verification_method |-> methods.v,
           listed |-> listed.v, service |-> service.v])

(* The document that is read, in terms of its parts.                                      *)
LEMMA DocIs ==
  ASSUME NEW v, IsObject(v), "@context" \in DOMAIN v.o
  PROVE  DocFromJson(v) = DocOf(v.o["@context"], RequiredString(v.o, "id"), NamesOf(v.o),
                                ArrayOf(v.o, "verificationMethod", MethodFromJson),
                                ListedOf(v.o), ArrayOf(v.o, "service", ServiceFromJson))
BY DEF DocFromJson, Then, DocOf, NamesOf, ListedOf

(* The other names and the controllers that were read are lists of strings.               *)
LEMMA NamesAre ==
  ASSUME NEW o, NamesOf(o).ok
  PROVE  /\ \A i \in 1 .. 2 : LET k == <<"alsoKnownAs", "controller">>[i] IN
              /\ OptionalStringOrArray(o, k) = Ok(NamesOf(o).v[i])
              /\ Strings(NamesOf(o).v[i])
<1> DEFINE a == OptionalStringOrArray(o, "alsoKnownAs")
           b == OptionalStringOrArray(o, "controller")
           rs == <<a, b>>
<1>1. DOMAIN rs = 1 .. 2 /\ rs[1] = a /\ rs[2] = b
  OBVIOUS
<1>2. NamesOf(o) = Collect(rs)
  BY DEF NamesOf
<1> HIDE DEF rs, a, b
<1>3. (\A i \in DOMAIN rs : rs[i].ok) /\ Collect(rs) = Ok([i \in DOMAIN rs |-> rs[i].v])
  BY <1>2, Collected
<1>4. a.ok /\ b.ok /\ NamesOf(o).v[1] = a.v /\ NamesOf(o).v[2] = b.v
  BY <1>1, <1>2, <1>3, OkIs
<1>5. Strings(<< >>)
  BY DEF Strings
<1>6. a = Ok(a.v) /\ Strings(a.v)
  BY <1>4, <1>5, OkIs, StringsAre DEF a, OptionalStringOrArray
<1>7. b = Ok(b.v) /\ Strings(b.v)
  BY <1>4, <1>5, OkIs, StringsAre DEF b, OptionalStringOrArray
<1>8. QED BY <1>4, <1>6, <1>7 DEF a, b

(* The lists of the five purposes were all read.                                          *)
LEMMA ListedAre ==
  ASSUME NEW o, ListedOf(o).ok
  PROVE  \A q \in 1 .. 5 : /\ ArrayOf(o, Purposes[q], ListedFromJson).ok
                           /\ ListedOf(o).v[q] = ArrayOf(o, Purposes[q], ListedFromJson).v
<1> DEFINE rs == [q \in 1 .. 5 |-> ArrayOf(o, Purposes[q], ListedFromJson)]
<1>1. DOMAIN rs = 1 .. 5 /\ \A q \in 1 .. 5 : rs[q] = ArrayOf(o, Purposes[q], ListedFromJson)
  OBVIOUS
<1>2. ListedOf(o) = Collect(rs)
  BY SMTT(60) DEF ListedOf
<1> HIDE DEF rs
<1>3. (\A i \in DOMAIN rs : rs[i].ok) /\ Collect(rs) = Ok([i \in DOMAIN rs |-> rs[i].v])
  BY <1>2, Collected
<1>4. QED BY <1>1, <1>2, <1>3, OkIs

(* What a merge has: the members of both parts, and at a member that the other part does not    *)
(* have what the one part has.                                                                   *)
LEMMA TwoMerged ==
  ASSUME NEW f, NEW g
  PROVE  /\ DOMAIN (f @@ g) = DOMAIN f \cup DOMAIN g
         /\ \A q : q \notin DOMAIN g => SameAt(f, f @@ g, q)
         /\ \A q : q \notin DOMAIN f => SameAt(g, f @@ g, q)
BY DEF SameAt, @@

(* Objects that agree at a member with a third agree with each other. *)
LEMMA SameThrough ==
  ASSUME NEW o, NEW p, NEW r, NEW k, SameAt(o, p, k), SameAt(p, r, k)
  PROVE  SameAt(o, r, k)
BY DEF SameAt

(* What a merge of four parts has: every part's members, and at a member that no other part has  *)
(* what that part has.                                                                           *)
MergeOfFour(m, a, b, c, e) ==
  /\ DOMAIN m = DOMAIN a \cup DOMAIN b \cup DOMAIN c \cup DOMAIN e
  /\ \A q : q \notin DOMAIN b /\ q \notin DOMAIN c /\ q \notin DOMAIN e => SameAt(a, m, q)
  /\ \A q : q \notin DOMAIN a /\ q \notin DOMAIN c /\ q \notin DOMAIN e => SameAt(b, m, q)
  /\ \A q : q \notin DOMAIN a /\ q \notin DOMAIN b /\ q \notin DOMAIN e => SameAt(c, m, q)
  /\ \A q : q \notin DOMAIN a /\ q \notin DOMAIN b /\ q \notin DOMAIN c => SameAt(e, m, q)

(* A merge of four parts one after the other is such a merge.                                    *)
LEMMA FourMerged ==
  ASSUME NEW a, NEW b, NEW c, NEW e
  PROVE  MergeOfFour(((a @@ b) @@ c) @@ e, a, b, c, e)
<1> DEFINE ab == a @@ b
           abc == ab @@ c
           m == abc @@ e
<1>1. /\ DOMAIN ab = DOMAIN a \cup DOMAIN b
      /\ \A q : q \notin DOMAIN b => SameAt(a, ab, q)
      /\ \A q : q \notin DOMAIN a => SameAt(b, ab, q)
  BY TwoMerged
<1> HIDE DEF ab
<1>2. /\ DOMAIN abc = DOMAIN ab \cup DOMAIN c
      /\ \A q : q \notin DOMAIN c => SameAt(ab, abc, q)
      /\ \A q : q \notin DOMAIN ab => SameAt(c, abc, q)
  BY TwoMerged
<1> HIDE DEF abc
<1>3. /\ DOMAIN m = DOMAIN abc \cup DOMAIN e
      /\ \A q : q \notin DOMAIN e => SameAt(abc, m, q)
      /\ \A q : q \notin DOMAIN abc => SameAt(e, m, q)
  BY TwoMerged
<1> HIDE DEF m
<1>4. MergeOfFour(m, a, b, c, e)
  BY <1>1, <1>2, <1>3, SameThrough DEF MergeOfFour
<1>5. QED BY <1>4 DEF m, abc, ab

(* The members that are written, each from its part. *)
LEMMA DocMembers ==
  ASSUME NEW d
  PROVE  LET p == DocToJson(d).o IN
         /\ DocToJson(d) = Obj(p) /\ p = [k \in DOMAIN p |-> p[k]]
         /\ DOMAIN p \subseteq {"@context", "id", "alsoKnownAs", "controller", "verificationMethod",
                                "authentication", "assertionMethod", "keyAgreement",
                                "capabilityInvocation", "capabilityDelegation", "service"}
         /\ "@context" \in DOMAIN p /\ p["@context"] = d.context
         /\ "id" \in DOMAIN p /\ p["id"] = d.id
         /\ SameAt(IfAny("alsoKnownAs", d.also_known_as), p, "alsoKnownAs")
         /\ "controller" \in DOMAIN p <=> d.controller # << >>
         /\ d.controller # << >> => p["controller"] = StringOrArray(d.controller)
         /\ SameAt(IfAny("verificationMethod", Mapped(d.verification_method, MethodToJson)),
                   p, "verificationMethod")
         /\ \A q \in 1 .. 5 :
              SameAt(IfAny(Purposes[q], Mapped(d.listed[q], ListedToJson)), p, Purposes[q])
         /\ SameAt(IfAny("service", Mapped(d.service, ServiceToJson)), p, "service")
<1> DEFINE ctx == "@context" :> d.context
           id == "id" :> d.id
           aka == IfAny("alsoKnownAs", d.also_known_as)
           ctl == IF d.controller = << >> THEN NoMembers ELSE "controller" :> StringOrArray(d.controller)
           vms == IfAny("verificationMethod", Mapped(d.verification_method, MethodToJson))
           pur1 == IfAny(Purposes[1], Mapped(d.listed[1], ListedToJson))
           pur2 == IfAny(Purposes[2], Mapped(d.listed[2], ListedToJson))
           pur3 == IfAny(Purposes[3], Mapped(d.listed[3], ListedToJson))
           pur4 == IfAny(Purposes[4], Mapped(d.listed[4], ListedToJson))
           pur5 == IfAny(Purposes[5], Mapped(d.listed[5], ListedToJson))
           svc == IfAny("service", Mapped(d.service, ServiceToJson))
           p == DocToJson(d).o
<1>1. DocToJson(d) = Obj(ctx @@ id @@ aka @@ ctl @@ vms @@ pur1 @@ pur2 @@ pur3 @@ pur4 @@ pur5 @@ svc)
  BY DEF DocToJson
<1>2. DocToJson(d) = Obj(p) /\ p = (ctx @@ id @@ aka @@ ctl @@ vms @@ pur1 @@ pur2 @@ pur3 @@ pur4 @@ pur5 @@ svc)
  BY <1>1, ObjIs
<1>3. \A key, items : DOMAIN IfAny(key, items) \subseteq {key}
  BY DEF IfAny, NoMembers, :>
<1>4. /\ Purposes[1] = "authentication" /\ Purposes[2] = "assertionMethod"
      /\ Purposes[3] = "keyAgreement" /\ Purposes[4] = "capabilityInvocation"
      /\ Purposes[5] = "capabilityDelegation"
  BY DEF Purposes
<1>5. /\ DOMAIN aka \subseteq {"alsoKnownAs"} /\ DOMAIN vms \subseteq {"verificationMethod"}
      /\ DOMAIN pur1 \subseteq {"authentication"} /\ DOMAIN pur2 \subseteq {"assertionMethod"}
      /\ DOMAIN pur3 \subseteq {"keyAgreement"} /\ DOMAIN pur4 \subseteq {"capabilityInvocation"}
      /\ DOMAIN pur5 \subseteq {"capabilityDelegation"} /\ DOMAIN svc \subseteq {"service"}
  BY <1>3, <1>4
<1>6. /\ DOMAIN ctx = {"@context"} /\ ctx["@context"] = d.context
      /\ DOMAIN id = {"id"} /\ id["id"] = d.id
  BY DEF :>
<1>7. /\ DOMAIN ctl \subseteq {"controller"}
      /\ "controller" \in DOMAIN ctl <=> d.controller # << >>
      /\ d.controller # << >> => ctl["controller"] = StringOrArray(d.controller)
  BY DEF :>, NoMembers
<1> HIDE DEF ctx, id, aka, ctl, vms, pur1, pur2, pur3, pur4, pur5, svc, p
<1> DEFINE some == ctx @@ id @@ aka @@ ctl
           more == some @@ vms @@ pur1 @@ pur2
           most == more @@ pur3 @@ pur4 @@ pur5
<1>8. /\ DOMAIN some = DOMAIN ctx \cup DOMAIN id \cup DOMAIN aka \cup DOMAIN ctl
      /\ SameAt(ctx, some, "@context") /\ SameAt(id, some, "id")
      /\ SameAt(aka, some, "alsoKnownAs") /\ SameAt(ctl, some, "controller")
  <2> HIDE DEF some
  <2>1. some = ((ctx @@ id) @@ aka) @@ ctl
    BY DEF some
  <2>2. MergeOfFour(some, ctx, id, aka, ctl)
    BY <2>1, FourMerged
  <2>3. QED BY <1>5, <1>6, <1>7, <2>2 DEF MergeOfFour
<1>9. DOMAIN some \subseteq {"@context", "id", "alsoKnownAs", "controller"}
  <2> HIDE DEF some
  <2>1. QED BY <1>5, <1>6, <1>7, <1>8
<1>10. /\ DOMAIN more = DOMAIN some \cup DOMAIN vms \cup DOMAIN pur1 \cup DOMAIN pur2
       /\ \A x \in {"@context", "id", "alsoKnownAs", "controller"} : SameAt(some, more, x)
       /\ SameAt(vms, more, "verificationMethod") /\ SameAt(pur1, more, "authentication")
       /\ SameAt(pur2, more, "assertionMethod")
  <2> HIDE DEF some, more
  <2>1. more = ((some @@ vms) @@ pur1) @@ pur2
    BY DEF more
  <2>2. MergeOfFour(more, some, vms, pur1, pur2)
    BY <2>1, FourMerged
  <2>3. QED BY <1>5, <1>9, <2>2 DEF MergeOfFour
<1>11. DOMAIN more \subseteq {"@context", "id", "alsoKnownAs", "controller",
                           "verificationMethod", "authentication", "assertionMethod"}
  <2> HIDE DEF some, more
  <2>1. QED BY <1>5, <1>9, <1>10
<1>12. /\ DOMAIN most = DOMAIN more \cup DOMAIN pur3 \cup DOMAIN pur4 \cup DOMAIN pur5
       /\ \A x \in {"@context", "id", "alsoKnownAs", "controller",
                    "verificationMethod", "authentication", "assertionMethod"} : SameAt(more, most, x)
       /\ SameAt(pur3, most, "keyAgreement") /\ SameAt(pur4, most, "capabilityInvocation")
       /\ SameAt(pur5, most, "capabilityDelegation")
  <2> HIDE DEF more, most
  <2>1. most = ((more @@ pur3) @@ pur4) @@ pur5
    BY DEF most
  <2>2. MergeOfFour(most, more, pur3, pur4, pur5)
    BY <2>1, FourMerged
  <2>3. QED BY <1>5, <1>11, <2>2, SMTT(60) DEF MergeOfFour
<1>13. /\ \A x \in {"@context", "id", "alsoKnownAs", "controller", "verificationMethod",
                    "authentication", "assertionMethod", "keyAgreement",
                    "capabilityInvocation", "capabilityDelegation"} : SameAt(most, p, x)
       /\ SameAt(svc, p, "service")
  <2> HIDE DEF more, most
  <2>1. p = (most @@ svc)
    BY <1>2 DEF most, more, some
  <2>2. "service" \notin DOMAIN most
    BY <1>5, <1>11, <1>12
  <2>3. QED BY <1>5, <2>1, <2>2, ZenonT(60) DEF SameAt, @@
<1> HIDE DEF some, more, most
<1>14. /\ SameAt(ctx, p, "@context") /\ SameAt(id, p, "id") /\ SameAt(aka, p, "alsoKnownAs")
       /\ SameAt(ctl, p, "controller") /\ SameAt(vms, p, "verificationMethod")
       /\ SameAt(pur1, p, "authentication") /\ SameAt(pur2, p, "assertionMethod")
       /\ SameAt(pur3, p, "keyAgreement") /\ SameAt(pur4, p, "capabilityInvocation")
       /\ SameAt(pur5, p, "capabilityDelegation")
  <2>1. SameAt(ctx, p, "@context") /\ SameAt(id, p, "id") /\ SameAt(aka, p, "alsoKnownAs")
        /\ SameAt(ctl, p, "controller")
    BY <1>8, <1>10, <1>12, <1>13 DEF SameAt
  <2>2. SameAt(vms, p, "verificationMethod") /\ SameAt(pur1, p, "authentication")
        /\ SameAt(pur2, p, "assertionMethod")
    BY <1>10, <1>12, <1>13 DEF SameAt
  <2>3. SameAt(pur3, p, "keyAgreement") /\ SameAt(pur4, p, "capabilityInvocation")
        /\ SameAt(pur5, p, "capabilityDelegation")
    BY <1>12, <1>13 DEF SameAt
  <2>4. QED BY <2>1, <2>2, <2>3
<1>15. \A q \in 1 .. 5 :
              SameAt(IfAny(Purposes[q], Mapped(d.listed[q], ListedToJson)), p, Purposes[q])
  <2>1. \A q \in 1 .. 5 : q = 1 \/ q = 2 \/ q = 3 \/ q = 4 \/ q = 5
    OBVIOUS
  <2>2. QED BY <1>4, <1>14, <2>1 DEF pur1, pur2, pur3, pur4, pur5
<1>16. /\ "controller" \in DOMAIN p <=> d.controller # << >>
       /\ d.controller # << >> => p["controller"] = StringOrArray(d.controller)
  BY <1>7, <1>14 DEF SameAt
<1>17. SameAt(IfAny("alsoKnownAs", d.also_known_as), p, "alsoKnownAs")
       /\ SameAt(IfAny("verificationMethod", Mapped(d.verification_method, MethodToJson)),
                   p, "verificationMethod")
       /\ SameAt(IfAny("service", Mapped(d.service, ServiceToJson)), p, "service")
  BY <1>13, <1>14 DEF aka, vms, svc
<1>18. /\ "@context" \in DOMAIN p /\ p["@context"] = d.context
       /\ "id" \in DOMAIN p /\ p["id"] = d.id
  BY <1>6, <1>14 DEF SameAt
<1>19. /\ p = [k \in DOMAIN p |-> p[k]]
       /\ DOMAIN p \subseteq {"@context", "id", "alsoKnownAs", "controller", "verificationMethod",
                              "authentication", "assertionMethod", "keyAgreement",
                              "capabilityInvocation", "capabilityDelegation", "service"}
  <2>1. p = (most @@ svc)
    BY <1>2 DEF most, more, some
  <2>2. p = [k \in DOMAIN p |-> p[k]] /\ DOMAIN p = DOMAIN most \cup DOMAIN svc
    BY <2>1, ZenonT(60) DEF @@
  <2>3. QED BY <1>5, <1>11, <1>12, <2>2, SMTT(60)
<1>20. QED BY <1>2, <1>15, <1>16, <1>17, <1>18, <1>19 DEF p

(* A document that was read, written and read again. *)
LEMMA DocBack ==
  ASSUME NEW v, DocFromJson(v).ok
  PROVE  DocFromJson(DocToJson(DocFromJson(v).v)) = DocFromJson(v)
<1> DEFINE o == v.o
           id == RequiredString(o, "id")
           names == NamesOf(o)
           methods == ArrayOf(o, "verificationMethod", MethodFromJson)
           listed == ListedOf(o)
           service == ArrayOf(o, "service", ServiceFromJson)
           d == [context |-> o["@context"], id |-> id.v, also_known_as |-> names.v[1],
                 controller |-> names.v[2], verification_method |-> methods.v,
                 listed |-> listed.v, service |-> service.v]
           p == DocToJson(d).o
<1>1. IsObject(v) /\ "@context" \in DOMAIN o
  BY ErrIs DEF DocFromJson
<1>2. DocFromJson(v) = DocOf(o["@context"], id, names, methods, listed, service)
  BY <1>1, DocIs
<1>3. /\ id.ok /\ names.ok /\ methods.ok /\ listed.ok /\ service.ok
      /\ DocFromJson(v) = Ok(d)
  <2> HIDE DEF id, names, methods, listed, service, o
  <2>1. QED BY <1>2 DEF DocOf
<1>4. /\ d.context = o["@context"] /\ d.id = id.v /\ d.also_known_as = names.v[1]
      /\ d.controller = names.v[2] /\ d.verification_method = methods.v
      /\ d.listed = listed.v /\ d.service = service.v
  OBVIOUS
<1> HIDE DEF d
<1>5. /\ IsObject(DocToJson(d))
      /\ "@context" \in DOMAIN p /\ p["@context"] = o["@context"]
      /\ "id" \in DOMAIN p /\ p["id"] = id.v
      /\ SameAt(IfAny("alsoKnownAs", names.v[1]), p, "alsoKnownAs")
      /\ "controller" \in DOMAIN p <=> names.v[2] # << >>
      /\ names.v[2] # << >> => p["controller"] = StringOrArray(names.v[2])
      /\ SameAt(IfAny("verificationMethod", Mapped(methods.v, MethodToJson)), p, "verificationMethod")
      /\ \A q \in 1 .. 5 :
           SameAt(IfAny(Purposes[q], Mapped(listed.v[q], ListedToJson)), p, Purposes[q])
      /\ SameAt(IfAny("service", Mapped(service.v, ServiceToJson)), p, "service")
  <2> HIDE DEF id, names, methods, listed, service, o
  <2>1. DocToJson(d) = Obj(p)
    BY DocMembers
  <2>2. IsObject(DocToJson(d))
    BY <2>1, ObjIs
  <2>3. QED BY <1>4, <2>2, DocMembers
<1> HIDE DEF p
<1>6. RequiredString(p, "id") = id
  <2>1. "id" \in DOMAIN o /\ IsString(o["id"]) /\ id = Ok(o["id"])
    BY <1>3, RequiredIs
  <2>2. QED BY <1>5, <2>1, OkIs DEF RequiredString
<1>7. NamesOf(p) = names
  <2>1. /\ OptionalStringOrArray(o, "alsoKnownAs") = Ok(names.v[1]) /\ Strings(names.v[1])
        /\ OptionalStringOrArray(o, "controller") = Ok(names.v[2]) /\ Strings(names.v[2])
    <3>1. \A i \in 1 .. 2 : LET k == <<"alsoKnownAs", "controller">>[i] IN
            /\ OptionalStringOrArray(o, k) = Ok(names.v[i]) /\ Strings(names.v[i])
      BY <1>3, NamesAre
    <3> HIDE DEF names, o
    <3>2. QED BY <3>1
  <2> HIDE DEF names
  <2>2. OptionalStringOrArray(p, "alsoKnownAs") = Ok(names.v[1])
    <3>1. CASE names.v[1] = << >>
      <4>1. "alsoKnownAs" \notin DOMAIN p
        BY <1>5, <3>1 DEF SameAt, IfAny, NoMembers
      <4>2. QED BY <3>1, <4>1 DEF OptionalStringOrArray
    <3>2. CASE names.v[1] # << >>
      <4>1. "alsoKnownAs" \in DOMAIN p /\ p["alsoKnownAs"] = Arr(names.v[1])
        BY <1>5, <3>2 DEF SameAt, IfAny, :>
      <4>2. QED BY <2>1, <4>1, StringsRead DEF OptionalStringOrArray
    <3>3. QED BY <3>1, <3>2
  <2>3. OptionalStringOrArray(p, "controller") = Ok(names.v[2])
    <3>1. CASE names.v[2] = << >>
      BY <1>5, <3>1 DEF OptionalStringOrArray
    <3>2. CASE names.v[2] # << >>
      BY <1>5, <2>1, <3>2, StringsRead DEF OptionalStringOrArray
    <3>3. QED BY <3>1, <3>2
  <2>4. QED BY <2>1, <2>2, <2>3 DEF NamesOf, names
<1>8. ArrayOf(p, "verificationMethod", MethodFromJson) = methods
  BY <1>3, <1>5, MethodsBack
<1>9. ListedOf(p) = listed
  <2>1. \A q \in 1 .. 5 : /\ ArrayOf(o, Purposes[q], ListedFromJson).ok
                          /\ listed.v[q] = ArrayOf(o, Purposes[q], ListedFromJson).v
    BY <1>3, ListedAre
  <2> HIDE DEF o, listed
  <2>2. \A q \in 1 .. 5 : ArrayOf(p, Purposes[q], ListedFromJson)
                            = ArrayOf(o, Purposes[q], ListedFromJson)
    <3>1. SUFFICES ASSUME NEW q \in 1 .. 5
                   PROVE  ArrayOf(p, Purposes[q], ListedFromJson)
                            = ArrayOf(o, Purposes[q], ListedFromJson)
      OBVIOUS
    <3>2. SameAt(IfAny(Purposes[q], Mapped(ArrayOf(o, Purposes[q], ListedFromJson).v, ListedToJson)),
                 p, Purposes[q])
      <4>1. SameAt(IfAny(Purposes[q], Mapped(listed.v[q], ListedToJson)), p, Purposes[q])
        BY <1>5
      <4>2. listed.v[q] = ArrayOf(o, Purposes[q], ListedFromJson).v
        BY <2>1
      <4>3. QED BY <4>1, <4>2
    <3>3. QED BY <2>1, <3>2, ListedsBack
  <2>3. QED BY <2>2 DEF ListedOf, listed
<1>10. ArrayOf(p, "service", ServiceFromJson) = service
  BY <1>3, <1>5, ServicesBack
<1>11. DocFromJson(DocToJson(d)) = DocOf(o["@context"], id, names, methods, listed, service)
  <2>1. DocFromJson(DocToJson(d))
          = DocOf(p["@context"], RequiredString(p, "id"), NamesOf(p),
                  ArrayOf(p, "verificationMethod", MethodFromJson),
                  ListedOf(p), ArrayOf(p, "service", ServiceFromJson))
    BY <1>5, DocIs DEF p
  <2>2. QED BY <1>5, <1>6, <1>7, <1>8, <1>9, <1>10, <2>1
<1>12. QED BY <1>2, <1>3, <1>11, OkIs

(* A document that the parser accepts, written and read again, is the same document, for  *)
(* every JSON value that a log can hold: the typed deactivation (new_deactivation) loses  *)
(* nothing that was read.                                                                 *)
THEOREM AlwaysStable == ReadIsStable
BY DocBack DEF ReadIsStable

-----------------------------------------------------------------------------
(* Parameters. *)

(* The members that the tool and the core crate write, with their types. *)
WrittenParams(m) ==
  /\ m = [n \in DOMAIN m |-> m[n]]
  /\ DOMAIN m \subseteq {"method", "scid", "updateKeys", "portable", "deactivated"}
  /\ "method" \in DOMAIN m => IsString(m["method"])
  /\ "scid" \in DOMAIN m => IsString(m["scid"])
  /\ "updateKeys" \in DOMAIN m => IsStrings(m["updateKeys"])
  /\ "portable" \in DOMAIN m => IsBool(m["portable"])
  /\ "deactivated" \in DOMAIN m => IsBool(m["deactivated"])

ParamsOf(fmt, m) ==
  [format |-> fmt, f |-> [n \in ParamNames |-> IF n \in DOMAIN m THEN Some(m[n]) ELSE None]]

(* The names of the ten parameters, none of them twice.                                   *)
LEMMA ParamOrderIs ==
  /\ DOMAIN ParamOrder = 1 .. 10
  /\ ParamNames = {"method", "scid", "updateKeys", "prerotation", "nextKeyHashes", "portable",
                   "deactivated", "ttl", "witness", "watchers"}
  /\ \A i \in 1 .. 10 : ParamOrder[i][1] \in ParamNames
  /\ \A i, j \in 1 .. 10 : ParamOrder[i][1] = ParamOrder[j][1] => i = j
<1>1. /\ DOMAIN ParamOrder = 1 .. 10
      /\ ParamOrder[1] = <<"method", "string">> /\ ParamOrder[2] = <<"scid", "string">>
      /\ ParamOrder[3] = <<"updateKeys", "strings">> /\ ParamOrder[4] = <<"prerotation", "bool">>
      /\ ParamOrder[5] = <<"nextKeyHashes", "strings">> /\ ParamOrder[6] = <<"portable", "bool">>
      /\ ParamOrder[7] = <<"deactivated", "bool">> /\ ParamOrder[8] = <<"ttl", "number">>
      /\ ParamOrder[9] = <<"witness", "any">> /\ ParamOrder[10] = <<"watchers", "strings">>
  BY DEF ParamOrder
<1>2. \A i \in 1 .. 10 : \/ i = 1 \/ i = 2 \/ i = 3 \/ i = 4 \/ i = 5
                         \/ i = 6 \/ i = 7 \/ i = 8 \/ i = 9 \/ i = 10
  OBVIOUS
<1> HIDE DEF ParamOrder
<1>3. /\ ParamOrder[1][1] = "method" /\ ParamOrder[2][1] = "scid"
      /\ ParamOrder[3][1] = "updateKeys" /\ ParamOrder[4][1] = "prerotation"
      /\ ParamOrder[5][1] = "nextKeyHashes" /\ ParamOrder[6][1] = "portable"
      /\ ParamOrder[7][1] = "deactivated" /\ ParamOrder[8][1] = "ttl"
      /\ ParamOrder[9][1] = "witness" /\ ParamOrder[10][1] = "watchers"
  BY <1>1
<1>4. ParamNames = {"method", "scid", "updateKeys", "prerotation", "nextKeyHashes", "portable",
                   "deactivated", "ttl", "witness", "watchers"}
  BY <1>1, <1>2, <1>3 DEF ParamNames
<1>5. \A i \in 1 .. 10 : ParamOrder[i][1] \in ParamNames
  BY <1>1 DEF ParamNames
<1>6. \A i, j \in 1 .. 10 : ParamOrder[i][1] = ParamOrder[j][1] => i = j
  BY <1>2, <1>3
<1>7. QED BY <1>1, <1>4, <1>5, <1>6

(* Each parameter is read as it is written, and the missing ones as none.                 *)
LEMMA FieldsRead ==
  ASSUME NEW m, WrittenParams(m), NEW o, \A n \in DOMAIN m : n \in DOMAIN o /\ o[n] = m[n],
         DOMAIN o \subseteq DOMAIN m
  PROVE  \A i \in 1 .. 10 : FieldOf(o, ParamOrder[i][1], ParamOrder[i][2])
           = Ok(IF ParamOrder[i][1] \in DOMAIN m THEN Some(m[ParamOrder[i][1]]) ELSE None)
<1> DEFINE R(n, kind) == FieldOf(o, n, kind) = Ok(IF n \in DOMAIN m THEN Some(m[n]) ELSE None)
<1>1. R("method", "string") /\ R("scid", "string")
  BY DEF WrittenParams, FieldOf, OptionalString, OptionalOf
<1>2. R("updateKeys", "strings") /\ R("nextKeyHashes", "strings") /\ R("watchers", "strings")
  BY DEF WrittenParams, FieldOf, OptionalStrings, OptionalOf
<1>3. R("prerotation", "bool") /\ R("portable", "bool") /\ R("deactivated", "bool")
  BY DEF WrittenParams, FieldOf, OptionalBool, OptionalOf
<1>4. R("ttl", "number") /\ R("witness", "any")
  BY DEF WrittenParams, FieldOf, OptionalU64, OptionalOf
<1>5. \A i \in 1 .. 10 : \/ i = 1 \/ i = 2 \/ i = 3 \/ i = 4 \/ i = 5
                         \/ i = 6 \/ i = 7 \/ i = 8 \/ i = 9 \/ i = 10
  OBVIOUS
<1>6. /\ ParamOrder[1] = <<"method", "string">> /\ ParamOrder[2] = <<"scid", "string">>
      /\ ParamOrder[3] = <<"updateKeys", "strings">> /\ ParamOrder[4] = <<"prerotation", "bool">>
      /\ ParamOrder[5] = <<"nextKeyHashes", "strings">> /\ ParamOrder[6] = <<"portable", "bool">>
      /\ ParamOrder[7] = <<"deactivated", "bool">> /\ ParamOrder[8] = <<"ttl", "number">>
      /\ ParamOrder[9] = <<"witness", "any">> /\ ParamOrder[10] = <<"watchers", "strings">>
  BY DEF ParamOrder
<1> HIDE DEF R
<1>7. \A i \in 1 .. 10 : R(ParamOrder[i][1], ParamOrder[i][2])
  BY <1>1, <1>2, <1>3, <1>4, <1>5, <1>6
<1>8. QED BY <1>7 DEF R

(* The parameters that a pipeline writes are read as that pipeline's parameters.          *)
LEMMA ParamsRead ==
  ASSUME NEW m, WrittenParams(m), NEW fmt
  PROVE  ParamsFromJson(Obj(m), fmt) = Ok(ParamsOf(fmt, m))
<1> DEFINE known == IF fmt = WebVH10 THEN m ELSE Without(m, "watchers")
           rs == [i \in DOMAIN ParamOrder |-> FieldOf(known, ParamOrder[i][1], ParamOrder[i][2])]
           vs == [i \in 1 .. 10 |-> rs[i].v]
<1>1. \A n \in DOMAIN m : n \in DOMAIN known /\ known[n] = m[n]
  BY DEF WrittenParams, Without
<1>2. DOMAIN known \subseteq DOMAIN m
  BY DEF Without
<1> HIDE DEF known
<1>3. \A i \in 1 .. 10 : FieldOf(known, ParamOrder[i][1], ParamOrder[i][2])
           = Ok(IF ParamOrder[i][1] \in DOMAIN m THEN Some(m[ParamOrder[i][1]]) ELSE None)
  BY <1>1, <1>2, FieldsRead
<1>4. DOMAIN rs = 1 .. 10 /\ \A i \in 1 .. 10 : rs[i] = Ok(IF ParamOrder[i][1] \in DOMAIN m
                               THEN Some(m[ParamOrder[i][1]]) ELSE None)
  BY <1>3, ParamOrderIs
<1>5. Collect(rs) = Ok(vs)
  <2> HIDE DEF rs
  <2>1. QED BY <1>4, OkIs, Collected
<1>6. \A i \in 1 .. 10 : vs[i] = IF ParamOrder[i][1] \in DOMAIN m
                               THEN Some(m[ParamOrder[i][1]]) ELSE None
  BY <1>4, OkIs
<1> DEFINE f == [n \in ParamNames |-> vs[CHOOSE i \in DOMAIN ParamOrder : ParamOrder[i][1] = n]]
<1>7. ParamsFromJson(Obj(m), fmt) = Ok([format |-> fmt, f |-> f])
  <2>1. ParamsFromJson(Obj(m), fmt)
          = LET r == Collect(rs) IN
            IF r.ok THEN Ok([format |-> fmt, f |-> [n \in ParamNames |->
                               r.v[CHOOSE i \in DOMAIN ParamOrder : ParamOrder[i][1] = n]]])
                    ELSE r
    BY ObjIs DEF ParamsFromJson, Then, known
  <2> HIDE DEF rs, vs
  <2>2. QED BY <1>5, <2>1, OkIs
<1> HIDE DEF vs
<1>8. \A n \in ParamNames : f[n] = IF n \in DOMAIN m THEN Some(m[n]) ELSE None
  <2>1. SUFFICES ASSUME NEW n \in ParamNames
                 PROVE  f[n] = IF n \in DOMAIN m THEN Some(m[n]) ELSE None
    OBVIOUS
  <2>2. PICK i \in 1 .. 10 : ParamOrder[i][1] = n
    BY ParamOrderIs DEF ParamNames
  <2>3. (CHOOSE j \in DOMAIN ParamOrder : ParamOrder[j][1] = n) = i
    BY <2>2, ParamOrderIs
  <2>4. QED BY <1>6, <2>2, <2>3
<1>9. f = [n \in ParamNames |-> IF n \in DOMAIN m THEN Some(m[n]) ELSE None]
  BY <1>8
<1>10. QED BY <1>7, <1>9 DEF ParamsOf

(* They are written as they were read, but a did:tdw genesis always says portable.        *)
LEMMA ParamsWritten ==
  ASSUME NEW m, WrittenParams(m), NEW fmt
  PROVE  /\ ("scid" \in DOMAIN m /\ fmt = TDW03 => "portable" \in DOMAIN m)
              => ParamsToJson(ParamsOf(fmt, m)) = Obj(m)
         /\ "scid" \in DOMAIN m /\ fmt = TDW03
              => ParamsToJson(ParamsOf(fmt, m)) = Obj(m @@ "portable" :> Bool(FALSE))
<1> DEFINE p == ParamsOf(fmt, m)
           some == [n \in {n \in ParamNames : p.f[n] # None /\ (n # "watchers" \/ p.format = WebVH10)}
                      |-> p.f[n][1]]
           more == IF p.format = TDW03 /\ p.f["scid"] # None THEN "portable" :> Bool(FALSE) ELSE NoMembers
<1>1. ParamsToJson(p) = Obj(some @@ more)
  BY DEF ParamsToJson
<1>2. /\ p.format = fmt
      /\ \A n \in ParamNames : p.f[n] = IF n \in DOMAIN m THEN Some(m[n]) ELSE None
  BY DEF ParamsOf
<1> HIDE DEF p
<1>3. \A n \in ParamNames : /\ p.f[n] # None <=> n \in DOMAIN m
                            /\ n \in DOMAIN m => p.f[n][1] = m[n]
  <2>1. \A x : Some(x) # None /\ Some(x)[1] = x
    BY DEF Some, None
  <2>2. QED BY <1>2, <2>1
<1>4. DOMAIN m \subseteq ParamNames /\ "scid" \in ParamNames /\ "watchers" \notin DOMAIN m
  BY ParamOrderIs DEF WrittenParams
<1>5. some = m
  <2>1. {n \in ParamNames : p.f[n] # None /\ (n # "watchers" \/ p.format = WebVH10)} = DOMAIN m
    BY <1>3, <1>4
  <2>2. some = [n \in DOMAIN m |-> m[n]]
    BY <1>3, <1>4, <2>1
  <2>3. QED BY <2>2 DEF WrittenParams
<1>6. more = IF fmt = TDW03 /\ "scid" \in DOMAIN m THEN "portable" :> Bool(FALSE) ELSE NoMembers
  BY <1>2, <1>3, <1>4
<1> HIDE DEF some, more
<1>7. ("scid" \in DOMAIN m /\ fmt = TDW03 => "portable" \in DOMAIN m) => (m @@ more) = m
  <2>1. m = [n \in DOMAIN m |-> m[n]]
    BY DEF WrittenParams
  <2>2. SUFFICES ASSUME "scid" \in DOMAIN m /\ fmt = TDW03 => "portable" \in DOMAIN m
                 PROVE  (m @@ more) = m
    OBVIOUS
  <2>3. DOMAIN more \subseteq DOMAIN m
    BY <1>6, <2>2 DEF :>, NoMembers
  <2>4. QED BY <2>1, <2>3 DEF @@
<1>8. QED BY <1>1, <1>5, <1>6, <1>7 DEF p

(* The parameters that a pipeline builds are those of its members.                        *)
LEMMA NewParamsAre ==
  ASSUME NEW m, WrittenParams(m), NEW fmt
  PROVE  NewParams(fmt, m) = ParamsOf(fmt, m)
BY DEF NewParams, ParamsOf

-----------------------------------------------------------------------------
(* Entries. *)

(* The proof is the fifth element of a did:tdw line.                                      *)
LEMMA FifthElement ==
  ASSUME NEW a, NEW b, NEW c, NEW d, NEW e
  PROVE  Append(<<a, b, c, d>>, e) = <<a, b, c, d, e>>
<1> DEFINE S == {a, b, c, d, e}
           s == <<a, b, c, d>>
           t == <<a, b, c, d, e>>
<1>1. s \in Seq(S) /\ Len(s) = 4 /\ e \in S /\ s[1] = a /\ s[2] = b /\ s[3] = c /\ s[4] = d
  OBVIOUS
<1>2. t \in Seq(S) /\ Len(t) = 5 /\ t[1] = a /\ t[2] = b /\ t[3] = c /\ t[4] = d /\ t[5] = e
  OBVIOUS
<1> HIDE DEF s, t, S
<1> DEFINE r == Append(s, e)
<1>3. r \in Seq(S) /\ Len(r) = 5 /\ r[5] = e /\ \A i \in 1 .. 4 : r[i] = s[i]
  <2>1. r \in Seq(S) /\ Len(r) = Len(s) + 1 /\ r[Len(s) + 1] = e
        /\ \A i \in 1 .. Len(s) : r[i] = s[i]
    <3>1. s \in Seq(S) /\ e \in S
      BY <1>1
    <3>2. QED BY <3>1, AppendProperties
  <2> HIDE DEF r
  <2>2. Len(s) + 1 = 5
    BY <1>1
  <2>3. QED BY <1>1, <2>1, <2>2
<1> HIDE DEF r
<1>4. \A i \in 1 .. 5 : i = 1 \/ i = 2 \/ i = 3 \/ i = 4 \/ i = 5
  OBVIOUS
<1>5. \A i \in 1 .. 5 : r[i] = t[i]
  BY <1>1, <1>2, <1>3, <1>4
<1>6. r = t
  BY <1>2, <1>3, <1>5, SeqEqual
<1>7. QED BY <1>6 DEF r, s, t

(* A did:tdw line without its fifth element is the unsigned entry.                        *)
LEMMA FourOfFive ==
  ASSUME NEW a, NEW b, NEW c, NEW d, NEW e
  PROVE  SubSeq(<<a, b, c, d, e>>, 1, 4) = <<a, b, c, d>>
<1> DEFINE S == {a, b, c, d, e}
           s == <<a, b, c, d>>
           t == <<a, b, c, d, e>>
<1>1. s \in Seq(S) /\ Len(s) = 4 /\ s[1] = a /\ s[2] = b /\ s[3] = c /\ s[4] = d
  OBVIOUS
<1>2. t \in Seq(S) /\ Len(t) = 5 /\ t[1] = a /\ t[2] = b /\ t[3] = c /\ t[4] = d
  OBVIOUS
<1> HIDE DEF s, t, S
<1> DEFINE r == SubSeq(t, 1, 4)
<1>3. r \in Seq(S) /\ Len(r) = 4 /\ \A i \in 1 .. 4 : r[i] = t[i]
  BY <1>2, SMTT(60)
<1> HIDE DEF r
<1>4. \A i \in 1 .. 4 : i = 1 \/ i = 2 \/ i = 3 \/ i = 4
  OBVIOUS
<1>5. \A i \in 1 .. 4 : r[i] = s[i]
  BY <1>1, <1>2, <1>3, <1>4
<1>6. r = s
  BY <1>1, <1>3, <1>5, SeqEqual
<1>7. QED BY <1>6 DEF r, s, t

EntryOf(fmt, vid, tm, params, state, proofs) ==
  [format |-> fmt, version_id |-> vid, version_time |-> tm,
   parameters |-> params, state |-> state, proofs |-> proofs]

(* An entry without its proof, as it is hashed: the four parts. *)
Unsigned(u, fmt, vid, tm, params, state) ==
  IF fmt = TDW03
    THEN u = Arr(<<vid, tm, params, state>>)
    ELSE /\ u = Obj(u.o)
         /\ DOMAIN u.o = {"versionId", "versionTime", "parameters", "state"}
         /\ u.o = [k \in DOMAIN u.o |-> u.o[k]]
         /\ u.o["versionId"] = vid /\ u.o["versionTime"] = tm
         /\ u.o["parameters"] = params /\ u.o["state"] = state

(* An entry whose parameters and state are read is read from its five parts.              *)
LEMMA PartsRead ==
  ASSUME NEW fmt, NEW vid, NEW tm, NEW params, NEW state, NEW proof, NEW p, NEW s,
         IsString(vid), IsString(tm), ParamsFromJson(params, fmt) = Ok(p),
         StateFromJson(state) = Ok(s)
  PROVE  EntryOfParts(fmt, vid, tm, params, state, Arr(proof))
           = Ok(EntryOf(fmt, vid, tm, p, s, proof))
<1>1. IsArray(Arr(proof)) /\ Arr(proof).a = proof
  BY DEF IsArray, Arr
<1>2. EntryOfParts(fmt, vid, tm, params, state, Arr(proof))
        = Ok([NewEntry(fmt, vid, tm, p, s) EXCEPT !.proofs = proof])
  BY <1>1, OkIs DEF EntryOfParts, Then
<1>3. QED BY <1>2 DEF NewEntry, EntryOf

(* A full document is read as the state it is.                                            *)
LEMMA ValueRead ==
  ASSUME NEW doc
  PROVE  StateFromJson(Obj("value" :> doc)) = Ok([of |-> "value", json |-> doc])
<1> DEFINE v == Obj("value" :> doc)
<1>1. IsObject(v) /\ v.o = "value" :> doc
  BY ObjIs
<1>2. Member(v, "value") = Some(doc) /\ v.o["value"] = doc
  BY <1>1 DEF Member, :>
<1>3. Member(v, "value") # None
  BY <1>2 DEF Some, None
<1> HIDE DEF v
<1>4. QED BY <1>1, <1>2, <1>3 DEF StateFromJson, v

(* The four parts of an entry that the core crate builds. *)
LEMMA Stripped ==
  ASSUME NEW fmt \in Formats, NEW vid, NEW tm, NEW params, NEW doc, NEW e,
         e = NewEntry(fmt, vid, tm, params, [of |-> "value", json |-> doc])
  PROVE  Unsigned(StripProofSlot(EntryToJson(e), fmt), fmt, vid, tm,
                  ParamsToJson(params), Obj("value" :> doc))
<1> DEFINE u == StripProofSlot(EntryToJson(e), fmt)
           par == ParamsToJson(params)
           state == Obj("value" :> doc)
<1>1. /\ e.format = fmt /\ e.version_id = vid /\ e.version_time = tm /\ e.parameters = params
      /\ e.state = [of |-> "value", json |-> doc] /\ e.proofs = << >>
  BY DEF NewEntry
<1>2. StateToJson(e.state) = state
  BY <1>1 DEF StateToJson
<1> HIDE DEF state, par
<1>3. CASE fmt = TDW03
  <2> DEFINE a == <<vid, tm, par, state, Arr(<< >>)>>
  <2>1. EntryToJson(e) = Arr(a)
    BY <1>1, <1>2, <1>3 DEF EntryToJson, par
  <2>2. EntryToJson(e).a = a /\ Len(a) - 1 = 4
    BY <2>1 DEF Arr
  <2>3. u = Arr(SubSeq(a, 1, 4))
    <3> HIDE DEF a
    <3>1. QED BY <1>3, <2>2 DEF StripProofSlot
  <2>4. u = Arr(<<vid, tm, par, state>>)
    BY <2>3, FourOfFive
  <2>5. QED BY <1>3, <2>4 DEF Unsigned, par, state
<1>4. CASE fmt # TDW03
  <2> DEFINE o == EntryToJson(e).o
  <2>1. EntryToJson(e)
          = Obj("versionId" :> vid @@ "versionTime" :> tm @@ "parameters" :> par
                @@ "state" :> state @@ "proof" :> Arr(<< >>))
    BY <1>1, <1>2, <1>4 DEF EntryToJson, par
  <2>2. o = ("versionId" :> vid @@ "versionTime" :> tm @@ "parameters" :> par
                @@ "state" :> state @@ "proof" :> Arr(<< >>))
    BY <2>1, ObjIs, SMTT(60)
  <2> HIDE DEF o
  <2>3. /\ DOMAIN o = {"versionId", "versionTime", "parameters", "state", "proof"}
        /\ o["versionId"] = vid /\ o["versionTime"] = tm /\ o["parameters"] = par
        /\ o["state"] = state
    BY <2>2 DEF @@, :>
  <2>4. u = Obj(Without(o, "proof")) /\ u.o = Without(o, "proof")
    BY <1>4, ObjIs DEF StripProofSlot, o
  <2>5. /\ DOMAIN u.o = {"versionId", "versionTime", "parameters", "state"}
        /\ u.o["versionId"] = vid /\ u.o["versionTime"] = tm
        /\ u.o["parameters"] = par /\ u.o["state"] = state
        /\ u.o = [k \in DOMAIN u.o |-> u.o[k]]
    BY <2>3, <2>4 DEF Without
  <2>6. QED BY <1>4, <2>4, <2>5 DEF Unsigned, par, state
<1>5. QED BY <1>3, <1>4

(* The proof that a pipeline makes is read, with its key's URL and its signature.         *)
LEMMA ProofRead ==
  ASSUME NEW k, NEW doc, NEW purpose \in {"authentication", "assertionMethod"},
         NEW id, IsString(id), NEW time
  PROVE  LET config == ProofConfig(k, purpose, id, Time(time))
             proof == SignedProof(k, doc, config) IN
         /\ ProofFromJson(proof).ok
         /\ IsObject(proof)
         /\ HasString(proof, "verificationMethod") /\ HasString(proof, "proofValue")
         /\ proof.o["verificationMethod"] = DidKeyUrl(k)
         /\ proof.o["proofValue"] = Signature(k, doc, config)
         /\ Obj(Without(proof.o, "proofValue")) = config
<1> DEFINE config == ProofConfig(k, purpose, id, Time(time))
           proof == SignedProof(k, doc, config)
           c == config.o
           o == proof.o
           sig == Signature(k, doc, config)
<1>1. config = Obj("type" :> Text("DataIntegrityProof") @@ "cryptosuite" :> Text("eddsa-jcs-2022")
      @@ "verificationMethod" :> DidKeyUrl(k) @@ "proofPurpose" :> Text(purpose)
      @@ "challenge" :> id @@ "created" :> Time(time))
  BY DEF ProofConfig
<1>2. c = ("type" :> Text("DataIntegrityProof") @@ "cryptosuite" :> Text("eddsa-jcs-2022")
      @@ "verificationMethod" :> DidKeyUrl(k) @@ "proofPurpose" :> Text(purpose)
      @@ "challenge" :> id @@ "created" :> Time(time)) /\ config = Obj(c)
  BY <1>1, ObjIs, SMTT(60)
<1> DEFINE a == Text("DataIntegrityProof")
           b == Text("eddsa-jcs-2022")
           d == DidKeyUrl(k)
           e == Text(purpose)
           tm == Time(time)
<1> HIDE DEF a, b, d, e, tm
<1>3. /\ DOMAIN c = {"type", "cryptosuite", "verificationMethod", "proofPurpose",
                     "challenge", "created"}
      /\ c = [n \in DOMAIN c |-> c[n]]
      /\ c["type"] = a /\ c["cryptosuite"] = b /\ c["verificationMethod"] = d
      /\ c["proofPurpose"] = e /\ c["challenge"] = id /\ c["created"] = tm
  <2>1. c = ("type" :> a @@ "cryptosuite" :> b @@ "verificationMethod" :> d @@ "proofPurpose" :> e
             @@ "challenge" :> id @@ "created" :> tm)
    BY <1>2 DEF a, b, d, e, tm
  <2> HIDE DEF c
  <2>2. QED BY <2>1 DEF @@, :>
<1>4. o = (c @@ "proofValue" :> sig) /\ IsObject(proof)
  BY ObjIs, SMTT(60) DEF SignedProof
<1> HIDE DEF c, o, sig, config
<1>5. /\ DOMAIN o = {"type", "cryptosuite", "verificationMethod", "proofPurpose",
                     "challenge", "created", "proofValue"}
      /\ o["type"] = a /\ o["cryptosuite"] = b /\ o["verificationMethod"] = d
      /\ o["proofPurpose"] = e /\ o["challenge"] = id /\ o["created"] = tm
      /\ o["proofValue"] = sig
      /\ Without(o, "proofValue") = c
  BY <1>3, <1>4 DEF @@, :>, Without
<1>6. IsString(a) /\ IsString(b) /\ IsString(d) /\ IsString(e) /\ IsString(tm) /\ IsString(sig)
  BY DEF a, b, d, e, tm, sig, Text, DidKeyUrl, Time, Signature, IsString
<1> DEFINE rs == <<RequiredString(o, "type"), RequiredString(o, "cryptosuite"),
                   RequiredString(o, "verificationMethod"), RequiredString(o, "proofPurpose"),
                   RequiredString(o, "challenge"), RequiredString(o, "created"),
                   RequiredString(o, "proofValue")>>
<1>7. rs = <<Ok(a), Ok(b), Ok(d), Ok(e), Ok(id), Ok(tm), Ok(sig)>>
  BY <1>5, <1>6 DEF RequiredString
<1>8. /\ DOMAIN rs = 1 .. 7 /\ rs[1] = Ok(a) /\ rs[2] = Ok(b) /\ rs[3] = Ok(d) /\ rs[4] = Ok(e)
      /\ rs[5] = Ok(id) /\ rs[6] = Ok(tm) /\ rs[7] = Ok(sig)
  BY <1>7
<1> HIDE DEF rs
<1>9. \A i \in DOMAIN rs : rs[i].ok
  BY <1>8, OkIs
<1>10. Collect(rs) = Ok([i \in 1 .. 7 |-> rs[i].v])
  BY <1>8, <1>9, Collected
<1> DEFINE s == [i \in 1 .. 7 |-> rs[i].v]
<1>11. s[1] = a /\ s[2] = b /\ s[4] = e
  BY <1>8, OkIs
<1>12. e \in {Text("authentication"), Text("assertionMethod")}
  BY DEF e
<1>13. ProofFromJson(proof) = Ok(s)
  <2> HIDE DEF s, proof
  <2>1. ProofFromJson(proof) =
          LET r == Collect(rs) IN
          IF ~r.ok THEN r
          ELSE IF r.v[1] # Text("DataIntegrityProof") THEN Err("InvalidField", "type")
          ELSE IF r.v[2] # Text("eddsa-jcs-2022") THEN Err("UnknownCryptosuite", "cryptosuite")
          ELSE IF r.v[4] \in {Text("authentication"), Text("assertionMethod")} THEN Ok(r.v)
          ELSE Err("UnknownProofPurpose", "proofPurpose")
    BY <1>4 DEF ProofFromJson, Then, rs, o
  <2>2. Collect(rs).ok /\ Collect(rs).v = s
    BY <1>10, OkIs DEF s
  <2>3. QED BY <1>11, <1>12, <2>1, <2>2 DEF a, b
<1>14. HasString(proof, "verificationMethod") /\ HasString(proof, "proofValue")
  BY <1>4, <1>5, <1>6 DEF HasString, Member, Some, None, o
<1>15. QED BY <1>2, <1>4, <1>5, <1>13, <1>14, OkIs DEF d, sig, o, config

-----------------------------------------------------------------------------
(* Replacing the placeholder by the SCID, and back. *)

Leaf(v) == IsString(v) \/ IsBool(v)


(* How the SCID is replaced in the values at the lowest level, element by element.        *)
LEMMA ReplacedInListIs ==
  ASSUME NEW from, NEW to
  PROVE  /\ \A v : Leaf(v) => ReplacedInList(v, from, to) = ReplacedString(v, from, to)
         /\ \A o : ReplacedInList(Obj(o), from, to) = Obj([k \in DOMAIN o |-> ReplacedString(o[k], from, to)])
         /\ \A a : ReplacedInList(Arr(a), from, to) = Arr([i \in DOMAIN a |-> ReplacedString(a[i], from, to)])
BY DEF ReplacedInList, ReplacedIn, Leaf, IsString, IsBool, IsObject, IsArray, Obj, Arr

(* There and back it is what it was, when each of its strings is.                         *)
LEMMA ReplacedInListBack ==
  ASSUME NEW from, NEW to
  PROVE  /\ \A v : Leaf(v) /\ Leaf(ReplacedString(v, from, to))
                     /\ ReplacedString(ReplacedString(v, from, to), to, from) = v
               => ReplacedInList(ReplacedInList(v, from, to), to, from) = v
         /\ \A o : o = [k \in DOMAIN o |-> o[k]]
                     /\ (\A k \in DOMAIN o : ReplacedString(ReplacedString(o[k], from, to), to, from) = o[k])
               => ReplacedInList(ReplacedInList(Obj(o), from, to), to, from) = Obj(o)
         /\ \A a : a = [i \in DOMAIN a |-> a[i]]
                     /\ (\A i \in DOMAIN a : ReplacedString(ReplacedString(a[i], from, to), to, from) = a[i])
               => ReplacedInList(ReplacedInList(Arr(a), from, to), to, from) = Arr(a)
<1>1. \A v : Leaf(v) /\ Leaf(ReplacedString(v, from, to))
               /\ ReplacedString(ReplacedString(v, from, to), to, from) = v
         => ReplacedInList(ReplacedInList(v, from, to), to, from) = v
  BY ReplacedInListIs
<1>2. ASSUME NEW o, o = [k \in DOMAIN o |-> o[k]],
             \A k \in DOMAIN o : ReplacedString(ReplacedString(o[k], from, to), to, from) = o[k]
      PROVE  ReplacedInList(ReplacedInList(Obj(o), from, to), to, from) = Obj(o)
  <2> DEFINE q == [k \in DOMAIN o |-> ReplacedString(o[k], from, to)]
  <2>1. DOMAIN q = DOMAIN o /\ \A k \in DOMAIN o : q[k] = ReplacedString(o[k], from, to)
    OBVIOUS
  <2>2. ReplacedInList(Obj(o), from, to) = Obj(q)
    BY ReplacedInListIs
  <2> HIDE DEF q
  <2>3. ReplacedInList(Obj(q), to, from) = Obj([k \in DOMAIN q |-> ReplacedString(q[k], to, from)])
    BY ReplacedInListIs
  <2>4. [k \in DOMAIN q |-> ReplacedString(q[k], to, from)] = o
    BY <1>2, <2>1
  <2>5. QED BY <2>2, <2>3, <2>4
<1>3. ASSUME NEW a, a = [i \in DOMAIN a |-> a[i]],
             \A i \in DOMAIN a : ReplacedString(ReplacedString(a[i], from, to), to, from) = a[i]
      PROVE  ReplacedInList(ReplacedInList(Arr(a), from, to), to, from) = Arr(a)
  <2> DEFINE q == [i \in DOMAIN a |-> ReplacedString(a[i], from, to)]
  <2>1. DOMAIN q = DOMAIN a /\ \A i \in DOMAIN a : q[i] = ReplacedString(a[i], from, to)
    OBVIOUS
  <2>2. ReplacedInList(Arr(a), from, to) = Arr(q)
    BY ReplacedInListIs
  <2> HIDE DEF q
  <2>3. ReplacedInList(Arr(q), to, from) = Arr([i \in DOMAIN q |-> ReplacedString(q[i], to, from)])
    BY ReplacedInListIs
  <2>4. [i \in DOMAIN q |-> ReplacedString(q[i], to, from)] = a
    BY <1>3, <2>1
  <2>5. QED BY <2>2, <2>3, <2>4
<1>4. QED BY <1>1, <1>2, <1>3

(* How the SCID is replaced in a key's value, member by member.                           *)
LEMMA ReplacedInKeyIs ==
  ASSUME NEW from, NEW to
  PROVE  /\ \A v : Leaf(v) => ReplacedInKey(v, from, to) = ReplacedString(v, from, to)
         /\ \A o : ReplacedInKey(Obj(o), from, to) = Obj([k \in DOMAIN o |-> ReplacedInList(o[k], from, to)])
         /\ \A a : ReplacedInKey(Arr(a), from, to) = Arr([i \in DOMAIN a |-> ReplacedInList(a[i], from, to)])
BY DEF ReplacedInKey, ReplacedIn, Leaf, IsString, IsBool, IsObject, IsArray, Obj, Arr

(* There and back it is what it was, when each of its members is.                         *)
LEMMA ReplacedInKeyBack ==
  ASSUME NEW from, NEW to
  PROVE  /\ \A v : Leaf(v) /\ Leaf(ReplacedString(v, from, to))
                     /\ ReplacedString(ReplacedString(v, from, to), to, from) = v
               => ReplacedInKey(ReplacedInKey(v, from, to), to, from) = v
         /\ \A o : o = [k \in DOMAIN o |-> o[k]]
                     /\ (\A k \in DOMAIN o : ReplacedInList(ReplacedInList(o[k], from, to), to, from) = o[k])
               => ReplacedInKey(ReplacedInKey(Obj(o), from, to), to, from) = Obj(o)
         /\ \A a : a = [i \in DOMAIN a |-> a[i]]
                     /\ (\A i \in DOMAIN a : ReplacedInList(ReplacedInList(a[i], from, to), to, from) = a[i])
               => ReplacedInKey(ReplacedInKey(Arr(a), from, to), to, from) = Arr(a)
<1>1. \A v : Leaf(v) /\ Leaf(ReplacedString(v, from, to))
               /\ ReplacedString(ReplacedString(v, from, to), to, from) = v
         => ReplacedInKey(ReplacedInKey(v, from, to), to, from) = v
  BY ReplacedInKeyIs
<1>2. ASSUME NEW o, o = [k \in DOMAIN o |-> o[k]],
             \A k \in DOMAIN o : ReplacedInList(ReplacedInList(o[k], from, to), to, from) = o[k]
      PROVE  ReplacedInKey(ReplacedInKey(Obj(o), from, to), to, from) = Obj(o)
  <2> DEFINE q == [k \in DOMAIN o |-> ReplacedInList(o[k], from, to)]
  <2>1. DOMAIN q = DOMAIN o /\ \A k \in DOMAIN o : q[k] = ReplacedInList(o[k], from, to)
    OBVIOUS
  <2>2. ReplacedInKey(Obj(o), from, to) = Obj(q)
    BY ReplacedInKeyIs
  <2> HIDE DEF q
  <2>3. ReplacedInKey(Obj(q), to, from) = Obj([k \in DOMAIN q |-> ReplacedInList(q[k], to, from)])
    BY ReplacedInKeyIs
  <2>4. [k \in DOMAIN q |-> ReplacedInList(q[k], to, from)] = o
    BY <1>2, <2>1
  <2>5. QED BY <2>2, <2>3, <2>4
<1>3. ASSUME NEW a, a = [i \in DOMAIN a |-> a[i]],
             \A i \in DOMAIN a : ReplacedInList(ReplacedInList(a[i], from, to), to, from) = a[i]
      PROVE  ReplacedInKey(ReplacedInKey(Arr(a), from, to), to, from) = Arr(a)
  <2> DEFINE q == [i \in DOMAIN a |-> ReplacedInList(a[i], from, to)]
  <2>1. DOMAIN q = DOMAIN a /\ \A i \in DOMAIN a : q[i] = ReplacedInList(a[i], from, to)
    OBVIOUS
  <2>2. ReplacedInKey(Arr(a), from, to) = Arr(q)
    BY ReplacedInKeyIs
  <2> HIDE DEF q
  <2>3. ReplacedInKey(Arr(q), to, from) = Arr([i \in DOMAIN q |-> ReplacedInList(q[i], to, from)])
    BY ReplacedInKeyIs
  <2>4. [i \in DOMAIN q |-> ReplacedInList(q[i], to, from)] = a
    BY <1>3, <2>1
  <2>5. QED BY <2>2, <2>3, <2>4
<1>4. QED BY <1>1, <1>2, <1>3

(* How the SCID is replaced in a method's value, member by member.                        *)
LEMMA ReplacedInMethodIs ==
  ASSUME NEW from, NEW to
  PROVE  /\ \A v : Leaf(v) => ReplacedInMethod(v, from, to) = ReplacedString(v, from, to)
         /\ \A o : ReplacedInMethod(Obj(o), from, to) = Obj([k \in DOMAIN o |-> ReplacedInKey(o[k], from, to)])
         /\ \A a : ReplacedInMethod(Arr(a), from, to) = Arr([i \in DOMAIN a |-> ReplacedInKey(a[i], from, to)])
BY DEF ReplacedInMethod, ReplacedIn, Leaf, IsString, IsBool, IsObject, IsArray, Obj, Arr

(* There and back it is what it was, when each of its members is.                         *)
LEMMA ReplacedInMethodBack ==
  ASSUME NEW from, NEW to
  PROVE  /\ \A v : Leaf(v) /\ Leaf(ReplacedString(v, from, to))
                     /\ ReplacedString(ReplacedString(v, from, to), to, from) = v
               => ReplacedInMethod(ReplacedInMethod(v, from, to), to, from) = v
         /\ \A o : o = [k \in DOMAIN o |-> o[k]]
                     /\ (\A k \in DOMAIN o : ReplacedInKey(ReplacedInKey(o[k], from, to), to, from) = o[k])
               => ReplacedInMethod(ReplacedInMethod(Obj(o), from, to), to, from) = Obj(o)
         /\ \A a : a = [i \in DOMAIN a |-> a[i]]
                     /\ (\A i \in DOMAIN a : ReplacedInKey(ReplacedInKey(a[i], from, to), to, from) = a[i])
               => ReplacedInMethod(ReplacedInMethod(Arr(a), from, to), to, from) = Arr(a)
<1>1. \A v : Leaf(v) /\ Leaf(ReplacedString(v, from, to))
               /\ ReplacedString(ReplacedString(v, from, to), to, from) = v
         => ReplacedInMethod(ReplacedInMethod(v, from, to), to, from) = v
  BY ReplacedInMethodIs
<1>2. ASSUME NEW o, o = [k \in DOMAIN o |-> o[k]],
             \A k \in DOMAIN o : ReplacedInKey(ReplacedInKey(o[k], from, to), to, from) = o[k]
      PROVE  ReplacedInMethod(ReplacedInMethod(Obj(o), from, to), to, from) = Obj(o)
  <2> DEFINE q == [k \in DOMAIN o |-> ReplacedInKey(o[k], from, to)]
  <2>1. DOMAIN q = DOMAIN o /\ \A k \in DOMAIN o : q[k] = ReplacedInKey(o[k], from, to)
    OBVIOUS
  <2>2. ReplacedInMethod(Obj(o), from, to) = Obj(q)
    BY ReplacedInMethodIs
  <2> HIDE DEF q
  <2>3. ReplacedInMethod(Obj(q), to, from) = Obj([k \in DOMAIN q |-> ReplacedInKey(q[k], to, from)])
    BY ReplacedInMethodIs
  <2>4. [k \in DOMAIN q |-> ReplacedInKey(q[k], to, from)] = o
    BY <1>2, <2>1
  <2>5. QED BY <2>2, <2>3, <2>4
<1>3. ASSUME NEW a, a = [i \in DOMAIN a |-> a[i]],
             \A i \in DOMAIN a : ReplacedInKey(ReplacedInKey(a[i], from, to), to, from) = a[i]
      PROVE  ReplacedInMethod(ReplacedInMethod(Arr(a), from, to), to, from) = Arr(a)
  <2> DEFINE q == [i \in DOMAIN a |-> ReplacedInKey(a[i], from, to)]
  <2>1. DOMAIN q = DOMAIN a /\ \A i \in DOMAIN a : q[i] = ReplacedInKey(a[i], from, to)
    OBVIOUS
  <2>2. ReplacedInMethod(Arr(a), from, to) = Arr(q)
    BY ReplacedInMethodIs
  <2> HIDE DEF q
  <2>3. ReplacedInMethod(Arr(q), to, from) = Arr([i \in DOMAIN q |-> ReplacedInKey(q[i], to, from)])
    BY ReplacedInMethodIs
  <2>4. [i \in DOMAIN q |-> ReplacedInKey(q[i], to, from)] = a
    BY <1>3, <2>1
  <2>5. QED BY <2>2, <2>3, <2>4
<1>4. QED BY <1>1, <1>2, <1>3

(* How the SCID is replaced in a list of methods, one by one.                             *)
LEMMA ReplacedInMethodsIs ==
  ASSUME NEW from, NEW to
  PROVE  /\ \A v : Leaf(v) => ReplacedInMethods(v, from, to) = ReplacedString(v, from, to)
         /\ \A o : ReplacedInMethods(Obj(o), from, to) = Obj([k \in DOMAIN o |-> ReplacedInMethod(o[k], from, to)])
         /\ \A a : ReplacedInMethods(Arr(a), from, to) = Arr([i \in DOMAIN a |-> ReplacedInMethod(a[i], from, to)])
BY DEF ReplacedInMethods, ReplacedIn, Leaf, IsString, IsBool, IsObject, IsArray, Obj, Arr

(* There and back it is what it was, when each of its methods is.                         *)
LEMMA ReplacedInMethodsBack ==
  ASSUME NEW from, NEW to
  PROVE  /\ \A v : Leaf(v) /\ Leaf(ReplacedString(v, from, to))
                     /\ ReplacedString(ReplacedString(v, from, to), to, from) = v
               => ReplacedInMethods(ReplacedInMethods(v, from, to), to, from) = v
         /\ \A o : o = [k \in DOMAIN o |-> o[k]]
                     /\ (\A k \in DOMAIN o : ReplacedInMethod(ReplacedInMethod(o[k], from, to), to, from) = o[k])
               => ReplacedInMethods(ReplacedInMethods(Obj(o), from, to), to, from) = Obj(o)
         /\ \A a : a = [i \in DOMAIN a |-> a[i]]
                     /\ (\A i \in DOMAIN a : ReplacedInMethod(ReplacedInMethod(a[i], from, to), to, from) = a[i])
               => ReplacedInMethods(ReplacedInMethods(Arr(a), from, to), to, from) = Arr(a)
<1>1. \A v : Leaf(v) /\ Leaf(ReplacedString(v, from, to))
               /\ ReplacedString(ReplacedString(v, from, to), to, from) = v
         => ReplacedInMethods(ReplacedInMethods(v, from, to), to, from) = v
  BY ReplacedInMethodsIs
<1>2. ASSUME NEW o, o = [k \in DOMAIN o |-> o[k]],
             \A k \in DOMAIN o : ReplacedInMethod(ReplacedInMethod(o[k], from, to), to, from) = o[k]
      PROVE  ReplacedInMethods(ReplacedInMethods(Obj(o), from, to), to, from) = Obj(o)
  <2> DEFINE q == [k \in DOMAIN o |-> ReplacedInMethod(o[k], from, to)]
  <2>1. DOMAIN q = DOMAIN o /\ \A k \in DOMAIN o : q[k] = ReplacedInMethod(o[k], from, to)
    OBVIOUS
  <2>2. ReplacedInMethods(Obj(o), from, to) = Obj(q)
    BY ReplacedInMethodsIs
  <2> HIDE DEF q
  <2>3. ReplacedInMethods(Obj(q), to, from) = Obj([k \in DOMAIN q |-> ReplacedInMethod(q[k], to, from)])
    BY ReplacedInMethodsIs
  <2>4. [k \in DOMAIN q |-> ReplacedInMethod(q[k], to, from)] = o
    BY <1>2, <2>1
  <2>5. QED BY <2>2, <2>3, <2>4
<1>3. ASSUME NEW a, a = [i \in DOMAIN a |-> a[i]],
             \A i \in DOMAIN a : ReplacedInMethod(ReplacedInMethod(a[i], from, to), to, from) = a[i]
      PROVE  ReplacedInMethods(ReplacedInMethods(Arr(a), from, to), to, from) = Arr(a)
  <2> DEFINE q == [i \in DOMAIN a |-> ReplacedInMethod(a[i], from, to)]
  <2>1. DOMAIN q = DOMAIN a /\ \A i \in DOMAIN a : q[i] = ReplacedInMethod(a[i], from, to)
    OBVIOUS
  <2>2. ReplacedInMethods(Arr(a), from, to) = Arr(q)
    BY ReplacedInMethodsIs
  <2> HIDE DEF q
  <2>3. ReplacedInMethods(Arr(q), to, from) = Arr([i \in DOMAIN q |-> ReplacedInMethod(q[i], to, from)])
    BY ReplacedInMethodsIs
  <2>4. [i \in DOMAIN q |-> ReplacedInMethod(q[i], to, from)] = a
    BY <1>3, <2>1
  <2>5. QED BY <2>2, <2>3, <2>4
<1>4. QED BY <1>1, <1>2, <1>3

(* How the SCID is replaced in a document, member by member.                              *)
LEMMA ReplacedInDocIs ==
  ASSUME NEW from, NEW to
  PROVE  /\ \A v : Leaf(v) => ReplacedInDoc(v, from, to) = ReplacedString(v, from, to)
         /\ \A o : ReplacedInDoc(Obj(o), from, to) = Obj([k \in DOMAIN o |-> ReplacedInMethods(o[k], from, to)])
         /\ \A a : ReplacedInDoc(Arr(a), from, to) = Arr([i \in DOMAIN a |-> ReplacedInMethods(a[i], from, to)])
BY DEF ReplacedInDoc, ReplacedIn, Leaf, IsString, IsBool, IsObject, IsArray, Obj, Arr

(* There and back it is what it was, when each of its members is.                         *)
LEMMA ReplacedInDocBack ==
  ASSUME NEW from, NEW to
  PROVE  /\ \A v : Leaf(v) /\ Leaf(ReplacedString(v, from, to))
                     /\ ReplacedString(ReplacedString(v, from, to), to, from) = v
               => ReplacedInDoc(ReplacedInDoc(v, from, to), to, from) = v
         /\ \A o : o = [k \in DOMAIN o |-> o[k]]
                     /\ (\A k \in DOMAIN o : ReplacedInMethods(ReplacedInMethods(o[k], from, to), to, from) = o[k])
               => ReplacedInDoc(ReplacedInDoc(Obj(o), from, to), to, from) = Obj(o)
         /\ \A a : a = [i \in DOMAIN a |-> a[i]]
                     /\ (\A i \in DOMAIN a : ReplacedInMethods(ReplacedInMethods(a[i], from, to), to, from) = a[i])
               => ReplacedInDoc(ReplacedInDoc(Arr(a), from, to), to, from) = Arr(a)
<1>1. \A v : Leaf(v) /\ Leaf(ReplacedString(v, from, to))
               /\ ReplacedString(ReplacedString(v, from, to), to, from) = v
         => ReplacedInDoc(ReplacedInDoc(v, from, to), to, from) = v
  BY ReplacedInDocIs
<1>2. ASSUME NEW o, o = [k \in DOMAIN o |-> o[k]],
             \A k \in DOMAIN o : ReplacedInMethods(ReplacedInMethods(o[k], from, to), to, from) = o[k]
      PROVE  ReplacedInDoc(ReplacedInDoc(Obj(o), from, to), to, from) = Obj(o)
  <2> DEFINE q == [k \in DOMAIN o |-> ReplacedInMethods(o[k], from, to)]
  <2>1. DOMAIN q = DOMAIN o /\ \A k \in DOMAIN o : q[k] = ReplacedInMethods(o[k], from, to)
    OBVIOUS
  <2>2. ReplacedInDoc(Obj(o), from, to) = Obj(q)
    BY ReplacedInDocIs
  <2> HIDE DEF q
  <2>3. ReplacedInDoc(Obj(q), to, from) = Obj([k \in DOMAIN q |-> ReplacedInMethods(q[k], to, from)])
    BY ReplacedInDocIs
  <2>4. [k \in DOMAIN q |-> ReplacedInMethods(q[k], to, from)] = o
    BY <1>2, <2>1
  <2>5. QED BY <2>2, <2>3, <2>4
<1>3. ASSUME NEW a, a = [i \in DOMAIN a |-> a[i]],
             \A i \in DOMAIN a : ReplacedInMethods(ReplacedInMethods(a[i], from, to), to, from) = a[i]
      PROVE  ReplacedInDoc(ReplacedInDoc(Arr(a), from, to), to, from) = Arr(a)
  <2> DEFINE q == [i \in DOMAIN a |-> ReplacedInMethods(a[i], from, to)]
  <2>1. DOMAIN q = DOMAIN a /\ \A i \in DOMAIN a : q[i] = ReplacedInMethods(a[i], from, to)
    OBVIOUS
  <2>2. ReplacedInDoc(Arr(a), from, to) = Arr(q)
    BY ReplacedInDocIs
  <2> HIDE DEF q
  <2>3. ReplacedInDoc(Arr(q), to, from) = Arr([i \in DOMAIN q |-> ReplacedInMethods(q[i], to, from)])
    BY ReplacedInDocIs
  <2>4. [i \in DOMAIN q |-> ReplacedInMethods(q[i], to, from)] = a
    BY <1>3, <2>1
  <2>5. QED BY <2>2, <2>3, <2>4
<1>4. QED BY <1>1, <1>2, <1>3

(* How the SCID is replaced in the state, where the document may be a member.             *)
LEMMA ReplacedInStateIs ==
  ASSUME NEW from, NEW to
  PROVE  /\ \A v : Leaf(v) => ReplacedInState(v, from, to) = ReplacedString(v, from, to)
         /\ \A o : ReplacedInState(Obj(o), from, to) = Obj([k \in DOMAIN o |-> ReplacedInDoc(o[k], from, to)])
         /\ \A a : ReplacedInState(Arr(a), from, to) = Arr([i \in DOMAIN a |-> ReplacedInDoc(a[i], from, to)])
BY DEF ReplacedInState, ReplacedIn, Leaf, IsString, IsBool, IsObject, IsArray, Obj, Arr

(* How the SCID is replaced in a whole entry, part by part.                               *)
LEMMA ReplacedIs ==
  ASSUME NEW from, NEW to
  PROVE  /\ \A v : Leaf(v) => Replaced(v, from, to) = ReplacedString(v, from, to)
         /\ \A o : Replaced(Obj(o), from, to) = Obj([k \in DOMAIN o |-> ReplacedInState(o[k], from, to)])
         /\ \A a : Replaced(Arr(a), from, to) = Arr([i \in DOMAIN a |-> ReplacedInState(a[i], from, to)])
BY DEF Replaced, ReplacedIn, Leaf, IsString, IsBool, IsObject, IsArray, Obj, Arr

(* The strings that hold the SCID: with it in the place of the placeholder, and back.     *)
LEMMA LeavesReplaced ==
  ASSUME NEW x
  PROVE  LET scid == HashLogEntry(x)
             R(v) == ReplacedString(v, Placeholder, scid)
             Q(v) == ReplacedString(v, scid, Placeholder) IN
         /\ R(Placeholder) = scid /\ Q(scid) = Placeholder /\ Leaf(Placeholder) /\ Leaf(scid)
         /\ R(DidString(Placeholder)) = DidString(scid) /\ Q(DidString(scid)) = DidString(Placeholder)
         /\ \A f : /\ R(DidUrl(Placeholder, f)) = DidUrl(scid, f)
                   /\ Q(DidUrl(scid, f)) = DidUrl(Placeholder, f)
                   /\ Leaf(DidUrl(Placeholder, f)) /\ Leaf(DidUrl(scid, f))
         /\ Leaf(DidString(Placeholder)) /\ Leaf(DidString(scid))
         /\ \A s : Text(s) # Placeholder => R(Text(s)) = Text(s)
         /\ \A s : Q(Text(s)) = Text(s) /\ Leaf(Text(s))
         /\ \A k : R(Multikey(k)) = Multikey(k) /\ Q(Multikey(k)) = Multikey(k) /\ Leaf(Multikey(k))
         /\ \A k, axis : /\ R(Coordinate(k, axis)) = Coordinate(k, axis)
                         /\ Q(Coordinate(k, axis)) = Coordinate(k, axis)
                         /\ Leaf(Coordinate(k, axis))
         /\ \A n : R(Time(n)) = Time(n) /\ Q(Time(n)) = Time(n) /\ Leaf(Time(n))
         /\ \A b : R(Bool(b)) = Bool(b) /\ Q(Bool(b)) = Bool(b) /\ Leaf(Bool(b))
<1> DEFINE scid == HashLogEntry(x)
           R(v) == ReplacedString(v, Placeholder, scid)
           Q(v) == ReplacedString(v, scid, Placeholder)
<1>1. DOMAIN scid = {"t", "of"} /\ scid.t = "string" /\ Leaf(scid)
  BY DEF HashLogEntry, Leaf, IsString
<1>2. DOMAIN Placeholder = {"t", "s"} /\ Placeholder.t = "string" /\ Leaf(Placeholder)
  BY DEF Placeholder, Text, Leaf, IsString
<1>3. Placeholder # scid
  BY <1>1, <1>2
<1> HIDE DEF scid
<1>4. ASSUME NEW v, "did" \notin DOMAIN v, v # scid
      PROVE  (v # Placeholder => R(v) = v) /\ Q(v) = v
  BY <1>4 DEF ReplacedString
<1>5. R(Placeholder) = scid /\ Q(scid) = Placeholder
  BY DEF ReplacedString
<1>6. ASSUME NEW y, NEW w
      PROVE  ReplacedString(DidString(y), y, w) = IF DidString(y) = y THEN w ELSE DidString(w)
  BY DEF ReplacedString, DidString, IsString
<1>7. ASSUME NEW y, NEW w, NEW f
      PROVE  ReplacedString(DidUrl(y, f), y, w) = IF DidUrl(y, f) = y THEN w ELSE DidUrl(w, f)
  BY DEF ReplacedString, DidUrl, IsString
<1>8. \A y : DOMAIN DidString(y) = {"t", "did"} /\ Leaf(DidString(y))
  BY DEF DidString, Leaf, IsString
<1>9. \A y, f : DOMAIN DidUrl(y, f) = {"t", "did", "fragment"} /\ Leaf(DidUrl(y, f))
  BY DEF DidUrl, Leaf, IsString
<1>10. \A y : DidString(y) # Placeholder /\ DidString(y) # scid
  BY <1>1, <1>2, <1>8
<1>11. \A y, f : DidUrl(y, f) # Placeholder /\ DidUrl(y, f) # scid
  BY <1>1, <1>2, <1>9
<1>12. R(DidString(Placeholder)) = DidString(scid) /\ Q(DidString(scid)) = DidString(Placeholder)
  BY <1>6, <1>10
<1>13. \A f : R(DidUrl(Placeholder, f)) = DidUrl(scid, f) /\ Q(DidUrl(scid, f)) = DidUrl(Placeholder, f)
  BY <1>7, <1>11
<1>14. \A s : "did" \notin DOMAIN Text(s) /\ Text(s) # scid /\ Leaf(Text(s))
  <2>1. \A s : DOMAIN Text(s) = {"t", "s"} /\ Leaf(Text(s))
    BY DEF Text, Leaf, IsString
  <2>2. QED BY <1>1, <2>1
<1>15. \A k : /\ "did" \notin DOMAIN Multikey(k) /\ Multikey(k) # scid /\ Leaf(Multikey(k))
              /\ Multikey(k) # Placeholder
  <2>1. \A k : DOMAIN Multikey(k) = {"t", "mk"} /\ Leaf(Multikey(k))
    BY DEF Multikey, Leaf, IsString
  <2>2. QED BY <1>1, <1>2, <2>1
<1>16. \A k, axis : /\ "did" \notin DOMAIN Coordinate(k, axis) /\ Coordinate(k, axis) # scid
                    /\ Leaf(Coordinate(k, axis)) /\ Coordinate(k, axis) # Placeholder
  <2>1. \A k, axis : DOMAIN Coordinate(k, axis) = {"t", "coord", "axis"} /\ Leaf(Coordinate(k, axis))
    BY DEF Coordinate, Leaf, IsString
  <2>2. QED BY <1>1, <1>2, <2>1
<1>17. \A n : /\ "did" \notin DOMAIN Time(n) /\ Time(n) # scid /\ Leaf(Time(n))
              /\ Time(n) # Placeholder
  <2>1. \A n : DOMAIN Time(n) = {"t", "time"} /\ Leaf(Time(n))
    BY DEF Time, Leaf, IsString
  <2>2. QED BY <1>1, <1>2, <2>1
<1>18. \A b : /\ "did" \notin DOMAIN Bool(b) /\ Bool(b) # scid /\ Leaf(Bool(b))
              /\ Bool(b) # Placeholder
  <2>1. \A b : DOMAIN Bool(b) = {"t", "b"} /\ Leaf(Bool(b))
    BY DEF Bool, Leaf, IsBool
  <2>2. QED BY <1>1, <1>2, <2>1
<1> HIDE DEF R, Q
<1>19. \A s : Q(Text(s)) = Text(s) /\ (Text(s) # Placeholder => R(Text(s)) = Text(s))
  BY <1>4, <1>14
<1>20. \A k : R(Multikey(k)) = Multikey(k) /\ Q(Multikey(k)) = Multikey(k)
  BY <1>4, <1>15
<1>21. \A k, axis : R(Coordinate(k, axis)) = Coordinate(k, axis) /\ Q(Coordinate(k, axis)) = Coordinate(k, axis)
  BY <1>4, <1>16
<1>22. \A n : R(Time(n)) = Time(n) /\ Q(Time(n)) = Time(n)
  BY <1>4, <1>17
<1>23. \A b : R(Bool(b)) = Bool(b) /\ Q(Bool(b)) = Bool(b)
  BY <1>4, <1>18
<1>24. QED BY <1>1, <1>2, <1>5, <1>8, <1>9, <1>12, <1>13, <1>14, <1>15, <1>16, <1>17, <1>18,
              <1>19, <1>20, <1>21, <1>22, <1>23 DEF R, Q, scid

Steady(v, scid) == /\ Leaf(v) /\ Leaf(ReplacedString(v, Placeholder, scid))
                   /\ ReplacedString(ReplacedString(v, Placeholder, scid), scid, Placeholder) = v

(* The values of a genesis entry that the replacement and its reverse bring back.         *)
LEMMA SteadyLeaves ==
  ASSUME NEW x
  PROVE  LET scid == HashLogEntry(x) IN
         /\ Steady(Placeholder, scid) /\ Steady(DidString(Placeholder), scid)
         /\ \A f : Steady(DidUrl(Placeholder, f), scid)
         /\ \A s : Text(s) # Placeholder => Steady(Text(s), scid)
         /\ \A k : Steady(Multikey(k), scid)
         /\ \A k, axis : Steady(Coordinate(k, axis), scid)
         /\ \A n : Steady(Time(n), scid)
         /\ \A b : Steady(Bool(b), scid)
<1> DEFINE scid == HashLogEntry(x)
<1>1. /\ Steady(Placeholder, scid) /\ Steady(DidString(Placeholder), scid)
      /\ \A f : Steady(DidUrl(Placeholder, f), scid)
  BY LeavesReplaced DEF Steady
<1>2. /\ \A s : Text(s) # Placeholder => Steady(Text(s), scid)
      /\ \A k : Steady(Multikey(k), scid)
      /\ \A k, axis : Steady(Coordinate(k, axis), scid)
  BY LeavesReplaced DEF Steady
<1>3. /\ \A n : Steady(Time(n), scid)
      /\ \A b : Steady(Bool(b), scid)
  BY LeavesReplaced DEF Steady
<1>4. QED BY <1>1, <1>2, <1>3

(* A text that is not the placeholder's is not the placeholder.                           *)
LEMMA OtherText == ASSUME NEW s, s # "{SCID}" PROVE Text(s) # Placeholder
<1>1. Text(s).s = s /\ Placeholder.s = "{SCID}"
  BY DEF Text, Placeholder
<1>2. QED BY <1>1

(* The members of a P-256 key that the core crate writes. *)
LEMMA P256Members ==
  ASSUME NEW k, NEW kid
  PROVE  LET o == JwkToJson(P256Jwk(k, kid)).o IN
         /\ JwkToJson(P256Jwk(k, kid)) = Obj(o) /\ o = [n \in DOMAIN o |-> o[n]]
         /\ \A n \in DOMAIN o : o[n] \in {Text("EC"), Text("P-256"), Coordinate(k, "x"),
                                          Coordinate(k, "y"), Text(kid)}
<1> DEFINE jwk == P256Jwk(k, kid)
           names == JwkMembers["EC"]
           a == "kty" :> Text("EC")
           b == [n \in {names[i] : i \in DOMAIN names} |->
                   jwk.req[CHOOSE i \in DOMAIN names : names[i] = n]]
           c == JwkOptionals(jwk.opt)
           o == JwkToJson(jwk).o
<1>1. /\ jwk.kty = "EC"
      /\ jwk.req = <<Text("P-256"), Coordinate(k, "x"), Coordinate(k, "y")>>
      /\ jwk.opt = <<None, None, None, Some(Text(kid))>>
  BY DEF P256Jwk
<1> HIDE DEF jwk
<1>2. JwkToJson(jwk) = Obj((a @@ b) @@ c)
  BY <1>1 DEF JwkToJson
<1>3. o = ((a @@ b) @@ c) /\ JwkToJson(jwk) = Obj(o)
  BY <1>2, ObjIs
<1>4. /\ DOMAIN names = 1 .. 3 /\ names[1] = "crv" /\ names[2] = "x" /\ names[3] = "y"
  <2>1. names = ECKey
    BY DEF JwkMembers, @@, :>
  <2>2. QED BY <2>1, SMTT(60) DEF ECKey
<1>5. \A n \in DOMAIN b : b[n] \in {Text("P-256"), Coordinate(k, "x"), Coordinate(k, "y")}
  <2>1. SUFFICES ASSUME NEW n \in {names[i] : i \in DOMAIN names}
                 PROVE  b[n] \in {Text("P-256"), Coordinate(k, "x"), Coordinate(k, "y")}
    OBVIOUS
  <2> DEFINE i == CHOOSE i \in DOMAIN names : names[i] = n
  <2>2. i \in 1 .. 3
    BY <1>4, <2>1
  <2> HIDE DEF i
  <2>3. b[n] = jwk.req[i]
    BY <2>1 DEF i
  <2>4. i = 1 \/ i = 2 \/ i = 3
    BY <2>2, SMTT(60)
  <2>5. QED BY <1>1, <2>3, <2>4
<1>6. \A n \in DOMAIN c : c[n] = Text(kid)
  <2>1. jwk.opt[1] = None /\ jwk.opt[2] = None /\ jwk.opt[3] = None /\ jwk.opt[4] = Some(Text(kid))
    BY <1>1
  <2>2. Some(Text(kid)) # None /\ Some(Text(kid))[1] = Text(kid)
    BY DEF Some, None
  <2>3. c = ((NoMembers @@ NoMembers) @@ NoMembers) @@ ("kid" :> Text(kid))
    BY <2>1, <2>2 DEF JwkOptionals, IfSome
  <2>4. QED BY <2>3 DEF @@, :>, NoMembers
<1>7. \A n \in DOMAIN a : a[n] = Text("EC")
  BY DEF :>
<1> HIDE DEF a, b, c, o
<1>8. o = [n \in DOMAIN o |-> o[n]] /\ \A n \in DOMAIN o : o[n] \in {Text("EC"), Text("P-256"), Coordinate(k, "x"),
                                          Coordinate(k, "y"), Text(kid)}
  <2> DEFINE V == {Text("EC"), Text("P-256"), Coordinate(k, "x"), Coordinate(k, "y"), Text(kid)}
  <2>1. /\ \A n \in DOMAIN a : a[n] \in V
        /\ \A n \in DOMAIN b : b[n] \in V
        /\ \A n \in DOMAIN c : c[n] \in V
    BY <1>5, <1>6, <1>7, SMTT(60)
  <2> HIDE DEF V
  <2>2. o = [n \in DOMAIN o |-> o[n]] /\ \A n \in DOMAIN o : o[n] \in V
    BY <1>3, <2>1 DEF @@
  <2>3. QED BY <2>2 DEF V
<1>9. QED BY <1>3, <1>8 DEF o, jwk

(* The key of a genesis entry, replaced there and back.                                   *)
LEMMA P256KeyBack ==
  ASSUME NEW x, NEW k, NEW kid, kid # "{SCID}"
  PROVE  LET scid == HashLogEntry(x)
             v == JwkToJson(P256Jwk(k, kid)) IN
         ReplacedInKey(ReplacedInKey(v, Placeholder, scid), scid, Placeholder) = v
<1> DEFINE scid == HashLogEntry(x)
           v == JwkToJson(P256Jwk(k, kid))
           o == v.o
<1>1. /\ v = Obj(o) /\ o = [n \in DOMAIN o |-> o[n]]
      /\ \A n \in DOMAIN o : o[n] \in {Text("EC"), Text("P-256"), Coordinate(k, "x"),
                                       Coordinate(k, "y"), Text(kid)}
  BY P256Members
<1>2. Text("EC") # Placeholder /\ Text("P-256") # Placeholder /\ Text(kid) # Placeholder
  BY OtherText
<1>3. \A w \in {Text("EC"), Text("P-256"), Coordinate(k, "x"), Coordinate(k, "y"), Text(kid)} :
        Steady(w, scid)
  BY <1>2, SteadyLeaves
<1> HIDE DEF o, v, scid
<1>4. \A n \in DOMAIN o : ReplacedInList(ReplacedInList(o[n], Placeholder, scid), scid, Placeholder)
                            = o[n]
  BY <1>1, <1>3, ReplacedInListBack DEF Steady
<1>5. ReplacedInKey(ReplacedInKey(Obj(o), Placeholder, scid), scid, Placeholder) = Obj(o)
  BY <1>1, <1>4, ReplacedInKeyBack
<1>6. QED BY <1>1, <1>5 DEF v, scid

(* A verification method of a genesis entry, replaced there and back.                     *)
LEMMA P256MethodBack ==
  ASSUME NEW x, NEW k, NEW name, name # "{SCID}"
  PROVE  LET scid == HashLogEntry(x)
             v == MethodToJson(P256Method(Placeholder, name, k)) IN
         ReplacedInMethod(ReplacedInMethod(v, Placeholder, scid), scid, Placeholder) = v
<1> DEFINE scid == HashLogEntry(x)
           vm == P256Method(Placeholder, name, k)
           v == MethodToJson(vm)
           o == v.o
           key == JwkToJson(P256Jwk(k, name))
           V == {DidUrl(Placeholder, name), Text("JsonWebKey2020"), DidString(Placeholder)}
<1>1. /\ vm.id = DidUrl(Placeholder, name) /\ vm.type = Text("JsonWebKey2020")
      /\ vm.controller = DidString(Placeholder) /\ vm.jwk # None /\ vm.jwk[1] = P256Jwk(k, name)
  BY DEF P256Method, Some, None
<1> HIDE DEF vm
<1>2. v = Obj((("id" :> DidUrl(Placeholder, name) @@ "type" :> Text("JsonWebKey2020"))
               @@ "controller" :> DidString(Placeholder)) @@ "publicKeyJwk" :> key)
  BY <1>1 DEF MethodToJson
<1>3. /\ v = Obj(o)
      /\ o = ((("id" :> DidUrl(Placeholder, name) @@ "type" :> Text("JsonWebKey2020"))
               @@ "controller" :> DidString(Placeholder)) @@ "publicKeyJwk" :> key)
  BY <1>2, ObjIs, ZenonT(60)
<1> HIDE DEF o, v, key
<1>4. /\ o = [n \in DOMAIN o |-> o[n]] /\ \A n \in DOMAIN o : o[n] \in V \/ o[n] = key
  BY <1>3 DEF @@, :>
<1>5. \A w \in V : Steady(w, scid)
  BY SteadyLeaves, OtherText
<1>6. ReplacedInKey(ReplacedInKey(key, Placeholder, scid), scid, Placeholder) = key
  BY P256KeyBack DEF key
<1> HIDE DEF scid, V
<1>7. \A n \in DOMAIN o : ReplacedInKey(ReplacedInKey(o[n], Placeholder, scid), scid, Placeholder)
                            = o[n]
  <2>1. \A w \in V : ReplacedInKey(ReplacedInKey(w, Placeholder, scid), scid, Placeholder) = w
    BY <1>5, ReplacedInKeyBack DEF Steady
  <2>2. QED BY <1>4, <1>6, <2>1
<1>8. ReplacedInMethod(ReplacedInMethod(Obj(o), Placeholder, scid), scid, Placeholder) = Obj(o)
  BY <1>4, <1>7, ReplacedInMethodBack
<1>9. QED BY <1>3, <1>8 DEF v, vm, scid

(* The document of a genesis entry, for any SCID. *)
LEMMA GenesisDoc ==
  ASSUME NEW scid, NEW a, NEW b
  PROVE  LET d == NewGenesis(scid, a, b) IN
         /\ d.context = Arr(<<Text("https://www.w3.org/ns/did/v1"),
                              Text("https://w3id.org/security/jwk/v1")>>)
         /\ d.id = DidString(scid) /\ d.also_known_as = << >> /\ d.controller = << >>
         /\ d.verification_method = <<P256Method(scid, "authentication-key-01", a),
                                      P256Method(scid, "assertion-key-01", b)>>
         /\ d.listed[1] = <<Reference(DidUrl(scid, "authentication-key-01"))>>
         /\ d.listed[2] = <<Reference(DidUrl(scid, "assertion-key-01"))>>
         /\ d.listed[3] = << >> /\ d.listed[4] = << >> /\ d.listed[5] = << >>
         /\ d.service = << >>
<1> DEFINE d == NewGenesis(scid, a, b)
<1>1. /\ d.context = Arr(<<Text("https://www.w3.org/ns/did/v1"),
                              Text("https://w3id.org/security/jwk/v1")>>)
      /\ d.id = DidString(scid) /\ d.also_known_as = << >> /\ d.controller = << >>
      /\ d.verification_method = <<P256Method(scid, "authentication-key-01", a),
                                   P256Method(scid, "assertion-key-01", b)>>
      /\ d.service = << >>
  BY DEF NewGenesis, NewDoc
<1>2. /\ d.listed[1] = <<Reference(DidUrl(scid, "authentication-key-01"))>>
      /\ d.listed[2] = <<Reference(DidUrl(scid, "assertion-key-01"))>>
  BY DEF NewGenesis, NewDoc
<1>3. d.listed[3] = << >> /\ d.listed[4] = << >> /\ d.listed[5] = << >>
  BY DEF NewGenesis, NewDoc
<1>4. QED BY <1>1, <1>2, <1>3

(* The members of a genesis document, for any SCID.                                       *)
LEMMA GenesisDocMembers ==
  ASSUME NEW scid, NEW a, NEW b
  PROVE  LET doc == DocToJson(NewGenesis(scid, a, b))
             o == doc.o IN
         /\ doc = Obj(o) /\ o = [k \in DOMAIN o |-> o[k]]
         /\ DOMAIN o = {"@context", "id", "verificationMethod", "authentication", "assertionMethod"}
         /\ o["@context"] = Arr(<<Text("https://www.w3.org/ns/did/v1"),
                                  Text("https://w3id.org/security/jwk/v1")>>)
         /\ o["id"] = DidString(scid)
         /\ o["verificationMethod"] = Arr(<<MethodToJson(P256Method(scid, "authentication-key-01", a)),
                                            MethodToJson(P256Method(scid, "assertion-key-01", b))>>)
         /\ o["authentication"] = Arr(<<DidUrl(scid, "authentication-key-01")>>)
         /\ o["assertionMethod"] = Arr(<<DidUrl(scid, "assertion-key-01")>>)
<1> DEFINE d == NewGenesis(scid, a, b)
           doc == DocToJson(d)
           o == doc.o
           K == {"@context", "id", "alsoKnownAs", "controller", "verificationMethod",
                 "authentication", "assertionMethod", "keyAgreement",
                 "capabilityInvocation", "capabilityDelegation", "service"}
           vm == d.verification_method
<1>1. /\ doc = Obj(o) /\ o = [k \in DOMAIN o |-> o[k]] /\ DOMAIN o \subseteq K
      /\ "@context" \in DOMAIN o /\ o["@context"] = d.context
      /\ "id" \in DOMAIN o /\ o["id"] = d.id
      /\ SameAt(IfAny("alsoKnownAs", d.also_known_as), o, "alsoKnownAs")
      /\ "controller" \in DOMAIN o <=> d.controller # << >>
      /\ SameAt(IfAny("verificationMethod", Mapped(vm, MethodToJson)), o, "verificationMethod")
      /\ \A q \in 1 .. 5 :
           SameAt(IfAny(Purposes[q], Mapped(d.listed[q], ListedToJson)), o, Purposes[q])
      /\ SameAt(IfAny("service", Mapped(d.service, ServiceToJson)), o, "service")
  <2> HIDE DEF d
  <2>1. QED BY DocMembers
<1>2. /\ d.context = Arr(<<Text("https://www.w3.org/ns/did/v1"),
                              Text("https://w3id.org/security/jwk/v1")>>)
      /\ d.id = DidString(scid) /\ d.also_known_as = << >> /\ d.controller = << >>
      /\ vm = <<P256Method(scid, "authentication-key-01", a), P256Method(scid, "assertion-key-01", b)>>
      /\ d.listed[1] = <<Reference(DidUrl(scid, "authentication-key-01"))>>
      /\ d.listed[2] = <<Reference(DidUrl(scid, "assertion-key-01"))>>
      /\ d.listed[3] = << >> /\ d.listed[4] = << >> /\ d.listed[5] = << >>
      /\ d.service = << >>
  BY GenesisDoc
<1> HIDE DEF d, vm, o
<1>3. /\ Purposes[1] = "authentication" /\ Purposes[2] = "assertionMethod"
      /\ Purposes[3] = "keyAgreement" /\ Purposes[4] = "capabilityInvocation"
      /\ Purposes[5] = "capabilityDelegation"
  BY DEF Purposes
<1>4. \A k : DOMAIN IfAny(k, << >>) = {}
  BY DEF IfAny, NoMembers
<1>5. Mapped(<< >>, ListedToJson) = << >> /\ Mapped(<< >>, ServiceToJson) = << >>
  BY DEF Mapped
<1>6. "alsoKnownAs" \notin DOMAIN o /\ "controller" \notin DOMAIN o /\ "service" \notin DOMAIN o
  BY <1>1, <1>2, <1>4, <1>5 DEF SameAt
<1>7. "keyAgreement" \notin DOMAIN o /\ "capabilityInvocation" \notin DOMAIN o
      /\ "capabilityDelegation" \notin DOMAIN o
  <2>1. \A q \in {3, 4, 5} : d.listed[q] = << >> /\ q \in 1 .. 5
    BY <1>2
  <2>2. \A q \in {3, 4, 5} : Purposes[q] \notin DOMAIN o
    BY <1>1, <1>4, <1>5, <2>1 DEF SameAt
  <2>3. QED BY <1>3, <2>2
<1>8. /\ "verificationMethod" \in DOMAIN o
      /\ o["verificationMethod"] = Arr(<<MethodToJson(P256Method(scid, "authentication-key-01", a)),
                                         MethodToJson(P256Method(scid, "assertion-key-01", b))>>)
  <2> DEFINE m1 == P256Method(scid, "authentication-key-01", a)
             m2 == P256Method(scid, "assertion-key-01", b)
             j == Mapped(vm, MethodToJson)
  <2> HIDE DEF m1, m2
  <2>1. j = <<MethodToJson(m1), MethodToJson(m2)>>
    BY <1>2 DEF Mapped, m1, m2
  <2>2. j # << >>
    BY <2>1
  <2> HIDE DEF j
  <2>3. "verificationMethod" \in DOMAIN o /\ o["verificationMethod"] = Arr(j)
    BY <1>1, <2>2 DEF SameAt, IfAny, :>, j
  <2>4. QED BY <2>1, <2>3 DEF m1, m2
<1>9. ASSUME NEW q \in {1, 2}, NEW u, d.listed[q] = <<Reference(u)>>
      PROVE  Purposes[q] \in DOMAIN o /\ o[Purposes[q]] = Arr(<<u>>)
  <2> DEFINE j == Mapped(d.listed[q], ListedToJson)
  <2>1. ListedToJson(Reference(u)) = u
    BY DEF ListedToJson, Reference
  <2>2. j = <<u>>
    BY <1>9, <2>1 DEF Mapped
  <2>3. j # << >>
    BY <2>2
  <2> HIDE DEF j
  <2>4. SameAt(IfAny(Purposes[q], j), o, Purposes[q])
    BY <1>1 DEF j
  <2>5. QED BY <2>2, <2>3, <2>4 DEF SameAt, IfAny, :>
<1>10. /\ "authentication" \in DOMAIN o /\ o["authentication"] = Arr(<<DidUrl(scid, "authentication-key-01")>>)
       /\ "assertionMethod" \in DOMAIN o /\ o["assertionMethod"] = Arr(<<DidUrl(scid, "assertion-key-01")>>)
  BY <1>2, <1>3, <1>9
<1>11. DOMAIN o = {"@context", "id", "verificationMethod", "authentication", "assertionMethod"}
  BY <1>1, <1>6, <1>7, <1>8, <1>10
<1>12. QED BY <1>1, <1>2, <1>8, <1>10, <1>11 DEF o, d

(* The genesis document, replaced there and back, and the id it has in between.           *)
LEMMA GenesisDocBack ==
  ASSUME NEW x, NEW a, NEW b
  PROVE  LET scid == HashLogEntry(x)
             doc == DocToJson(NewGenesis(Placeholder, a, b))
             new == ReplacedInDoc(doc, Placeholder, scid) IN
         /\ ReplacedInDoc(new, scid, Placeholder) = doc
         /\ HasString(new, "id") /\ new.o["id"] = DidString(scid)
<1> DEFINE scid == HashLogEntry(x)
           doc == DocToJson(NewGenesis(Placeholder, a, b))
           new == ReplacedInDoc(doc, Placeholder, scid)
           o == doc.o
           q == [k \in DOMAIN o |-> ReplacedInMethods(o[k], Placeholder, scid)]
           ctx == <<Text("https://www.w3.org/ns/did/v1"), Text("https://w3id.org/security/jwk/v1")>>
           vms == <<MethodToJson(P256Method(Placeholder, "authentication-key-01", a)),
                    MethodToJson(P256Method(Placeholder, "assertion-key-01", b))>>
           aut == <<DidUrl(Placeholder, "authentication-key-01")>>
           ass == <<DidUrl(Placeholder, "assertion-key-01")>>
<1>1. /\ doc = Obj(o) /\ o = [k \in DOMAIN o |-> o[k]]
      /\ DOMAIN o = {"@context", "id", "verificationMethod", "authentication", "assertionMethod"}
      /\ o["@context"] = Arr(ctx) /\ o["id"] = DidString(Placeholder)
      /\ o["verificationMethod"] = Arr(vms)
      /\ o["authentication"] = Arr(aut) /\ o["assertionMethod"] = Arr(ass)
  BY GenesisDocMembers
<1>2. /\ Steady(DidString(Placeholder), scid)
      /\ \A i \in DOMAIN ctx : Steady(ctx[i], scid)
      /\ \A i \in DOMAIN aut : Steady(aut[i], scid)
      /\ \A i \in DOMAIN ass : Steady(ass[i], scid)
  <2>1. Steady(DidString(Placeholder), scid)
    BY SteadyLeaves
  <2>2. Steady(Text("https://www.w3.org/ns/did/v1"), scid)
        /\ Steady(Text("https://w3id.org/security/jwk/v1"), scid)
    BY SteadyLeaves, OtherText
  <2>3. \A f : Steady(DidUrl(Placeholder, f), scid)
    BY SteadyLeaves
  <2> HIDE DEF scid
  <2>4. QED BY <2>1, <2>2, <2>3
<1>3. \A i \in DOMAIN vms : ReplacedInMethod(ReplacedInMethod(vms[i], Placeholder, scid), scid, Placeholder)
                              = vms[i]
  <2> DEFINE m1 == MethodToJson(P256Method(Placeholder, "authentication-key-01", a))
             m2 == MethodToJson(P256Method(Placeholder, "assertion-key-01", b))
  <2>1. ReplacedInMethod(ReplacedInMethod(m1, Placeholder, scid), scid, Placeholder) = m1
    BY P256MethodBack
  <2>2. ReplacedInMethod(ReplacedInMethod(m2, Placeholder, scid), scid, Placeholder) = m2
    BY P256MethodBack
  <2> HIDE DEF scid, m1, m2
  <2>3. vms = <<m1, m2>>
    BY DEF m1, m2
  <2>4. DOMAIN vms = {1, 2} /\ vms[1] = m1 /\ vms[2] = m2
    BY <2>3
  <2> HIDE DEF vms
  <2>5. QED BY <2>1, <2>2, <2>4
<1>4. /\ ctx = [i \in DOMAIN ctx |-> ctx[i]] /\ vms = [i \in DOMAIN vms |-> vms[i]]
      /\ aut = [i \in DOMAIN aut |-> aut[i]] /\ ass = [i \in DOMAIN ass |-> ass[i]]
  OBVIOUS
<1>5. scid = HashLogEntry(x)
  OBVIOUS
<1> HIDE DEF scid, ctx, vms, aut, ass, o, doc
<1>6. /\ \A i \in DOMAIN ctx : ReplacedInMethod(ReplacedInMethod(ctx[i], Placeholder, scid), scid, Placeholder) = ctx[i]
      /\ \A i \in DOMAIN aut : ReplacedInMethod(ReplacedInMethod(aut[i], Placeholder, scid), scid, Placeholder) = aut[i]
      /\ \A i \in DOMAIN ass : ReplacedInMethod(ReplacedInMethod(ass[i], Placeholder, scid), scid, Placeholder) = ass[i]
  BY <1>2, ReplacedInMethodBack DEF Steady
<1> DEFINE B(v) == ReplacedInMethods(ReplacedInMethods(v, Placeholder, scid), scid, Placeholder) = v
<1>7. B(Arr(ctx)) /\ B(Arr(vms)) /\ B(Arr(aut)) /\ B(Arr(ass))
  BY <1>3, <1>4, <1>6, ReplacedInMethodsBack
<1>8. B(DidString(Placeholder))
  BY <1>2, ReplacedInMethodsBack DEF Steady
<1>9. \A k \in DOMAIN o : B(o[k])
  <2> HIDE DEF B
  <2>1. QED BY <1>1, <1>7, <1>8
<1>10. ReplacedInDoc(new, scid, Placeholder) = doc
  BY <1>1, <1>9, ReplacedInDocBack
<1>11. new = Obj(q)
  BY <1>1, ReplacedInDocIs
<1>12. "id" \in DOMAIN q /\ q["id"] = DidString(scid)
  <2>1. ReplacedInMethods(DidString(Placeholder), Placeholder, scid)
          = ReplacedString(DidString(Placeholder), Placeholder, scid)
    BY <1>2, ReplacedInMethodsIs, ZenonT(60) DEF Steady
  <2>2. ReplacedString(DidString(Placeholder), Placeholder, scid) = DidString(scid)
    BY <1>5, LeavesReplaced
  <2>3. QED BY <1>1, <2>1, <2>2
<1> HIDE DEF q, new
<1>13. IsObject(new) /\ new.o = q
  BY <1>11, ObjIs
<1>14. HasString(new, "id") /\ new.o["id"] = DidString(scid)
  BY <1>12, <1>13 DEF HasString, Member, Some, None, IsString, DidString
<1>15. QED BY <1>10, <1>14 DEF new, doc, scid

-----------------------------------------------------------------------------
(* The inductive invariant, about any sequence of lines. *)

(* The entry of a line, the id of its document, its updateKeys and the key of its proof.  *)
EntryAt(lines, i) == EntryFromJson(lines[i]).v
IdOf(e) == e.state.json.o["id"]
KeysOf(e) == e.parameters.f["updateKeys"]
SignerOf(e) == e.proofs[1].o["verificationMethod"].didkey[1].mk

(* What every pipeline puts into an entry: its number, a full document with an id, one     *)
(* proof over that document, of the purpose that goes with the format.                    *)
WellFormed(e, fmt, n) ==
  /\ e.format = fmt
  /\ e.version_id = VersionId(n, e.version_id.hash)
  /\ e.version_time = Time(e.version_time.time) /\ e.version_time.time \in Int
  /\ e.state.of = "value" /\ HasString(e.state.json, "id")
  /\ KeysOf(e) # None => \A j \in DOMAIN KeysOf(e)[1].a :
                           KeysOf(e)[1].a[j] = Multikey(KeysOf(e)[1].a[j].mk)
  /\ e.proofs = <<SignedProof(SignerOf(e), e.state.json,
                    ProofConfig(SignerOf(e), Purpose(fmt), e.version_id, e.version_time))>>

(* The entry is about the DID, and its versionId hashes its predecessor's. *)
Chained(e, fmt, did, prev) ==
  /\ IdOf(e) = did
  /\ fmt = TDW03 => e.version_id.hash = HashLogEntry(HashingForm(e, prev))

(* What takes the place of the versionId while an entry is hashed: the SCID in the genesis *)
(* entry, and the versionId before it in a later one.                                     *)
PrevAt(lines, i) ==
  IF i = 1 THEN IdOf(EntryAt(lines, 1)).did ELSE EntryAt(lines, i - 1).version_id

(* A line is read as its entry, which is well formed, chained and later than the one before. *)
LineInv(lines, fmt, i) ==
  LET e == EntryAt(lines, i) IN
  /\ lines[i].t \in {"array", "object"} /\ EntryFromJson(lines[i]) = Ok(e)
  /\ WellFormed(e, fmt, i)
  /\ Chained(e, fmt, IdOf(EntryAt(lines, 1)), PrevAt(lines, i))
  /\ i > 1 => e.version_time.time > EntryAt(lines, i - 1).version_time.time

(* The i-th entry runs ahead of the backdated clock by no more than the entries before it. *)
Dated(lines, now, i) == EntryAt(lines, i).version_time.time <= now - Backdate + i - 1

(* The SCID is the hash of the genesis entry with the placeholder in its stead. *)
ScidMatches(e, fmt) ==
  /\ IdOf(e) = DidString(IdOf(e).did)
  /\ fmt = TDW03 =>
       HashLogEntry(Replaced(HashingForm(e, IdOf(e).did), IdOf(e).did, Placeholder)) = IdOf(e).did

(* The invariant of the written lines and of the file, whatever was damaged in the file.  *)
WireInv ==
  /\ format \in Formats /\ clock \in Int
  /\ \E S : written \in Seq(S)
  /\ \E S : file \in Seq(S)
  /\ \A i \in 1 .. Len(written) : LineInv(written, format, i) /\ Dated(written, clock, i)
  /\ written # << >> => ScidMatches(EntryAt(written, 1), format)

(* The values that the pipelines write as strings are strings that carry what they name.  *)
LEMMA StringsAreWritten ==
  /\ \A n : IsString(Time(n)) /\ Time(n).time = n
  /\ \A n, h : IsString(VersionId(n, h)) /\ VersionId(n, h).hash = h /\ VersionId(n, h).seq = n
  /\ \A k : IsString(Multikey(k)) /\ Multikey(k).mk = k /\ "mk" \in DOMAIN Multikey(k)
  /\ \A k : DidKeyUrl(k).didkey[1] = Multikey(k) /\ DidKeyUrl(k).didkey[2] = Multikey(k)
            /\ "didkey" \in DOMAIN DidKeyUrl(k)
  /\ \A s : IsString(Text(s)) /\ \A b : IsBool(Bool(b))
  /\ \A a : IsArray(Arr(a)) /\ Arr(a).a = a
BY DEF Time, IsString, VersionId, Multikey, DidKeyUrl, Text, IsBool, Bool, IsArray, Arr

(* The line that Finished makes of the four parts, and what is read of it. *)
LEMMA LineRead ==
  ASSUME NEW u, NEW fmt \in Formats, NEW vid, NEW time, NEW m, WrittenParams(m), NEW doc,
         NEW n, NEW k, Unsigned(u, fmt, vid, Time(time), Obj(m), Obj("value" :> doc))
  PROVE  LET id == VersionId(n, HashLogEntry(u))
             proof == SignedProof(k, doc, ProofConfig(k, Purpose(fmt), id, Time(time)))
             line == Finished(u, fmt, n, k, Purpose(fmt), time) IN
         /\ line.t \in {"array", "object"}
         /\ EntryFromJson(line)
              = Ok(EntryOf(fmt, id, Time(time), ParamsOf(fmt, m), [of |-> "value", json |-> doc],
                           <<proof>>))
<1> DEFINE tm == Time(time)
           params == Obj(m)
           p == ParamsOf(fmt, m)
           id == VersionId(n, HashLogEntry(u))
           config == ProofConfig(k, Purpose(fmt), id, Time(time))
           proof == SignedProof(k, doc, config)
           named == SetVersionId(u, id, fmt)
           line == Finished(u, fmt, n, k, Purpose(fmt), time)
           state == Obj("value" :> doc)
           s == [of |-> "value", json |-> doc]
<1>1. /\ IsString(id) /\ IsString(tm) /\ ParamsFromJson(params, fmt) = Ok(p)
      /\ Unsigned(u, fmt, vid, tm, params, Obj("value" :> doc))
  BY ParamsRead DEF VersionId, IsString, Time
<1>2. StateFromJson(state) = Ok(s)
  BY ValueRead
<1>3. state.o["value"] = doc
  BY ObjIs DEF :>
<1>4. line = AppendProof(named, SignedProof(k, DocumentOf(named, fmt), config), fmt)
  BY DEF Finished
<1> HIDE DEF id, config, state, line, named, tm, params, p
<1>5. CASE fmt = TDW03
  <2>1. u = Arr(<<vid, tm, params, state>>)
    BY <1>1, <1>5 DEF Unsigned, state
  <2>2. u.a = <<vid, tm, params, state>>
    BY <2>1 DEF Arr
  <2>3. named = Arr(<<id, tm, params, state>>)
    <3>1. named = Arr([u.a EXCEPT ![1] = id])
      BY <1>5 DEF SetVersionId, named
    <3>2. QED BY <2>2, <3>1
  <2>4. named.a = <<id, tm, params, state>>
    BY <2>3 DEF Arr
  <2>5. DocumentOf(named, fmt) = doc
    BY <1>3, <1>5, <2>4 DEF DocumentOf
  <2>6. line = Arr(Append(named.a, Arr(<<proof>>)))
    BY <1>4, <1>5, <2>5 DEF AppendProof
  <2>7. line = Arr(<<id, tm, params, state, Arr(<<proof>>)>>)
    BY <2>4, <2>6, FifthElement
  <2> DEFINE a == <<id, tm, params, state, Arr(<<proof>>)>>
  <2>8. line.t = "array" /\ line.a = a
    BY <2>7 DEF Arr
  <2>9. /\ Len(a) = 5 /\ a[1] = id /\ a[2] = tm /\ a[3] = params /\ a[4] = state
        /\ a[5] = Arr(<<proof>>)
    OBVIOUS
  <2> HIDE DEF a
  <2>10. EntryFromJson(line) = EntryFromArray(a)
    BY <2>8 DEF EntryFromJson, IsArray, IsObject
  <2>11. EntryFromArray(a) = EntryOfParts(TDW03, id, tm, params, state, Arr(<<proof>>))
    BY <2>9 DEF EntryFromArray
  <2>12. EntryFromArray(a) = Ok(EntryOf(TDW03, id, tm, p, s, <<proof>>))
    BY <1>1, <1>2, <1>5, <2>11, PartsRead
  <2>13. QED BY <1>5, <2>7, <2>8, <2>10, <2>12 DEF id, line, config, tm, p
<1>6. CASE fmt # TDW03
  <2> DEFINE o == u.o
             named_o == [o EXCEPT !["versionId"] = id]
             all == named_o @@ "proof" :> Arr(<<proof>>)
  <2>1. fmt = WebVH10
    BY <1>6 DEF Formats
  <2>2. /\ DOMAIN o = {"versionId", "versionTime", "parameters", "state"}
        /\ o["versionTime"] = tm /\ o["parameters"] = params /\ o["state"] = state
    BY <1>1, <1>6 DEF Unsigned, state
  <2>3. named = Obj(named_o) /\ named.o = named_o
    BY <1>6, ObjIs DEF SetVersionId, named
  <2>4. /\ DOMAIN named_o = {"versionId", "versionTime", "parameters", "state"}
        /\ named_o["versionId"] = id /\ named_o["versionTime"] = tm
        /\ named_o["parameters"] = params /\ named_o["state"] = state
    BY <2>2
  <2> HIDE DEF named_o
  <2>5. DocumentOf(named, fmt) = doc
    BY <1>3, <1>6, <2>3, <2>4 DEF DocumentOf
  <2>6. line = Obj(all) /\ line.o = all
    BY <1>4, <1>6, <2>3, <2>5, ObjIs, SMTT(60) DEF AppendProof
  <2>7. /\ DOMAIN all = {"versionId", "versionTime", "parameters", "state", "proof"}
        /\ all["versionId"] = id /\ all["versionTime"] = tm /\ all["parameters"] = params
        /\ all["state"] = state /\ all["proof"] = Arr(<<proof>>)
    BY <2>4 DEF @@, :>
  <2> HIDE DEF all
  <2>8. line.t = "object"
    BY <2>6 DEF Obj
  <2>9. EntryFromJson(line) = EntryFromObject(all)
    BY <2>6, <2>8 DEF EntryFromJson, IsArray, IsObject
  <2>10. EntryFromObject(all) = EntryOfParts(WebVH10, id, tm, params, state, Arr(<<proof>>))
    BY <2>7 DEF EntryFromObject
  <2>11. EntryFromObject(all) = Ok(EntryOf(WebVH10, id, tm, p, s, <<proof>>))
    BY <1>1, <1>2, <2>1, <2>10, PartsRead
  <2>12. QED BY <1>6, <2>1, <2>8, <2>9, <2>11 DEF id, line, config, tm, p
<1>7. QED BY <1>5, <1>6

(* The purpose of a proof is one of the two that are read.                                *)
LEMMA PurposeIs ==
  ASSUME NEW fmt PROVE Purpose(fmt) \in {"authentication", "assertionMethod"}
BY DEF Purpose

(* What is read of a line that a pipeline made of four parts. *)
LEMMA LineWritten ==
  ASSUME NEW u, NEW fmt \in Formats, NEW prev, NEW t \in Int, NEW m, WrittenParams(m),
         "scid" \in DOMAIN m /\ fmt = TDW03 => "portable" \in DOMAIN m,
         "updateKeys" \in DOMAIN m =>
           \A j \in DOMAIN m["updateKeys"].a :
             m["updateKeys"].a[j] = Multikey(m["updateKeys"].a[j].mk),
         NEW doc, HasString(doc, "id"), NEW n, NEW k,
         Unsigned(u, fmt, prev, Time(t), Obj(m), Obj("value" :> doc))
  PROVE  LET line == Finished(u, fmt, n, k, Purpose(fmt), t)
             e == EntryFromJson(line).v IN
         /\ line.t \in {"array", "object"} /\ EntryFromJson(line) = Ok(e)
         /\ WellFormed(e, fmt, n)
         /\ e.version_time.time = t /\ e.state.json = doc
         /\ fmt = TDW03 =>
              e.version_id.hash = HashLogEntry(HashingForm(e, prev)) /\ HashingForm(e, prev) = u
<1> DEFINE line == Finished(u, fmt, n, k, Purpose(fmt), t)
           e == EntryFromJson(line).v
           id == VersionId(n, HashLogEntry(u))
           config == ProofConfig(k, Purpose(fmt), id, Time(t))
           proof == SignedProof(k, doc, config)
           p == ParamsOf(fmt, m)
           state == [of |-> "value", json |-> doc]
<1>2. /\ line.t \in {"array", "object"}
      /\ EntryFromJson(line) = Ok(EntryOf(fmt, id, Time(t), p, state, <<proof>>))
  BY LineRead
<1> HIDE DEF line
<1>3. e = EntryOf(fmt, id, Time(t), p, state, <<proof>>) /\ EntryFromJson(line) = Ok(e)
  BY <1>2, OkIs
<1> HIDE DEF e
<1>4. /\ e.format = fmt /\ e.version_id = id /\ e.version_time = Time(t) /\ e.parameters = p
      /\ e.state = state /\ e.proofs = <<proof>>
  <2> HIDE DEF id, p, state, proof
  <2>1. QED BY <1>3 DEF EntryOf
<1>5. e.state.of = "value" /\ e.state.json = doc
  BY <1>4
<1>6. id.hash = HashLogEntry(u) /\ id = VersionId(n, id.hash) /\ IsString(id)
  BY StringsAreWritten
<1>7. SignerOf(e) = k
  <2>1. proof.o["verificationMethod"] = DidKeyUrl(k)
    <3> HIDE DEF id
    <3>1. QED BY <1>6, PurposeIs, ProofRead
  <2> HIDE DEF proof
  <2>2. e.proofs[1] = proof
    BY <1>4
  <2>3. QED BY <2>1, <2>2, StringsAreWritten DEF SignerOf
<1>8. KeysOf(e) = IF "updateKeys" \in DOMAIN m THEN Some(m["updateKeys"]) ELSE None
  <2>1. "updateKeys" \in ParamNames
    BY ParamOrderIs
  <2>2. QED BY <1>4, <2>1 DEF KeysOf, ParamsOf
<1>9. KeysOf(e) # None => \A j \in DOMAIN KeysOf(e)[1].a :
                           KeysOf(e)[1].a[j] = Multikey(KeysOf(e)[1].a[j].mk)
  BY <1>8 DEF Some
<1>10. WellFormed(e, fmt, n)
  <2>1. e.version_id = VersionId(n, e.version_id.hash)
    BY <1>4, <1>6
  <2>2. e.version_time = Time(e.version_time.time) /\ e.version_time.time \in Int
    BY <1>4, StringsAreWritten
  <2>3. e.proofs = <<SignedProof(SignerOf(e), e.state.json,
                    ProofConfig(SignerOf(e), Purpose(fmt), e.version_id, e.version_time))>>
    BY <1>4, <1>5, <1>7
  <2>4. QED BY <1>4, <1>5, <1>9, <2>1, <2>2, <2>3 DEF WellFormed
<1>11. e.version_time.time = t
  BY <1>4, StringsAreWritten
<1>12. ASSUME fmt = TDW03 PROVE HashingForm(e, prev) = u
  <2>1. ParamsToJson(p) = Obj(m)
    BY ParamsWritten
  <2>2. StateToJson(e.state) = Obj("value" :> doc)
    BY <1>5 DEF StateToJson
  <2>3. u = Arr(<<prev, Time(t), Obj(m), Obj("value" :> doc)>>)
    BY <1>12 DEF Unsigned
  <2>4. HashingForm(e, prev) = Arr(<<prev, e.version_time, ParamsToJson(e.parameters), StateToJson(e.state)>>)
    BY DEF HashingForm
  <2> HIDE DEF p
  <2>5. QED BY <1>4, <2>1, <2>2, <2>3, <2>4
<1>13. QED BY <1>2, <1>3, <1>4, <1>5, <1>6, <1>10, <1>11, <1>12 DEF line, e

(* The parameters that every log begins with. *)
GenesisParams(g, fmt, k) ==
  /\ WrittenParams(g) /\ {"method", "scid", "updateKeys"} \subseteq DOMAIN g
  /\ \E s \in {"did:tdw:0.3", "did:webvh:1.0"} : g["method"] = Text(s)
  /\ g["scid"] = Placeholder
  /\ g["updateKeys"] = Arr(<<Multikey(k)>>)
  /\ "portable" \in DOMAIN g => g["portable"] = Bool(FALSE)
  /\ "deactivated" \notin DOMAIN g
  /\ fmt = TDW03 => "portable" \in DOMAIN g

(* A list of one key is a list of strings.                                                *)
LEMMA OneKey == ASSUME NEW k PROVE IsStrings(Arr(<<Multikey(k)>>))
<1> DEFINE s == <<Multikey(k)>>
<1>1. \A i \in DOMAIN s : IsString(s[i])
  BY StringsAreWritten
<1> HIDE DEF s
<1>2. IsStrings(Arr(s))
  BY <1>1, StringsAreWritten DEF IsStrings
<1>3. QED BY <1>2 DEF s

(* The parameters of a genesis entry, as they are written.                                *)
LEMMA GenesisParamsWritten ==
  ASSUME NEW fmt \in Formats, NEW k
  PROVE  \E g : GenesisParams(g, fmt, k) /\ ParamsToJson(MinimalParams(fmt, k)) = Obj(g)
<1> DEFINE method == Text(IF fmt = TDW03 THEN "did:tdw:0.3" ELSE "did:webvh:1.0")
           uks == Arr(<<Multikey(k)>>)
           some == "method" :> method @@ "scid" :> Placeholder @@ "updateKeys" :> uks
           more == some @@ "portable" :> Bool(FALSE)
           g == IF fmt = TDW03 THEN more ELSE some
<1>1. IsString(method) /\ IsString(Placeholder) /\ IsStrings(uks) /\ IsBool(Bool(FALSE))
  <2>1. IsString(method) /\ IsString(Placeholder) /\ IsBool(Bool(FALSE))
    BY StringsAreWritten DEF Placeholder
  <2>2. QED BY <2>1, OneKey
<1>2. \E s \in {"did:tdw:0.3", "did:webvh:1.0"} : method = Text(s)
  BY DEF Formats
<1>3. MinimalParams(fmt, k) = NewParams(fmt, some)
  BY DEF MinimalParams
<1> HIDE DEF method, uks
<1>4. /\ DOMAIN some = {"method", "scid", "updateKeys"} /\ some = [n \in DOMAIN some |-> some[n]]
      /\ some["method"] = method /\ some["scid"] = Placeholder /\ some["updateKeys"] = uks
  BY SMTT(60) DEF @@, :>
<1> HIDE DEF some
<1>5. /\ DOMAIN more = {"method", "scid", "updateKeys", "portable"}
      /\ more = [n \in DOMAIN more |-> more[n]]
      /\ more["method"] = method /\ more["scid"] = Placeholder /\ more["updateKeys"] = uks
      /\ more["portable"] = Bool(FALSE)
  BY <1>4 DEF @@, :>
<1> HIDE DEF more
<1>6. WrittenParams(some) /\ WrittenParams(more)
  BY <1>1, <1>4, <1>5 DEF WrittenParams
<1>7. ParamsToJson(MinimalParams(fmt, k)) = Obj(g)
  <2>1. MinimalParams(fmt, k) = ParamsOf(fmt, some)
    BY <1>3, <1>6, NewParamsAre
  <2>2. CASE fmt = TDW03
    BY <1>4, <1>6, <2>1, <2>2, ParamsWritten DEF more
  <2>3. CASE fmt # TDW03
    BY <1>6, <2>1, <2>3, ParamsWritten
  <2>4. QED BY <2>2, <2>3
<1>8. GenesisParams(g, fmt, k)
  BY <1>2, <1>4, <1>5, <1>6 DEF GenesisParams, uks
<1>9. QED BY <1>7, <1>8

(* The parameters with the SCID in the place of the placeholder, and back. *)
LEMMA GenesisParamsBack ==
  ASSUME NEW x, NEW fmt, NEW k, NEW g, GenesisParams(g, fmt, k)
  PROVE  LET scid == HashLogEntry(x)
             r == [n \in DOMAIN g |-> ReplacedInDoc(g[n], Placeholder, scid)] IN
         /\ WrittenParams(r) /\ "updateKeys" \in DOMAIN r /\ r["updateKeys"] = Arr(<<Multikey(k)>>)
         /\ ReplacedInState(Obj(g), Placeholder, scid) = Obj(r)
         /\ ReplacedInState(Obj(r), scid, Placeholder) = Obj(g)
<1> DEFINE scid == HashLogEntry(x)
           R(v) == ReplacedInDoc(v, Placeholder, scid)
           Q(v) == ReplacedInDoc(v, scid, Placeholder)
           r == [n \in DOMAIN g |-> R(g[n])]
           uks == <<Multikey(k)>>
<1>1. g = [n \in DOMAIN g |-> g[n]]
  BY DEF GenesisParams, WrittenParams
<1>2. Leaf(Placeholder) /\ Leaf(scid) /\ R(Placeholder) = scid /\ Q(scid) = Placeholder
  <2>1. /\ Leaf(Placeholder) /\ Leaf(scid) /\ ReplacedString(Placeholder, Placeholder, scid) = scid
        /\ ReplacedString(scid, scid, Placeholder) = Placeholder
    BY LeavesReplaced
  <2> HIDE DEF scid
  <2>2. QED BY <2>1, ReplacedInDocIs
<1>3. ASSUME NEW s \in {"did:tdw:0.3", "did:webvh:1.0"}
      PROVE  R(Text(s)) = Text(s) /\ Q(Text(s)) = Text(s)
  <2>1. Text(s) # Placeholder
    BY OtherText
  <2>2. /\ Leaf(Text(s)) /\ ReplacedString(Text(s), Placeholder, scid) = Text(s)
        /\ ReplacedString(Text(s), scid, Placeholder) = Text(s)
    BY <2>1, LeavesReplaced
  <2> HIDE DEF scid
  <2>3. QED BY <2>2, ReplacedInDocIs
<1>4. R(Bool(FALSE)) = Bool(FALSE) /\ Q(Bool(FALSE)) = Bool(FALSE)
  <2>1. /\ Leaf(Bool(FALSE)) /\ ReplacedString(Bool(FALSE), Placeholder, scid) = Bool(FALSE)
        /\ ReplacedString(Bool(FALSE), scid, Placeholder) = Bool(FALSE)
    BY LeavesReplaced
  <2> HIDE DEF scid
  <2>2. QED BY <2>1, ReplacedInDocIs
<1>5. R(Arr(uks)) = Arr(uks) /\ Q(Arr(uks)) = Arr(uks)
  <2>1. /\ Leaf(Multikey(k)) /\ ReplacedString(Multikey(k), Placeholder, scid) = Multikey(k)
        /\ ReplacedString(Multikey(k), scid, Placeholder) = Multikey(k)
    BY LeavesReplaced
  <2> HIDE DEF scid
  <2>2. /\ ReplacedInMethods(Multikey(k), Placeholder, scid) = Multikey(k)
        /\ ReplacedInMethods(Multikey(k), scid, Placeholder) = Multikey(k)
    BY <2>1, ReplacedInMethodsIs
  <2>3. /\ R(Arr(uks)) = Arr([i \in DOMAIN uks |-> ReplacedInMethods(uks[i], Placeholder, scid)])
        /\ Q(Arr(uks)) = Arr([i \in DOMAIN uks |-> ReplacedInMethods(uks[i], scid, Placeholder)])
    <3> HIDE DEF uks
    <3>1. QED BY ReplacedInDocIs
  <2>4. /\ [i \in DOMAIN uks |-> ReplacedInMethods(uks[i], Placeholder, scid)] = uks
        /\ [i \in DOMAIN uks |-> ReplacedInMethods(uks[i], scid, Placeholder)] = uks
    BY <2>2
  <2>5. QED BY <2>3, <2>4
<1> HIDE DEF R, Q, scid
<1>6. PICK s \in {"did:tdw:0.3", "did:webvh:1.0"} : g["method"] = Text(s)
  BY DEF GenesisParams
<1>7. /\ DOMAIN r = DOMAIN g /\ {"method", "scid", "updateKeys"} \subseteq DOMAIN r
      /\ DOMAIN r \subseteq {"method", "scid", "updateKeys", "portable"}
  BY DEF GenesisParams, WrittenParams
<1>8. /\ r["method"] = Text(s) /\ r["scid"] = scid /\ r["updateKeys"] = Arr(uks)
      /\ "portable" \in DOMAIN r => r["portable"] = Bool(FALSE)
  BY <1>2, <1>3, <1>4, <1>5, <1>6, <1>7 DEF GenesisParams
<1>9. \A n \in DOMAIN g : Q(r[n]) = g[n]
  BY <1>2, <1>3, <1>4, <1>5, <1>6, <1>7, <1>8 DEF GenesisParams
<1>10. r = [n \in DOMAIN r |-> r[n]]
  OBVIOUS
<1> HIDE DEF r
<1>11. WrittenParams(r)
  <2>1. IsString(scid)
    BY DEF scid, HashLogEntry, IsString
  <2>2. IsString(Text(s)) /\ IsStrings(Arr(uks)) /\ IsBool(Bool(FALSE))
    BY StringsAreWritten, OneKey
  <2>3. QED BY <1>7, <1>8, <1>10, <2>1, <2>2 DEF WrittenParams
<1>12. ReplacedInState(Obj(g), Placeholder, scid) = Obj(r)
  BY ReplacedInStateIs DEF r, R
<1>13. ReplacedInState(Obj(r), scid, Placeholder) = Obj(g)
  <2>1. ReplacedInState(Obj(r), scid, Placeholder) = Obj([n \in DOMAIN r |-> Q(r[n])])
    BY ReplacedInStateIs DEF Q
  <2>2. [n \in DOMAIN r |-> Q(r[n])] = g
    BY <1>1, <1>7, <1>9
  <2>3. QED BY <2>1, <2>2
<1>14. QED BY <1>7, <1>8, <1>11, <1>12, <1>13 DEF r, R, scid

(* The four parts of a genesis entry, the placeholder replaced there and back. *)
LEMMA GenesisPartsReplaced ==
  ASSUME NEW u, NEW fmt \in Formats, NEW g, NEW k, GenesisParams(g, fmt, k), NEW a, NEW b, NEW now,
         Unsigned(u, fmt, Placeholder, Time(now), Obj(g),
                  Obj("value" :> DocToJson(NewGenesis(Placeholder, a, b)))),
         NEW x
  PROVE  LET scid == HashLogEntry(x)
             new == Replaced(u, Placeholder, scid)
             doc == ReplacedInDoc(DocToJson(NewGenesis(Placeholder, a, b)), Placeholder, scid)
             r == [n \in DOMAIN g |-> ReplacedInDoc(g[n], Placeholder, scid)] IN
         /\ Unsigned(new, fmt, scid, Time(now), Obj(r), Obj("value" :> doc))
         /\ fmt = TDW03 => Replaced(new, scid, Placeholder) = u
<1> DEFINE scid == HashLogEntry(x)
           tm == Time(now)
           new == Replaced(u, Placeholder, scid)
           old == DocToJson(NewGenesis(Placeholder, a, b))
           doc == ReplacedInDoc(old, Placeholder, scid)
           r == [n \in DOMAIN g |-> ReplacedInDoc(g[n], Placeholder, scid)]
           R(v) == ReplacedInState(v, Placeholder, scid)
           Q(v) == ReplacedInState(v, scid, Placeholder)
           params == Obj(g)
           state == Obj("value" :> old)
           newparams == Obj(r)
           newstate == Obj("value" :> doc)
<1>1. R(Placeholder) = scid /\ Q(scid) = Placeholder /\ R(tm) = tm /\ Q(tm) = tm
  <2>1. /\ Leaf(Placeholder) /\ Leaf(scid) /\ ReplacedString(Placeholder, Placeholder, scid) = scid
        /\ ReplacedString(scid, scid, Placeholder) = Placeholder
        /\ Leaf(tm) /\ ReplacedString(tm, Placeholder, scid) = tm
        /\ ReplacedString(tm, scid, Placeholder) = tm
    BY LeavesReplaced
  <2> HIDE DEF scid, tm
  <2>2. QED BY <2>1, ReplacedInStateIs
<1>2. R(params) = newparams /\ Q(newparams) = params
  <2>1. GenesisParams(g, fmt, k)
    OBVIOUS
  <2>2. LET scid2 == HashLogEntry(x)
            r2 == [n \in DOMAIN g |-> ReplacedInDoc(g[n], Placeholder, scid2)] IN
        /\ WrittenParams(r2) /\ "updateKeys" \in DOMAIN r2 /\ r2["updateKeys"] = Arr(<<Multikey(k)>>)
        /\ ReplacedInState(Obj(g), Placeholder, scid2) = Obj(r2)
        /\ ReplacedInState(Obj(r2), scid2, Placeholder) = Obj(g)
    BY <2>1, GenesisParamsBack
  <2>3. QED BY <2>2
<1>3. ReplacedInDoc(doc, scid, Placeholder) = old
  BY GenesisDocBack
<1>4. Unsigned(u, fmt, Placeholder, tm, params, state)
  OBVIOUS
<1> HIDE DEF scid, tm, old, doc, r, params, newparams
<1>5. ASSUME NEW v, NEW w, NEW from, NEW to, ReplacedInDoc(v, from, to) = w
      PROVE  ReplacedInState(Obj("value" :> v), from, to) = Obj("value" :> w)
  <2> DEFINE o == "value" :> v
  <2>1. ReplacedInState(Obj(o), from, to) = Obj([n \in DOMAIN o |-> ReplacedInDoc(o[n], from, to)])
    <3> HIDE DEF o
    <3>1. QED BY ReplacedInStateIs
  <2>2. [n \in DOMAIN o |-> ReplacedInDoc(o[n], from, to)] = "value" :> w
    BY <1>5 DEF :>
  <2>3. QED BY <2>1, <2>2
<1>6. R(state) = newstate /\ Q(newstate) = state
  BY <1>3, <1>5 DEF doc
<1> HIDE DEF state, newstate, R, Q
<1>7. CASE fmt = TDW03
  <2> DEFINE s == <<Placeholder, tm, params, state>>
             t == <<scid, tm, newparams, newstate>>
  <2>1. u = Arr(s)
    BY <1>4, <1>7 DEF Unsigned
  <2>2. [i \in DOMAIN s |-> R(s[i])] = t /\ [i \in DOMAIN t |-> Q(t[i])] = s
    BY <1>1, <1>2, <1>6
  <2> HIDE DEF s, t
  <2>3. new = Arr(t)
    <3>1. new = Arr([i \in DOMAIN s |-> R(s[i])])
      BY <2>1, ReplacedIs DEF R
    <3>2. QED BY <2>2, <3>1
  <2>4. Replaced(new, scid, Placeholder) = Arr(s)
    <3>1. Replaced(Arr(t), scid, Placeholder) = Arr([i \in DOMAIN t |-> Q(t[i])])
      BY ReplacedIs DEF Q
    <3>2. QED BY <2>2, <2>3, <3>1
  <2>5. Unsigned(new, fmt, scid, tm, newparams, newstate)
    BY <1>7, <2>3 DEF Unsigned, t
  <2>6. QED BY <2>1, <2>4, <2>5 DEF scid, tm, newparams, newstate, doc, old, r
<1>8. CASE fmt # TDW03
  <2> DEFINE o == u.o
             p == [n \in DOMAIN o |-> R(o[n])]
  <2>1. /\ u = Obj(o) /\ DOMAIN o = {"versionId", "versionTime", "parameters", "state"}
        /\ o["versionId"] = Placeholder /\ o["versionTime"] = tm
        /\ o["parameters"] = params /\ o["state"] = state
    BY <1>4, <1>8 DEF Unsigned
  <2> HIDE DEF o
  <2>2. new = Obj(p)
    BY <2>1, ReplacedIs DEF R
  <2>3. /\ DOMAIN p = {"versionId", "versionTime", "parameters", "state"}
        /\ p["versionId"] = scid /\ p["versionTime"] = tm
        /\ p["parameters"] = newparams /\ p["state"] = newstate
        /\ p = [n \in DOMAIN p |-> p[n]]
    BY <1>1, <1>2, <1>6, <2>1
  <2> HIDE DEF p, new
  <2>4. new.o = p
    BY <2>2, ObjIs
  <2>5. Unsigned(new, fmt, scid, tm, newparams, newstate)
    BY <1>8, <2>2, <2>3, <2>4 DEF Unsigned
  <2>6. QED BY <1>8, <2>5 DEF scid, tm, newparams, newstate, doc, old, r, new
<1>9. QED BY <1>7, <1>8

(* A genesis line is read as the entry it is: well formed, dated now, chained to its      *)
(* SCID.                                                                                  *)
LEMMA GenesisWritten ==
  ASSUME NEW fmt \in Formats, NEW ks, NEW now \in Int
  PROVE  LET line == GenesisLine(fmt, ks, now)
             e == EntryFromJson(line).v IN
         /\ line.t \in {"array", "object"} /\ EntryFromJson(line) = Ok(e)
         /\ WellFormed(e, fmt, 1) /\ e.version_time.time = now
         /\ Chained(e, fmt, IdOf(e), IdOf(e).did)
         /\ ScidMatches(e, fmt)
<1> DEFINE k == ks.authorized
           par == MinimalParams(fmt, k)
           old == DocToJson(NewGenesis(Placeholder, ks.authentication, ks.assertion))
           prelim == StripProofSlot(EntryToJson(GenesisTemplate(fmt, ks, now)), fmt)
           scid == HashLogEntry(prelim)
           u == Replaced(prelim, Placeholder, scid)
           doc == ReplacedInDoc(old, Placeholder, scid)
           line == GenesisLine(fmt, ks, now)
           e == EntryFromJson(line).v
<1>1. PICK g : GenesisParams(g, fmt, k) /\ ParamsToJson(par) = Obj(g)
  BY GenesisParamsWritten
<1> DEFINE r == [n \in DOMAIN g |-> ReplacedInDoc(g[n], Placeholder, scid)]
<1>2. Unsigned(prelim, fmt, Placeholder, Time(now), Obj(g), Obj("value" :> old))
  <2> DEFINE t == GenesisTemplate(fmt, ks, now)
             tm == Time(now)
  <2>1. t = NewEntry(fmt, Placeholder, tm, par, [of |-> "value", json |-> old])
    BY DEF GenesisTemplate, ValueState
  <2> HIDE DEF t, tm, par, old
  <2>2. Unsigned(StripProofSlot(EntryToJson(t), fmt), fmt, Placeholder, tm,
                  ParamsToJson(par), Obj("value" :> old))
    BY <2>1, Stripped
  <2>3. QED BY <1>1, <2>2 DEF t, tm
<1> HIDE DEF prelim, par
<1>3. /\ Unsigned(u, fmt, scid, Time(now), Obj(r), Obj("value" :> doc))
      /\ fmt = TDW03 => Replaced(u, scid, Placeholder) = prelim
  BY <1>1, <1>2, GenesisPartsReplaced
<1>4. WrittenParams(r) /\ "updateKeys" \in DOMAIN r /\ r["updateKeys"] = Arr(<<Multikey(k)>>)
  BY <1>1, GenesisParamsBack
<1>5. "scid" \in DOMAIN r /\ fmt = TDW03 => "portable" \in DOMAIN r
  BY <1>1 DEF GenesisParams
<1>6. HasString(doc, "id") /\ doc.o["id"] = DidString(scid)
  BY GenesisDocBack
<1>7. scid = HashLogEntry(prelim)
  OBVIOUS
<1>8. line = Finished(u, fmt, 1, k, Purpose(fmt), now)
  BY DEF GenesisLine, prelim
<1> HIDE DEF scid, u, doc, r, line, k, old
<1>9. \A j \in DOMAIN r["updateKeys"].a : r["updateKeys"].a[j] = Multikey(r["updateKeys"].a[j].mk)
  <2>1. r["updateKeys"].a = <<Multikey(k)>> /\ Multikey(k).mk = k
    BY <1>4, StringsAreWritten
  <2>2. QED BY <2>1
<1> HIDE DEF e
<1>10. /\ line.t \in {"array", "object"} /\ EntryFromJson(line) = Ok(e)
       /\ WellFormed(e, fmt, 1) /\ e.version_time.time = now /\ e.state.json = doc
       /\ fmt = TDW03 =>
            e.version_id.hash = HashLogEntry(HashingForm(e, scid)) /\ HashingForm(e, scid) = u
  <2> DEFINE f == EntryFromJson(Finished(u, fmt, 1, k, Purpose(fmt), now)).v
             fin == Finished(u, fmt, 1, k, Purpose(fmt), now)
  <2>1. /\ fin.t \in {"array", "object"} /\ EntryFromJson(fin) = Ok(f)
        /\ WellFormed(f, fmt, 1) /\ f.version_time.time = now /\ f.state.json = doc
        /\ fmt = TDW03 =>
             f.version_id.hash = HashLogEntry(HashingForm(f, scid)) /\ HashingForm(f, scid) = u
    BY <1>3, <1>4, <1>5, <1>6, <1>9, LineWritten
  <2>2. QED BY <1>8, <2>1 DEF e
<1>11. IdOf(e) = DidString(scid) /\ IdOf(e).did = scid
  BY <1>6, <1>10 DEF IdOf, DidString
<1>12. Chained(e, fmt, IdOf(e), IdOf(e).did)
  BY <1>10, <1>11 DEF Chained
<1>13. ScidMatches(e, fmt)
  BY <1>3, <1>7, <1>10, <1>11 DEF ScidMatches
<1>14. QED BY <1>10, <1>12, <1>13 DEF e, line

(* A file whose lines other than the blank ones are the written ones is read as their     *)
(* entries.                                                                               *)
LEMMA LinesRead ==
  ASSUME NEW S, NEW w \in Seq(S), NEW fmt, \A i \in 1 .. Len(w) : LineInv(w, fmt, i),
         NEW lines, Dropping(lines, Blank) = w
  PROVE  LogFromLines(lines) = Ok([i \in 1 .. Len(w) |-> EntryAt(w, i)])
<1> DEFINE rs == [i \in DOMAIN w |-> IF w[i] = Garbage THEN Err("InvalidFormat", "line")
                                     ELSE EntryFromJson(w[i])]
<1>1. DOMAIN w = 1 .. Len(w) /\ Len(w) \in Nat
  OBVIOUS
<1>2. LogFromLines(lines) = Collect(rs)
  BY DEF LogFromLines
<1>3. Garbage.t = "garbage"
  BY DEF Garbage
<1>4. \A i \in 1 .. Len(w) : rs[i] = Ok(EntryAt(w, i))
  BY <1>1, <1>3 DEF LineInv
<1>5. DOMAIN rs = 1 .. Len(w)
  BY <1>1
<1> HIDE DEF rs
<1>6. \A i \in DOMAIN rs : rs[i].ok
  BY <1>4, <1>5, OkIs
<1>7. [i \in DOMAIN rs |-> rs[i].v] = [i \in 1 .. Len(w) |-> EntryAt(w, i)]
  BY <1>4, <1>5, OkIs
<1>8. QED BY <1>2, <1>6, <1>7, Collected

(* A written log as the next command reads it. *)
LEMMA LogIs ==
  ASSUME WireInv, Intact
  PROVE  /\ Log = [i \in 1 .. Len(written) |-> EntryAt(written, i)]
         /\ LogFromLines(file) = Ok(Log)
         /\ Len(Log) = Len(written) /\ DOMAIN Log = 1 .. Len(written) /\ Len(written) \in Nat
         /\ written # << >> => Len(written) \in Nat \ {0}
<1>1. PICK S : written \in Seq(S)
  BY DEF WireInv
<1>2. Dropping(file, Blank) = written
  BY DEF Intact, RawLines
<1> DEFINE es == [i \in 1 .. Len(written) |-> EntryAt(written, i)]
<1>3. LogFromLines(file) = Ok(es)
  BY <1>1, <1>2, LinesRead DEF WireInv
<1>4. Log = es
  <2> HIDE DEF es
  <2>1. QED BY <1>3, OkIs DEF Log
<1>5. Len(written) \in Nat /\ (written # << >> => Len(written) \in Nat \ {0})
  BY <1>1
<1>6. es \in Seq({EntryAt(written, i) : i \in 1 .. Len(written)}) /\ DOMAIN es = 1 .. Len(written)
  BY <1>5
<1>7. Len(es) = Len(written)
  <2> HIDE DEF es
  <2>1. DOMAIN es = 1 .. Len(es) /\ Len(es) \in Nat
    BY <1>6
  <2>2. QED BY <1>5, <1>6, <2>1
<1>8. QED BY <1>3, <1>4, <1>5, <1>6, <1>7

(* The newest full document is the last entry's, and all have one id. *)
LEMMA DidIs ==
  ASSUME WireInv, Intact, written # << >>
  PROVE  /\ Did = IdOf(EntryAt(written, 1)) /\ Did = DidString(Did.did)
         /\ CurrentDid(Log) # None
         /\ Last = EntryAt(written, Len(written))
<1> DEFINE n == Len(written)
           ids == {i \in DOMAIN Log : /\ Log[i].state.of = "value"
                                      /\ HasString(Log[i].state.json, "id")}
           top == CHOOSE i \in ids : \A j \in ids : j <= i
<1>1. /\ Log = [i \in 1 .. n |-> EntryAt(written, i)] /\ DOMAIN Log = 1 .. n /\ Len(Log) = n
      /\ n \in Nat \ {0}
  BY LogIs
<1>2. \A i \in 1 .. n : LineInv(written, format, i)
  BY DEF WireInv
<1> HIDE DEF n
<1>3. ids = 1 .. n
  BY <1>1, <1>2 DEF LineInv, WellFormed
<1>4. \E i \in ids : \A j \in ids : j <= i
  <2> HIDE DEF ids
  <2>1. n \in ids /\ \A j \in ids : j <= n
    BY <1>1, <1>3
  <2>2. QED BY <2>1
<1>5. top \in 1 .. n
  BY <1>3, <1>4, SMTT(60)
<1>6. CurrentDid(Log) = Some(Log[top].state.json.o["id"])
  <2>1. ids # {}
    BY <1>4
  <2>2. QED BY <2>1 DEF CurrentDid
<1> HIDE DEF ids, top
<1>7. Log[top] = EntryAt(written, top) /\ IdOf(EntryAt(written, top)) = IdOf(EntryAt(written, 1))
  BY <1>1, <1>2, <1>5 DEF LineInv, Chained
<1>8. Did = IdOf(EntryAt(written, 1)) /\ CurrentDid(Log) # None
  BY <1>6, <1>7 DEF Did, Some, None, IdOf
<1>9. Did = DidString(Did.did)
  BY <1>8 DEF WireInv, ScidMatches
<1>10. Last = EntryAt(written, n)
  BY <1>1 DEF Last
<1>11. QED BY <1>8, <1>9, <1>10 DEF n

(* A line that continues a written log keeps what is known of every line.                 *)
LEMMA LineAppended ==
  ASSUME NEW S, NEW w \in Seq(S), w # << >>, NEW fmt, \A i \in 1 .. Len(w) : LineInv(w, fmt, i),
         NEW line,
         LET e == EntryFromJson(line).v
             last == EntryAt(w, Len(w)) IN
         /\ line.t \in {"array", "object"} /\ EntryFromJson(line) = Ok(e)
         /\ WellFormed(e, fmt, Len(w) + 1)
         /\ Chained(e, fmt, IdOf(EntryAt(w, 1)), last.version_id)
         /\ e.version_time.time > last.version_time.time
  PROVE  LET z == Append(w, line) IN
         /\ z \in Seq(S \cup {line}) /\ Len(z) = Len(w) + 1 /\ Len(w) \in Nat \ {0}
         /\ \A i \in 1 .. Len(w) : EntryAt(z, i) = EntryAt(w, i)
         /\ EntryAt(z, Len(z)) = EntryFromJson(line).v
         /\ \A i \in 1 .. Len(z) : LineInv(z, fmt, i)
<1> DEFINE z == Append(w, line)
           n == Len(w)
           e == EntryFromJson(line).v
<1>1. n \in Nat \ {0}
  OBVIOUS
<1>2. z \in Seq(S \cup {line}) /\ Len(z) = n + 1 /\ z[n + 1] = line /\ \A i \in 1 .. n : z[i] = w[i]
  <2>1. w \in Seq(S \cup {line}) /\ line \in S \cup {line}
    <3>1. S \subseteq S \cup {line}
      OBVIOUS
    <3>2. QED BY <3>1, SeqMonotonic
  <2>2. QED BY <2>1, AppendProperties
<1> HIDE DEF z, n, e
<1>3. /\ \A i \in 1 .. n : EntryAt(z, i) = EntryAt(w, i)
      /\ EntryAt(z, n + 1) = e
  BY <1>2 DEF EntryAt, e
<1>4. EntryAt(z, 1) = EntryAt(w, 1)
  BY <1>1, <1>3
<1>5. \A i \in 1 .. n : LineInv(w, fmt, i)
  BY DEF n
<1>6. ASSUME NEW i \in 1 .. n PROVE LineInv(z, fmt, i)
  <2>1. LineInv(w, fmt, i)
    BY <1>5
  <2>2. z[i] = w[i] /\ EntryAt(z, i) = EntryAt(w, i)
    BY <1>2, <1>3
  <2>3. i > 1 => EntryAt(z, i - 1) = EntryAt(w, i - 1)
    <3>1. i > 1 => i - 1 \in 1 .. n
      BY <1>1
    <3>2. QED BY <1>3, <3>1
  <2>4. PrevAt(z, i) = PrevAt(w, i)
    BY <1>1, <1>4, <2>3 DEF PrevAt
  <2>5. QED BY <1>4, <2>1, <2>2, <2>3, <2>4 DEF LineInv
<1>7. LineInv(z, fmt, n + 1)
  <2>1. /\ n + 1 # 1 /\ n + 1 - 1 = n /\ n \in 1 .. n
    BY <1>1
  <2>2. EntryAt(z, n + 1 - 1) = EntryAt(w, n)
    BY <1>3, <2>1
  <2>3. PrevAt(z, n + 1) = EntryAt(w, n).version_id
    BY <2>1, <2>2 DEF PrevAt
  <2>4. z[n + 1] = line
    BY <1>2
  <2>5. QED BY <1>3, <1>4, <2>2, <2>3, <2>4 DEF LineInv, e, n
<1>8. \A i \in 1 .. Len(z) : LineInv(z, fmt, i)
  <2>1. \A i \in 1 .. n + 1 : i \in 1 .. n \/ i = n + 1
    BY <1>1
  <2>2. QED BY <1>2, <1>6, <1>7, <2>1
<1>9. QED BY <1>1, <1>2, <1>3, <1>8 DEF z, n, e

(* The time of the next entry is later than the last one, and not ahead of the clock      *)
(* unless it must be.                                                                     *)
LEMMA NextTime ==
  ASSUME NEW prev, NEW t \in Int, prev = Time(t), clock \in Int
  PROVE  LET time == ComputeVersionTime(prev) IN
         time \in Int /\ time > t /\ (time = t + 1 \/ time = clock - Backdate)
<1>1. "time" \in DOMAIN prev /\ prev.time = t
  BY DEF Time
<1>2. Backdate \in Nat
  BY WireAssumption
<1>3. QED BY <1>1, <1>2 DEF ComputeVersionTime

(* The id of a document that was read is the member "id" of what it was read from.        *)
LEMMA IdRead ==
  ASSUME NEW v, DocFromJson(v).ok
  PROVE  DocFromJson(v).v.id = v.o["id"] /\ IsString(v.o["id"])
<1> DEFINE o == v.o
           id == RequiredString(o, "id")
           names == NamesOf(o)
           methods == ArrayOf(o, "verificationMethod", MethodFromJson)
           listed == ListedOf(o)
           service == ArrayOf(o, "service", ServiceFromJson)
           d == [context |-> o["@context"], id |-> id.v, also_known_as |-> names.v[1],
                 controller |-> names.v[2], verification_method |-> methods.v,
                 listed |-> listed.v, service |-> service.v]
<1>1. IsObject(v) /\ "@context" \in DOMAIN o
  BY ErrIs DEF DocFromJson
<1>2. DocFromJson(v) = DocOf(o["@context"], id, names, methods, listed, service)
  BY <1>1, DocIs
<1>3. id.ok /\ DocFromJson(v) = Ok(d)
  <2> HIDE DEF id, names, methods, listed, service, o
  <2>1. QED BY <1>2 DEF DocOf
<1>4. d.id = id.v
  OBVIOUS
<1>5. id = Ok(o["id"]) /\ IsString(o["id"])
  BY <1>3, RequiredIs
<1> HIDE DEF d, id
<1>6. QED BY <1>3, <1>4, <1>5, OkIs

(* The id of a document that is written is its member "id".                               *)
LEMMA IdWritten ==
  ASSUME NEW d, IsString(d.id)
  PROVE  HasString(DocToJson(d), "id") /\ DocToJson(d).o["id"] = d.id
<1> DEFINE p == DocToJson(d).o
<1>1. DocToJson(d) = Obj(p) /\ "id" \in DOMAIN p /\ p["id"] = d.id
  BY DocMembers
<1> HIDE DEF p
<1>2. IsObject(DocToJson(d)) /\ DocToJson(d).o = p
  BY <1>1, ObjIs
<1>3. QED BY <1>1, <1>2 DEF HasString, Member, Some, None

(* An entry appended by any pipeline keeps the invariant. *)
LEMMA EntryAppended ==
  ASSUME WireInv, Intact, written # << >>,
         NEW u, NEW m, WrittenParams(m), "scid" \notin DOMAIN m,
         "updateKeys" \in DOMAIN m =>
           \A j \in DOMAIN m["updateKeys"].a :
             m["updateKeys"].a[j] = Multikey(m["updateKeys"].a[j].mk),
         NEW doc, HasString(doc, "id"), doc.o["id"] = Did,
         Unsigned(u, format, Last.version_id, Time(ComputeVersionTime(Last.version_time)),
                  Obj(m), Obj("value" :> doc)),
         NEW new, AppendEntry(u, ComputeVersionTime(Last.version_time), new)
  PROVE  WireInv'
<1> DEFINE w == written
           n == Len(written)
           fmt == format
           prev == Last.version_id
           time == ComputeVersionTime(Last.version_time)
           k == keys.authorized
           line == Finished(u, fmt, n + 1, k, Purpose(fmt), time)
           e == EntryFromJson(line).v
           z == Append(w, line)
           last == EntryAt(w, n)
<1>1. PICK S : w \in Seq(S)
  BY DEF WireInv
<1>2. /\ Len(Log) = n /\ n \in Nat \ {0} /\ Last = last /\ Did = IdOf(EntryAt(w, 1))
  BY LogIs, DidIs
<1>3. /\ fmt \in Formats /\ clock \in Int
      /\ \A i \in 1 .. n : LineInv(w, fmt, i) /\ Dated(w, clock, i)
      /\ ScidMatches(EntryAt(w, 1), fmt)
  BY DEF WireInv
<1>4. /\ written' = z /\ file' = z /\ format' = fmt /\ clock' = clock
  BY <1>2 DEF AppendEntry, Intact
<1> DEFINE t == last.version_time.time
<1>5. /\ last.version_time = Time(t) /\ t \in Int /\ t <= clock - Backdate + n - 1
  <2>1. n \in 1 .. n
    BY <1>2
  <2>2. LineInv(w, fmt, n) /\ Dated(w, clock, n)
    BY <1>3, <2>1
  <2> HIDE DEF n, w, fmt
  <2>3. QED BY <2>2 DEF LineInv, WellFormed, Dated
<1> HIDE DEF t, n
<1>6. time \in Int /\ time > t /\ (time = t + 1 \/ time = clock - Backdate)
  BY <1>2, <1>3, <1>5, NextTime
<1> HIDE DEF w, fmt, prev, time, k, line, e, z, last
<1>7. /\ line.t \in {"array", "object"} /\ EntryFromJson(line) = Ok(e)
      /\ WellFormed(e, fmt, n + 1)
      /\ e.version_time.time = time /\ e.state.json = doc
      /\ fmt = TDW03 => e.version_id.hash = HashLogEntry(HashingForm(e, prev))
  <2>1. Unsigned(u, fmt, prev, Time(time), Obj(m), Obj("value" :> doc))
    BY DEF fmt, prev, time
  <2>2. LET l2 == Finished(u, fmt, n + 1, k, Purpose(fmt), time)
            e2 == EntryFromJson(l2).v IN
         /\ l2.t \in {"array", "object"} /\ EntryFromJson(l2) = Ok(e2)
         /\ WellFormed(e2, fmt, n + 1)
         /\ e2.version_time.time = time /\ e2.state.json = doc
         /\ fmt = TDW03 =>
              e2.version_id.hash = HashLogEntry(HashingForm(e2, prev)) /\ HashingForm(e2, prev) = u
    BY <1>3, <1>6, <2>1, LineWritten
  <2>3. QED BY <2>2 DEF line, e
<1>8. Chained(e, fmt, IdOf(EntryAt(w, 1)), last.version_id)
  BY <1>2, <1>7 DEF Chained, IdOf, prev
<1>9. e.version_time.time > last.version_time.time
  BY <1>6, <1>7 DEF t
<1>10. /\ z \in Seq(S \cup {line}) /\ Len(z) = n + 1
       /\ \A i \in 1 .. n : EntryAt(z, i) = EntryAt(w, i)
       /\ EntryAt(z, n + 1) = e
       /\ \A i \in 1 .. n + 1 : LineInv(z, fmt, i)
  <2>1. w # << >> /\ n = Len(w)
    BY DEF w, n
  <2>2. \A i \in 1 .. Len(w) : LineInv(w, fmt, i)
    BY <1>3, <2>1
  <2>3. LET l2 == line
            e2 == EntryFromJson(l2).v
            last2 == EntryAt(w, Len(w)) IN
         /\ l2.t \in {"array", "object"} /\ EntryFromJson(l2) = Ok(e2)
         /\ WellFormed(e2, fmt, Len(w) + 1)
         /\ Chained(e2, fmt, IdOf(EntryAt(w, 1)), last2.version_id)
         /\ e2.version_time.time > last2.version_time.time
    BY <1>7, <1>8, <1>9, <2>1 DEF e, last
  <2>4. LET z2 == Append(w, line) IN
        /\ z2 \in Seq(S \cup {line}) /\ Len(z2) = Len(w) + 1 /\ Len(w) \in Nat \ {0}
        /\ \A i \in 1 .. Len(w) : EntryAt(z2, i) = EntryAt(w, i)
        /\ EntryAt(z2, Len(z2)) = EntryFromJson(line).v
        /\ \A i \in 1 .. Len(z2) : LineInv(z2, fmt, i)
    BY <1>1, <2>1, <2>2, <2>3, LineAppended
  <2>5. QED BY <2>1, <2>4 DEF e, z
<1>11. \A i \in 1 .. n + 1 : Dated(z, clock, i)
  <2>1. SUFFICES ASSUME NEW i \in 1 .. n + 1 PROVE Dated(z, clock, i)
    OBVIOUS
  <2>2. CASE i \in 1 .. n
    BY <1>3, <1>10, <2>2 DEF Dated
  <2>3. CASE i = n + 1
    <3>1. time <= clock - Backdate + (n + 1) - 1
      BY <1>2, <1>3, <1>5, <1>6, WireAssumption
    <3>2. EntryAt(z, i).version_time.time = time
      BY <1>7, <1>10, <2>3
    <3>3. QED BY <2>3, <3>1, <3>2 DEF Dated
  <2>4. QED BY <1>2, <2>2, <2>3
<1>12. EntryAt(z, 1) = EntryAt(w, 1)
  BY <1>2, <1>10
<1>13. QED
  <2>1. /\ fmt \in Formats /\ clock \in Int /\ \E T : z \in Seq(T)
        /\ \A i \in 1 .. Len(z) : LineInv(z, fmt, i) /\ Dated(z, clock, i)
        /\ ScidMatches(EntryAt(z, 1), fmt)
    BY <1>3, <1>10, <1>11, <1>12
  <2>2. QED BY <1>4, <2>1 DEF WireInv

(* The four parts as raw JSON are the unsigned entry of did:tdw. *)
LEMMA RawPartsAre ==
  ASSUME NEW time, NEW m, NEW doc, format = TDW03
  PROVE  Unsigned(RawParts(time, m, doc), format, Last.version_id, Time(time), Obj(m), Obj("value" :> doc))
BY DEF RawParts, Unsigned

(* The last entry of an undamaged file has the format of the log and names its DID.       *)
LEMMA LastFormat ==
  ASSUME WireInv, Intact, written # << >>
  PROVE  /\ Last.format = format
         /\ HasString(Last.state.json, "id") /\ Last.state.json.o["id"] = Did
<1>1. Last = EntryAt(written, Len(written)) /\ Len(written) \in Nat \ {0}
      /\ Did = IdOf(EntryAt(written, 1))
  BY LogIs, DidIs
<1>2. LineInv(written, format, Len(written))
  BY <1>1 DEF WireInv
<1>3. QED BY <1>1, <1>2 DEF LineInv, WellFormed, Chained, IdOf

(* The members of the parameters of the later entries. *)
LEMMA LaterParams ==
  /\ WrittenParams(NoMembers) /\ DOMAIN NoMembers = {}
  /\ \A k : LET m == "updateKeys" :> Arr(<<Multikey(k)>>) IN
       /\ WrittenParams(m) /\ DOMAIN m = {"updateKeys"}
       /\ \A j \in DOMAIN m["updateKeys"].a : m["updateKeys"].a[j] = Multikey(m["updateKeys"].a[j].mk)
  /\ \A m \in {"deactivated" :> Bool(TRUE) @@ "updateKeys" :> Arr(<< >>),
               "updateKeys" :> Arr(<< >>) @@ "deactivated" :> Bool(TRUE)} :
       /\ WrittenParams(m) /\ DOMAIN m = {"deactivated", "updateKeys"}
       /\ \A j \in DOMAIN m["updateKeys"].a : m["updateKeys"].a[j] = Multikey(m["updateKeys"].a[j].mk)
<1>1. WrittenParams(NoMembers) /\ DOMAIN NoMembers = {}
  BY DEF WrittenParams, NoMembers
<1>2. ASSUME NEW k
      PROVE  LET m == "updateKeys" :> Arr(<<Multikey(k)>>) IN
       /\ WrittenParams(m) /\ DOMAIN m = {"updateKeys"}
       /\ \A j \in DOMAIN m["updateKeys"].a : m["updateKeys"].a[j] = Multikey(m["updateKeys"].a[j].mk)
  <2> DEFINE v == Arr(<<Multikey(k)>>)
             m == "updateKeys" :> v
  <2>1. IsStrings(v)
    BY OneKey
  <2>2. \A j \in DOMAIN v.a : v.a[j] = Multikey(v.a[j].mk)
    <3>1. v.a = <<Multikey(k)>> /\ Multikey(k).mk = k
      BY StringsAreWritten
    <3>2. QED BY <3>1
  <2> HIDE DEF v
  <2>3. DOMAIN m = {"updateKeys"} /\ m["updateKeys"] = v /\ m = [n \in DOMAIN m |-> m[n]]
    BY DEF :>
  <2> HIDE DEF m
  <2>4. WrittenParams(m)
    BY <2>1, <2>3 DEF WrittenParams
  <2>5. QED BY <2>2, <2>3, <2>4 DEF m, v
<1>3. ASSUME NEW m \in {"deactivated" :> Bool(TRUE) @@ "updateKeys" :> Arr(<< >>),
                        "updateKeys" :> Arr(<< >>) @@ "deactivated" :> Bool(TRUE)}
      PROVE  /\ WrittenParams(m) /\ DOMAIN m = {"deactivated", "updateKeys"}
             /\ \A j \in DOMAIN m["updateKeys"].a :
                  m["updateKeys"].a[j] = Multikey(m["updateKeys"].a[j].mk)
  <2> DEFINE v == Arr(<< >>)
             b == Bool(TRUE)
  <2>1. IsStrings(v) /\ IsBool(b) /\ DOMAIN v.a = {}
    BY DEF IsStrings, IsArray, Arr, IsBool, Bool
  <2> HIDE DEF v, b
  <2>2. m \in {"deactivated" :> b @@ "updateKeys" :> v, "updateKeys" :> v @@ "deactivated" :> b}
    BY DEF v, b
  <2>3. /\ DOMAIN m = {"deactivated", "updateKeys"} /\ m["updateKeys"] = v /\ m["deactivated"] = b
        /\ m = [n \in DOMAIN m |-> m[n]]
    BY <2>2 DEF @@, :>
  <2>4. QED BY <2>1, <2>3 DEF WrittenParams
<1>4. QED BY <1>1, <1>2, <1>3

(* A genesis document names the DID of its SCID.                                          *)
LEMMA GenesisId ==
  ASSUME NEW scid, NEW a, NEW b
  PROVE  LET doc == DocToJson(NewGenesis(scid, a, b)) IN
         HasString(doc, "id") /\ doc.o["id"] = DidString(scid)
<1> DEFINE d == NewGenesis(scid, a, b)
<1>1. d.id = DidString(scid) /\ IsString(d.id)
  BY GenesisDoc DEF IsString, DidString
<1> HIDE DEF d
<1>2. HasString(DocToJson(d), "id") /\ DocToJson(d).o["id"] = DidString(scid)
  BY <1>1, IdWritten
<1>3. QED BY <1>2 DEF d

(* `did rotate` keeps the invariant: it appends an entry to the log it verified.          *)
LEMMA RotateKeeps ==
  ASSUME WireInv, NEW roles, Rotate(roles)
  PROVE  WireInv'
<1> DEFINE new == Renewed(roles)
           time == ComputeVersionTime(Last.version_time)
           m == IF new.authorized = keys.authorized THEN NoMembers
                ELSE "updateKeys" :> Arr(<<Multikey(new.authorized)>>)
           doc == DocToJson(NewGenesis(Did.did, new.authentication, new.assertion))
           u == RawParts(time, m, doc)
<1>1. /\ written # << >> /\ Intact /\ Last.format = TDW03 /\ AppendEntry(u, time, new)
  BY DEF Rotate, Loaded
<1>2. format = TDW03
  BY <1>1, LastFormat
<1>3. HasString(doc, "id") /\ doc.o["id"] = Did
  <2>1. doc.o["id"] = DidString(Did.did) /\ HasString(doc, "id")
    BY GenesisId
  <2> HIDE DEF doc
  <2>2. QED BY <1>1, <2>1, DidIs
<1>4. /\ WrittenParams(m) /\ "scid" \notin DOMAIN m
      /\ "updateKeys" \in DOMAIN m =>
           \A j \in DOMAIN m["updateKeys"].a :
             m["updateKeys"].a[j] = Multikey(m["updateKeys"].a[j].mk)
  <2> DEFINE k == new.authorized
             one == "updateKeys" :> Arr(<<Multikey(k)>>)
  <2> HIDE DEF k
  <2>1. /\ WrittenParams(one) /\ DOMAIN one = {"updateKeys"}
        /\ \A j \in DOMAIN one["updateKeys"].a :
             one["updateKeys"].a[j] = Multikey(one["updateKeys"].a[j].mk)
    BY LaterParams
  <2>2. m = NoMembers \/ m = one
    BY DEF k
  <2> HIDE DEF one, m
  <2>3. QED BY <2>1, <2>2, LaterParams
<1> HIDE DEF m, doc, new
<1>5. Unsigned(u, format, Last.version_id, Time(time), Obj(m), Obj("value" :> doc))
  BY <1>2, RawPartsAre
<1> HIDE DEF u
<1>6. QED BY <1>1, <1>3, <1>4, <1>5, EntryAppended

(* `did deactivate` keeps the invariant.                                                  *)
LEMMA DeactivateKeeps ==
  ASSUME WireInv, Deactivate
  PROVE  WireInv'
<1> DEFINE time == ComputeVersionTime(Last.version_time)
           m == "deactivated" :> Bool(TRUE) @@ "updateKeys" :> Arr(<< >>)
           doc == Last.state.json
           u == RawParts(time, m, doc)
<1>1. /\ written # << >> /\ Intact /\ Last.format = TDW03 /\ AppendEntry(u, time, keys)
  BY DEF Deactivate, Loaded
<1>2. format = TDW03 /\ HasString(doc, "id") /\ doc.o["id"] = Did
  BY <1>1, LastFormat
<1>3. /\ WrittenParams(m) /\ DOMAIN m = {"deactivated", "updateKeys"}
      /\ \A j \in DOMAIN m["updateKeys"].a : m["updateKeys"].a[j] = Multikey(m["updateKeys"].a[j].mk)
  BY LaterParams
<1> HIDE DEF m, doc
<1>4. "scid" \notin DOMAIN m
  BY <1>3
<1>5. Unsigned(u, format, Last.version_id, Time(time), Obj(m), Obj("value" :> doc))
  BY <1>2, RawPartsAre
<1> HIDE DEF u
<1>6. QED BY <1>1, <1>2, <1>3, <1>4, <1>5, EntryAppended

(* The core crate's rotation, which leaves the format of the log as it is, keeps the      *)
(* invariant.                                                                             *)
LEMMA CoreRotateKeeps ==
  ASSUME WireInv, NEW roles, CoreRotate(roles)
  PROVE  WireInv'
<1> DEFINE new == Renewed(roles)
           time == ComputeVersionTime(Last.version_time)
           m == "updateKeys" :> Arr(<<Multikey(new.authorized)>>)
           doc == DocToJson(NewGenesis(Did.did, new.authentication, new.assertion))
           entry == RotationTemplate(format, Last.version_id, Did.did, new, time)
           u == StripProofSlot(EntryToJson(entry), format)
           params == NewParams(format, m)
           tm == Time(time)
           vid == Last.version_id
<1>1. /\ written # << >> /\ Intact /\ AppendEntry(u, time, new)
  BY DEF CoreRotate, Loaded
<1>2. HasString(doc, "id") /\ doc.o["id"] = Did
  <2>1. doc.o["id"] = DidString(Did.did) /\ HasString(doc, "id")
    BY GenesisId
  <2> HIDE DEF doc
  <2>2. QED BY <1>1, <2>1, DidIs
<1>3. /\ WrittenParams(m) /\ DOMAIN m = {"updateKeys"}
      /\ \A j \in DOMAIN m["updateKeys"].a : m["updateKeys"].a[j] = Multikey(m["updateKeys"].a[j].mk)
  <2> DEFINE k == new.authorized
  <2> HIDE DEF k
  <2>1. LET m2 == "updateKeys" :> Arr(<<Multikey(k)>>) IN
       /\ WrittenParams(m2) /\ DOMAIN m2 = {"updateKeys"}
       /\ \A j \in DOMAIN m2["updateKeys"].a : m2["updateKeys"].a[j] = Multikey(m2["updateKeys"].a[j].mk)
    BY LaterParams
  <2>2. QED BY <2>1 DEF k
<1>4. entry = NewEntry(format, vid, tm, params, [of |-> "value", json |-> doc])
  BY DEF RotationTemplate, ValueState
<1> HIDE DEF m, doc, new, entry, tm, vid
<1>5. "scid" \notin DOMAIN m /\ format \in Formats
  BY <1>3 DEF WireInv
<1>6. ParamsToJson(params) = Obj(m)
  BY <1>3, <1>5, NewParamsAre, ParamsWritten
<1> HIDE DEF params
<1>7. Unsigned(u, format, vid, tm, Obj(m), Obj("value" :> doc))
  <2>1. Unsigned(u, format, vid, tm, ParamsToJson(params), Obj("value" :> doc))
    BY <1>4, <1>5, Stripped
  <2>2. QED BY <1>6, <2>1
<1>8. Unsigned(u, format, Last.version_id, Time(time), Obj(m), Obj("value" :> doc))
  BY <1>7 DEF vid, tm
<1> HIDE DEF u
<1>9. QED BY <1>1, <1>2, <1>3, <1>5, <1>8, EntryAppended

(* The core crate's deactivation keeps the invariant.                                     *)
LEMMA CoreDeactivateKeeps ==
  ASSUME WireInv, CoreDeactivate
  PROVE  WireInv'
<1> DEFINE time == ComputeVersionTime(Last.version_time)
           m == "updateKeys" :> Arr(<< >>) @@ "deactivated" :> Bool(TRUE)
           read == DocFromJson(Last.state.json)
           doc == DocToJson(read.v)
           entry == DeactivationTemplate(format, Last.version_id, read.v, time)
           u == StripProofSlot(EntryToJson(entry), format)
           params == NewParams(format, m)
           tm == Time(time)
           vid == Last.version_id
<1>1. /\ written # << >> /\ Intact /\ AppendEntry(u, time, keys) /\ read.ok
  BY DEF CoreDeactivate, Loaded
<1>2. HasString(doc, "id") /\ doc.o["id"] = Did
  <2>1. read.v.id = Did /\ IsString(read.v.id)
    <3>1. Last.state.json.o["id"] = Did
      BY <1>1, LastFormat
    <3> DEFINE j == Last.state.json
    <3>2. DocFromJson(j).ok /\ j.o["id"] = Did
      BY <1>1, <3>1
    <3> HIDE DEF j
    <3>3. DocFromJson(j).v.id = Did /\ IsString(Did)
      BY <3>2, IdRead
    <3>4. QED BY <3>3 DEF j
  <2> HIDE DEF read
  <2>2. QED BY <2>1, IdWritten
<1>3. /\ WrittenParams(m) /\ DOMAIN m = {"deactivated", "updateKeys"}
      /\ \A j \in DOMAIN m["updateKeys"].a : m["updateKeys"].a[j] = Multikey(m["updateKeys"].a[j].mk)
  BY LaterParams
<1>4. entry = NewEntry(format, vid, tm, params, [of |-> "value", json |-> doc])
  BY DEF DeactivationTemplate, ValueState
<1> HIDE DEF m, doc, entry, tm, vid
<1>5. "scid" \notin DOMAIN m /\ format \in Formats
  BY <1>3 DEF WireInv
<1>6. ParamsToJson(params) = Obj(m)
  BY <1>3, <1>5, NewParamsAre, ParamsWritten
<1> HIDE DEF params
<1>7. Unsigned(u, format, vid, tm, Obj(m), Obj("value" :> doc))
  <2>1. Unsigned(u, format, vid, tm, ParamsToJson(params), Obj("value" :> doc))
    BY <1>4, <1>5, Stripped
  <2>2. QED BY <1>6, <2>1
<1>8. Unsigned(u, format, Last.version_id, Time(time), Obj(m), Obj("value" :> doc))
  BY <1>7 DEF vid, tm
<1> HIDE DEF u
<1>9. QED BY <1>1, <1>2, <1>3, <1>5, <1>8, EntryAppended

(* An entry by another signer with a document of this DID keeps the invariant.            *)
LEMMA ForeignEntryKeeps ==
  ASSUME WireInv, ForeignEntry
  PROVE  WireInv'
<1> DEFINE time == ComputeVersionTime(Last.version_time)
           m == NoMembers
<1>1. PICK doc \in ForeignDocs(Did.did) :
           /\ HasString(doc, "id") /\ doc.o["id"] = Did
           /\ AppendEntry(RawParts(time, m, doc), time, keys)
  BY DEF ForeignEntry
<1>2. written # << >> /\ Intact /\ Last.format = TDW03
  BY DEF ForeignEntry, Loaded
<1>3. format = TDW03
  BY <1>2, LastFormat
<1>4. WrittenParams(m) /\ DOMAIN m = {}
  BY LaterParams
<1> HIDE DEF m
<1>5. "scid" \notin DOMAIN m /\ "updateKeys" \notin DOMAIN m
  BY <1>4
<1> DEFINE u == RawParts(time, m, doc)
<1>6. Unsigned(u, format, Last.version_id, Time(time), Obj(m), Obj("value" :> doc))
  BY <1>3, RawPartsAre
<1> HIDE DEF u
<1>7. AppendEntry(u, time, keys)
  BY <1>1 DEF u
<1>8. QED BY <1>1, <1>2, <1>4, <1>5, <1>6, <1>7, EntryAppended

(* It holds before there is a log.                                                        *)
LEMMA InitGood == Init => WireInv
<1> SUFFICES ASSUME Init PROVE WireInv
  OBVIOUS
<1>1. written = << >> /\ file = << >> /\ format \in Formats /\ clock \in Int
  BY WireAssumption DEF Init
<1>2. << >> \in Seq({})
  OBVIOUS
<1>3. QED BY <1>1, <1>2 DEF WireInv

(* `did create` establishes it for the new log, in either format.                         *)
LEMMA CreateKeeps ==
  ASSUME WireInv, Create
  PROVE  WireInv'
<1> DEFINE now == clock - Backdate
           line == GenesisLine(format, keys, now)
           e == EntryFromJson(line).v
           z == <<line>>
<1>1. written' = z /\ file' = z /\ format' = format /\ clock' = clock
  BY DEF Create
<1>2. format \in Formats /\ clock \in Int /\ now \in Int
  BY WireAssumption DEF WireInv
<1> HIDE DEF now
<1>3. /\ line.t \in {"array", "object"} /\ EntryFromJson(line) = Ok(e)
      /\ WellFormed(e, format, 1) /\ e.version_time.time = now
      /\ Chained(e, format, IdOf(e), IdOf(e).did)
      /\ ScidMatches(e, format)
  <2> DEFINE ks == keys
             fmt == format
  <2>1. fmt \in Formats
    BY <1>2
  <2> HIDE DEF ks, fmt, line, e
  <2>2. LET l2 == GenesisLine(fmt, ks, now)
            e2 == EntryFromJson(l2).v IN
         /\ l2.t \in {"array", "object"} /\ EntryFromJson(l2) = Ok(e2)
         /\ WellFormed(e2, fmt, 1) /\ e2.version_time.time = now
         /\ Chained(e2, fmt, IdOf(e2), IdOf(e2).did)
         /\ ScidMatches(e2, fmt)
    BY <1>2, <2>1, GenesisWritten
  <2>3. QED BY <2>2 DEF ks, fmt, line, e
<1> HIDE DEF line
<1>4. z \in Seq({line}) /\ Len(z) = 1 /\ z[1] = line
  OBVIOUS
<1> HIDE DEF z
<1>5. EntryAt(z, 1) = e
  BY <1>4 DEF EntryAt
<1> HIDE DEF e
<1>6. LineInv(z, format, 1)
  BY <1>3, <1>4, <1>5 DEF LineInv, PrevAt
<1>7. Dated(z, clock, 1)
  BY <1>2, <1>3, <1>5, WireAssumption DEF Dated, now
<1>8. \A i \in 1 .. Len(z) : LineInv(z, format, i) /\ Dated(z, clock, i)
  <2>1. \A i \in 1 .. Len(z) : i = 1
    BY <1>4
  <2>2. QED BY <1>6, <1>7, <2>1
<1>9. ScidMatches(EntryAt(z, 1), format) /\ (\E S : z \in Seq(S))
  BY <1>3, <1>4, <1>5
<1>10. QED BY <1>1, <1>2, <1>8, <1>9 DEF WireInv

(* Time passes: what was in the past stays there.                                         *)
LEMMA TickKeeps ==
  ASSUME WireInv, Tick
  PROVE  WireInv'
<1>1. /\ written' = written /\ file' = file /\ format' = format /\ clock' = clock + 1
      /\ clock \in Int
  BY DEF Tick, WireInv
<1>2. PICK S : written \in Seq(S)
  BY DEF WireInv
<1>3. ASSUME NEW i \in 1 .. Len(written) PROVE Dated(written, clock + 1, i)
  <2> DEFINE t == EntryAt(written, i).version_time.time
  <2>1. t \in Int /\ t <= clock - Backdate + i - 1
    BY <1>3 DEF WireInv, LineInv, WellFormed, Dated
  <2> HIDE DEF t
  <2>2. t <= (clock + 1) - Backdate + i - 1
    BY <1>1, <1>2, <2>1, WireAssumption
  <2>3. QED BY <2>2 DEF Dated, t
<1>4. QED BY <1>1, <1>3 DEF WireInv

(* A reader's file is always a sequence of lines. *)
LEMMA FileStaysSequence ==
  ASSUME NEW S, file \in Seq(S), Reformat \/ Damage
  PROVE  \E T : file' \in Seq(T)
<1>1. CASE Reformat
  <2>1. PICK i \in 0 .. Len(file) :
          file' = SubSeq(file, 1, i) \o <<Blank>> \o SubSeq(file, i + 1, Len(file))
    BY <1>1 DEF Reformat
  <2> DEFINE T == S \cup {Blank}
             a == SubSeq(file, 1, i)
             b == SubSeq(file, i + 1, Len(file))
  <2>2. a \in Seq(S) /\ b \in Seq(S)
    OBVIOUS
  <2> HIDE DEF a, b
  <2>3. <<Blank>> \in Seq(T) /\ S \subseteq T
    OBVIOUS
  <2>4. a \in Seq(T) /\ b \in Seq(T)
    BY <2>2, <2>3, SeqMonotonic
  <2> HIDE DEF T
  <2>5. a \o <<Blank>> \in Seq(T)
    BY <2>3, <2>4, ConcatProperties
  <2>6. (a \o <<Blank>>) \o b \in Seq(T)
    BY <2>4, <2>5, ConcatProperties
  <2>7. QED BY <2>1, <2>6 DEF a, b
<1>2. CASE Damage
  <2>1. file' \in DamagedFiles(file)
    BY <1>2 DEF Damage
  <2>2. PICK i \in DOMAIN file :
          \/ file' = SubSeq(file, 1, i - 1) \o SubSeq(file, i + 1, Len(file))
          \/ file' = SubSeq(file, 1, i) \o SubSeq(file, i, Len(file))
          \/ \E d : file' = [file EXCEPT ![i] = d]
    <3>1. PICK i \in DOMAIN file :
            file' \in {SubSeq(file, 1, i - 1) \o SubSeq(file, i + 1, Len(file)),
                      SubSeq(file, 1, i) \o SubSeq(file, i, Len(file))}
                     \cup {[file EXCEPT ![i] = d] : d \in {Garbage} \cup Damages(file[i])}
      BY <2>1 DEF DamagedFiles
    <3> DEFINE a == SubSeq(file, 1, i - 1) \o SubSeq(file, i + 1, Len(file))
               b == SubSeq(file, 1, i) \o SubSeq(file, i, Len(file))
               C(d) == [file EXCEPT ![i] = d]
               Q == {Garbage} \cup Damages(file[i])
    <3>2. file' \in {a, b} \cup {C(d) : d \in Q}
      BY <3>1
    <3> HIDE DEF a, b, C, Q
    <3>3. file' = a \/ file' = b \/ \E d : file' = C(d)
      BY <3>2
    <3>4. QED BY <3>3 DEF a, b, C
  <2>3. \A j \in 1 .. Len(file) + 1 : SubSeq(file, j, Len(file)) \in Seq(S)
    OBVIOUS
  <2>4. \A j \in 0 .. Len(file) : SubSeq(file, 1, j) \in Seq(S)
    OBVIOUS
  <2>5. i \in 1 .. Len(file) + 1 /\ i + 1 \in 1 .. Len(file) + 1
        /\ i \in 0 .. Len(file) /\ i - 1 \in 0 .. Len(file)
    OBVIOUS
  <2>6. CASE file' = SubSeq(file, 1, i - 1) \o SubSeq(file, i + 1, Len(file))
    BY <2>3, <2>4, <2>5, <2>6, ConcatProperties
  <2>7. CASE file' = SubSeq(file, 1, i) \o SubSeq(file, i, Len(file))
    BY <2>3, <2>4, <2>5, <2>7, ConcatProperties
  <2>8. ASSUME NEW d, file' = [file EXCEPT ![i] = d] PROVE \E T : file' \in Seq(T)
    <3> DEFINE T == S \cup {d}
    <3>1. file \in Seq(T)
      <4>1. S \subseteq T
        OBVIOUS
      <4>2. QED BY <4>1, SeqMonotonic
    <3>2. d \in T
      OBVIOUS
    <3> HIDE DEF T
    <3>3. [file EXCEPT ![i] = d] \in Seq(T)
      BY <3>1, <3>2
    <3>4. QED BY <2>8, <3>3
  <2>9. QED BY <2>2, <2>6, <2>7, <2>8
<1>3. QED BY <1>1, <1>2

(* What happens to the file alone leaves the written lines as they are.                   *)
LEMMA FileStepsKeep ==
  ASSUME WireInv, Reformat \/ Damage \/ Restore \/ UNCHANGED vars
  PROVE  WireInv'
<1>1. CASE Reformat \/ Damage
  <2>1. PICK S : file \in Seq(S)
    BY DEF WireInv
  <2>2. \E T : file' \in Seq(T)
    BY <1>1, <2>1, FileStaysSequence
  <2>3. written' = written /\ format' = format /\ clock' = clock
    BY <1>1 DEF Reformat, Damage
  <2>4. QED BY <2>2, <2>3 DEF WireInv
<1>2. CASE Restore
  BY <1>2 DEF WireInv, Restore
<1>3. CASE UNCHANGED vars
  BY <1>3 DEF WireInv, vars
<1>4. QED BY <1>1, <1>2, <1>3

(* WireInv is an invariant of the specification: whatever commands of the program and of  *)
(* the core crate are run in whatever order and format, and whatever happens to the file  *)
(* between them, every line that was written is read back as the entry it was built from, *)
(* well formed, dated, and chained by its hash to the entry before it.                    *)
THEOREM WireInvariant == Spec => []WireInv
<1>1. Init => WireInv
  BY InitGood
<1>2. WireInv /\ [Next]_vars => WireInv'
  <2> SUFFICES ASSUME WireInv, [Next]_vars PROVE WireInv'
    OBVIOUS
  <2>1. CASE Create
    BY <2>1, CreateKeeps
  <2>2. CASE Deactivate
    BY <2>2, DeactivateKeeps
  <2>3. CASE CoreDeactivate
    BY <2>3, CoreDeactivateKeeps
  <2>4. CASE ForeignEntry
    BY <2>4, ForeignEntryKeeps
  <2>5. ASSUME NEW roles \in RoleChoices, Rotate(roles) PROVE WireInv'
    BY <2>5, RotateKeeps
  <2>6. ASSUME NEW roles \in RoleChoices, CoreRotate(roles) PROVE WireInv'
    BY <2>6, CoreRotateKeeps
  <2>7. CASE Tick
    BY <2>7, TickKeeps
  <2>8. CASE Reformat \/ Damage \/ Restore \/ UNCHANGED vars
    BY <2>8, FileStepsKeep
  <2>9. QED BY <2>1, <2>2, <2>3, <2>4, <2>5, <2>6, <2>7, <2>8 DEF Next
<1>3. QED BY <1>1, <1>2, PTL DEF Spec

(* Every entry of the log carries its own time, which the invariant bounds.               *)
LEMMA DatesHold == WireInv => VersionTimesInPast
<1> SUFFICES ASSUME WireInv, Intact, written # << >>, NEW i \in DOMAIN Log
             PROVE  /\ i > 1 => Log[i].version_time.time > Log[i - 1].version_time.time
                    /\ i <= Backdate => Log[i].version_time.time < clock
  BY DEF VersionTimesInPast
<1>1. /\ Log = [j \in 1 .. Len(written) |-> EntryAt(written, j)]
      /\ DOMAIN Log = 1 .. Len(written) /\ Len(written) \in Nat
  BY LogIs
<1> DEFINE t == EntryAt(written, i).version_time.time
<1>2. LineInv(written, format, i) /\ Dated(written, clock, i) /\ clock \in Int
  BY <1>1 DEF WireInv
<1>3. t \in Int /\ t <= clock - Backdate + i - 1
      /\ (i > 1 => t > EntryAt(written, i - 1).version_time.time)
  BY <1>2 DEF LineInv, WellFormed, Dated
<1>4. Log[i].version_time.time = t /\ (i > 1 => Log[i - 1] = EntryAt(written, i - 1))
  BY <1>1
<1> HIDE DEF t
<1>5. i <= Backdate => t < clock
  BY <1>1, <1>2, <1>3, WireAssumption
<1>6. QED BY <1>3, <1>4, <1>5

(* The times of a written log rise, and its i-th entry, for i up to Backdate, is dated    *)
(* before the clock: ComputeVersionTime takes the backdated clock or one second after the *)
(* last entry, so a chain of entries made at once runs ahead by a second each and no      *)
(* more. The registry refuses a versionTime that does not lie in the past.                *)
THEOREM TimesStayInPast == Spec => []VersionTimesInPast
BY WireInvariant, DatesHold, PTL

(* A log that was loaded was read from its lines.                                         *)
LEMMA LoadedIs ==
  ASSUME NEW lines, NEW target, Load(lines, target).ok
  PROVE  LogFromLines(lines).ok /\ Load(lines, target).v = LogFromLines(lines).v
<1> DEFINE r == LogFromLines(lines)
<1>1. Load(lines, target) \in {r, Ok(r.v)} \/ \E a, b : Load(lines, target) = Err(a, b)
  <2> HIDE DEF r
  <2>1. QED BY DEF Load, Then, r
<1>2. ~r.ok => Load(lines, target) = r
  BY DEF Load, Then
<1> HIDE DEF r
<1>3. r.ok
  BY <1>2
<1>4. Load(lines, target).v = r.v
  BY <1>1, ErrIs, OkIs
<1>5. QED BY <1>3, <1>4 DEF r

(* The lines that are read as entries: all of them, or it is an error. *)
LEMMA EntriesRead ==
  ASSUME NEW S, NEW lines \in Seq(S), LogFromLines(lines).ok
  PROVE  LET w == Dropping(lines, Blank)
             es == LogFromLines(lines).v IN
         /\ w \in Seq(S \ {Blank}) /\ Len(es) = Len(w) /\ Len(w) \in Nat
         /\ \A i \in 1 .. Len(w) : EntryFromJson(w[i]).ok /\ es[i] = EntryFromJson(w[i]).v
<1> DEFINE w == Dropping(lines, Blank)
           rs == [i \in DOMAIN w |-> IF w[i] = Garbage THEN Err("InvalidFormat", "line")
                                     ELSE EntryFromJson(w[i])]
           es == LogFromLines(lines).v
<1>1. w \in Seq(S \ {Blank})
  BY DroppingType
<1>2. LogFromLines(lines) = Collect(rs)
  BY DEF LogFromLines
<1> HIDE DEF w
<1>3. DOMAIN w = 1 .. Len(w) /\ Len(w) \in Nat
  BY <1>1
<1>4. DOMAIN rs = 1 .. Len(w)
  BY <1>3
<1> HIDE DEF rs
<1>5. (\A i \in DOMAIN rs : rs[i].ok) /\ Collect(rs) = Ok([i \in DOMAIN rs |-> rs[i].v])
  BY <1>2, Collected
<1>6. es = [i \in 1 .. Len(w) |-> rs[i].v]
  BY <1>2, <1>4, <1>5, OkIs
<1>7. \A i \in 1 .. Len(w) : EntryFromJson(w[i]).ok /\ rs[i] = EntryFromJson(w[i])
  <2>1. \A i \in 1 .. Len(w) : rs[i].ok
    BY <1>4, <1>5
  <2>2. QED BY <1>3, <2>1, ErrIs DEF rs
<1> HIDE DEF es
<1>8. Len(es) = Len(w)
  BY <1>3, <1>6
<1>9. \A i \in 1 .. Len(w) : EntryFromJson(w[i]).ok /\ es[i] = EntryFromJson(w[i]).v
  BY <1>6, <1>7
<1>10. QED BY <1>1, <1>3, <1>8, <1>9 DEF w, es

(* What `did log entry --at` prints when it prints anything. *)
LEMMA ViewIs ==
  ASSUME NEW S, NEW lines \in Seq(S), NEW at, EntryViews(lines, None, at).ok
  PROVE  LET w == Dropping(lines, Blank)
             view == EntryViews(lines, None, at).v IN
         \E n \in 1 .. Len(w) :
           /\ view.n = n /\ view.raw = w[n] /\ EntryFromJson(w[n]).ok
           /\ view.pretty = EntryToJson(EntryFromJson(w[n]).v)
<1> DEFINE w == Dropping(lines, Blank)
           result == EntryViews(lines, None, at)
           sel == ParseSelector(at)
           load == Load(lines, None)
           es == load.v
           place == ResolveSelector(sel.v, Len(es))
           shown == [n |-> place.v, raw |-> RawLines(lines)[place.v], pretty |-> EntryToJson(es[place.v])]
<1>1. result = IF ~sel.ok THEN sel ELSE IF ~load.ok THEN load
               ELSE IF ~place.ok THEN place ELSE Ok(shown)
  BY DEF EntryViews, Then
<1> HIDE DEF sel, load, place
<1>2. sel.ok /\ load.ok /\ place.ok /\ result = Ok(shown)
  BY <1>1
<1>3. result.v = shown
  BY <1>2, OkIs, SMTT(60)
<1>4. place = Ok(place.v) /\ place.v \in 1 .. Len(es)
  BY <1>2, OkIs, ErrIs DEF place, ResolveSelector
<1>5. LogFromLines(lines).ok /\ es = LogFromLines(lines).v
  BY <1>2, LoadedIs DEF load
<1>6. /\ Len(es) = Len(w) /\ Len(w) \in Nat
      /\ \A i \in 1 .. Len(w) : EntryFromJson(w[i]).ok /\ es[i] = EntryFromJson(w[i]).v
  BY <1>5, EntriesRead
<1>7. shown.n = place.v /\ shown.raw = w[place.v] /\ shown.pretty = EntryToJson(es[place.v])
  BY DEF RawLines
<1> HIDE DEF shown, w, es, result
<1>8. place.v \in 1 .. Len(w)
  BY <1>4, <1>6
<1>9. QED BY <1>3, <1>6, <1>7, <1>8 DEF result, w

(* The invariant says that the file is a sequence of lines, which is all that the views   *)
(* need.                                                                                  *)
LEMMA ViewsHold == WireInv => ViewsAgree
<1> DEFINE view(at) == EntryViews(file, None, at)
           w == Dropping(file, Blank)
<1> SUFFICES ASSUME WireInv, NEW at, view(at).ok
             PROVE  /\ EntryFromJson(view(at).v.raw).ok
                    /\ EntryToJson(EntryFromJson(view(at).v.raw).v) = view(at).v.pretty
                    /\ (Intact /\ format = TDW03) => view(at).v.pretty.a[1].seq = view(at).v.n
  BY DEF ViewsAgree
<1>1. PICK S : file \in Seq(S)
  BY DEF WireInv
<1>2. PICK n \in 1 .. Len(w) :
           /\ view(at).v.n = n /\ view(at).v.raw = w[n] /\ EntryFromJson(w[n]).ok
           /\ view(at).v.pretty = EntryToJson(EntryFromJson(w[n]).v)
  BY <1>1, ViewIs
<1>3. ASSUME Intact, format = TDW03
      PROVE  EntryToJson(EntryFromJson(w[n]).v).a[1].seq = n
  <2> DEFINE e == EntryAt(written, n)
  <2>1. w = written
    BY <1>3 DEF Intact, RawLines
  <2>2. WellFormed(e, TDW03, n) /\ e = EntryFromJson(w[n]).v
    BY <1>2, <1>3, <2>1 DEF WireInv, LineInv, EntryAt
  <2> HIDE DEF e
  <2>3. e.format = TDW03 /\ e.version_id = VersionId(n, e.version_id.hash)
    BY <2>2 DEF WellFormed
  <2>4. e.version_id.seq = n
    BY <2>3, StringsAreWritten
  <2> DEFINE p == ParamsToJson(e.parameters)
             s == StateToJson(e.state)
  <2>5. EntryToJson(e) = Arr(<<e.version_id, e.version_time, p, s, Arr(e.proofs)>>)
    BY <2>3 DEF EntryToJson
  <2> HIDE DEF p, s
  <2>6. EntryToJson(e).a[1] = e.version_id
    BY <2>5, StringsAreWritten
  <2>7. QED BY <2>2, <2>4, <2>6
<1>4. QED BY <1>2, <1>3

(* Whatever is in the file, `did log entry` shows one entry in both forms: the raw line   *)
(* is the n-th that is not blank, and the pretty view is what is written for the entry    *)
(* read from that line; in an undamaged did:tdw log the n-th entry has the number n.      *)
(* RawLines and load_log_entries skip blank lines each on its own.                        *)
THEOREM ViewsAlwaysAgree == Spec => []ViewsAgree
BY WireInvariant, ViewsHold, PTL

(* The proof that a pipeline wrote. *)
LEMMA ProofIs ==
  ASSUME NEW e, NEW fmt, NEW n, WellFormed(e, fmt, n)
  PROVE  LET proof == e.proofs[1]
             k == SignerOf(e)
             config == Obj(Without(proof.o, "proofValue")) IN
         /\ e.proofs # << >> /\ ProofFromJson(proof).ok
         /\ HasString(proof, "verificationMethod") /\ HasString(proof, "proofValue")
         /\ proof.o["verificationMethod"] = DidKeyUrl(k)
         /\ proof.o["proofValue"] = Signature(k, e.state.json, config)
<1> DEFINE k == SignerOf(e)
           doc == e.state.json
           id == e.version_id
           t == e.version_time.time
           purpose == Purpose(fmt)
           config == ProofConfig(k, purpose, id, Time(t))
           proof == SignedProof(k, doc, config)
<1>1. e.proofs = <<proof>>
  <2>1. /\ e.proofs = <<SignedProof(k, doc, ProofConfig(k, purpose, id, e.version_time))>>
        /\ e.version_time = Time(t)
    BY DEF WellFormed
  <2> HIDE DEF k, doc, id, t, purpose
  <2>2. QED BY <2>1
<1>2. IsString(id)
  <2>1. id = VersionId(n, id.hash)
    BY DEF WellFormed
  <2> HIDE DEF id
  <2>2. QED BY <2>1, StringsAreWritten
<1>3. purpose \in {"authentication", "assertionMethod"}
  BY PurposeIs
<1>4. e.proofs # << >> /\ e.proofs[1] = proof
  BY <1>1
<1> HIDE DEF k, doc, id, t, purpose
<1>5. LET config2 == ProofConfig(k, purpose, id, Time(t))
          proof2 == SignedProof(k, doc, config2) IN
      /\ ProofFromJson(proof2).ok
      /\ IsObject(proof2)
      /\ HasString(proof2, "verificationMethod") /\ HasString(proof2, "proofValue")
      /\ proof2.o["verificationMethod"] = DidKeyUrl(k)
      /\ proof2.o["proofValue"] = Signature(k, doc, config2)
      /\ Obj(Without(proof2.o, "proofValue")) = config2
  BY <1>2, <1>3, ProofRead
<1> HIDE DEF proof, config
<1>6. /\ ProofFromJson(proof).ok
      /\ HasString(proof, "verificationMethod") /\ HasString(proof, "proofValue")
      /\ proof.o["verificationMethod"] = DidKeyUrl(k)
      /\ proof.o["proofValue"] = Signature(k, doc, config)
      /\ Obj(Without(proof.o, "proofValue")) = config
  BY <1>5 DEF proof, config
<1>7. QED BY <1>4, <1>6 DEF k, doc

(* The verifier accepts it exactly when its key is allowed. *)
LEMMA ProofVerifies ==
  ASSUME NEW e, NEW fmt, NEW n, WellFormed(e, fmt, n), NEW auth
  PROVE  VerifyProof(e, auth) = "ok" <=> \E i \in DOMAIN auth : auth[i] = Multikey(SignerOf(e))
<1> DEFINE proof == e.proofs[1]
           k == SignerOf(e)
           config == Obj(Without(proof.o, "proofValue"))
           signature == proof.o["proofValue"]
           mk == ParseDidKeyVm(proof.o["verificationMethod"])
<1>1. /\ e.proofs # << >>
      /\ HasString(proof, "verificationMethod") /\ HasString(proof, "proofValue")
      /\ proof.o["verificationMethod"] = DidKeyUrl(k)
      /\ signature = Signature(k, e.state.json, config)
  BY ProofIs
<1> HIDE DEF k, config
<1>2. mk = Some(Multikey(k))
  BY <1>1, StringsAreWritten DEF ParseDidKeyVm
<1>3. "sig" \in DOMAIN signature
  BY <1>1 DEF Signature
<1> HIDE DEF mk, signature, proof
<1>4. mk # None /\ mk[1] = Multikey(k) /\ "mk" \in DOMAIN mk[1] /\ mk[1].mk = k
  BY <1>2, StringsAreWritten DEF Some, None
<1>5. VerifyProof(e, auth) =
        IF e.proofs = << >> THEN "MissingProof"
        ELSE IF ~HasString(proof, "verificationMethod") \/ mk = None THEN "MalformedProof"
        ELSE IF \A i \in DOMAIN auth : auth[i] # mk[1] THEN "ProofKeyNotAuthorized"
        ELSE IF "mk" \notin DOMAIN mk[1] \/ ~HasString(proof, "proofValue")
                  \/ "sig" \notin DOMAIN signature
          THEN "MalformedProof"
        ELSE IF signature = Signature(mk[1].mk, e.state.json, config) THEN "ok"
        ELSE "SignatureInvalid"
  BY DEF VerifyProof, proof, mk, signature, config
<1>6. VerifyProof(e, auth) = IF \A i \in DOMAIN auth : auth[i] # Multikey(k)
                               THEN "ProofKeyNotAuthorized" ELSE "ok"
  BY <1>1, <1>3, <1>4, <1>5
<1>7. QED BY <1>6 DEF k

(* The entries as DidLog sees them. *)
LEMMA AbstractLogIs ==
  ASSUME WireInv, Intact
  PROVE  /\ DOMAIN AbstractLog = 1 .. Len(Log) /\ Len(AbstractLog) = Len(Log)
         /\ \A i \in 1 .. Len(Log) :
              /\ AbstractLog[i].seq = Log[i].version_id.seq
              /\ AbstractLog[i].hash = i /\ AbstractLog[i].prev = i - 1
              /\ AbstractLog[i].announces <=> KeysOf(Log[i]) # None
              /\ AbstractLog[i].announces => \A k : k \in AbstractLog[i].updateKeys <=>
                   \E j \in DOMAIN KeysOf(Log[i])[1].a : KeysOf(Log[i])[1].a[j].mk = k
              /\ AbstractLog[i].signer = SignerOf(Log[i])
<1>1. DOMAIN Log = 1 .. Len(Log) /\ Len(Log) \in Nat
  BY LogIs
<1>2. \A i \in 1 .. Len(Log) :
        /\ AbstractEntry(i).seq = Log[i].version_id.seq
        /\ AbstractEntry(i).hash = i /\ AbstractEntry(i).prev = i - 1
        /\ AbstractEntry(i).announces <=> KeysOf(Log[i]) # None
        /\ AbstractEntry(i).updateKeys = IF KeysOf(Log[i]) = None THEN {}
             ELSE {KeysOf(Log[i])[1].a[j].mk : j \in DOMAIN KeysOf(Log[i])[1].a}
        /\ AbstractEntry(i).signer = SignerOf(Log[i])
  BY DEF AbstractEntry, KeysOf, SignerOf
<1>3. /\ DOMAIN AbstractLog = 1 .. Len(Log)
      /\ \A i \in 1 .. Len(Log) : AbstractLog[i] = AbstractEntry(i)
  BY <1>1 DEF AbstractLog
<1>4. Len(AbstractLog) = Len(Log)
  <2>1. AbstractLog \in Seq({AbstractEntry(i) : i \in 1 .. Len(Log)})
    BY <1>1 DEF AbstractLog
  <2>2. DOMAIN AbstractLog = 1 .. Len(AbstractLog) /\ Len(AbstractLog) \in Nat
    BY <2>1
  <2>3. QED BY <1>1, <1>3, <2>2
<1>5. ASSUME NEW i \in 1 .. Len(Log)
      PROVE  /\ AbstractLog[i].seq = Log[i].version_id.seq
             /\ AbstractLog[i].hash = i /\ AbstractLog[i].prev = i - 1
             /\ AbstractLog[i].announces <=> KeysOf(Log[i]) # None
             /\ AbstractLog[i].announces => \A k : k \in AbstractLog[i].updateKeys <=>
                  \E j \in DOMAIN KeysOf(Log[i])[1].a : KeysOf(Log[i])[1].a[j].mk = k
             /\ AbstractLog[i].signer = SignerOf(Log[i])
  <2> DEFINE e == AbstractEntry(i)
             l == Log[i]
             uk == KeysOf(l)
             a == uk[1].a
  <2>1. /\ e.seq = l.version_id.seq /\ e.hash = i /\ e.prev = i - 1
        /\ e.announces <=> uk # None
        /\ e.updateKeys = IF uk = None THEN {} ELSE {a[j].mk : j \in DOMAIN a}
        /\ e.signer = SignerOf(l) /\ AbstractLog[i] = e
    BY <1>2, <1>3
  <2> HIDE DEF e, l, uk, a
  <2>2. e.announces => \A k : k \in e.updateKeys <=> \E j \in DOMAIN a : a[j].mk = k
    BY <2>1
  <2>3. QED BY <2>1, <2>2 DEF l, uk, a
<1>6. QED BY <1>3, <1>4, <1>5

(* The keys carried forward are the ones that DidLog authorises. *)
LEMMA EffectiveKeysAre ==
  ASSUME WireInv, Intact, NEW i \in 1 .. Len(Log), NEW k
  PROVE  (\E x \in DOMAIN EffectiveKeys(Log, i) : EffectiveKeys(Log, i)[x] = Multikey(k))
           <=> Abstract!Authorised(AbstractLog, i, k)
<1> DEFINE js == {j \in 1 .. i : KeysOf(Log[j]) # None}
           top == CHOOSE j \in js : \A l \in js : l <= j
           eff == EffectiveKeys(Log, i)
           says(j) == AbstractLog[j].announces
<1>1. DOMAIN Log = 1 .. Len(Log) /\ Len(Log) \in Nat /\ Len(Log) = Len(written)
      /\ Log = [j \in 1 .. Len(written) |-> EntryAt(written, j)]
  BY LogIs
<1>2. i \in Nat /\ 1 .. i \subseteq 1 .. Len(Log)
  BY <1>1
<1>3. \A j \in 1 .. i : says(j) <=> j \in js
  BY <1>2, AbstractLogIs
<1>4. eff = IF js = {} THEN << >> ELSE KeysOf(Log[top])[1].a
  BY DEF EffectiveKeys, KeysOf
<1>5. Abstract!Authorised(AbstractLog, i, k) <=>
        \E j \in 1 .. i : /\ says(j) /\ k \in AbstractLog[j].updateKeys
                          /\ \A m \in (j + 1) .. i : ~says(m)
  BY DEF Abstract!Authorised
<1>6. \A j \in js : \A x \in DOMAIN KeysOf(Log[j])[1].a :
        KeysOf(Log[j])[1].a[x] = Multikey(KeysOf(Log[j])[1].a[x].mk)
  <2>1. SUFFICES ASSUME NEW j \in js
                 PROVE  \A x \in DOMAIN KeysOf(Log[j])[1].a :
                          KeysOf(Log[j])[1].a[x] = Multikey(KeysOf(Log[j])[1].a[x].mk)
    OBVIOUS
  <2> DEFINE e == Log[j]
  <2>2. KeysOf(e) # None /\ j \in 1 .. Len(written) /\ e = EntryAt(written, j)
    BY <1>1, <1>2
  <2>3. WellFormed(e, format, j)
    BY <2>2 DEF WireInv, LineInv
  <2> HIDE DEF e
  <2>4. QED BY <2>2, <2>3 DEF WellFormed, e
<1>7. \A j \in js : k \in AbstractLog[j].updateKeys <=>
        \E x \in DOMAIN KeysOf(Log[j])[1].a : KeysOf(Log[j])[1].a[x] = Multikey(k)
  <2>1. SUFFICES ASSUME NEW j \in js
                 PROVE  k \in AbstractLog[j].updateKeys <=>
                   \E x \in DOMAIN KeysOf(Log[j])[1].a : KeysOf(Log[j])[1].a[x] = Multikey(k)
    OBVIOUS
  <2> DEFINE a == KeysOf(Log[j])[1].a
  <2>2. j \in 1 .. Len(Log) /\ says(j)
    BY <1>2, <1>3
  <2>3. k \in AbstractLog[j].updateKeys <=> \E x \in DOMAIN a : a[x].mk = k
    BY <2>2, AbstractLogIs, ZenonT(60)
  <2>4. \A x \in DOMAIN a : a[x] = Multikey(a[x].mk)
    BY <1>6
  <2> HIDE DEF a
  <2>5. \A x \in DOMAIN a : a[x].mk = k <=> a[x] = Multikey(k)
    BY <2>4, StringsAreWritten
  <2>6. QED BY <2>3, <2>5 DEF a
<1> HIDE DEF eff, says
<1>8. CASE js = {}
  <2>1. DOMAIN eff = {}
    BY <1>4, <1>8
  <2>2. QED BY <1>3, <1>5, <1>8, <2>1 DEF eff
<1>9. CASE js # {}
  <2>1. \E j \in js : \A l \in js : l <= j
    <3>1. js \in SUBSET (1 .. i)
      OBVIOUS
    <3> HIDE DEF js
    <3>2. QED BY <1>2, <1>9, <3>1, GreatestNumber
  <2>2. top \in js /\ \A l \in js : l <= top
    BY <2>1
  <2>3. top \in 1 .. i
    BY <2>2
  <2> HIDE DEF top, js
  <2>4. eff = KeysOf(Log[top])[1].a
    BY <1>4, <1>9
  <2>5. (\E x \in DOMAIN eff : eff[x] = Multikey(k)) <=> k \in AbstractLog[top].updateKeys
    BY <1>7, <2>2, <2>4
  <2>6. \A m \in (top + 1) .. i : ~says(m)
    BY <1>2, <1>3, <2>2, <2>3
  <2>7. \A j \in 1 .. i : says(j) /\ (\A m \in (j + 1) .. i : ~says(m)) => j = top
    <3>1. SUFFICES ASSUME NEW j \in 1 .. i, says(j), \A m \in (j + 1) .. i : ~says(m) PROVE j = top
      OBVIOUS
    <3>2. j <= top
      BY <1>3, <2>2, <3>1
    <3>3. ~(j < top)
      <4>1. SUFFICES ASSUME j < top PROVE FALSE
        OBVIOUS
      <4>2. top \in (j + 1) .. i
        BY <1>2, <2>3, <4>1
      <4>3. QED BY <1>3, <2>2, <2>3, <3>1, <4>2
    <3>4. QED BY <1>2, <2>3, <3>2, <3>3
  <2>8. Abstract!Authorised(AbstractLog, i, k) <=> k \in AbstractLog[top].updateKeys
    BY <1>3, <1>5, <2>2, <2>3, <2>6, <2>7
  <2>9. QED BY <2>5, <2>8 DEF eff
<1>10. QED BY <1>8, <1>9

(* What is left of the check of a written entry: who signed it. *)
LEMMA EntryVerifies ==
  ASSUME WireInv, Intact, format = TDW03, NEW i \in 1 .. Len(Log)
  PROVE  VerifyEntry(Log, i, Did) = "ok" <=> Abstract!AuthorisedAt(AbstractLog, i)
<1> DEFINE e == Log[i]
           prev == IF i = 1 THEN Did.did ELSE Log[i - 1].version_id
           hashing == HashingForm(e, prev)
           at == IF i = 1 THEN 1 ELSE i - 1
           k == SignerOf(e)
<1>1. /\ DOMAIN Log = 1 .. Len(Log) /\ Len(Log) \in Nat /\ Len(Log) = Len(written)
      /\ Log = [j \in 1 .. Len(written) |-> EntryAt(written, j)]
  BY LogIs
<1>2. written # << >>
  BY <1>1
<1>3. Did = IdOf(EntryAt(written, 1))
  BY <1>2, DidIs
<1>4. LineInv(written, TDW03, i) /\ e = EntryAt(written, i) /\ i \in Nat \ {0}
      /\ (i # 1 => i - 1 \in 1 .. Len(Log))
  BY <1>1 DEF WireInv
<1>5. WellFormed(e, TDW03, i) /\ Chained(e, TDW03, Did, prev)
  <2>1. PrevAt(written, i) = prev
    BY <1>1, <1>3, <1>4 DEF PrevAt
  <2> HIDE DEF prev
  <2>2. QED BY <1>3, <1>4, <2>1 DEF LineInv
<1> HIDE DEF e
<1>6. i = 1 => ScidMatches(e, TDW03) /\ IdOf(e) = Did
  BY <1>2, <1>3, <1>4 DEF WireInv
<1> HIDE DEF prev
<1>7. /\ e.state.of = "value" /\ HasString(e.state.json, "id") /\ e.state.json.o["id"] = Did
      /\ "seq" \in DOMAIN e.version_id /\ e.version_id.seq = i
      /\ HashMatches(e, hashing)
  <2>1. e.version_id = VersionId(i, e.version_id.hash)
    BY <1>5 DEF WellFormed
  <2> DEFINE h == e.version_id.hash
             v == e.version_id
  <2>2. v = VersionId(i, h)
    BY <2>1
  <2> HIDE DEF h, v
  <2>3. "seq" \in DOMAIN v /\ v.seq = i
    BY <2>2 DEF VersionId
  <2>4. QED BY <1>5, <2>3 DEF WellFormed, Chained, IdOf, HashMatches, v
<1>8. i = 1 => HashLogEntry(Replaced(hashing, Did.did, Placeholder)) = Did.did
  BY <1>6 DEF ScidMatches, prev
<1> HIDE DEF hashing
<1>9. VerifyEntry(Log, i, Did) =
        IF i = 1 /\ KeysOf(e) = None THEN "MissingGenesisUpdateKeys"
        ELSE VerifyProof(e, EffectiveKeys(Log, at))
  <2>1. VerifyEntry(Log, i, Did) =
          IF i = 1 /\ KeysOf(e) = None THEN "MissingGenesisUpdateKeys"
          ELSE IF e.state.of = "patch" THEN "PatchState"
          ELSE IF ~HasString(e.state.json, "id") THEN "MalformedEntry"
          ELSE IF e.state.json.o["id"] # Did THEN "DidIdentifierMismatch"
          ELSE IF "seq" \notin DOMAIN e.version_id \/ e.version_id.seq # i THEN "VersionIdSequenceMismatch"
          ELSE IF ~HashMatches(e, hashing) THEN "EntryHashMismatch"
          ELSE IF i = 1 /\ HashLogEntry(Replaced(hashing, Did.did, Placeholder)) # Did.did
            THEN "ScidMismatch"
          ELSE VerifyProof(e, EffectiveKeys(Log, at))
    BY DEF VerifyEntry, hashing, prev, e, KeysOf
  <2> HIDE DEF at
  <2>2. QED BY <1>7, <1>8, <2>1
<1> DEFINE allowed == \E x \in DOMAIN EffectiveKeys(Log, at) : EffectiveKeys(Log, at)[x] = Multikey(k)
<1>10. VerifyProof(e, EffectiveKeys(Log, at)) = "ok" <=> allowed
  <2> DEFINE auth == EffectiveKeys(Log, at)
  <2> HIDE DEF auth
  <2>1. VerifyProof(e, auth) = "ok" <=> \E x \in DOMAIN auth : auth[x] = Multikey(SignerOf(e))
    BY <1>5, ProofVerifies
  <2>2. QED BY <2>1 DEF auth
<1>11. allowed <=> Abstract!Authorised(AbstractLog, at, k)
  <2>1. at \in 1 .. Len(Log)
    BY <1>1, <1>4
  <2> HIDE DEF at, k
  <2>2. QED BY <2>1, EffectiveKeysAre
<1>12. AbstractLog[i].signer = k /\ (AbstractLog[i].announces <=> KeysOf(e) # None)
  BY AbstractLogIs DEF e
<1> HIDE DEF k, allowed
<1>13. CASE i = 1
  <2>1. Abstract!Authorised(AbstractLog, 1, k)
          <=> AbstractLog[1].announces /\ k \in AbstractLog[1].updateKeys
    <3>1. 1 .. 1 = {1} /\ (1 + 1) .. 1 = {}
      OBVIOUS
    <3>2. QED BY <3>1 DEF Abstract!Authorised
  <2>2. VerifyEntry(Log, i, Did) = "ok" <=> KeysOf(e) # None /\ Abstract!Authorised(AbstractLog, 1, k)
    BY <1>9, <1>10, <1>11, <1>13
  <2>3. QED BY <1>12, <1>13, <2>1, <2>2 DEF Abstract!AuthorisedAt
<1>14. CASE i # 1
  BY <1>9, <1>10, <1>11, <1>12, <1>14 DEF Abstract!AuthorisedAt
<1>15. QED BY <1>13, <1>14

(* An undamaged did:tdw log verifies exactly when each entry is signed by a key allowed   *)
(* there.                                                                                 *)
LEMMA LogVerifies ==
  ASSUME WireInv, Intact, written # << >>, format = TDW03
  PROVE  VerifyLog(Log, Did) = "ok" <=> Abstract!Verifies(AbstractLog)
<1> DEFINE n == Len(Log)
           bad == {i \in DOMAIN Log : VerifyEntry(Log, i, Did) # "ok"}
           first == CHOOSE i \in bad : \A j \in bad : i <= j
<1>1. /\ DOMAIN Log = 1 .. n /\ n \in Nat \ {0} /\ n = Len(written)
      /\ Log = [j \in 1 .. Len(written) |-> EntryAt(written, j)]
  BY LogIs
<1> HIDE DEF n
<1>2. Log # << >>
  BY <1>1
<1>3. ASSUME NEW i \in 1 .. n
      PROVE  Log[i].format = TDW03 /\ Log[i].version_id.seq = i
  <2> DEFINE e == Log[i]
             h == e.version_id.hash
  <2>1. WellFormed(e, TDW03, i)
    BY <1>1 DEF WireInv, LineInv
  <2> HIDE DEF e
  <2>2. e.format = TDW03 /\ e.version_id = VersionId(i, h)
    BY <2>1 DEF WellFormed
  <2> HIDE DEF h
  <2>3. QED BY <2>2, StringsAreWritten DEF e
<1>4. VerifyLog(Log, Did) = "ok" <=> bad = {}
  <2>1. VerifyLog(Log, Did) = IF bad = {} THEN "ok" ELSE VerifyEntry(Log, first, Did)
    <3>1. ~ \E i \in DOMAIN Log : Log[i].format # TDW03
      BY <1>1, <1>3
    <3>2. QED BY <1>2, <3>1 DEF VerifyLog
  <2>2. ASSUME bad # {} PROVE first \in bad
    <3>1. bad \in SUBSET Nat
      BY <1>1
    <3> HIDE DEF bad
    <3>2. \E i \in bad : \A j \in bad : i <= j
      BY <2>2, <3>1, LeastNumber
    <3>3. QED BY <3>2
  <2>3. first \in bad => VerifyEntry(Log, first, Did) # "ok"
    OBVIOUS
  <2> HIDE DEF bad, first
  <2>4. QED BY <2>1, <2>2, <2>3
<1>5. bad = {} <=> \A i \in 1 .. n : Abstract!AuthorisedAt(AbstractLog, i)
  BY <1>1, EntryVerifies DEF n
<1>6. \A i \in 1 .. n : Abstract!ChainedAt(AbstractLog, i)
  <2>1. SUFFICES ASSUME NEW i \in 1 .. n PROVE Abstract!ChainedAt(AbstractLog, i)
    OBVIOUS
  <2>2. AbstractLog[i].seq = i /\ AbstractLog[i].prev = i - 1
    BY <1>3, AbstractLogIs DEF n
  <2>3. i # 1 => AbstractLog[i - 1].hash = i - 1
    <3>1. i # 1 => i - 1 \in 1 .. n
      BY <1>1
    <3>2. QED BY <3>1, AbstractLogIs DEF n
  <2>4. QED BY <2>2, <2>3 DEF Abstract!ChainedAt, Abstract!Scid
<1>7. Len(AbstractLog) = n /\ AbstractLog # << >>
  <2>1. Len(AbstractLog) = n /\ DOMAIN AbstractLog = 1 .. n
    BY AbstractLogIs DEF n
  <2>2. AbstractLog # << >>
    BY <1>1, <2>1
  <2>3. QED BY <2>1, <2>2
<1> HIDE DEF bad
<1>8. QED BY <1>4, <1>5, <1>6, <1>7 DEF Abstract!Verifies

(* The verifier on the file and the verification of DidLog agree on every written log.    *)
LEMMA VerifierAgrees == WireInv => WrittenLogsVerify
<1> SUFFICES ASSUME WireInv, Intact, written # << >>
             PROVE  /\ format = TDW03 =>
                         (VerifyLog(Log, Did) = "ok" <=> Abstract!Verifies(AbstractLog))
                    /\ \A i \in DOMAIN Log : ProofFromJson(Log[i].proofs[1]).ok
  BY DEF WrittenLogsVerify
<1>1. ASSUME NEW i \in DOMAIN Log PROVE ProofFromJson(Log[i].proofs[1]).ok
  <2>1. /\ i \in 1 .. Len(written) /\ Log[i] = EntryAt(written, i)
    BY LogIs
  <2>2. WellFormed(Log[i], format, i)
    BY <2>1 DEF WireInv, LineInv
  <2> DEFINE e == Log[i]
  <2>3. WellFormed(e, format, i)
    BY <2>2
  <2> HIDE DEF e
  <2>4. ProofFromJson(e.proofs[1]).ok
    BY <2>3, ProofIs
  <2>5. QED BY <2>4 DEF e
<1>2. QED BY <1>1, LogVerifies

(* verify_log, on the JSON text of an undamaged did:tdw log, says what the abstract       *)
(* verification of DidLog says of the entries: the log verifies exactly when each entry   *)
(* was signed by a key in force before it. The SCID, the hash chain, the times, the       *)
(* proof's form and the hash that the proof signs never get in the way, for logs of any   *)
(* length.                                                                                *)
THEOREM WrittenLogsAlwaysVerify == Spec => []WrittenLogsVerify
BY WireInvariant, VerifierAgrees, PTL

(* What the verifier has compared when it accepts an entry. *)
LEMMA AcceptedEntry ==
  ASSUME NEW a, NEW did, NEW i, VerifyEntry(a, i, did) = "ok"
  PROVE  /\ a[i].version_id.seq = i
         /\ a[i].version_id.hash =
              HashLogEntry(HashingForm(a[i], IF i = 1 THEN did.did ELSE a[i - 1].version_id))
<1> DEFINE e == a[i]
           hashing == HashingForm(e, IF i = 1 THEN did.did ELSE a[i - 1].version_id)
           last == VerifyProof(e, EffectiveKeys(a, IF i = 1 THEN 1 ELSE i - 1))
<1>1. VerifyEntry(a, i, did) =
        IF i = 1 /\ e.parameters.f["updateKeys"] = None THEN "MissingGenesisUpdateKeys"
        ELSE IF e.state.of = "patch" THEN "PatchState"
        ELSE IF ~HasString(e.state.json, "id") THEN "MalformedEntry"
        ELSE IF e.state.json.o["id"] # did THEN "DidIdentifierMismatch"
        ELSE IF "seq" \notin DOMAIN e.version_id \/ e.version_id.seq # i
          THEN "VersionIdSequenceMismatch"
        ELSE IF ~HashMatches(e, hashing) THEN "EntryHashMismatch"
        ELSE IF i = 1 /\ HashLogEntry(Replaced(hashing, did.did, Placeholder)) # did.did
          THEN "ScidMismatch"
        ELSE last
  BY DEF VerifyEntry
<1> HIDE DEF hashing, last, e
<1>2. e.version_id.seq = i /\ HashMatches(e, hashing)
  BY <1>1
<1>3. QED BY <1>2 DEF HashMatches, hashing, e

(* A log that verifies has an entry, and each of its entries does.                        *)
LEMMA AcceptedLog ==
  ASSUME NEW S, NEW a \in Seq(S), NEW did, VerifyLog(a, did) = "ok"
  PROVE  a # << >> /\ \A i \in 1 .. Len(a) : VerifyEntry(a, i, did) = "ok"
<1> DEFINE bad == {i \in DOMAIN a : VerifyEntry(a, i, did) # "ok"}
           first == CHOOSE i \in bad : \A j \in bad : i <= j
<1>1. DOMAIN a = 1 .. Len(a) /\ Len(a) \in Nat
  OBVIOUS
<1>2. a # << >> /\ (bad = {} \/ VerifyEntry(a, first, did) = "ok")
  BY DEF VerifyLog
<1>3. ASSUME bad # {} PROVE first \in bad
  <2>1. bad \in SUBSET Nat
    BY <1>1
  <2> HIDE DEF bad
  <2>2. \E i \in bad : \A j \in bad : i <= j
    BY <1>3, <2>1, LeastNumber
  <2>3. QED BY <2>2
<1>4. first \in bad => VerifyEntry(a, first, did) # "ok"
  OBVIOUS
<1> HIDE DEF first
<1>5. bad = {}
  <2> HIDE DEF bad
  <2>1. QED BY <1>2, <1>3, <1>4
<1>6. QED BY <1>1, <1>2, <1>5

(* Equal hashes are hashes of the same predecessor, time, parameters and state.           *)
LEMMA HashedAlike ==
  ASSUME NEW e, NEW f, NEW p, NEW q,
         HashLogEntry(HashingForm(e, p)) = HashLogEntry(HashingForm(f, q))
  PROVE  /\ p = q /\ e.version_time = f.version_time
         /\ ParamsToJson(e.parameters) = ParamsToJson(f.parameters)
         /\ StateToJson(e.state) = StateToJson(f.state)
<1> DEFINE s == <<p, e.version_time, ParamsToJson(e.parameters), StateToJson(e.state)>>
           t == <<q, f.version_time, ParamsToJson(f.parameters), StateToJson(f.state)>>
<1>1. HashLogEntry(Arr(s)) = HashLogEntry(Arr(t))
  BY DEF HashingForm
<1>2. \A x, y : HashLogEntry(x) = HashLogEntry(y) => x = y
  BY DEF HashLogEntry
<1>3. \A x, y : Arr(x) = Arr(y) => x = y
  BY DEF Arr
<1> HIDE DEF s, t
<1>4. s = t
  BY <1>1, <1>2, <1>3
<1>5. QED BY <1>4 DEF s, t

(* The hash chain: two logs that verify for a DID and end in the same versionId have the  *)
(* same length and say the same in every entry (versionId, time, parameters and state),   *)
(* whoever wrote them. verify_log compares each versionId with the hash of an entry that  *)
(* holds its predecessor's.                                                               *)
THEOREM VersionIdFixesLog ==
  ASSUME NEW S, NEW a \in Seq(S), NEW b \in Seq(S), NEW did,
         VerifyLog(a, did) = "ok", VerifyLog(b, did) = "ok",
         a[Len(a)].version_id = b[Len(b)].version_id
  PROVE  /\ Len(a) = Len(b)
         /\ \A i \in 1 .. Len(a) :
              /\ a[i].version_id = b[i].version_id /\ a[i].version_time = b[i].version_time
              /\ ParamsToJson(a[i].parameters) = ParamsToJson(b[i].parameters)
              /\ StateToJson(a[i].state) = StateToJson(b[i].state)
<1> DEFINE n == Len(a)
           prev(s, i) == IF i = 1 THEN did.did ELSE s[i - 1].version_id
<1>1. n \in Nat \ {0} /\ Len(b) \in Nat \ {0}
  <2>1. a # << >> /\ b # << >>
    BY AcceptedLog
  <2>2. QED BY <2>1
<1>2. \A i \in 1 .. n : /\ a[i].version_id.seq = i
                        /\ a[i].version_id.hash = HashLogEntry(HashingForm(a[i], prev(a, i)))
  BY AcceptedLog, AcceptedEntry
<1>3. \A i \in 1 .. Len(b) : /\ b[i].version_id.seq = i
                             /\ b[i].version_id.hash = HashLogEntry(HashingForm(b[i], prev(b, i)))
  BY AcceptedLog, AcceptedEntry
<1>4. Len(b) = n
  <2>1. a[n].version_id.seq = n /\ b[Len(b)].version_id.seq = Len(b)
    BY <1>1, <1>2, <1>3
  <2>2. QED BY <2>1
<1>5. ASSUME NEW i \in 1 .. n, a[i].version_id = b[i].version_id
      PROVE  /\ prev(a, i) = prev(b, i) /\ a[i].version_time = b[i].version_time
             /\ ParamsToJson(a[i].parameters) = ParamsToJson(b[i].parameters)
             /\ StateToJson(a[i].state) = StateToJson(b[i].state)
  <2> DEFINE e == a[i]
             f == b[i]
             p == prev(a, i)
             q == prev(b, i)
  <2>1. e.version_id.hash = HashLogEntry(HashingForm(e, p))
    BY <1>2
  <2>2. f.version_id.hash = HashLogEntry(HashingForm(f, q))
    BY <1>3, <1>4
  <2>3. e.version_id = f.version_id
    BY <1>5
  <2> HIDE DEF e, f, p, q
  <2>4. /\ p = q /\ e.version_time = f.version_time
        /\ ParamsToJson(e.parameters) = ParamsToJson(f.parameters)
        /\ StateToJson(e.state) = StateToJson(f.state)
    BY <2>1, <2>2, <2>3, HashedAlike
  <2>5. QED BY <2>4 DEF e, f, p, q
<1>6. \A i \in 1 .. n : a[i].version_id = b[i].version_id
  <2> DEFINE T == {i \in 1 .. n : a[i].version_id # b[i].version_id}
  <2>1. SUFFICES ASSUME T # {} PROVE FALSE
    OBVIOUS
  <2>2. T \in SUBSET (1 .. n)
    OBVIOUS
  <2>3. PICK m \in T : \A i \in T : i <= m
    <3> HIDE DEF T, n
    <3>1. QED BY <1>1, <2>1, <2>2, GreatestNumber
  <2>4. m \in 1 .. n /\ m # n
    BY <1>4
  <2>5. m + 1 \in 1 .. n /\ m + 1 \notin T /\ m + 1 # 1 /\ m + 1 - 1 = m
    BY <1>1, <2>3, <2>4
  <2>6. a[m + 1].version_id = b[m + 1].version_id
    BY <2>5
  <2>7. prev(a, m + 1) = prev(b, m + 1)
    BY <1>5, <2>5, <2>6
  <2>8. a[m].version_id = b[m].version_id
    BY <2>5, <2>7
  <2>9. QED BY <2>3, <2>8
<1>7. QED BY <1>4, <1>5, <1>6
=====
