--------------------------- MODULE McuFrames_proofs ---------------------------
(***************************************************************************)
(* On an undisturbed line the receiver is a channel, for any bytes, any    *)
(* heads, any lengths and however the bytes are cut into chunks.           *)
(*                                                                         *)
(* The two loops of the receiver are recursive functions.  Each gets a     *)
(* lemma that it satisfies its equation, and what it does is shown by      *)
(* looking at a least counterexample.                                      *)
(***************************************************************************)
EXTENDS McuFrames, SequenceTheorems, WellFoundedInduction, TLAPS

\* The induction of this module: a set of numbers that is not empty has a least one.
LEMMA LeastNat ==
    ASSUME NEW S \in SUBSET Nat, S # {}
    PROVE  \E n \in S : \A m \in S : n <= m
<1>1. IsWellFoundedOn(OpToRel(<, Nat), Nat)
  BY NatLessThanWellFounded, Zenon
<1>2. PICK x \in S : \A y \in S : <<y, x>> \notin OpToRel(<, Nat)
  BY <1>1, WFMin, Zenon
<1>3. \A y \in S : ~(y < x)
  BY <1>2 DEF OpToRel
<1> QED
  BY <1>3
-----------------------------------------------------------------------------
(* The sum.                                                                *)

\* One more byte in the sum.
Plus(s, x, i) == (x + s[i]) % Base

LEMMA PlusByte ==
    ASSUME NEW s \in Seq(Byte), NEW x \in Byte, NEW i \in 1..Len(s)
    PROVE  Plus(s, x, i) \in Byte
<1>1. s[i] \in Byte
  OBVIOUS
<1>2. \A y \in Byte : (x + y) \in Nat
  BY BytesAssumption DEF Byte
<1>3. \A n \in Nat : n % Base \in Byte
  BY BytesAssumption DEF Byte
<1> QED
  BY <1>1, <1>2, <1>3 DEF Plus

\* The recursive function in the definition of Sum exists.
LEMMA SumExists ==
    ASSUME NEW s \in Seq(Byte)
    PROVE  \E f : f = [i \in 0..Len(s) |-> IF i = 0 THEN 0 ELSE Plus(s, f[i - 1], i)]
<1> DEFINE Upto(n) == \E f : f = [i \in 0..n |-> IF i = 0 THEN 0 ELSE Plus(s, f[i - 1], i)]
           S == {n \in Nat : ~Upto(n)}
<1>1. SUFFICES ASSUME S # {} PROVE FALSE
  BY DEF S
<1>2. PICK n \in S : \A m \in S : n <= m
  BY <1>1, LeastNat
<1>3. n # 0
  <2>1. [i \in 0..0 |-> 0] = [i \in 0..0 |-> IF i = 0 THEN 0 ELSE Plus(s, [j \in 0..0 |-> 0][i - 1], i)]
    OBVIOUS
  <2> DEFINE z == [i \in 0..0 |-> 0]
  <2>2. z = [i \in 0..0 |-> IF i = 0 THEN 0 ELSE Plus(s, z[i - 1], i)]
    BY <2>1
  <2> HIDE DEF z
  <2>3. Upto(0)
    BY <2>2, Zenon
  <2> QED
    BY <2>3
<1>4. n \in Nat /\ n - 1 \in Nat /\ n - 1 \notin S
  <2>1. S \subseteq Nat
    OBVIOUS
  <2> HIDE DEF S
  <2> QED
    BY <1>2, <1>3, <2>1
<1>5. PICK f : f = [i \in 0..(n - 1) |-> IF i = 0 THEN 0 ELSE Plus(s, f[i - 1], i)]
  BY <1>4
<1> DEFINE g == [i \in 0..n |-> IF i < n THEN f[i] ELSE Plus(s, f[n - 1], n)]
<1>6. ASSUME NEW i \in 0..n
      PROVE  g[i] = IF i = 0 THEN 0 ELSE Plus(s, g[i - 1], i)
  <2>1. CASE i < n
    <3>1. g[i] = f[i] /\ (i # 0 => g[i - 1] = f[i - 1])
      BY <2>1
    <3>2. f[i] = IF i = 0 THEN 0 ELSE Plus(s, f[i - 1], i)
      BY <1>5, <2>1
    <3> QED
      BY <3>1, <3>2
  <2>2. CASE i = n
    BY <1>3, <2>2
  <2> QED
    BY <2>1, <2>2
<1>7. g = [i \in 0..n |-> IF i = 0 THEN 0 ELSE Plus(s, g[i - 1], i)]
  BY <1>6
<1> QED
  BY <1>7

LEMMA SumByte ==
    ASSUME NEW s \in Seq(Byte)
    PROVE  Sum(s) \in Byte
<1> DEFINE u == CHOOSE f : f = [i \in 0..Len(s) |-> IF i = 0 THEN 0 ELSE Plus(s, f[i - 1], i)]
<1>1. u = [i \in 0..Len(s) |-> IF i = 0 THEN 0 ELSE Plus(s, u[i - 1], i)]
  BY SumExists
<1>2. Sum(s) = u[Len(s)]
  BY DEF Sum, Plus
<1> HIDE DEF u
<1> DEFINE S == {i \in 0..Len(s) : u[i] \notin Byte}
<1>3. ASSUME S # {} PROVE FALSE
  <2>1. S \subseteq Nat
    OBVIOUS
  <2>2. PICK i \in S : \A m \in S : i <= m
    BY <1>3, <2>1, LeastNat
  <2>3. i # 0
    BY <1>1, BytesAssumption DEF Byte
  <2>4. i - 1 \in 0..Len(s) /\ i - 1 \notin S /\ i \in 1..Len(s)
    BY <2>2, <2>3
  <2>5. u[i] = Plus(s, u[i - 1], i) /\ u[i - 1] \in Byte
    BY <1>1, <2>3, <2>4
  <2> QED
    BY <2>4, <2>5, PlusByte
<1> QED
  BY <1>2, <1>3
-----------------------------------------------------------------------------
(* Pieces of sequences.                                                    *)

LEMMA Chunk ==
    ASSUME NEW S, NEW s \in Seq(S), NEW x \in Nat, NEW k \in Nat, x + k <= Len(s)
    PROVE  /\ SubSeq(s, x + 1, x + k) \in Seq(S) /\ Len(SubSeq(s, x + 1, x + k)) = k
           /\ \A i \in 1..k : SubSeq(s, x + 1, x + k)[i] = s[x + i]
<1>1. SubSeq(s, x + 1, x + k) \in Seq(S)
  OBVIOUS
<1>2. Len(SubSeq(s, x + 1, x + k)) = k
  OBVIOUS
<1>3. \A i \in 1..k : SubSeq(s, x + 1, x + k)[i] = s[x + i]
  OBVIOUS
<1> QED
  BY <1>1, <1>2, <1>3

LEMMA Regroup ==
    ASSUME NEW S, NEW s \in Seq(S), NEW t \in Seq(S), NEW u \in Seq(S)
    PROVE  s \o (t \o u) = (s \o t) \o u
  OBVIOUS
-----------------------------------------------------------------------------
(* The loop of add.                                                        *)

LEMMA MinOfTwo ==
    ASSUME NEW a \in Nat, NEW b \in Nat
    PROVE  Min({a, b}) = IF a <= b THEN a ELSE b
<1> DEFINE m == IF a <= b THEN a ELSE b
<1>1. m \in {a, b} /\ \A y \in {a, b} : m <= y
  OBVIOUS
<1>2. \A x \in {a, b} : (\A y \in {a, b} : x <= y) => x = m
  OBVIOUS
<1> HIDE DEF m
<1>3. (CHOOSE x \in {a, b} : \A y \in {a, b} : x <= y) = m
  BY <1>1, <1>2
<1> QED
  BY <1>3 DEF Min, m

LEMMA MinOfSet ==
    ASSUME NEW S \in SUBSET Nat, S # {}
    PROVE  Min(S) \in S /\ \A y \in S : Min(S) <= y
<1>1. \E x \in S : \A y \in S : x <= y
  BY LeastNat
<1> QED
  BY <1>1 DEF Min

LEMMA FromHeadType ==
    ASSUME NEW b \in Seq(Byte)
    PROVE  /\ FromHead(b) \in Seq(Byte) /\ Len(FromHead(b)) <= Len(b)
           /\ b # << >> /\ b[1] \in Heads => FromHead(b) = b
<1> DEFINE at == {i \in DOMAIN b : b[i] \in Heads}
<1>1. at \subseteq 1..Len(b) /\ at \in SUBSET Nat
  OBVIOUS
<1>2. CASE at = {}
  <2>1. FromHead(b) = << >>
    BY <1>2 DEF FromHead
  <2>2. b # << >> => 1 \in DOMAIN b
    OBVIOUS
  <2> QED
    BY <1>2, <2>1, <2>2
<1>3. CASE at # {}
  <2>1. Min(at) \in at /\ \A y \in at : Min(at) <= y
    BY <1>1, <1>3, MinOfSet
  <2>2. FromHead(b) = SubSeq(b, Min(at), Len(b))
    BY <1>3 DEF FromHead, From
  <2>3. b # << >> /\ b[1] \in Heads => Min(at) = 1
    <3>1. b # << >> => 1 \in DOMAIN b
      OBVIOUS
    <3>2. b # << >> /\ b[1] \in Heads => 1 \in at
      BY <3>1
    <3>3. Min(at) \in 1..Len(b)
      BY <1>1, <2>1
    <3> HIDE DEF at
    <3> QED
      BY <2>1, <3>2, <3>3
  <2>4. Min(at) \in 1..Len(b)
    BY <1>1, <2>1
  <2>5. \A i \in 1..Len(b) : SubSeq(b, i, Len(b)) \in Seq(Byte) /\ Len(SubSeq(b, i, Len(b))) <= Len(b)
    OBVIOUS
  <2>6. SubSeq(b, 1, Len(b)) = b
    OBVIOUS
  <2> HIDE DEF at
  <2> QED
    BY <2>2, <2>3, <2>4, <2>5, <2>6
<1> QED
  BY <1>2, <1>3

\* The loop goes on.
Goes(r) == Len(r.buf) < BufLen /\ r.rlen < Len(r.bf)

\* What the chunk has left.
Left(r) == IF r.rlen < Len(r.bf) THEN Len(r.bf) - r.rlen ELSE 0

LEMMA AddingType ==
    ASSUME NEW r \in Adding
    PROVE  /\ r.buf \in Seq(Byte) /\ r.bf \in Seq(Byte) /\ r.rlen \in Nat /\ r.found \in BOOLEAN
           /\ Len(r.buf) \in Nat /\ Len(r.bf) \in Nat
<1>1. r.buf \in Seq(Byte) /\ r.bf \in Seq(Byte) /\ r.rlen \in Nat /\ r.found \in BOOLEAN
  BY DEF Adding
<1> QED
  BY <1>1

LEMMA LeftNat == \A r \in Adding : Left(r) \in Nat
  BY DEF Left, Adding

LEMMA PartRead ==
    ASSUME NEW r \in Adding, NEW k \in Nat, k <= Len(r.bf) - r.rlen
    PROVE  /\ SubSeq(r.bf, r.rlen + 1, r.rlen + k) \in Seq(Byte)
           /\ Len(SubSeq(r.bf, r.rlen + 1, r.rlen + k)) = k
<1>1. r.bf \in Seq(Byte) /\ r.rlen \in Nat
  BY DEF Adding
<1>2. r.rlen + k <= Len(r.bf)
  BY <1>1
<1> QED
  BY <1>1, <1>2, Chunk

\* A round reads on, in the same chunk, and never past the buffer.
LEMMA RoundType ==
    ASSUME NEW r \in Adding, Goes(r)
    PROVE  /\ Round(r) \in Adding /\ Round(r).bf = r.bf
           /\ r.rlen < Round(r).rlen /\ Round(r).rlen <= Len(r.bf)
           /\ Left(Round(r)) < Left(r)
           /\ Len(Round(r).buf) <= BufLen
           /\ Len(Round(r).buf) + r.rlen <= Len(r.buf) + Round(r).rlen
<1>1. r.buf \in Seq(Byte) /\ r.bf \in Seq(Byte) /\ r.rlen \in Nat /\ r.found \in BOOLEAN
  BY DEF Adding
<1>2. Room(r.buf) \in Nat /\ Room(r.buf) > 0 /\ Room(r.buf) = BufLen - Len(r.buf)
  BY <1>1, SizeAssumption DEF Goes, Room
<1>3. Len(r.bf) - r.rlen \in Nat /\ Len(r.bf) - r.rlen > 0
  BY <1>1 DEF Goes
<1>4. PICK k \in Nat : /\ k = Min({Room(r.buf), Len(r.bf) - r.rlen})
                       /\ k > 0 /\ k <= Room(r.buf) /\ k <= Len(r.bf) - r.rlen
  BY <1>2, <1>3, MinOfTwo
<1> DEFINE part == SubSeq(r.bf, r.rlen + 1, r.rlen + k)
           full == r.buf \o part
           looks == ~r.found /\ Len(full) > 1
           kept == IF looks THEN FromHead(full) ELSE full
<1>5. part \in Seq(Byte) /\ Len(part) = k
  BY <1>4, PartRead
<1> HIDE DEF part
<1>6. full \in Seq(Byte) /\ Len(full) = Len(r.buf) + k
  BY <1>1, <1>5
<1> HIDE DEF full
<1>7. kept \in Seq(Byte) /\ Len(kept) <= BufLen /\ Len(kept) <= Len(r.buf) + k
  <2>1. Len(full) \in Nat /\ Len(full) <= BufLen /\ Len(full) = Len(r.buf) + k
    BY <1>1, <1>2, <1>4, <1>6, SizeAssumption
  <2>2. FromHead(full) \in Seq(Byte) /\ Len(FromHead(full)) \in Nat /\ Len(FromHead(full)) <= Len(full)
    BY <1>6, FromHeadType
  <2>3. CASE looks
    BY <2>1, <2>2, <2>3, SizeAssumption
  <2>4. CASE ~looks
    BY <1>6, <2>1, <2>4
  <2> QED
    BY <2>3, <2>4
<1>8. Round(r) = [r EXCEPT !.buf = kept, !.rlen = @ + k, !.found = @ \/ (looks /\ kept # << >>)]
  BY <1>4 DEF Round, full, part
<1>9. (r.found \/ (looks /\ kept # << >>)) \in BOOLEAN
  BY <1>1
<1> DEFINE f == r.found \/ (looks /\ kept # << >>)
<1>10. /\ Round(r).buf = kept /\ Round(r).bf = r.bf /\ Round(r).rlen = r.rlen + k
       /\ Round(r) \in Adding
  <2>1. f \in BOOLEAN /\ Round(r) = [r EXCEPT !.buf = kept, !.rlen = r.rlen + k, !.found = f]
    BY <1>8, <1>9
  <2> HIDE DEF kept, looks, f
  <2>2. r.rlen + k \in Nat
    BY <1>1, <1>4
  <2> QED
    BY <1>7, <2>1, <2>2 DEF Adding
<1> HIDE DEF kept, looks, f
<1>11. Len(r.buf) \in Nat /\ Len(r.bf) \in Nat /\ Len(kept) \in Nat
  BY <1>1, <1>7
<1>12. r.rlen < r.rlen + k /\ r.rlen + k <= Len(r.bf) /\ Len(kept) + r.rlen <= Len(r.buf) + (r.rlen + k)
  BY <1>1, <1>4, <1>7, <1>11
<1>13. Left(Round(r)) < Left(r)
  BY <1>1, <1>3, <1>4, <1>10, <1>11, <1>12 DEF Left
<1> QED
  BY <1>7, <1>10, <1>12, <1>13

\* f is the loop, for chunks that have at most n bytes left.
FillsUpTo(f, n) ==
    \A r \in Adding : Left(r) <= n => f[r] = IF Goes(r) THEN f[Round(r)] ELSE r

LEMMA FillsUnique ==
    ASSUME NEW n \in Nat, NEW f, NEW g, FillsUpTo(f, n), FillsUpTo(g, n),
           NEW r \in Adding, Left(r) <= n
    PROVE  f[r] = g[r]
<1> DEFINE S == {m \in 0..n : \E q \in Adding : Left(q) = m /\ f[q] # g[q]}
<1>1. ASSUME S # {} PROVE FALSE
  <2>1. S \subseteq Nat
    OBVIOUS
  <2>2. PICK m \in S : \A k \in S : m <= k
    BY <1>1, <2>1, LeastNat
  <2>3. PICK q \in Adding : Left(q) = m /\ f[q] # g[q]
    BY <2>2
  <2>4. Goes(q)
    BY <2>3, <2>2 DEF FillsUpTo
  <2>5. Round(q) \in Adding /\ Left(Round(q)) < Left(q) /\ Left(Round(q)) \in Nat
    BY <2>4, RoundType, LeftNat
  <2>6. f[q] = f[Round(q)] /\ g[q] = g[Round(q)]
    BY <2>2, <2>3, <2>4 DEF FillsUpTo
  <2>7. Left(Round(q)) \in S
    BY <2>2, <2>3, <2>5, <2>6
  <2> QED
    BY <2>2, <2>3, <2>5, <2>7
<1>2. Left(r) \in 0..n
  BY LeftNat
<1> QED
  BY <1>1, <1>2

LEMMA FillsExist ==
    ASSUME NEW n \in Nat
    PROVE  \E f : FillsUpTo(f, n)
<1> DEFINE S == {m \in Nat : ~\E f : FillsUpTo(f, m)}
<1>1. ASSUME S # {} PROVE FALSE
  <2>1. S \subseteq Nat
    OBVIOUS
  <2>2. PICK m \in S : \A k \in S : m <= k
    BY <1>1, <2>1, LeastNat
  <2> DEFINE base == [r \in Adding |-> r]
  <2>3. m # 0
    <3>1. \A r \in Adding : Left(r) <= 0 => ~Goes(r)
      BY DEF Left, Goes, Adding
    <3>2. FillsUpTo(base, 0)
      BY <3>1 DEF FillsUpTo
    <3> HIDE DEF base
    <3> QED
      BY <3>2
  <2>4. m \in Nat /\ m - 1 \in Nat /\ m - 1 \notin S
    <3> HIDE DEF S
    <3> QED
      BY <2>1, <2>2, <2>3
  <2>5. PICK f : FillsUpTo(f, m - 1)
    BY <2>4
  <2> DEFINE g == [r \in Adding |-> IF Left(r) <= m - 1 THEN f[r]
                                    ELSE IF Goes(r) THEN f[Round(r)] ELSE r]
  <2>6. ASSUME NEW r \in Adding, Left(r) <= m
        PROVE  g[r] = IF Goes(r) THEN g[Round(r)] ELSE r
    <3>1. CASE ~Goes(r)
      BY <2>5, <3>1 DEF FillsUpTo
    <3>2. CASE Goes(r)
      <4>1. Round(r) \in Adding /\ Left(Round(r)) <= m - 1
        BY <2>4, <2>6, <3>2, RoundType, LeftNat
      <4>2. g[Round(r)] = f[Round(r)]
        BY <4>1
      <4>3. g[r] = f[Round(r)]
        BY <2>5, <3>2 DEF FillsUpTo
      <4> QED
        BY <3>2, <4>2, <4>3
    <3> QED
      BY <3>1, <3>2
  <2>7. FillsUpTo(g, m)
    BY <2>6 DEF FillsUpTo
  <2> HIDE DEF g
  <2> QED
    BY <2>2, <2>7
<1> QED
  BY <1>1

\* The loop of add ends: Fill satisfies its equation.
LEMMA FillEquation ==
    ASSUME NEW r \in Adding
    PROVE  Fill[r] = IF Goes(r) THEN Fill[Round(r)] ELSE r
<1> DEFINE F(n) == CHOOSE f : FillsUpTo(f, n)
           h == [q \in Adding |-> F(Left(q))[q]]
<1>1. \A n \in Nat : FillsUpTo(F(n), n)
  BY FillsExist
<1> HIDE DEF F
<1>2. ASSUME NEW q \in Adding
      PROVE  h[q] = IF Goes(q) THEN h[Round(q)] ELSE q
  <2>1. Left(q) \in Nat /\ FillsUpTo(F(Left(q)), Left(q))
    BY <1>1, LeftNat
  <2>2. CASE ~Goes(q)
    BY <2>1, <2>2 DEF FillsUpTo
  <2>3. CASE Goes(q)
    <3>1. Round(q) \in Adding /\ Left(Round(q)) < Left(q) /\ Left(Round(q)) \in Nat
      BY <2>3, RoundType, LeftNat
    <3>2. FillsUpTo(F(Left(Round(q))), Left(Round(q)))
      BY <1>1, <3>1
    <3>3. FillsUpTo(F(Left(q)), Left(Round(q)))
      BY <2>1, <3>1, LeftNat DEF FillsUpTo
    <3>4. F(Left(q))[Round(q)] = F(Left(Round(q)))[Round(q)]
      BY <3>1, <3>2, <3>3, FillsUnique
    <3>5. h[q] = F(Left(q))[Round(q)]
      BY <2>1, <2>3 DEF FillsUpTo
    <3> QED
      BY <2>3, <3>1, <3>4, <3>5
  <2> QED
    BY <2>2, <2>3
<1>3. h = [q \in Adding |-> IF Goes(q) THEN h[Round(q)] ELSE q]
  BY <1>2
<1> HIDE DEF h
<1>4. \E f : f = [q \in Adding |-> IF Goes(q) THEN f[Round(q)] ELSE q]
  BY <1>3, Zenon
<1>5. \A q \in Adding : Len(q.buf) \in Nat /\ Len(q.bf) \in Nat /\ q.rlen \in Nat
  BY DEF Adding
<1>6. Fill = CHOOSE f : f = [q \in Adding |-> IF Len(q.buf) >= BufLen \/ q.rlen >= Len(q.bf)
                                               THEN q ELSE f[Round(q)]]
  BY DEF Fill
<1>7. \A f : [q \in Adding |-> IF Len(q.buf) >= BufLen \/ q.rlen >= Len(q.bf) THEN q ELSE f[Round(q)]]
              = [q \in Adding |-> IF Goes(q) THEN f[Round(q)] ELSE q]
  BY <1>5, SizeAssumption DEF Goes
<1>8. \E f : f = [q \in Adding |-> IF Len(q.buf) >= BufLen \/ q.rlen >= Len(q.bf)
                                  THEN q ELSE f[Round(q)]]
  BY <1>4, <1>7
<1>9. Fill = [q \in Adding |-> IF Len(q.buf) >= BufLen \/ q.rlen >= Len(q.bf)
                               THEN q ELSE Fill[Round(q)]]
  BY <1>6, <1>8, Zenon
<1> QED
  BY <1>7, <1>9

\* Reading on, by the bytes read and the bytes kept.
LEMMA ReadsOn ==
    ASSUME NEW q \in Adding, NEW t \in Adding, NEW u \in Adding, q.rlen < t.rlen, t.rlen <= u.rlen,
           Len(t.buf) + q.rlen <= Len(q.buf) + t.rlen, Len(u.buf) + t.rlen <= Len(t.buf) + u.rlen
    PROVE  q.rlen < u.rlen /\ Len(u.buf) + q.rlen <= Len(q.buf) + u.rlen
  BY DEF Adding

LEMMA FillType ==
    ASSUME NEW r \in Adding, Len(r.buf) <= BufLen, r.rlen <= Len(r.bf)
    PROVE  /\ Fill[r] \in Adding /\ Fill[r].bf = r.bf
           /\ Len(Fill[r].buf) <= BufLen
           /\ r.rlen <= Fill[r].rlen /\ Fill[r].rlen <= Len(r.bf)
           /\ Len(Fill[r].buf) + r.rlen <= Len(r.buf) + Fill[r].rlen
           /\ Goes(r) => r.rlen < Fill[r].rlen
<1> DEFINE Fine(q) == /\ Fill[q] \in Adding /\ Fill[q].bf = q.bf
                      /\ Len(Fill[q].buf) <= BufLen
                      /\ q.rlen <= Fill[q].rlen /\ Fill[q].rlen <= Len(q.bf)
                      /\ Len(Fill[q].buf) + q.rlen <= Len(q.buf) + Fill[q].rlen
                      /\ Goes(q) => q.rlen < Fill[q].rlen
           In(q) == q \in Adding /\ Len(q.buf) <= BufLen /\ q.rlen <= Len(q.bf)
           S == {n \in Nat : \E q \in Adding : In(q) /\ Left(q) = n /\ ~Fine(q)}
<1>1. ASSUME S # {} PROVE FALSE
  <2>1. S \subseteq Nat
    OBVIOUS
  <2>2. PICK n \in S : \A m \in S : n <= m
    BY <1>1, <2>1, LeastNat
  <2>3. PICK q \in Adding : In(q) /\ Left(q) = n /\ ~Fine(q)
    BY <2>2
  <2>4. Len(q.buf) \in Nat /\ Len(q.bf) \in Nat /\ q.rlen \in Nat
    BY DEF Adding
  <2>5. CASE ~Goes(q)
    <3>1. Fill[q] = q
      BY <2>5, FillEquation
    <3> QED
      BY <2>3, <2>4, <2>5, <3>1
  <2>6. CASE Goes(q)
    <3> DEFINE t == Round(q)
    <3>1. Fill[q] = Fill[t]
      BY <2>6, FillEquation
    <3>2. /\ t \in Adding /\ t.bf = q.bf /\ q.rlen < t.rlen /\ t.rlen <= Len(q.bf)
          /\ Left(t) < Left(q) /\ Len(t.buf) <= BufLen
          /\ Len(t.buf) + q.rlen <= Len(q.buf) + t.rlen
      BY <2>6, RoundType
    <3>3. Left(t) \in Nat /\ Left(t) < n
      BY <2>3, <3>2, LeftNat
    <3> HIDE DEF t
    <3>4. In(t)
      BY <3>2
    <3>5. Left(t) \notin S /\ n \in Nat
      <4> HIDE DEF S
      <4> QED
        BY <2>1, <2>2, <3>3
    <3>6. Fine(t)
      BY <3>2, <3>3, <3>4, <3>5
    <3>7. Len(t.buf) \in Nat /\ t.rlen \in Nat /\ Len(Fill[t].buf) \in Nat /\ Fill[t].rlen \in Nat
      BY <3>2, <3>6, AddingType
    <3>8. /\ Fill[q] \in Adding /\ Fill[q].bf = q.bf /\ Len(Fill[q].buf) <= BufLen
          /\ Fill[q].rlen <= Len(q.bf)
      BY <3>1, <3>2, <3>6
    <3>9. q.rlen < Fill[q].rlen /\ Len(Fill[q].buf) + q.rlen <= Len(q.buf) + Fill[q].rlen
      BY <3>1, <3>2, <3>6, ReadsOn
    <3>10. Fine(q)
      BY <2>4, <3>8, <3>9, <3>7, <3>1
    <3> QED
      BY <2>3, <3>10
  <2> QED
    BY <2>5, <2>6
<1>2. In(r) /\ Left(r) \in Nat
  BY LeftNat
<1>3. Fine(r)
  BY <1>1, <1>2
<1> QED
  BY <1>3

\* What add gives back to be added again is less than what it read: of an empty buffer it
\* keeps something.
LEMMA AddType ==
    ASSUME NEW b \in Seq(Byte), Len(b) <= BufLen, NEW c \in Seq(Byte)
    PROVE  /\ Add(b, c) \in Adding /\ Add(b, c).bf = c
           /\ Len(Add(b, c).buf) <= BufLen /\ Add(b, c).rlen <= Len(c)
           /\ b = << >> /\ c # << >> => Add(b, c).rlen > 0
<1> DEFINE r == [buf |-> b, bf |-> c, rlen |-> 0, found |-> FALSE]
           t == Fill[r]
<1>1. r \in Adding /\ Len(r.buf) <= BufLen /\ r.rlen <= Len(r.bf) /\ r.bf = c /\ r.buf = b /\ r.rlen = 0
  BY DEF Adding
<1>2. b = << >> /\ c # << >> => Goes(r)
  BY SizeAssumption DEF Goes
<1> HIDE DEF r
<1>3. /\ t \in Adding /\ t.bf = c /\ Len(t.buf) <= BufLen /\ t.rlen <= Len(c)
      /\ Len(t.buf) <= Len(b) + t.rlen
      /\ b = << >> /\ c # << >> => 0 < t.rlen
  <2>1. /\ t \in Adding /\ t.bf = r.bf /\ Len(t.buf) <= BufLen /\ t.rlen <= Len(r.bf)
        /\ Len(t.buf) + r.rlen <= Len(r.buf) + t.rlen
        /\ Goes(r) => r.rlen < t.rlen
    BY <1>1, FillType
  <2>2. Len(t.buf) \in Nat /\ t.rlen \in Nat
    BY <2>1 DEF Adding
  <2> HIDE DEF t
  <2> QED
    BY <1>1, <1>2, <2>1, <2>2
<1>4. Add(b, c) = Trim[t]
  BY DEF Add, r
<1> HIDE DEF t
<1>5. Trim[t] = [t EXCEPT !.rlen = IF t.rlen > Excess(t) THEN t.rlen - Excess(t) ELSE 0]
  BY <1>3 DEF Trim
<1>6. t.buf \in Seq(Byte) /\ t.rlen \in Nat /\ Len(t.buf) \in Nat
  BY <1>3 DEF Adding
<1>7. Excess(t) \in Nat /\ (Excess(t) > 0 => Len(t.buf) >= Excess(t) + 4)
  <2>1. Len(t.buf) > 4 => RealLen(t.buf) \in Nat /\ RealLen(t.buf) >= 4
    <3>1. Len(t.buf) > 4 => t.buf[2] \in Byte
      BY <1>6
    <3> QED
      BY <3>1, BytesAssumption DEF RealLen, Byte
  <2> QED
    BY <1>6, <2>1 DEF Excess
<1> DEFINE e == IF t.rlen > Excess(t) THEN t.rlen - Excess(t) ELSE 0
<1>8. e \in Nat /\ e <= t.rlen /\ (b = << >> /\ c # << >> => e > 0)
  BY <1>3, <1>6, <1>7
<1>9. Add(b, c) = [t EXCEPT !.rlen = e]
  BY <1>4, <1>5
<1> HIDE DEF e
<1>10. Add(b, c) \in Adding /\ Add(b, c).bf = t.bf /\ Add(b, c).buf = t.buf /\ Add(b, c).rlen = e
  BY <1>3, <1>8, <1>9 DEF Adding
<1> QED
  BY <1>3, <1>6, <1>8, <1>10
-----------------------------------------------------------------------------
(* The loop of onUartData.                                                 *)

\* The next add, for what the last one left of the chunk.
Again(a) == Add(<< >>, From(a.bf, a.rlen + 1))

LEMMA RestType ==
    ASSUME NEW a \in Adding, a.rlen < Len(a.bf)
    PROVE  /\ From(a.bf, a.rlen + 1) \in Seq(Byte) /\ From(a.bf, a.rlen + 1) # << >>
           /\ Len(From(a.bf, a.rlen + 1)) = Len(a.bf) - a.rlen
<1> DEFINE k == Len(a.bf) - a.rlen
           c == SubSeq(a.bf, a.rlen + 1, a.rlen + k)
<1>1. k \in Nat /\ k > 0 /\ a.rlen + k = Len(a.bf) /\ k <= Len(a.bf) - a.rlen
  BY AddingType
<1>2. From(a.bf, a.rlen + 1) = c
  BY <1>1 DEF From
<1>3. k = Len(a.bf) - a.rlen
  OBVIOUS
<1> HIDE DEF k
<1>4. c \in Seq(Byte) /\ Len(c) = k
  BY <1>1, PartRead
<1> HIDE DEF c
<1>5. c # << >>
  BY <1>1, <1>4
<1> QED
  BY <1>2, <1>3, <1>4, <1>5

LEMMA AgainType ==
    ASSUME NEW a \in Adding, a.rlen < Len(a.bf)
    PROVE  /\ Again(a) \in Adding /\ Len(Again(a).buf) <= BufLen
           /\ Left(Again(a)) \in Nat /\ Left(Again(a)) < Left(a)
<1> DEFINE c == From(a.bf, a.rlen + 1)
           t == Again(a)
<1>1. c \in Seq(Byte) /\ c # << >> /\ Len(c) = Len(a.bf) - a.rlen
  BY RestType
<1>2. << >> \in Seq(Byte) /\ Len(<< >>) <= BufLen
  BY SizeAssumption
<1>3. t = Add(<< >>, c)
  BY DEF Again
<1> HIDE DEF c, t
<1>4. t \in Adding /\ t.bf = c /\ Len(t.buf) <= BufLen /\ t.rlen <= Len(c) /\ t.rlen > 0
  BY <1>1, <1>2, <1>3, AddType
<1>5. Left(t) \in Nat /\ Left(a) = Len(a.bf) - a.rlen /\ Left(a) > 0 /\ Left(a) \in Nat
  BY <1>4, LeftNat, AddingType DEF Left
<1>6. Left(t) < Left(a)
  BY <1>1, <1>4, <1>5, AddingType DEF Left
<1> QED
  BY <1>4, <1>5, <1>6 DEF t

\* The body of Deal.
DealBody(f, a) ==
    IF ~Complete(a.buf) THEN [buf |-> a.buf, got |-> << >>]
    ELSE LET r == IF a.rlen >= Len(a.bf) THEN [buf |-> << >>, got |-> << >>] ELSE f[Again(a)]
         IN  [buf |-> r.buf, got |-> Handed(a.buf) \o r.got]

DealsUpTo(f, n) == \A a \in Adding : Left(a) <= n => f[a] = DealBody(f, a)

LEMMA DealBodyLocal ==
    ASSUME NEW a \in Adding, NEW f, NEW g, a.rlen < Len(a.bf) => f[Again(a)] = g[Again(a)]
    PROVE  DealBody(f, a) = DealBody(g, a)
<1>1. a.rlen >= Len(a.bf) \/ a.rlen < Len(a.bf)
  BY AddingType
<1> QED
  BY <1>1 DEF DealBody

LEMMA DealsUnique ==
    ASSUME NEW n \in Nat, NEW f, NEW g, DealsUpTo(f, n), DealsUpTo(g, n),
           NEW a \in Adding, Left(a) <= n
    PROVE  f[a] = g[a]
<1> DEFINE S == {m \in 0..n : \E q \in Adding : Left(q) = m /\ f[q] # g[q]}
<1>1. ASSUME S # {} PROVE FALSE
  <2>1. S \subseteq Nat
    OBVIOUS
  <2>2. PICK m \in S : \A k \in S : m <= k
    BY <1>1, <2>1, LeastNat
  <2>3. PICK q \in Adding : Left(q) = m /\ f[q] # g[q]
    BY <2>2
  <2>4. f[q] = DealBody(f, q) /\ g[q] = DealBody(g, q)
    BY <2>2, <2>3 DEF DealsUpTo
  <2>5. q.rlen < Len(q.bf) /\ f[Again(q)] # g[Again(q)]
    BY <2>3, <2>4, DealBodyLocal
  <2>6. Again(q) \in Adding /\ Left(Again(q)) < Left(q) /\ Left(Again(q)) \in Nat
    BY <2>5, AgainType
  <2>7. Left(Again(q)) \in S
    BY <2>2, <2>3, <2>5, <2>6
  <2> QED
    BY <2>2, <2>3, <2>6, <2>7
<1>2. Left(a) \in 0..n
  BY LeftNat
<1> QED
  BY <1>1, <1>2

LEMMA DealsExist ==
    ASSUME NEW n \in Nat
    PROVE  \E f : DealsUpTo(f, n)
<1> DEFINE S == {m \in Nat : ~\E f : DealsUpTo(f, m)}
<1>1. ASSUME S # {} PROVE FALSE
  <2>1. S \subseteq Nat
    OBVIOUS
  <2>2. PICK m \in S : \A k \in S : m <= k
    BY <1>1, <2>1, LeastNat
  <2> DEFINE base == [a \in Adding |-> DealBody(<< >>, a)]
  <2>3. m # 0
    <3>1. ASSUME NEW a \in Adding, Left(a) <= 0
          PROVE  DealBody(<< >>, a) = DealBody(base, a)
      <4>1. ~(a.rlen < Len(a.bf))
        BY <3>1, AddingType DEF Left
      <4> QED
        BY <4>1, DealBodyLocal
    <3>2. DealsUpTo(base, 0)
      BY <3>1 DEF DealsUpTo
    <3> HIDE DEF base
    <3> QED
      BY <3>2
  <2>4. m \in Nat /\ m - 1 \in Nat /\ m - 1 \notin S
    <3> HIDE DEF S
    <3> QED
      BY <2>1, <2>2, <2>3
  <2>5. PICK f : DealsUpTo(f, m - 1)
    BY <2>4
  <2> DEFINE g == [a \in Adding |-> DealBody(f, a)]
  <2>6. ASSUME NEW a \in Adding, Left(a) <= m
        PROVE  g[a] = DealBody(g, a)
    <3>1. ASSUME a.rlen < Len(a.bf)
          PROVE  f[Again(a)] = g[Again(a)]
      <4>1. Again(a) \in Adding /\ Left(Again(a)) <= m - 1
        BY <2>4, <2>6, <3>1, AgainType, LeftNat
      <4> QED
        BY <2>5, <4>1 DEF DealsUpTo
    <3> HIDE DEF g
    <3>2. DealBody(f, a) = DealBody(g, a)
      BY <3>1, DealBodyLocal
    <3> QED
      BY <3>2 DEF g
  <2>7. DealsUpTo(g, m)
    BY <2>6 DEF DealsUpTo
  <2> HIDE DEF g
  <2> QED
    BY <2>2, <2>7
<1> QED
  BY <1>1

\* The loop of onUartData ends: Deal satisfies its equation.
LEMMA DealEquation ==
    ASSUME NEW a \in Adding
    PROVE  Deal[a] = DealBody(Deal, a)
<1> DEFINE F(n) == CHOOSE f : DealsUpTo(f, n)
           h == [q \in Adding |-> F(Left(q))[q]]
<1>1. \A n \in Nat : DealsUpTo(F(n), n)
  BY DealsExist
<1> HIDE DEF F
<1>2. ASSUME NEW q \in Adding
      PROVE  h[q] = DealBody(h, q)
  <2>1. Left(q) \in Nat /\ DealsUpTo(F(Left(q)), Left(q))
    BY <1>1, LeftNat
  <2>2. h[q] = DealBody(F(Left(q)), q)
    BY <2>1 DEF DealsUpTo
  <2>3. ASSUME q.rlen < Len(q.bf)
        PROVE  F(Left(q))[Again(q)] = h[Again(q)]
    <3>1. Again(q) \in Adding /\ Left(Again(q)) < Left(q) /\ Left(Again(q)) \in Nat
      BY <2>3, AgainType
    <3>2. DealsUpTo(F(Left(Again(q))), Left(Again(q)))
      BY <1>1, <3>1
    <3>3. DealsUpTo(F(Left(q)), Left(Again(q)))
      BY <2>1, <3>1, LeftNat DEF DealsUpTo
    <3>4. F(Left(q))[Again(q)] = F(Left(Again(q)))[Again(q)]
      BY <3>1, <3>2, <3>3, DealsUnique
    <3> QED
      BY <3>1, <3>4
  <2> HIDE DEF h
  <2> QED
    BY <2>2, <2>3, DealBodyLocal
<1>3. h = [q \in Adding |-> DealBody(h, q)]
  BY <1>2
<1> HIDE DEF h
<1>4. \E f : f = [q \in Adding |-> DealBody(f, q)]
  BY <1>3, Zenon
<1>5. Deal = CHOOSE f : f = [q \in Adding |-> DealBody(f, q)]
  BY DEF Deal, DealBody, Again
<1>6. Deal = [q \in Adding |-> DealBody(Deal, q)]
  BY <1>4, <1>5, Zenon
<1> QED
  BY <1>6

LEMMA HandedType ==
    ASSUME NEW b \in Seq(Byte), Complete(b)
    PROVE  Handed(b) \in Seq(Seq(Byte))
<1>1. RealLen(b) \in Nat /\ 0 + RealLen(b) <= Len(b)
  <2>1. b[2] \in Byte
    BY DEF Complete
  <2> QED
    BY <2>1, BytesAssumption DEF Complete, RealLen, Byte
<1>2. SubSeq(b, 0 + 1, 0 + RealLen(b)) \in Seq(Byte)
  BY <1>1, Chunk
<1>3. Prefix(b, RealLen(b)) \in Seq(Byte)
  BY <1>1, <1>2 DEF Prefix
<1> QED
  BY <1>3 DEF Handed

LEMMA DealType ==
    ASSUME NEW a \in Adding, Len(a.buf) <= BufLen
    PROVE  /\ Deal[a].buf \in Seq(Byte) /\ Len(Deal[a].buf) <= BufLen
           /\ Deal[a].got \in Seq(Seq(Byte))
<1> DEFINE Fine(q) == /\ Deal[q].buf \in Seq(Byte) /\ Len(Deal[q].buf) <= BufLen
                      /\ Deal[q].got \in Seq(Seq(Byte))
           S == {n \in Nat : \E q \in Adding : Len(q.buf) <= BufLen /\ Left(q) = n /\ ~Fine(q)}
<1>1. ASSUME S # {} PROVE FALSE
  <2>1. S \subseteq Nat
    OBVIOUS
  <2>2. PICK n \in S : \A m \in S : n <= m
    BY <1>1, <2>1, LeastNat
  <2>3. PICK q \in Adding : Len(q.buf) <= BufLen /\ Left(q) = n /\ ~Fine(q)
    BY <2>2
  <2>4. Deal[q] = DealBody(Deal, q)
    BY DealEquation
  <2>5. q.buf \in Seq(Byte) /\ << >> \in Seq(Byte) /\ Len(<< >>) <= BufLen /\ << >> \in Seq(Seq(Byte))
    BY AddingType, SizeAssumption
  <2>6. CASE ~Complete(q.buf)
    <3>1. Deal[q] = [buf |-> q.buf, got |-> << >>]
      BY <2>4, <2>6 DEF DealBody
    <3> QED
      BY <2>3, <2>5, <3>1
  <2>7. CASE Complete(q.buf)
    <3> DEFINE r == IF q.rlen >= Len(q.bf) THEN [buf |-> << >>, got |-> << >>] ELSE Deal[Again(q)]
    <3>1. Deal[q] = [buf |-> r.buf, got |-> Handed(q.buf) \o r.got]
      BY <2>4, <2>7 DEF DealBody
    <3>2. r.buf \in Seq(Byte) /\ Len(r.buf) <= BufLen /\ r.got \in Seq(Seq(Byte))
      <4>1. CASE q.rlen >= Len(q.bf)
        BY <2>5, <4>1
      <4>2. CASE ~(q.rlen >= Len(q.bf))
        <5>1. /\ Again(q) \in Adding /\ Len(Again(q).buf) <= BufLen
              /\ Left(Again(q)) \in Nat /\ Left(Again(q)) < Left(q)
          BY <4>2, AddingType, AgainType
        <5>2. Left(Again(q)) \notin S
          <6>1. n \in Nat
            BY <2>1, <2>2
          <6> HIDE DEF S
          <6> QED
            BY <2>2, <2>3, <5>1, <6>1
        <5>3. Fine(Again(q))
          BY <5>1, <5>2
        <5> QED
          BY <4>2, <5>3
      <4> QED
        BY <4>1, <4>2
    <3> HIDE DEF r
    <3>3. Handed(q.buf) \in Seq(Seq(Byte))
      BY <2>5, <2>7, HandedType
    <3>4. Handed(q.buf) \o r.got \in Seq(Seq(Byte))
      BY <3>2, <3>3, ConcatProperties
    <3> QED
      BY <2>3, <3>1, <3>2, <3>4
  <2> QED
    BY <2>6, <2>7
<1>2. Left(a) \in Nat
  BY LeftNat
<1>3. Fine(a)
  BY <1>1, <1>2
<1> QED
  BY <1>3
-----------------------------------------------------------------------------
(* Frames, and how the receiver recognises one.                            *)

\* A frame is as long as its length byte says, and fits the buffer.
LEMMA FrameFacts ==
    ASSUME NEW f \in Frames
    PROVE  /\ f \in Seq(Byte) /\ Len(f) \in Nat /\ 4 < Len(f) /\ Len(f) <= BufLen
           /\ f[1] \in Heads /\ f[2] \in Byte /\ Len(f) = f[2] + 4
<1>1. PICK h \in Heads, p \in Payloads : f = Frame(h, p)
  BY DEF Frames
<1>2. PICK n \in 1..MaxData : p \in [1..n -> Data]
  BY <1>1 DEF Payloads
<1>3. n \in Nat /\ n > 0 /\ n \in Byte /\ n + 4 <= BufLen
  BY SizeAssumption, BytesAssumption DEF Byte
<1>4. p \in Seq(Byte) /\ Len(p) = n
  <2>1. p \in [1..n -> Byte]
    BY <1>2, BytesAssumption
  <2> QED
    BY <1>3, <2>1
<1> DEFINE g == <<h, n>> \o p
           z == <<Sum(g), End>>
<1>5. <<h, n>> \in Seq(Byte) /\ Len(<<h, n>>) = 2
  BY <1>3, BytesAssumption
<1>6. g \in Seq(Byte) /\ Len(g) = n + 2 /\ g[1] = h /\ g[2] = n
  BY <1>3, <1>4, <1>5
<1>7. f = g \o z
  BY <1>1, <1>4 DEF Frame
<1> HIDE DEF g
<1>8. z \in Seq(Byte) /\ Len(z) = 2
  BY <1>6, SumByte, BytesAssumption
<1> HIDE DEF z
<1>9. f \in Seq(Byte) /\ Len(f) = n + 4 /\ f[1] = h /\ f[2] = n
  <2>1. /\ g \o z \in Seq(Byte) /\ Len(g \o z) = Len(g) + Len(z)
        /\ \A i \in 1..Len(g) + Len(z) : (g \o z)[i] = IF i <= Len(g) THEN g[i] ELSE z[i - Len(g)]
    BY <1>6, <1>8, ConcatProperties
  <2>2. /\ Len(g) + Len(z) = n + 4 /\ 1 \in 1..Len(g) + Len(z) /\ 2 \in 1..Len(g) + Len(z)
        /\ 1 <= Len(g) /\ 2 <= Len(g)
    BY <1>3, <1>6, <1>8
  <2> QED
    BY <1>6, <1>7, <2>1, <2>2
<1> QED
  BY <1>3, <1>9

\* What is handed on when a frame is complete.
Due(f) == IF Check(f) THEN <<f>> ELSE << >>

LEMMA DueType ==
    ASSUME NEW f \in Frames
    PROVE  Due(f) \in Seq(Frames)
  BY DEF Due

\* A buffer that begins with a frame is complete, and this frame is handed on.
LEMMA BeginsWithFrame ==
    ASSUME NEW f \in Frames, NEW b \in Seq(Byte), Len(f) <= Len(b),
           \A i \in 1..Len(f) : b[i] = f[i]
    PROVE  Complete(b) /\ RealLen(b) = Len(f) /\ Handed(b) = Due(f)
<1>1. /\ f \in Seq(Byte) /\ Len(f) \in Nat /\ 4 < Len(f)
      /\ f[1] \in Heads /\ f[2] \in Nat /\ Len(f) = f[2] + 4
  BY FrameFacts DEF Byte
<1>2. Len(b) \in Nat /\ 1 \in 1..Len(f) /\ 2 \in 1..Len(f) /\ Len(f) \in 1..Len(f)
  BY <1>1
<1>3. b[1] = f[1] /\ b[2] = f[2] /\ b[Len(f)] = f[Len(f)]
  BY <1>2
<1>4. RealLen(b) = Len(f) /\ Complete(b)
  BY <1>1, <1>2, <1>3 DEF RealLen, Complete
<1>5. \A k \in 0..Len(f) : Prefix(b, k) = Prefix(f, k)
  BY <1>1, <1>2 DEF Prefix
<1>6. Prefix(f, Len(f)) = f
  BY <1>1 DEF Prefix
<1>7. Prefix(b, Len(f)) = f
  <2>1. Len(f) \in 0..Len(f)
    BY <1>1
  <2> QED
    BY <2>1, <1>5, <1>6
<1>8. Prefix(b, b[2] + 2) = Prefix(f, f[2] + 2)
  <2>1. f[2] + 2 \in 0..Len(f)
    BY <1>1
  <2> QED
    BY <2>1, <1>3, <1>5
<1>9. Check(b) = Check(f)
  BY <1>1, <1>3, <1>8 DEF Check
<1> QED
  BY <1>4, <1>7, <1>9 DEF Handed, Due
-----------------------------------------------------------------------------
(* Undisturbed bytes.                                                      *)

\* R contains the bytes of frames one after the other, with the frames due for them.
Built(R) ==
    /\ << << >>, << >> >> \in R
    /\ \A f \in Frames, s \in Seq(Byte), q \in Seq(Frames) :
          <<s, q>> \in R => <<f \o s, Due(f) \o q>> \in R

Pairs == Seq(Byte) \X Seq(Frames)

\* The bytes of frames one after the other, with the frames due for them.
Streams == {p \in Pairs : \A R \in SUBSET Pairs : Built(R) => p \in R}

LEMMA EmptyStream == << << >>, << >> >> \in Streams
<1>1. << << >>, << >> >> \in Pairs
  <2> DEFINE x == << >>
  <2>1. x \in Seq(Byte) /\ x \in Seq(Frames)
    OBVIOUS
  <2> HIDE DEF x
  <2>2. <<x, x>> \in Pairs
    BY <2>1 DEF Pairs
  <2> QED
    BY <2>2 DEF x
<1> QED
  BY <1>1 DEF Streams, Built

LEMMA StreamType ==
    ASSUME NEW s, NEW q, <<s, q>> \in Streams
    PROVE  s \in Seq(Byte) /\ q \in Seq(Frames)
  BY DEF Streams, Pairs

LEMMA StreamGrows ==
    ASSUME NEW f \in Frames, NEW s, NEW q, <<s, q>> \in Streams
    PROVE  <<f \o s, Due(f) \o q>> \in Streams
<1>1. s \in Seq(Byte) /\ q \in Seq(Frames) /\ f \in Seq(Byte) /\ Due(f) \in Seq(Frames)
  BY StreamType, FrameFacts, DueType
<1>2. f \o s \in Seq(Byte) /\ Due(f) \o q \in Seq(Frames)
  BY <1>1, ConcatProperties
<1>3. <<f \o s, Due(f) \o q>> \in Pairs
  BY <1>2 DEF Pairs
<1>4. ASSUME NEW R \in SUBSET Pairs, Built(R)
      PROVE  <<f \o s, Due(f) \o q>> \in R
  <2>1. <<s, q>> \in R
    BY <1>4 DEF Streams
  <2> QED
    BY <1>1, <1>4, <2>1 DEF Built
<1> QED
  BY <1>3, <1>4 DEF Streams

\* Undisturbed bytes s that begin with a frame: the first frame due of q is due for it.
Starts(s, q) ==
    \E f \in Frames, t \in Seq(Byte), r \in Seq(Frames) :
       <<t, r>> \in Streams /\ s = f \o t /\ q = Due(f) \o r

\* Undisturbed bytes are none, or begin with a frame.
LEMMA StreamHead ==
    ASSUME NEW s, NEW q, <<s, q>> \in Streams
    PROVE  \/ s = << >> /\ q = << >>
           \/ Starts(s, q)
<1> DEFINE Begins(p) == \E f \in Frames, t \in Seq(Byte), r \in Seq(Frames) :
                           <<t, r>> \in Streams /\ p = <<f \o t, Due(f) \o r>>
           R == {p \in Pairs : p \in Streams /\ (p = << << >>, << >> >> \/ Begins(p))}
<1>1. R \in SUBSET Pairs
  OBVIOUS
<1>2. << << >>, << >> >> \in R
  BY EmptyStream DEF Streams
<1>3. ASSUME NEW f \in Frames, NEW t \in Seq(Byte), NEW r \in Seq(Frames), <<t, r>> \in R
      PROVE  <<f \o t, Due(f) \o r>> \in R
  <2>1. <<t, r>> \in Streams
    BY <1>3
  <2>2. <<f \o t, Due(f) \o r>> \in Streams
    BY <2>1, StreamGrows
  <2>3. <<f \o t, Due(f) \o r>> \in Pairs
    BY <2>2 DEF Streams
  <2>4. Begins(<<f \o t, Due(f) \o r>>)
    BY <2>1
  <2> QED
    BY <2>2, <2>3, <2>4
<1>4. Built(R)
  BY <1>2, <1>3 DEF Built
<1>5. <<s, q>> \in R
  BY <1>1, <1>4 DEF Streams
<1> QED
  BY <1>5 DEF Starts

\* A frame sent after undisturbed bytes is due after what is due for them.
LEMMA StreamAppend ==
    ASSUME NEW f \in Frames, NEW s, NEW q, <<s, q>> \in Streams
    PROVE  <<s \o f, q \o Due(f)>> \in Streams
<1> DEFINE R == {p \in Pairs : p \in Streams /\ <<p[1] \o f, p[2] \o Due(f)>> \in Streams}
<1>1. R \in SUBSET Pairs
  OBVIOUS
<1>2. f \in Seq(Byte) /\ Due(f) \in Seq(Frames)
  BY FrameFacts, DueType
<1>3. << << >>, << >> >> \in R
  <2>1. f \o << >> = << >> \o f /\ Due(f) \o << >> = << >> \o Due(f)
    BY <1>2, ConcatEmptySeq
  <2>2. <<f \o << >>, Due(f) \o << >> >> \in Streams
    BY EmptyStream, StreamGrows
  <2> DEFINE e == << << >>, << >> >>
  <2>3. e[1] = << >> /\ e[2] = << >> /\ e \in Streams /\ e \in Pairs
    BY EmptyStream DEF Streams
  <2> HIDE DEF e
  <2>4. <<e[1] \o f, e[2] \o Due(f)>> \in Streams
    BY <2>1, <2>2, <2>3
  <2>5. e \in R
    BY <2>3, <2>4
  <2> QED
    BY <2>5 DEF e
<1>4. ASSUME NEW g \in Frames, NEW t \in Seq(Byte), NEW r \in Seq(Frames), <<t, r>> \in R
      PROVE  <<g \o t, Due(g) \o r>> \in R
  <2>1. <<t, r>> \in Streams /\ <<t \o f, r \o Due(f)>> \in Streams
    BY <1>4
  <2>2. <<g \o t, Due(g) \o r>> \in Streams /\ <<g \o (t \o f), Due(g) \o (r \o Due(f))>> \in Streams
    BY <2>1, StreamGrows
  <2>3. g \in Seq(Byte) /\ Due(g) \in Seq(Frames)
    BY FrameFacts, DueType
  <2>4. g \o (t \o f) = (g \o t) \o f
    <3>1. g \in Seq(Byte) /\ t \in Seq(Byte) /\ f \in Seq(Byte)
      BY <1>2, <2>3
    <3> QED
      BY <3>1, Regroup
  <2>5. Due(g) \o (r \o Due(f)) = (Due(g) \o r) \o Due(f)
    BY <1>2, <2>3, Regroup
  <2>6. <<g \o t, Due(g) \o r>> \in Pairs
    BY <2>2 DEF Streams
  <2> QED
    BY <1>2, <2>2, <2>3, <2>4, <2>5, <2>6
<1>5. Built(R)
  BY <1>3, <1>4 DEF Built
<1>6. <<s, q>> \in R
  BY <1>1, <1>5 DEF Streams
<1> QED
  BY <1>6
-----------------------------------------------------------------------------
(* Adding undisturbed bytes.                                               *)

\* What is read begins with the frame that comes first.
LEMMA SameStart ==
    ASSUME NEW x \in Seq(Byte), NEW l \in Seq(Byte), NEW f \in Seq(Byte), NEW t \in Seq(Byte),
           x \o l = f \o t
    PROVE  \A i \in 1..Len(f) : i <= Len(x) => x[i] = f[i]
<1>1. Len(x) \in Nat /\ Len(f) \in Nat /\ Len(l) \in Nat /\ Len(t) \in Nat
  OBVIOUS
<1>2. ASSUME NEW i \in 1..Len(f), i <= Len(x)
      PROVE  x[i] = f[i]
  <2>1. (x \o l)[i] = x[i] /\ (f \o t)[i] = f[i]
    BY <1>1, <1>2
  <2> QED
    BY <2>1
<1> QED
  BY <1>2

\* What follows the frame is the rest of what is read, and what was not read.
LEMMA RestFollows ==
    ASSUME NEW b \in Seq(Byte), NEW c \in Seq(Byte), NEW l \in Seq(Byte), NEW f \in Seq(Byte),
           NEW t \in Seq(Byte), (b \o c) \o l = f \o t, Len(b) < Len(f), Len(f) <= Len(b) + Len(c)
    PROVE  t = From(c, Len(f) - Len(b) + 1) \o l
<1> DEFINE x == b \o c
           n == Len(f) - Len(b)
           r == From(c, n + 1)
<1>1. /\ x \in Seq(Byte) /\ Len(x) = Len(b) + Len(c)
      /\ \A i \in 1..Len(x) : x[i] = IF i <= Len(b) THEN b[i] ELSE c[i - Len(b)]
  OBVIOUS
<1> HIDE DEF x
<1>2. Len(b) \in Nat /\ Len(c) \in Nat /\ Len(f) \in Nat /\ Len(l) \in Nat /\ Len(t) \in Nat
  OBVIOUS
<1>3. n \in Nat /\ n <= Len(c) /\ Len(f) = Len(b) + n
  BY <1>2
<1> HIDE DEF n
<1>4. /\ r \in Seq(Byte) /\ Len(r) = Len(c) - n
      /\ \A i \in 1..Len(r) : r[i] = c[n + i]
  <2> DEFINE k == Len(c) - n
  <2>1. k \in Nat /\ n + k = Len(c) /\ n + k <= Len(c)
    BY <1>2, <1>3
  <2>2. r = SubSeq(c, n + 1, n + k)
    BY <2>1 DEF From
  <2>3. k = Len(c) - n
    OBVIOUS
  <2> HIDE DEF k, r
  <2> DEFINE p == SubSeq(c, n + 1, n + k)
  <2>4. p \in Seq(Byte) /\ Len(p) = k /\ \A i \in 1..k : p[i] = c[n + i]
    BY <1>3, <2>1, Chunk
  <2> QED
    BY <2>2, <2>3, <2>4
<1> HIDE DEF r
<1>5. x \o l = f \o t /\ Len(x \o l) = Len(x) + Len(l) /\ Len(f \o t) = Len(f) + Len(t)
  BY <1>1 DEF x
<1>6. Len(t) = Len(r) + Len(l)
  <2>1. Len(x) + Len(l) = Len(f) + Len(t)
    BY <1>5
  <2>2. Len(r) = Len(c) - n
    BY <1>4
  <2>3. Len(x) = Len(b) + Len(c)
    BY <1>1
  <2>4. Len(f) = Len(b) + n
    BY <1>3
  <2> DEFINE lb == Len(b) lc == Len(c) ll == Len(l) lt == Len(t) lx == Len(x) lf == Len(f) lr == Len(r)
  <2>5. lb \in Nat /\ lc \in Nat /\ ll \in Nat /\ lt \in Nat /\ n \in Nat
    BY <1>2, <1>3
  <2>6. lx = lb + lc /\ lf = lb + n /\ lr = lc - n /\ lx + ll = lf + lt
    BY <2>1, <2>2, <2>3, <2>4
  <2> HIDE DEF lb, lc, ll, lt, lx, lf, lr
  <2>7. lt = lr + ll
    BY <2>5, <2>6
  <2> QED
    BY <2>7 DEF ll, lt, lr
<1>7. /\ r \o l \in Seq(Byte) /\ Len(r \o l) = Len(t)
      /\ \A i \in 1..Len(t) : (r \o l)[i] = IF i <= Len(r) THEN r[i] ELSE l[i - Len(r)]
  <2>1. /\ r \o l \in Seq(Byte) /\ Len(r \o l) = Len(r) + Len(l)
        /\ \A i \in 1..Len(r) + Len(l) : (r \o l)[i] = IF i <= Len(r) THEN r[i] ELSE l[i - Len(r)]
    BY <1>4, ConcatProperties
  <2> QED
    BY <1>6, <2>1
<1>8. ASSUME NEW i \in 1..Len(t)
      PROVE  t[i] = (r \o l)[i]
  <2>1. Len(f) + i \in 1..Len(f) + Len(t) /\ (f \o t)[Len(f) + i] = t[i]
    BY <1>2
  <2>2. CASE i <= Len(r)
    <3>1. (r \o l)[i] = c[n + i]
      BY <1>2, <1>4, <1>7, <2>2
    <3>2. (x \o l)[Len(f) + i] = x[Len(f) + i]
      BY <1>1, <1>2, <1>3, <1>4, <2>2
    <3>3. x[Len(f) + i] = c[n + i]
      <4>1. Len(r) = Len(c) - n
        BY <1>4
      <4>2. Len(f) + i \in 1..Len(x) /\ ~(Len(f) + i <= Len(b)) /\ Len(f) + i - Len(b) = n + i
        BY <1>1, <1>2, <1>3, <2>2, <4>1
      <4> QED
        BY <1>1, <4>2
    <3> QED
      BY <1>5, <2>1, <3>1, <3>2, <3>3
  <2>3. CASE ~(i <= Len(r))
    <3>1. (r \o l)[i] = l[i - Len(r)]
      BY <1>2, <1>4, <1>7, <2>3
    <3>2. Len(f) + i - Len(x) = i - Len(r)
      BY <1>1, <1>2, <1>3, <1>4
    <3>3. (x \o l)[Len(f) + i] = l[Len(f) + i - Len(x)]
      <4>1. /\ Len(x \o l) = Len(x) + Len(l)
            /\ \A j \in 1..Len(x) + Len(l) : (x \o l)[j] = IF j <= Len(x) THEN x[j] ELSE l[j - Len(x)]
        BY <1>1, ConcatProperties
      <4>2. Len(r) = Len(c) - n
        BY <1>4
      <4>3. Len(f) + i \in 1..Len(x) + Len(l) /\ ~(Len(f) + i <= Len(x))
        BY <1>1, <1>2, <1>3, <1>6, <2>3, <4>2
      <4> QED
        BY <4>1, <4>3
    <3> QED
      BY <1>5, <2>1, <3>1, <3>2, <3>3
  <2> QED
    BY <2>2, <2>3
<1>9. t = r \o l
  BY <1>7, <1>8, SeqEqual
<1> QED
  BY <1>9 DEF r, n

\* The buffer holds no whole frame.
Short(b) == Len(b) <= 4 \/ Len(b) < RealLen(b)

\* A part of a frame is short if and only if it is not the whole.
LEMMA ShortPart ==
    ASSUME NEW f \in Frames, NEW b \in Seq(Byte), \A i \in 1..Len(f) : i <= Len(b) => b[i] = f[i]
    PROVE  /\ Short(b) <=> Len(b) < Len(f)
           /\ Short(b) => ~Complete(b)
<1>1. Len(f) \in Nat /\ 4 < Len(f) /\ f[2] \in Nat /\ Len(f) = f[2] + 4
  BY FrameFacts DEF Byte
<1>2. Len(b) \in Nat
  OBVIOUS
<1>3. Len(b) > 4 => RealLen(b) = Len(f)
  <2>1. Len(b) > 4 => b[2] = f[2]
    BY <1>1, <1>2
  <2> QED
    BY <1>1, <2>1 DEF RealLen
<1>4. RealLen(b) = Len(f) => (Short(b) <=> Len(b) < Len(f))
  BY <1>1, <1>2 DEF Short
<1>5. Len(b) <= 4 => Short(b) /\ Len(b) < Len(f)
  BY <1>1, <1>2 DEF Short
<1>6. Len(b) <= 4 \/ Len(b) > 4
  BY <1>2
<1>7. Short(b) => ~Complete(b)
  BY <1>1, <1>2, <1>3, <1>6 DEF Short, Complete
<1> QED
  BY <1>3, <1>4, <1>5, <1>6, <1>7

\* add reads k bytes of the chunk c in one round, and then has the bytes x.
ReadsOnce(b, c, k, x, a) ==
    /\ Len(x) = Len(b) + k /\ (k = Len(c) \/ Len(x) = BufLen)
    /\ (k = Len(c) => x = b \o c)
    /\ \A i \in 1..Len(x) : x[i] = (b \o c)[i]
    /\ a = [buf |-> x, bf |-> c, rlen |-> k, found |-> Len(x) > 1]
    /\ Add(b, c) = Trim[a]

\* When the bytes begin with a head, add reads once: until the chunk or the room ends.
LEMMA AddOnce ==
    ASSUME NEW b \in Seq(Byte), NEW c \in Seq(Byte), c # << >>, Len(b) < BufLen,
           (b \o c)[1] \in Heads
    PROVE  \E k \in 1..Len(c), x \in Seq(Byte), a \in Adding : ReadsOnce(b, c, k, x, a)
<1> DEFINE r == [buf |-> b, bf |-> c, rlen |-> 0, found |-> FALSE]
           k == IF BufLen - Len(b) <= Len(c) THEN BufLen - Len(b) ELSE Len(c)
           p == SubSeq(c, 1, k)
           x == b \o p
           a == [buf |-> x, bf |-> c, rlen |-> k, found |-> Len(x) > 1]
<1>1. Len(b) \in Nat /\ Len(c) \in Nat /\ Len(c) > 0 /\ BufLen \in Nat /\ 0 \in Nat
  BY SizeAssumption
<1>2. k \in 1..Len(c) /\ k \in Nat /\ Min({Room(b), Len(c) - 0}) = k /\ (k = Len(c) \/ Len(b) + k = BufLen)
  <2>1. BufLen - Len(b) \in Nat /\ Len(c) - 0 = Len(c)
    BY <1>1
  <2>2. Min({BufLen - Len(b), Len(c)}) = k
    BY <1>1, <2>1, MinOfTwo
  <2>3. Min({Room(b), Len(c) - 0}) = k
    BY <2>1, <2>2 DEF Room
  <2> QED
    BY <1>1, <2>3
<1> HIDE DEF k
<1>3. p \in Seq(Byte) /\ Len(p) = k /\ (\A i \in 1..k : p[i] = c[i]) /\ p = SubSeq(c, 0 + 1, 0 + k)
  <2>1. 0 + k <= Len(c) /\ 0 + k = k /\ 0 + 1 = 1 /\ \A i \in 1..k : 0 + i = i
    BY <1>2
  <2> DEFINE u == SubSeq(c, 0 + 1, 0 + k)
  <2>2. u \in Seq(Byte) /\ Len(u) = k /\ \A i \in 1..k : u[i] = c[0 + i]
    BY <1>1, <1>2, <2>1, Chunk
  <2>3. p = u
    BY <2>1
  <2> HIDE DEF u, p
  <2> QED
    BY <2>1, <2>2, <2>3 DEF u
<1>4. k = Len(c) => p = c
  BY <1>1
<1> HIDE DEF p
<1>5. /\ x \in Seq(Byte) /\ Len(x) = Len(b) + k
      /\ \A i \in 1..Len(b) + k : x[i] = IF i <= Len(b) THEN b[i] ELSE p[i - Len(b)]
  BY <1>3, ConcatProperties
<1>6. \A i \in 1..Len(b) + Len(c) : (b \o c)[i] = IF i <= Len(b) THEN b[i] ELSE c[i - Len(b)]
  BY ConcatProperties
<1>7. ASSUME NEW i \in 1..Len(x)
      PROVE  x[i] = (b \o c)[i]
  <2>1. i \in 1..Len(b) + k /\ i \in 1..Len(b) + Len(c) /\ (~(i <= Len(b)) => i - Len(b) \in 1..k)
    BY <1>1, <1>2, <1>5
  <2> HIDE DEF x
  <2> QED
    BY <1>3, <1>5, <1>6, <2>1
<1>8. k = Len(c) => x = b \o c
  BY <1>4
<1> HIDE DEF x
<1>9. 1 \in 1..Len(x) /\ x # << >> /\ x[1] \in Heads /\ Len(x) \in Nat /\ (Len(x) > 1) \in BOOLEAN
  BY <1>1, <1>2, <1>5, <1>7
<1>10. FromHead(x) = x
  BY <1>5, <1>9, FromHeadType
<1>11. r \in Adding /\ r.buf = b /\ r.bf = c /\ r.rlen = 0 /\ r.found = FALSE
  BY DEF Adding
<1>12. a \in Adding /\ a.buf = x /\ a.bf = c /\ a.rlen = k
  BY <1>2, <1>5, <1>9 DEF Adding
<1>13. Round(r) = a
  <2>1. r.buf \o SubSeq(r.bf, r.rlen + 1, r.rlen + Min({Room(r.buf), Len(r.bf) - r.rlen})) = x
    BY <1>2, <1>3, <1>11 DEF x
  <2>2. Round(r) = [r EXCEPT !.buf = IF ~r.found /\ Len(x) > 1 THEN FromHead(x) ELSE x,
                             !.rlen = @ + Min({Room(r.buf), Len(r.bf) - r.rlen}),
                             !.found = @ \/ ((~r.found /\ Len(x) > 1)
                                 /\ (IF ~r.found /\ Len(x) > 1 THEN FromHead(x) ELSE x) # << >>)]
    BY <2>1 DEF Round
  <2>3. Round(r) = [r EXCEPT !.buf = x, !.rlen = @ + k, !.found = @ \/ Len(x) > 1]
    BY <1>2, <1>9, <1>10, <1>11, <2>2
  <2>4. 0 + k = k /\ (FALSE \/ Len(x) > 1) = (Len(x) > 1)
    BY <1>2
  <2> QED
    BY <2>3, <2>4
<1>14. Goes(r) /\ ~Goes(a)
  BY <1>1, <1>2, <1>5, <1>11, <1>12 DEF Goes
<1>15. Fill[r] = a
  BY <1>11, <1>12, <1>13, <1>14, FillEquation
<1>16. Add(b, c) = Trim[a]
  BY <1>15 DEF Add
<1>17. ReadsOnce(b, c, k, x, a)
  BY <1>2, <1>5, <1>7, <1>8, <1>16 DEF ReadsOnce
<1> QED
  BY <1>2, <1>5, <1>12, <1>17

\* Adding undisturbed bytes that do not end the frame: all are kept.
LEMMA AddPart ==
    ASSUME NEW b \in Seq(Byte), NEW c \in Seq(Byte), NEW f \in Frames, c # << >>,
           \A i \in 1..Len(f) : i <= Len(b \o c) => (b \o c)[i] = f[i],
           Len(b) + Len(c) < Len(f)
    PROVE  /\ Add(b, c) \in Adding /\ Add(b, c).buf = b \o c
           /\ Short(b \o c) /\ ~Complete(b \o c)
<1> DEFINE y == b \o c
<1>1. y \in Seq(Byte) /\ Len(y) = Len(b) + Len(c)
  OBVIOUS
<1>2. /\ Len(b) \in Nat /\ Len(c) \in Nat /\ Len(c) > 0 /\ Len(f) \in Nat /\ 4 < Len(f)
      /\ Len(f) <= BufLen /\ BufLen \in Nat /\ f[1] \in Heads
      /\ f[2] \in Nat /\ Len(f) = f[2] + 4
  BY FrameFacts, SizeAssumption DEF Byte
<1> HIDE DEF y
<1>3. \A i \in 1..Len(f) : i <= Len(y) => y[i] = f[i]
  BY DEF y
<1>4. Len(b) < BufLen /\ y[1] \in Heads /\ Len(y) < Len(f)
  <2>1. 1 \in 1..Len(f) /\ 1 <= Len(y)
    BY <1>1, <1>2
  <2>2. Len(b) < BufLen /\ Len(y) < Len(f)
    BY <1>1, <1>2
  <2> QED
    BY <1>2, <1>3, <2>1, <2>2
<1>5. PICK k \in 1..Len(c), x \in Seq(Byte), a \in Adding : ReadsOnce(b, c, k, x, a)
  BY <1>4, AddOnce DEF y
<1>6. /\ Len(x) = Len(b) + k /\ (k = Len(c) \/ Len(x) = BufLen)
      /\ (k = Len(c) => x = y)
      /\ a = [buf |-> x, bf |-> c, rlen |-> k, found |-> Len(x) > 1]
      /\ Add(b, c) = Trim[a]
  BY <1>5 DEF ReadsOnce, y
<1>7. k = Len(c) /\ x = y /\ k \in Nat
  <2>1. k \in Nat /\ (k = Len(c) \/ Len(x) = BufLen) /\ Len(x) = Len(b) + k /\ k <= Len(c)
    BY <1>2, <1>6
  <2>2. k = Len(c)
    BY <1>2, <2>1
  <2> QED
    BY <1>6, <2>1, <2>2
<1>8. Short(y) /\ ~Complete(y)
  BY <1>1, <1>3, <1>4, ShortPart
<1>9. Excess(a) = 0
  <2>1. a.buf = y /\ Len(y) \in Nat
    BY <1>1, <1>6, <1>7
  <2>2. Len(y) > 4 => RealLen(y) = Len(f)
    <3>1. Len(y) > 4 => 2 \in 1..Len(f) /\ 2 <= Len(y)
      BY <1>2, <2>1
    <3> QED
      BY <1>2, <1>3, <3>1 DEF RealLen
  <2> QED
    BY <1>2, <1>4, <2>1, <2>2 DEF Excess
<1>10. Add(b, c) = [a EXCEPT !.rlen = IF a.rlen > 0 THEN a.rlen - 0 ELSE 0]
  BY <1>6, <1>9 DEF Trim
<1>11. (IF a.rlen > 0 THEN a.rlen - 0 ELSE 0) \in Nat
  BY <1>6, <1>7
<1>12. Add(b, c) \in Adding /\ Add(b, c).buf = a.buf
  BY <1>10, <1>11 DEF Adding
<1> QED
  BY <1>6, <1>7, <1>8, <1>12 DEF y

\* Adding undisturbed bytes that end the frame: it is handed on, and what follows it is
\* left to be added again.
LEMMA AddWhole ==
    ASSUME NEW b \in Seq(Byte), NEW c \in Seq(Byte), NEW f \in Frames, c # << >>,
           \A i \in 1..Len(f) : i <= Len(b \o c) => (b \o c)[i] = f[i],
           Len(b) < Len(f), Len(f) <= Len(b) + Len(c)
    PROVE  /\ Add(b, c) \in Adding /\ Add(b, c).bf = c
           /\ Complete(Add(b, c).buf) /\ Handed(Add(b, c).buf) = Due(f)
           /\ Add(b, c).rlen = Len(f) - Len(b)
<1> DEFINE y == b \o c
<1>1. y \in Seq(Byte) /\ Len(y) = Len(b) + Len(c)
  OBVIOUS
<1>2. /\ Len(b) \in Nat /\ Len(c) \in Nat /\ Len(f) \in Nat /\ 4 < Len(f)
      /\ Len(f) <= BufLen /\ BufLen \in Nat /\ f[1] \in Heads
  BY FrameFacts, SizeAssumption
<1> HIDE DEF y
<1>3. \A i \in 1..Len(f) : i <= Len(y) => y[i] = f[i]
  BY DEF y
<1>4. Len(b) < BufLen /\ y[1] \in Heads
  <2>1. 1 \in 1..Len(f) /\ 1 <= Len(y)
    BY <1>1, <1>2
  <2>2. Len(b) < BufLen
    BY <1>2
  <2> QED
    BY <1>2, <1>3, <2>1, <2>2
<1>5. PICK k \in 1..Len(c), x \in Seq(Byte), a \in Adding : ReadsOnce(b, c, k, x, a)
  BY <1>4, AddOnce DEF y
<1>6. /\ Len(x) = Len(b) + k /\ (k = Len(c) \/ Len(x) = BufLen)
      /\ \A i \in 1..Len(x) : x[i] = y[i]
      /\ a = [buf |-> x, bf |-> c, rlen |-> k, found |-> Len(x) > 1]
      /\ Add(b, c) = Trim[a]
  BY <1>5 DEF ReadsOnce, y
<1>7. k \in Nat /\ Len(x) \in Nat /\ Len(f) <= Len(x) /\ Len(x) <= Len(y)
  <2>1. k \in Nat /\ (k = Len(c) \/ Len(x) = BufLen) /\ Len(x) = Len(b) + k /\ k <= Len(c)
    BY <1>2, <1>6
  <2> DEFINE lx == Len(x)  ly == Len(y)  lb == Len(b)  lc == Len(c)  lf == Len(f)
  <2>2. /\ k \in Nat /\ (k = lc \/ lx = BufLen) /\ lx = lb + k /\ k <= lc /\ ly = lb + lc
        /\ lb \in Nat /\ lc \in Nat /\ lf \in Nat /\ lf <= BufLen /\ lf <= lb + lc
    BY <1>1, <1>2, <2>1
  <2> HIDE DEF lx, ly, lb, lc, lf
  <2>3. k \in Nat /\ lx \in Nat /\ lf <= lx /\ lx <= ly
    BY <2>2
  <2> QED
    BY <2>3 DEF lx, lf, ly
<1>8. \A i \in 1..Len(f) : x[i] = f[i]
  <2>1. \A i \in 1..Len(f) : i \in 1..Len(x) /\ i <= Len(y)
    BY <1>1, <1>2, <1>7
  <2> QED
    BY <1>3, <1>6, <2>1
<1>9. Complete(x) /\ RealLen(x) = Len(f) /\ Handed(x) = Due(f)
  BY <1>7, <1>8, BeginsWithFrame
<1>10. a.buf = x /\ a.bf = c /\ a.rlen = k /\ a.found = TRUE
  <2>1. (Len(x) > 1) = TRUE
    BY <1>2, <1>7
  <2> QED
    BY <1>6, <2>1
<1>11. Excess(a) = Len(x) - Len(f)
  <2>1. Len(x) > 4 /\ (Len(x) > Len(f) \/ Len(x) - Len(f) = 0)
    BY <1>2, <1>7
  <2> QED
    BY <1>9, <1>10, <2>1 DEF Excess
<1>12. k - (Len(x) - Len(f)) = Len(f) - Len(b) /\ k > Len(x) - Len(f) /\ Len(f) - Len(b) \in Nat
  <2> DEFINE lx == Len(x)  lb == Len(b)  lf == Len(f)
  <2>1. k \in Nat /\ lx = lb + k /\ lb \in Nat /\ lf \in Nat /\ lb < lf /\ lf <= lx
    BY <1>2, <1>6, <1>7
  <2> HIDE DEF lx, lb, lf
  <2>2. k - (lx - lf) = lf - lb /\ k > lx - lf /\ lf - lb \in Nat
    BY <2>1
  <2> QED
    BY <2>2 DEF lx, lb, lf
<1>13. Add(b, c) = [a EXCEPT !.rlen = Len(f) - Len(b)]
  BY <1>6, <1>10, <1>11, <1>12 DEF Trim
<1>14. /\ Add(b, c) \in Adding /\ Add(b, c).buf = a.buf /\ Add(b, c).bf = a.bf
       /\ Add(b, c).rlen = Len(f) - Len(b)
  BY <1>12, <1>13 DEF Adding
<1> QED
  BY <1>9, <1>10, <1>14
-----------------------------------------------------------------------------
(* onUartData, for undisturbed bytes: what is handed on are the first frames due, and   *)
(* what stays in the buffer is undisturbed and short.                                   *)

\* The chunk c is read with b in the buffer, while l is not yet read; q is what is due.
Clean(b, c, l, q) ==
    /\ b \in Seq(Byte) /\ c \in Seq(Byte) /\ l \in Seq(Byte) /\ c # << >>
    /\ <<(b \o c) \o l, q>> \in Streams /\ Short(b)

\* What dealing with it has to give.
Well(r, l, q) ==
    /\ r.buf \in Seq(Byte) /\ r.got \in Seq(Frames) /\ Short(r.buf)
    /\ \E u \in Seq(Frames) : q = r.got \o u /\ <<r.buf \o l, u>> \in Streams

\* No frame ends in the chunk.
LEMMA DealPart ==
    ASSUME NEW b, NEW c, NEW l, NEW q, Clean(b, c, l, q), NEW f \in Frames, NEW t \in Seq(Byte),
           (b \o c) \o l = f \o t, Len(b) + Len(c) < Len(f)
    PROVE  Well(OnUartData(b, c), l, q)
<1>1. /\ b \in Seq(Byte) /\ c \in Seq(Byte) /\ l \in Seq(Byte) /\ c # << >>
      /\ <<(b \o c) \o l, q>> \in Streams
  BY DEF Clean
<1> DEFINE y == b \o c
<1>2. y \in Seq(Byte) /\ f \in Seq(Byte) /\ q \in Seq(Frames) /\ y \o l = f \o t
  BY <1>1, FrameFacts, StreamType, ConcatProperties
<1>3. \A i \in 1..Len(f) : i <= Len(y) => y[i] = f[i]
  <2> HIDE DEF y
  <2> QED
    BY <1>1, <1>2, SameStart
<1>4. Add(b, c) \in Adding /\ Add(b, c).buf = y /\ Short(y) /\ ~Complete(y)
  BY <1>1, <1>3, AddPart
<1> HIDE DEF y
<1>5. OnUartData(b, c) = [buf |-> y, got |-> << >>]
  BY <1>4, DealEquation DEF DealBody, OnUartData
<1>6. << >> \o q = q /\ << >> \in Seq(Frames)
  BY <1>2, ConcatEmptySeq
<1>7. <<y \o l, q>> \in Streams
  BY <1>1 DEF y
<1> DEFINE r == OnUartData(b, c)
<1>8. r.buf = y /\ r.got = << >>
  BY <1>5
<1> HIDE DEF r
<1>9. Well(r, l, q)
  BY <1>2, <1>4, <1>6, <1>7, <1>8 DEF Well
<1> QED
  BY <1>9 DEF r

LEMMA DueFirst ==
    ASSUME NEW h \in Seq(Frames), NEW g \in Seq(Frames), NEW u \in Seq(Frames)
    PROVE  h \o g \in Seq(Frames) /\ h \o (g \o u) = (h \o g) \o u
<1>1. h \o (g \o u) = (h \o g) \o u
  BY Regroup
<1>2. h \o g \in Seq(Frames)
  BY ConcatProperties
<1> QED
  BY <1>1, <1>2

\* With a frame before: it is handed on before.
LEMMA WellMore ==
    ASSUME NEW f \in Frames, NEW r, NEW l, NEW v, Well(r, l, v)
    PROVE  Well([buf |-> r.buf, got |-> Due(f) \o r.got], l, Due(f) \o v)
<1>1. PICK u \in Seq(Frames) : v = r.got \o u /\ <<r.buf \o l, u>> \in Streams
  BY DEF Well
<1> DEFINE w == [buf |-> r.buf, got |-> Due(f) \o r.got]
           all == Due(f) \o r.got
<1>2. r.buf \in Seq(Byte) /\ r.got \in Seq(Frames) /\ Short(r.buf) /\ Due(f) \in Seq(Frames)
  BY DueType DEF Well
<1>3. all \in Seq(Frames) /\ Due(f) \o v = all \o u
  <2>1. u \in Seq(Frames) /\ v = r.got \o u
    BY <1>1
  <2>2. all \in Seq(Frames) /\ Due(f) \o (r.got \o u) = all \o u
    BY <1>2, <2>1, DueFirst
  <2> QED
    BY <2>1, <2>2
<1>4. w.buf = r.buf /\ w.got = all
  OBVIOUS
<1> HIDE DEF w, all
<1>5. Well(w, l, Due(f) \o v)
  BY <1>1, <1>2, <1>3, <1>4 DEF Well
<1> QED
  BY <1>5 DEF w

\* A frame ends in the chunk: it is handed on, and the rest of the chunk is dealt with.
LEMMA DealWhole ==
    ASSUME NEW b, NEW c, NEW l, NEW q, Clean(b, c, l, q), NEW f \in Frames, NEW t \in Seq(Byte),
           NEW v \in Seq(Frames), <<t, v>> \in Streams, (b \o c) \o l = f \o t, q = Due(f) \o v,
           Len(b) < Len(f), Len(f) <= Len(b) + Len(c),
           \A d : Clean(<< >>, d, l, v) /\ Len(d) < Len(c) => Well(OnUartData(<< >>, d), l, v)
    PROVE  Well(OnUartData(b, c), l, q)
<1>1. /\ b \in Seq(Byte) /\ c \in Seq(Byte) /\ l \in Seq(Byte) /\ c # << >>
      /\ <<(b \o c) \o l, q>> \in Streams
  BY DEF Clean
<1>2. /\ f \in Seq(Byte) /\ Due(f) \in Seq(Frames) /\ q \in Seq(Frames)
      /\ Len(b) \in Nat /\ Len(c) \in Nat /\ Len(f) \in Nat
  BY <1>1, FrameFacts, DueType, StreamType
<1>3. \A i \in 1..Len(f) : i <= Len(b \o c) => (b \o c)[i] = f[i]
  <2> DEFINE y == b \o c
  <2>1. y \in Seq(Byte) /\ y \o l = f \o t
    BY <1>1, ConcatProperties
  <2> HIDE DEF y
  <2>2. \A i \in 1..Len(f) : i <= Len(y) => y[i] = f[i]
    BY <1>1, <1>2, <2>1, SameStart
  <2> QED
    BY <2>2 DEF y
<1> DEFINE a == Add(b, c)
           d == From(c, Len(f) - Len(b) + 1)
           r == IF a.rlen >= Len(c) THEN [buf |-> << >>, got |-> << >>] ELSE Deal[Again(a)]
<1>4. /\ a \in Adding /\ a.bf = c /\ Complete(a.buf) /\ Handed(a.buf) = Due(f)
      /\ a.rlen = Len(f) - Len(b)
  BY <1>1, <1>2, <1>3, AddWhole
<1>5. t = d \o l
  BY <1>1, <1>2, RestFollows
<1>6. OnUartData(b, c) = [buf |-> r.buf, got |-> Due(f) \o r.got]
  <2> HIDE DEF a
  <2>1. Deal[a] = DealBody(Deal, a)
    BY <1>4, DealEquation
  <2>2. OnUartData(b, c) = Deal[a]
    BY DEF OnUartData, a
  <2> QED
    BY <1>4, <2>1, <2>2 DEF DealBody
<1> HIDE DEF a
<1>7. Well(r, l, v)
  <2>1. CASE a.rlen >= Len(c)
    <3>1. Len(f) - Len(b) + 1 > Len(c) /\ Len(f) - Len(b) + 1 \in Nat
      BY <1>2, <1>4, <2>1
    <3>2. d = << >>
      BY <1>1, <1>2, <3>1 DEF From
    <3>3. t = l
      BY <1>1, <1>5, <3>2, ConcatEmptySeq
    <3>4. r = [buf |-> << >>, got |-> << >>]
      BY <2>1
    <3> DEFINE e == << >>
    <3>5. /\ r.buf = e /\ r.got = e /\ e \in Seq(Byte) /\ e \in Seq(Frames)
          /\ e \o v = v /\ e \o l = l
      BY <1>1, <3>4, ConcatEmptySeq
    <3>6. Short(e)
      BY DEF Short
    <3> HIDE DEF e, r
    <3> QED
      BY <3>3, <3>5, <3>6 DEF Well
  <2>2. CASE ~(a.rlen >= Len(c))
    <3>1. a.rlen < Len(a.bf)
      BY <1>2, <1>4, <2>2
    <3>2. d = From(a.bf, a.rlen + 1)
      BY <1>4
    <3>3. d \in Seq(Byte) /\ d # << >> /\ Len(d) < Len(c)
      <4>1. d \in Seq(Byte) /\ d # << >> /\ Len(d) = Len(c) - (Len(f) - Len(b))
        <5> HIDE DEF d
        <5> QED
          BY <1>4, <3>1, <3>2, RestType
      <4> HIDE DEF d
      <4> QED
        BY <1>2, <4>1
    <3>4. r = OnUartData(<< >>, d)
      BY <2>2, <3>2 DEF OnUartData, Again
    <3> HIDE DEF d, r
    <3>5. Clean(<< >>, d, l, v)
      <4> DEFINE e == << >>
      <4>1. e \in Seq(Byte) /\ e \o d = d /\ Short(e)
        BY <3>3, ConcatEmptySeq DEF Short
      <4> HIDE DEF e
      <4>2. Clean(e, d, l, v)
        BY <1>1, <1>5, <3>3, <4>1 DEF Clean
      <4> QED
        BY <4>2 DEF e
    <3> QED
      BY <3>3, <3>4, <3>5
  <2> QED
    BY <2>1, <2>2
<1> HIDE DEF r
<1> QED
  BY <1>6, <1>7, WellMore

LEMMA DealClean ==
    ASSUME NEW b, NEW c, NEW l, NEW q, Clean(b, c, l, q)
    PROVE  Well(OnUartData(b, c), l, q)
<1> DEFINE Fails(n) == \E x, y, p : Clean(x, y, l, p) /\ Len(y) = n /\ ~Well(OnUartData(x, y), l, p)
           S == {n \in Nat : Fails(n)}
<1>1. ASSUME S # {} PROVE FALSE
  <2>1. S \subseteq Nat
    OBVIOUS
  <2>2. PICK n \in S : \A m \in S : n <= m
    BY <1>1, <2>1, LeastNat
  <2>3. n \in Nat /\ Fails(n)
    BY <2>2
  <2>4. PICK x, y, p : Clean(x, y, l, p) /\ Len(y) = n /\ ~Well(OnUartData(x, y), l, p)
    BY <2>3
  <2>5. ASSUME NEW d, NEW v, Clean(<< >>, d, l, v), Len(d) < Len(y)
        PROVE  Well(OnUartData(<< >>, d), l, v)
    <3>1. Len(d) \in Nat /\ Len(d) \notin S
      <4>1. Len(d) \in Nat
        BY <2>5 DEF Clean
      <4> HIDE DEF S
      <4> QED
        BY <2>2, <2>3, <2>4, <2>5, <4>1
    <3> QED
      BY <2>5, <3>1
  <2>6. /\ x \in Seq(Byte) /\ y \in Seq(Byte) /\ l \in Seq(Byte) /\ y # << >>
        /\ <<(x \o y) \o l, p>> \in Streams /\ Short(x)
    BY <2>4 DEF Clean
  <2>7. (x \o y) \o l # << >>
    <3>1. Len(x) \in Nat /\ Len(y) \in Nat /\ Len(y) > 0 /\ Len(l) \in Nat
      BY <2>6
    <3>2. x \o y \in Seq(Byte) /\ Len(x \o y) = Len(x) + Len(y)
      BY <2>6, ConcatProperties
    <3>3. Len((x \o y) \o l) = Len(x) + Len(y) + Len(l)
      BY <2>6, <3>2, ConcatProperties
    <3>4. Len((x \o y) \o l) # 0
      BY <3>1, <3>3
    <3> QED
      BY <3>4
  <2>8. PICK f \in Frames, t \in Seq(Byte), v \in Seq(Frames) :
           <<t, v>> \in Streams /\ (x \o y) \o l = f \o t /\ p = Due(f) \o v
    <3> DEFINE z == (x \o y) \o l
    <3>1. <<z, p>> \in Streams /\ z # << >>
      BY <2>6, <2>7
    <3> HIDE DEF z
    <3>2. Starts(z, p)
      BY <3>1, StreamHead
    <3> QED
      BY <3>2 DEF z, Starts
  <2>9. Len(x) < Len(f)
    <3>1. f \in Seq(Byte) /\ y \o l \in Seq(Byte)
      BY <2>6, FrameFacts, ConcatProperties
    <3>2. x \in Seq(Byte) /\ y \in Seq(Byte) /\ l \in Seq(Byte)
      BY <2>6
    <3>3. x \o (y \o l) = (x \o y) \o l
      BY <3>2, Regroup
    <3>4. x \o (y \o l) = f \o t
      BY <2>8, <3>3
    <3>5. \A i \in 1..Len(f) : i <= Len(x) => x[i] = f[i]
      BY <2>6, <3>1, <3>4, SameStart
    <3> QED
      BY <2>6, <3>5, ShortPart
  <2>10. Len(x) + Len(y) < Len(f) \/ Len(f) <= Len(x) + Len(y)
    BY <2>6, FrameFacts
  <2>11. Len(x) + Len(y) < Len(f) => Well(OnUartData(x, y), l, p)
    BY <2>4, <2>8, DealPart
  <2>12. Len(f) <= Len(x) + Len(y) => Well(OnUartData(x, y), l, p)
    BY <2>4, <2>5, <2>8, <2>9, DealWhole
  <2> QED
    BY <2>4, <2>10, <2>11, <2>12
<1>2. Len(c) \in Nat
  BY DEF Clean
<1>3. ~Fails(Len(c))
  BY <1>1, <1>2
<1> QED
  BY <1>3
-----------------------------------------------------------------------------
(* The invariant and its steps.                                            *)

\* Undisturbed, the bytes kept and the bytes on their way are frames one after the other,
\* what is due for them is queued, and no whole frame waits in the buffer.
InStream == noise = 0 => <<buf \o line, queue>> \in Streams /\ Short(buf)

IInv == TypeOK /\ InStream

LEMMA FromType ==
    ASSUME NEW S, NEW s \in Seq(S), NEW m \in Nat \ {0}
    PROVE  From(s, m) \in Seq(S)
  BY DEF From

LEMMA OnUartDataType ==
    ASSUME NEW b \in Seq(Byte), Len(b) <= BufLen, NEW c \in Seq(Byte)
    PROVE  /\ OnUartData(b, c).buf \in Seq(Byte) /\ Len(OnUartData(b, c).buf) <= BufLen
           /\ OnUartData(b, c).got \in Seq(Seq(Byte))
<1> DEFINE a == Add(b, c)
<1>1. a \in Adding /\ Len(a.buf) <= BufLen
  BY AddType
<1> HIDE DEF a
<1>2. Deal[a].buf \in Seq(Byte) /\ Len(Deal[a].buf) <= BufLen /\ Deal[a].got \in Seq(Seq(Byte))
  BY <1>1, DealType
<1> QED
  BY <1>2 DEF OnUartData, a

\* Cutting the line.
LEMMA Cut ==
    ASSUME NEW S, NEW s \in Seq(S), NEW k \in 0..Len(s)
    PROVE  /\ Prefix(s, k) \in Seq(S) /\ Len(Prefix(s, k)) = k /\ From(s, k + 1) \in Seq(S)
           /\ Prefix(s, k) \o From(s, k + 1) = s
<1>1. Prefix(s, k) \in Seq(S) /\ Len(Prefix(s, k)) = k
  BY DEF Prefix
<1>2. From(s, k + 1) \in Seq(S)
  BY FromType
<1>3. Prefix(s, k) \o From(s, k + 1) = SubSeq(s, 1, Len(s))
  <2>1. 1 \in 1..Len(s) + 1 /\ k \in 1 - 1..Len(s) /\ Len(s) \in k..Len(s)
    OBVIOUS
  <2> QED
    BY <2>1, ConcatAdjacentSubSeq DEF Prefix, From
<1>4. SubSeq(s, 1, Len(s)) = s
  OBVIOUS
<1> QED
  BY <1>1, <1>2, <1>3, <1>4

LEMMA TypeInit == Init => TypeOK
  BY NoiseAssumption, SizeAssumption DEF Init, TypeOK

LEMMA TypeSend ==
    ASSUME TypeOK, NEW f \in Frames, Send(f)
    PROVE  TypeOK'
<1>1. f \in Seq(Byte)
  BY FrameFacts
<1>2. line' \in Seq(Byte)
  BY <1>1 DEF TypeOK, Send
<1>3. queue' \in Seq(Frames)
  BY DEF TypeOK, Send
<1>4. buf' = buf /\ noise' = noise /\ got' = << >>
  BY DEF Send
<1> QED
  BY <1>2, <1>3, <1>4 DEF TypeOK

LEMMA TypeRead ==
    ASSUME TypeOK, Read
    PROVE  TypeOK'
<1>1. PICK k \in 1..Len(line) :
         /\ line' = From(line, k + 1)
         /\ \E r \in {OnUartData(buf, Prefix(line, k))} :
               /\ buf' = r.buf /\ got' = r.got
               /\ queue' = IF noise = 0 THEN From(queue, Len(r.got) + 1) ELSE queue
  BY DEF Read
<1> DEFINE c == Prefix(line, k)
           r == OnUartData(buf, c)
<1>2. c \in Seq(Byte) /\ line' \in Seq(Byte)
  BY <1>1, Cut DEF TypeOK
<1>3. /\ buf' = r.buf /\ got' = r.got
      /\ queue' = IF noise = 0 THEN From(queue, Len(r.got) + 1) ELSE queue
  BY <1>1
<1> HIDE DEF c
<1>4. r.buf \in Seq(Byte) /\ Len(r.buf) <= BufLen /\ r.got \in Seq(Seq(Byte))
  BY <1>2, OnUartDataType DEF TypeOK
<1> HIDE DEF r
<1>5. queue' \in Seq(Frames)
  <2>1. Len(r.got) + 1 \in Nat \ {0}
    BY <1>4
  <2> QED
    BY <1>3, <2>1, FromType DEF TypeOK
<1>6. noise' = noise /\ \A i \in DOMAIN got' : got'[i] \in Seq(Byte)
  BY <1>3, <1>4 DEF Read
<1> QED
  BY <1>2, <1>3, <1>4, <1>5, <1>6 DEF TypeOK

LEMMA TypeDisturb ==
    ASSUME TypeOK, Disturb
    PROVE  TypeOK'
<1>1. line' \in Seq(Byte)
  <2>1. ASSUME NEW i \in DOMAIN line PROVE Prefix(line, i - 1) \o From(line, i + 1) \in Seq(Byte)
    <3>1. line \in Seq(Byte) /\ i \in 1..Len(line) /\ i - 1 \in 0..Len(line) /\ i + 1 \in Nat \ {0}
      BY <2>1 DEF TypeOK
    <3>2. Prefix(line, i - 1) \in Seq(Byte) /\ From(line, i + 1) \in Seq(Byte)
      BY <3>1, Cut, FromType
    <3> QED
      BY <3>2, ConcatProperties
  <2>2. ASSUME NEW i \in DOMAIN line, NEW x \in Byte PROVE [line EXCEPT ![i] = x] \in Seq(Byte)
    BY <2>2 DEF TypeOK
  <2>3. ASSUME NEW x \in Byte PROVE Append(line, x) \in Seq(Byte)
    BY <2>3 DEF TypeOK
  <2> QED
    BY <2>1, <2>2, <2>3 DEF Disturb
<1>2. noise' \in 0..MaxNoise
  BY NoiseAssumption DEF Disturb, TypeOK
<1>3. queue' = << >> /\ got' = << >> /\ buf' = buf
  BY DEF Disturb
<1> QED
  BY <1>1, <1>2, <1>3 DEF TypeOK

\* The types of a state carry over to the next.
LEMMA TypeStep == TypeOK /\ [Next]_vars => TypeOK'
<1> SUFFICES ASSUME TypeOK, [Next]_vars PROVE TypeOK'
  OBVIOUS
<1>1. CASE Read
  BY <1>1, TypeRead
<1>2. CASE Disturb
  BY <1>2, TypeDisturb
<1>3. CASE \E f \in Frames : Send(f)
  BY <1>3, TypeSend
<1>4. CASE UNCHANGED vars
  BY <1>4 DEF vars, TypeOK
<1> QED
  BY <1>1, <1>2, <1>3, <1>4 DEF Next

\* What a reading of an undisturbed line does: it takes the first bytes of the line and
\* hands on the first frames of the queue.
LEMMA CleanReading ==
    ASSUME IInv, Read, noise = 0
    PROVE  /\ \E n \in 0..Len(queue) : got' = SubSeq(queue, 1, n) /\ queue' = SubSeq(queue, n + 1, Len(queue))
           /\ <<buf' \o line', queue'>> \in Streams /\ Short(buf')
<1>1. PICK k \in 1..Len(line) :
         /\ line' = From(line, k + 1)
         /\ \E r \in {OnUartData(buf, Prefix(line, k))} :
               /\ buf' = r.buf /\ got' = r.got
               /\ queue' = IF noise = 0 THEN From(queue, Len(r.got) + 1) ELSE queue
  BY DEF Read
<1> DEFINE c == Prefix(line, k)
           l == From(line, k + 1)
           r == OnUartData(buf, c)
<1>2. line \in Seq(Byte) /\ buf \in Seq(Byte) /\ queue \in Seq(Frames)
  BY DEF IInv, TypeOK
<1>3. c \in Seq(Byte) /\ c # << >> /\ l \in Seq(Byte) /\ c \o l = line
  <2>1. k \in 0..Len(line) /\ k # 0
    BY <1>2
  <2>2. c \in Seq(Byte) /\ Len(c) = k /\ l \in Seq(Byte) /\ c \o l = line
    BY <1>2, <2>1, Cut
  <2> HIDE DEF c, l
  <2> QED
    BY <2>1, <2>2
<1>4. buf' = r.buf /\ got' = r.got /\ queue' = From(queue, Len(r.got) + 1) /\ line' = l
  BY <1>1
<1> HIDE DEF c, l
<1>5. (buf \o c) \o l = buf \o line
  <2>1. buf \o (c \o l) = (buf \o c) \o l
    <3>1. buf \in Seq(Byte) /\ c \in Seq(Byte) /\ l \in Seq(Byte)
      BY <1>2, <1>3
    <3> QED
      BY <3>1, Regroup
  <2> QED
    BY <1>3, <2>1
<1>6. Clean(buf, c, l, queue)
  BY <1>2, <1>3, <1>5 DEF Clean, IInv, InStream
<1>7. Well(r, l, queue)
  BY <1>6, DealClean
<1> HIDE DEF r
<1>8. PICK u \in Seq(Frames) : queue = r.got \o u /\ <<r.buf \o l, u>> \in Streams
  BY <1>7 DEF Well
<1>9. r.got \in Seq(Frames) /\ Short(r.buf)
  BY <1>7 DEF Well
<1> DEFINE g == r.got
           n == Len(g)
<1>10. g \in Seq(Frames) /\ u \in Seq(Frames) /\ queue = g \o u
  BY <1>8, <1>9
<1> HIDE DEF g
<1>11. n \in 0..Len(queue) /\ SubSeq(queue, 1, n) = g /\ From(queue, n + 1) = u
  <2>1. n \in 0..Len(queue)
    BY <1>10
  <2>2. SubSeq(g \o u, 1, Len(g)) = g
    BY <1>10
  <2>3. SubSeq(g \o u, Len(g) + 1, Len(g \o u)) = u
    BY <1>10
  <2> QED
    BY <1>10, <2>1, <2>2, <2>3 DEF From
<1>12. got' = SubSeq(queue, 1, n) /\ queue' = SubSeq(queue, n + 1, Len(queue)) /\ queue' = u
  BY <1>4, <1>11 DEF From, g
<1> HIDE DEF n
<1>13. <<buf' \o line', queue'>> \in Streams /\ Short(buf')
  BY <1>4, <1>8, <1>9, <1>12
<1> QED
  BY <1>11, <1>12, <1>13

\* A frame sent on an undisturbed line.
LEMMA CleanSending ==
    ASSUME IInv, NEW f \in Frames, Send(f), noise = 0
    PROVE  <<buf' \o line', queue'>> \in Streams /\ Short(buf')
<1>1. line \in Seq(Byte) /\ buf \in Seq(Byte) /\ queue \in Seq(Frames) /\ f \in Seq(Byte)
  BY FrameFacts DEF IInv, TypeOK
<1>2. buf' = buf /\ line' = line \o f /\ queue' = IF Check(f) THEN Append(queue, f) ELSE queue
  BY DEF Send
<1>3. queue' = queue \o Due(f)
  <2>1. Check(f) => Append(queue, f) = queue \o <<f>>
    BY <1>1
  <2>2. queue \o << >> = queue
    BY <1>1, ConcatEmptySeq
  <2> QED
    BY <1>2, <2>1, <2>2 DEF Due
<1>4. buf \o (line \o f) = (buf \o line) \o f
  BY <1>1, Regroup
<1>5. <<(buf \o line) \o f, queue \o Due(f)>> \in Streams /\ Short(buf)
  BY StreamAppend DEF IInv, InStream
<1> QED
  BY <1>2, <1>3, <1>4, <1>5

LEMMA InitInv == Init => IInv
<1> SUFFICES ASSUME Init PROVE InStream
  BY TypeInit DEF IInv
<1> DEFINE e == << >>
<1>1. buf = e /\ line = e /\ queue = e /\ e \o e = e /\ <<e, e>> \in Streams /\ Short(e)
  BY EmptyStream DEF Init, Short
<1> HIDE DEF e
<1> QED
  BY <1>1 DEF InStream

LEMMA NextInv == IInv /\ [Next]_vars => IInv'
<1> SUFFICES ASSUME IInv, [Next]_vars PROVE InStream'
  BY TypeStep DEF IInv
<1>1. CASE Read
  BY <1>1, CleanReading DEF InStream, Read
<1>2. CASE Disturb
  <2>1. noise \in Nat /\ noise' = noise + 1
    BY <1>2, NoiseAssumption DEF Disturb, IInv, TypeOK
  <2> QED
    BY <2>1 DEF InStream
<1>3. ASSUME NEW f \in Frames, Send(f)
      PROVE  InStream'
  BY <1>3, CleanSending DEF InStream, Send
<1>4. CASE UNCHANGED vars
  BY <1>4 DEF vars, InStream, IInv
<1> QED
  BY <1>1, <1>2, <1>3, <1>4 DEF Next

\* Whatever is sent, disturbed and however it is cut: the buffer is not overrun, and only
\* frames are queued (onUartData, MCU2UI::add).
THEOREM TypesKept == Spec => []TypeOK
<1> QED
  BY TypeInit, TypeStep, PTL DEF Spec

\* On an undisturbed line nothing is held back: when all that was sent was read, all of it
\* has been handed on, except the frames that check refuses, and the buffer is empty.
THEOREM PromptDelivery == Spec => []Prompt
<1>1. ASSUME IInv, noise = 0, line = << >>
      PROVE  queue = << >> /\ buf = << >>
  <2>1. /\ buf \in Seq(Byte) /\ line \in Seq(Byte) /\ <<buf \o line, queue>> \in Streams /\ Short(buf)
        /\ buf \o line = buf
    BY <1>1, ConcatEmptySeq DEF IInv, InStream, TypeOK
  <2>2. <<buf, queue>> \in Streams
    BY <2>1
  <2>3. ~Starts(buf, queue)
    <3>1. SUFFICES ASSUME NEW f \in Frames, NEW t \in Seq(Byte), buf = f \o t
                   PROVE  FALSE
      BY DEF Starts
    <3>2. f \in Seq(Byte) /\ Len(f) \in Nat
      BY FrameFacts
    <3>3. Len(buf) = Len(f) + Len(t) /\ \A i \in 1..Len(f) : buf[i] = f[i]
      BY <3>1, <3>2
    <3>4. Len(buf) < Len(f)
      BY <2>1, <3>3, ShortPart
    <3>5. Len(t) \in Nat
      OBVIOUS
    <3> QED
      BY <3>2, <3>3, <3>4, <3>5
  <2> QED
    BY <2>2, <2>3, StreamHead
<1>2. IInv => Prompt
  BY <1>1 DEF Prompt
<1> QED
  BY <1>2, InitInv, NextInv, PTL DEF Spec

\* Every step of the line and of the receiver is a step of the channel or none.
LEMMA StepOfChannel == IInv /\ [Next]_vars => [Channel!Next]_(Channel!channel)
<1> SUFFICES ASSUME IInv, [Next]_vars
             PROVE  Channel!Next \/ UNCHANGED <<queue, got, noise > 0>>
  BY DEF Channel!channel
<1>1. noise \in Nat /\ queue \in Seq(Frames)
  BY NoiseAssumption DEF IInv, TypeOK
<1>2. CASE Read
  <2>1. noise' = noise
    BY <1>2 DEF Read
  <2>2. CASE noise = 0
    <3>1. Channel!Deliver
      BY <1>2, <2>2, CleanReading DEF Channel!Deliver
    <3> QED
      BY <2>1, <2>2, <3>1 DEF Channel!Next
  <2>3. CASE noise # 0
    BY <1>1, <2>1, <2>3 DEF Channel!Next
  <2> QED
    BY <2>2, <2>3
<1>3. CASE Disturb
  <2>1. noise' = noise + 1
    BY <1>3 DEF Disturb
  <2> QED
    BY <1>1, <2>1 DEF Channel!Next
<1>4. ASSUME NEW f \in Frames, Send(f)
      PROVE  Channel!Next
  <2>1. noise' = noise /\ got' = << >> /\ queue' = IF noise = 0 /\ Check(f) THEN Append(queue, f) ELSE queue
    BY <1>4 DEF Send
  <2>2. CASE noise # 0
    BY <1>1, <2>1, <2>2 DEF Channel!Next
  <2>3. CASE noise = 0 /\ Check(f)
    <3>1. Channel!Send(f)
      BY <2>1, <2>3 DEF Channel!Send
    <3> QED
      BY <2>1, <2>3, <3>1 DEF Channel!Next
  <2>4. CASE noise = 0 /\ ~Check(f)
    <3>1. queue' = SubSeq(queue, 0 + 1, Len(queue)) /\ got' = SubSeq(queue, 1, 0) /\ 0 \in 0..Len(queue)
      BY <1>1, <2>1, <2>4
    <3>2. Channel!Deliver
      BY <3>1 DEF Channel!Deliver
    <3> QED
      BY <2>1, <2>4, <3>2 DEF Channel!Next
  <2> QED
    BY <2>2, <2>3, <2>4
<1>5. CASE UNCHANGED vars
  BY <1>5 DEF vars
<1> QED
  BY <1>2, <1>3, <1>4, <1>5 DEF Next

\* On an undisturbed line every frame that was sent, and that check does not refuse, is
\* given to onCommand once and in order, however the bytes are cut into chunks.
THEOREM IsChannel == Spec => KeepsChannel
<1>1. Init => Channel!Init
  BY DEF Init, Channel!Init
<1> QED
  BY <1>1, InitInv, NextInv, StepOfChannel, PTL DEF Spec, KeepsChannel, Channel!Spec
=============================================================================
