---------------------------- MODULE MessageProofs ----------------------------
(***************************************************************************)
(* Messages of any length.  parse_xml_attribute stays inside its text and  *)
(* finds the first value of a text whose keys alternate.  atoi reads back  *)
(* every length that fits its digits, and receive_from_fd returns the      *)
(* bodies that were sent, however writes and reads are split.              *)
(***************************************************************************)
EXTENDS XmlAttribute, Framing, WellFoundedInduction, SequenceTheorems, TLAPS

(* Where the loop can be.  Each start key it has passed was followed at    *)
(* once by its end key...                                                  *)
Outside ==
  \A d \in 1..Len(xin) :
    d <= xi /\ xin[d] = "start" => d + 1 <= xi /\ d + 1 <= Len(xin) /\ xin[d + 1] = "end"

(* ... or it is in the value that began at xj.                             *)
Inside ==
  /\ xj \in 1..Len(xin) /\ xj < xi /\ xi <= Len(xin)
  /\ xin[xj] = "start" /\ Chars(xin, xj + 1, xi)
  /\ \A d \in 1..(xj - 1) : xin[d] = "start" => xin[d + 1] = "end"

Locals ==
  /\ xpc = "idle" => xi = 0 /\ xj = 0
  /\ xj <= xi
  /\ xpc = "loop" => xout = NoValue
  /\ xpc = "done" => \/ xout = NoValue
                     \/ /\ xout = value(xj, xi)
                        /\ xi < Len(xin) /\ xin[xi + 1] = "end"

Scan == xpc = "loop" /\ Alternates(xin) => Outside \/ Inside

XmlInv == XmlTypeOK /\ Locals /\ Scan /\ FindsFirstValue

---------------------------------------------------------------------------
LEMMA XmlTypeInit == XmlInit => XmlTypeOK /\ Locals
BY DEF XmlInit, XmlTypeOK, Locals, NoValue, Token

(* The index moves by two over a start key and by one over a character,    *)
(* and only from inside the text.                                          *)
LEMMA XmlTypeStep ==
  ASSUME XmlTypeOK, Locals, [XmlNext]_xvars
  PROVE  XmlTypeOK' /\ Locals'
<1> USE DEF XmlTypeOK, Locals, NoValue
<1>1. CASE parse_xml_attribute
  <2>1. xin' \in Seq(Token)
    BY <1>1, TextAssumption DEF parse_xml_attribute
  <2>2. Len(xin') \in Nat
    BY <2>1
  <2> QED
    BY <1>1, <2>1, <2>2 DEF parse_xml_attribute
<1> Len(xin) \in Nat
  OBVIOUS
<1>2. CASE start_key
  BY <1>2 DEF start_key, behind, At
<1>3. CASE end_key
  BY <1>3 DEF end_key, At, value
<1>4. CASE next_char
  BY <1>4 DEF next_char, At
<1>5. CASE not_found
  BY <1>5 DEF not_found
<1>6. CASE UNCHANGED xvars
  BY <1>6 DEF xvars, value
<1> QED
  BY <1>1, <1>2, <1>3, <1>4, <1>5, <1>6 DEF XmlNext, XmlStep

---------------------------------------------------------------------------
(* In the middle of a value there is no start key, and the text does not   *)
(* end: the end key of the element is still to come.                       *)
LEMMA InsideGoesOn ==
  ASSUME XmlTypeOK, Alternates(xin), Inside
  PROVE  xi < Len(xin) /\ xin[xi + 1] \in {"end", "char"}
<1> Len(xin) \in Nat /\ xi \in Nat /\ xj \in Nat
  BY DEF XmlTypeOK
<1>1. PICK e \in 1..Len(xin) : Element(xin, xj, e)
  BY DEF Alternates, Inside
<1>2. ~ (e <= xi)
  <2> SUFFICES ASSUME e <= xi PROVE FALSE
    OBVIOUS
  <2> QED
    BY <1>1 DEF Inside, Element, Chars
<1>3. xi < Len(xin)
  BY <1>2
<1>4. e = xi + 1 \/ xi + 1 \in (xj + 1)..(e - 1)
  BY <1>2 DEF Inside
<1> QED
  BY <1>1, <1>3, <1>4 DEF Element, Chars

(* Outside a value the next token is no end key. *)
LEMMA OutsideNoEnd ==
  ASSUME XmlTypeOK, Alternates(xin), Outside, xi < Len(xin)
  PROVE  xin[xi + 1] # "end"
<1> Len(xin) \in Nat /\ xi \in Nat
  BY DEF XmlTypeOK
<1> SUFFICES ASSUME xin[xi + 1] = "end" PROVE FALSE
  OBVIOUS
<1>1. xi + 1 \in 1..Len(xin)
  OBVIOUS
<1>2. PICK s \in 1..Len(xin) : Element(xin, s, xi + 1)
  BY <1>1 DEF Alternates
<1>3. s <= xi /\ xin[s] = "start"
  BY <1>2 DEF Element
<1>4. s + 1 <= xi /\ xin[s + 1] = "end"
  BY <1>3 DEF Outside
<1>5. s + 1 \in (s + 1)..((xi + 1) - 1)
  BY <1>4
<1> QED
  BY <1>2, <1>4, <1>5 DEF Element, Chars

(* A start key is followed by its end key or by a character. *)
LEMMA AfterStart ==
  ASSUME NEW t \in Seq(Token), Alternates(t), NEW s \in 1..Len(t), t[s] = "start"
  PROVE  s + 1 <= Len(t) /\ t[s + 1] \in {"end", "char"}
<1> Len(t) \in Nat
  OBVIOUS
<1>1. PICK e \in 1..Len(t) : Element(t, s, e)
  BY DEF Alternates
<1>2. s + 1 <= Len(t) /\ (e = s + 1 \/ s + 1 \in (s + 1)..(e - 1))
  BY <1>1 DEF Element
<1> QED
  BY <1>1, <1>2 DEF Element, Chars

---------------------------------------------------------------------------
LEMMA ScanStep ==
  ASSUME XmlTypeOK, Locals, Scan, [XmlNext]_xvars
  PROVE  Scan'
<1> SUFFICES ASSUME xpc' = "loop", Alternates(xin)' PROVE (Outside \/ Inside)'
  BY DEF Scan
<1>1. CASE parse_xml_attribute
  <2>1. xi' = 0
    BY <1>1 DEF parse_xml_attribute, Locals
  <2> QED
    BY <2>1 DEF Outside
<1>2. ASSUME start_key \/ next_char PROVE (Outside \/ Inside)'
  <2>1. xpc = "loop" /\ xin' = xin /\ xi < Len(xin)
    BY <1>2 DEF start_key, behind, next_char, At
  <2>2. Alternates(xin)
    BY <2>1
  <2>3. Outside \/ Inside
    BY <2>1, <2>2 DEF Scan
  <2> Len(xin) \in Nat /\ xi \in Nat /\ xj \in Nat /\ xin \in Seq(Token)
    BY DEF XmlTypeOK
  <2>4. CASE start_key
    <3>1. xin[xi + 1] = "start" /\ xj' = xi + 1 /\ xi' = xi + 2
      BY <2>4 DEF start_key, behind, At
    <3>2. Outside
      BY <2>2, <2>3, <3>1, InsideGoesOn
    <3>3. xi + 2 <= Len(xin) /\ xin[xi + 2] \in {"end", "char"}
      <4>1. xi + 1 \in 1..Len(xin) /\ (xi + 1) + 1 = xi + 2
        BY <2>1
      <4> QED
        BY <2>2, <3>1, <4>1, AfterStart
    <3>4. CASE xin[xi + 2] = "end"
      <4> SUFFICES ASSUME NEW d \in 1..Len(xin), d <= xi + 2, xin[d] = "start"
                   PROVE  d + 1 <= xi + 2 /\ d + 1 <= Len(xin) /\ xin[d + 1] = "end"
        BY <2>1, <3>1 DEF Outside
      <4>1. d <= xi \/ d = xi + 1
        BY <3>4
      <4> QED
        BY <3>2, <3>3, <3>4, <4>1 DEF Outside
    <3>5. CASE xin[xi + 2] = "char"
      <4>1. Chars(xin, (xi + 1) + 1, xi + 2)
        BY <3>5 DEF Chars
      <4>2. \A d \in 1..((xi + 1) - 1) : xin[d] = "start" => xin[d + 1] = "end"
        BY <2>1, <3>2 DEF Outside
      <4> QED
        BY <2>1, <3>1, <3>3, <4>1, <4>2 DEF Inside
    <3> QED
      BY <3>3, <3>4, <3>5
  <2>5. CASE next_char
    <3>1. xin[xi + 1] = "char" /\ xj' = xj /\ xi' = xi + 1
      BY <2>5 DEF next_char, At
    <3>2. CASE Outside
      <4> SUFFICES ASSUME NEW d \in 1..Len(xin), d <= xi + 1, xin[d] = "start"
                   PROVE  d + 1 <= xi + 1 /\ d + 1 <= Len(xin) /\ xin[d + 1] = "end"
        BY <2>1, <3>1 DEF Outside
      <4>1. d <= xi
        BY <3>1
      <4> QED
        BY <3>2, <4>1 DEF Outside
    <3>3. CASE Inside
      <4>1. Chars(xin, xj + 1, xi + 1)
        <5> SUFFICES ASSUME NEW k \in (xj + 1)..(xi + 1) PROVE xin[k] = "char"
          BY DEF Chars
        <5>1. k = xi + 1 \/ k \in (xj + 1)..xi
          OBVIOUS
        <5> QED
          BY <3>1, <3>3, <5>1 DEF Inside, Chars
      <4> QED
        BY <2>1, <3>1, <3>3, <4>1 DEF Inside
    <3> QED
      BY <2>3, <3>2, <3>3
  <2> QED
    BY <1>2, <2>4, <2>5
<1>3. CASE end_key \/ not_found
  BY <1>3 DEF end_key, not_found
<1>4. CASE UNCHANGED xvars
  BY <1>4 DEF xvars, Scan, Outside, Inside
<1> QED
  BY <1>1, <1>2, <1>3, <1>4 DEF XmlNext, XmlStep

LEMMA FindsStep ==
  ASSUME XmlTypeOK, Locals, Scan, FindsFirstValue, [XmlNext]_xvars
  PROVE  FindsFirstValue'
<1> SUFFICES ASSUME xpc' = "done", Alternates(xin)'
             PROVE  \/ \E s, e \in 1..Len(xin') :
                         /\ FirstValue(xin', s, e)
                         /\ xout' = [ret |-> 1, s |-> s, len |-> e - s - 1]
                    \/ /\ \A s, e \in 1..Len(xin') : ~ FirstValue(xin', s, e)
                       /\ xout' = NoValue
  BY DEF FindsFirstValue
<1>1. CASE parse_xml_attribute
  <2>1. xin' = <<>> /\ xout' = NoValue
    BY <1>1 DEF parse_xml_attribute
  <2> QED
    BY <2>1
<1>2. ASSUME end_key \/ not_found
      PROVE xpc = "loop" /\ xin' = xin /\ Alternates(xin) /\ (Outside \/ Inside)
  BY <1>2 DEF end_key, not_found, At, Scan
<1> Len(xin) \in Nat /\ xi \in Nat /\ xj \in Nat
  BY DEF XmlTypeOK
<1>3. CASE end_key
  <2>1. xi < Len(xin) /\ xin[xi + 1] = "end" /\ xout' = value(xj, xi)
    BY <1>3 DEF end_key, At
  <2>2. Inside
    BY <1>2, <1>3, <2>1, OutsideNoEnd
  <2>3. FirstValue(xin, xj, xi + 1)
    BY <2>1, <2>2 DEF FirstValue, Element, Inside
  <2>4. xout' = [ret |-> 1, s |-> xj, len |-> (xi + 1) - xj - 1]
    BY <2>1 DEF value
  <2>5. xin' = xin /\ xj \in 1..Len(xin) /\ xi + 1 \in 1..Len(xin)
    BY <1>2, <1>3, <2>1, <2>2 DEF Inside
  <2>6. \E s, e \in 1..Len(xin) :
           FirstValue(xin, s, e) /\ xout' = [ret |-> 1, s |-> s, len |-> e - s - 1]
    <3> USE <2>5
    <3> WITNESS xj \in 1..Len(xin), xi + 1 \in 1..Len(xin)
    <3> QED
      BY <2>3, <2>4
  <2> QED
    BY <2>5, <2>6
<1>4. CASE not_found
  <2>1. xi >= Len(xin) /\ xout' = NoValue
    BY <1>4 DEF not_found
  <2>2. Outside
    BY <1>2, <1>4, <2>1, InsideGoesOn
  <2>3. ASSUME NEW s \in 1..Len(xin), NEW e \in 1..Len(xin), FirstValue(xin, s, e)
        PROVE  FALSE
    <3>1. xin[s] = "start" /\ s + 1 < e /\ Chars(xin, s + 1, e - 1)
      BY <2>3 DEF FirstValue, Element
    <3>2. xin[s + 1] = "end"
      BY <2>1, <2>2, <3>1 DEF Outside
    <3>3. s + 1 \in (s + 1)..(e - 1)
      BY <3>1
    <3> QED
      BY <3>1, <3>2, <3>3 DEF Chars
  <2> QED
    BY <1>2, <1>4, <2>1, <2>3
<1>5. CASE start_key \/ next_char
  BY <1>5 DEF start_key, behind, next_char, At
<1>6. CASE UNCHANGED xvars
  BY <1>6 DEF xvars, FindsFirstValue
<1> QED
  BY <1>1, <1>3, <1>4, <1>5, <1>6 DEF XmlNext, XmlStep

---------------------------------------------------------------------------
LEMMA XmlInvariant == XmlSpec => []XmlInv
<1>1. XmlInit => XmlInv
  BY XmlTypeInit DEF XmlInit, XmlInv, Scan, FindsFirstValue
<1>2. XmlInv /\ [XmlNext]_xvars => XmlInv'
  BY XmlTypeStep, ScanStep, FindsStep DEF XmlInv
<1> QED
  BY <1>1, <1>2, PTL DEF XmlSpec

(* The index and the start of the value stay inside the text, whatever the *)
(* text parse_xml_attribute is called with.                                *)
THEOREM XmlTypeCorrect == XmlSpec => []XmlTypeOK
<1>1. XmlInv => XmlTypeOK
  BY DEF XmlInv
<1> QED
  BY <1>1, XmlInvariant, PTL

(* For every text the value that parse_xml_attribute returns lies inside   *)
(* it and ends at an end key: the copies its callers make stay in bounds.  *)
THEOREM XmlValueInText == XmlSpec => []ValueInText
<1>1. XmlInv => ValueInText
  <2> SUFFICES ASSUME XmlInv, xpc = "done", xout.ret = 1
               PROVE  /\ xout.s + xout.len < Len(xin)
                      /\ xin[xout.s + xout.len + 1] = "end"
    BY DEF ValueInText
  <2>1. xout = value(xj, xi) /\ xi < Len(xin) /\ xin[xi + 1] = "end"
    BY DEF XmlInv, Locals, NoValue
  <2>2. xout.s + xout.len = xi
    BY <2>1 DEF value, XmlInv, XmlTypeOK
  <2> QED
    BY <2>1, <2>2
<1> QED
  BY <1>1, XmlInvariant, PTL

(* In every text whose keys alternate, parse_xml_attribute finds the first *)
(* value that is not empty, or nothing when there is none, although it     *)
(* steps over the first character behind each start key.                   *)
THEOREM XmlFindsFirstValue == XmlSpec => []FindsFirstValue
<1>1. XmlInv => FindsFirstValue
  BY DEF XmlInv
<1> QED
  BY <1>1, XmlInvariant, PTL

---------------------------------------------------------------------------
(* Induction and recursion over the natural numbers.                       *)

(* Induction over the natural numbers, for a set instead of a predicate. *)
LEMMA NatSetInduction ==
  ASSUME NEW S, 0 \in S, \A n \in Nat : n \in S => n + 1 \in S
  PROVE  \A n \in Nat : n \in S
<1> DEFINE T == Nat \ S
           R == {ss \in Nat \X Nat : ss[1] < ss[2]}
<1> SUFFICES ASSUME T # {} PROVE FALSE
  OBVIOUS
<1>0. IsWellFoundedOn(R, Nat)
  BY NatLessThanWellFounded, Zenon DEF OpToRel
<1>1. PICK x \in T : \A y \in T : ~ (<<y, x>> \in R)
  <2> HIDE DEF R
  <2> QED BY <1>0, WFMin
<1>2. x \in Nat /\ x # 0
  OBVIOUS
<1>3. x - 1 \in Nat /\ <<x - 1, x>> \in R
  BY <1>2
<1>4. x - 1 \notin T
  BY <1>1, <1>3
<1> QED BY <1>2, <1>3, <1>4

(* g follows the recursion g[0] = f0, g[i] = d[i][g[i - 1]] up to m. *)
Follows(g, m, f0, d, V) ==
  g \in [0..m -> V] /\ g[0] = f0 /\ \A i \in 1..m : g[i] = d[i][g[i - 1]]

LEMMA FollowsExists ==
  ASSUME NEW V, NEW f0 \in V, NEW d \in [Nat -> [V -> V]]
  PROVE  \A m \in Nat : \E g : Follows(g, m, f0, d, V)
<1> DEFINE S == {m \in Nat : \E g : Follows(g, m, f0, d, V)}
<1>1. 0 \in S
  <2>1. Follows([i \in 0..0 |-> f0], 0, f0, d, V)
    BY DEF Follows
  <2> QED BY <2>1
<1>2. ASSUME NEW m \in Nat, m \in S PROVE m + 1 \in S
  <2>1. PICK g : Follows(g, m, f0, d, V)
    BY <1>2
  <2> DEFINE h == [i \in 0..(m + 1) |-> IF i = m + 1 THEN d[m + 1][g[m]] ELSE g[i]]
  <2>2. h \in [0..(m + 1) -> V] /\ h[0] = f0
    BY <2>1 DEF Follows
  <2>3. ASSUME NEW i \in 1..(m + 1) PROVE h[i] = d[i][h[i - 1]]
    <3>1. h[i - 1] = g[i - 1]
      OBVIOUS
    <3> QED BY <2>1, <3>1 DEF Follows
  <2>4. Follows(h, m + 1, f0, d, V)
    BY <2>2, <2>3 DEF Follows
  <2> HIDE DEF h
  <2> QED BY <2>4
<1> HIDE DEF S
<1>3. \A m \in Nat : m \in S
  BY <1>1, <1>2, NatSetInduction
<1> QED BY <1>3 DEF S

LEMMA FollowsUnique ==
  ASSUME NEW V, NEW f0 \in V, NEW d \in [Nat -> [V -> V]],
         NEW m \in Nat, NEW l \in Nat, m <= l, NEW g, NEW h,
         Follows(g, m, f0, d, V), Follows(h, l, f0, d, V)
  PROVE  \A i \in 0..m : g[i] = h[i]
<1> DEFINE S == {i \in Nat : i <= m => g[i] = h[i]}
<1>1. 0 \in S
  BY DEF Follows
<1>2. ASSUME NEW i \in Nat, i \in S PROVE i + 1 \in S
  <2> SUFFICES ASSUME i + 1 <= m PROVE g[i + 1] = h[i + 1]
    OBVIOUS
  <2>1. i + 1 \in 1..m /\ i + 1 \in 1..l /\ (i + 1) - 1 = i /\ g[i] = h[i]
    BY <1>2
  <2>2. g[i + 1] = d[i + 1][g[i]] /\ h[i + 1] = d[i + 1][h[i]]
    BY <2>1 DEF Follows
  <2> QED BY <2>1, <2>2
<1> HIDE DEF S
<1>3. \A i \in Nat : i \in S
  BY <1>1, <1>2, NatSetInduction
<1> QED BY <1>3 DEF S

(* The recursion has a solution on all numbers. *)
Solves(f, f0, d, V) ==
  f \in [Nat -> V] /\ f[0] = f0 /\ \A n \in Nat : f[n + 1] = d[n + 1][f[n]]

LEMMA NatRecursion ==
  ASSUME NEW V, NEW f0 \in V, NEW d \in [Nat -> [V -> V]]
  PROVE  \E f : Solves(f, f0, d, V)
<1> DEFINE A(m) == CHOOSE g : Follows(g, m, f0, d, V)
           f == [m \in Nat |-> A(m)[m]]
<1>1. \A m \in Nat : Follows(A(m), m, f0, d, V)
  BY FollowsExists
<1> HIDE DEF A
<1>2. f \in [Nat -> V] /\ f[0] = f0
  BY <1>1 DEF Follows
<1>3. ASSUME NEW n \in Nat PROVE f[n + 1] = d[n + 1][f[n]]
  <2>1. n + 1 \in 1..(n + 1) /\ (n + 1) - 1 = n /\ n \in 0..n /\ n <= n + 1 /\ n + 1 \in Nat
    OBVIOUS
  <2>2. A(n + 1)[n + 1] = d[n + 1][A(n + 1)[n]]
    BY <1>1, <2>1 DEF Follows
  <2>3. Follows(A(n), n, f0, d, V) /\ Follows(A(n + 1), n + 1, f0, d, V)
    BY <1>1, <2>1
  <2>4. \A i \in 0..n : A(n)[i] = A(n + 1)[i]
    BY <2>1, <2>3, FollowsUnique
  <2> QED BY <2>1, <2>2, <2>4
<1> HIDE DEF f
<1>4. Solves(f, f0, d, V)
  BY <1>2, <1>3 DEF Solves
<1> QED BY <1>4

---------------------------------------------------------------------------
(* Numbers and their digits.                                               *)

LEMMA DivMod ==
  ASSUME NEW n \in Nat, NEW d \in Nat \ {0}
  PROVE  /\ n \div d \in Nat /\ n % d \in Nat /\ n % d < d
         /\ n = d * (n \div d) + (n % d)
OBVIOUS

LEMMA DivUnique ==
  ASSUME NEW n \in Nat, NEW d \in Nat \ {0}, NEW p \in Nat, NEW t \in Nat,
         n = d * p + t, t < d
  PROVE  n \div d = p
<1> DEFINE q == n \div d
           r == n % d
<1>1. q \in Nat /\ r \in Nat /\ r < d /\ n = d * q + r
  BY DivMod
<1> HIDE DEF q, r
<1>2. CASE q < p
  <2>1. PICK x \in Nat : p = q + 1 + x
    <3>1. p - q - 1 \in Nat /\ p = q + 1 + (p - q - 1)
      BY <1>1, <1>2
    <3> QED BY <3>1
  <2>2. d * p = d * q + d + d * x /\ d * x \in Nat /\ d * q \in Nat
    BY <1>1, <2>1
  <2> QED BY <1>1, <2>2
<1>3. CASE q > p
  <2>1. PICK x \in Nat : q = p + 1 + x
    <3>1. q - p - 1 \in Nat /\ q = p + 1 + (q - p - 1)
      BY <1>1, <1>3
    <3> QED BY <3>1
  <2>2. d * q = d * p + d + d * x /\ d * x \in Nat /\ d * p \in Nat
    BY <1>1, <2>1
  <2> QED BY <1>1, <2>2
<1>4. q = p
  BY <1>1, <1>2, <1>3
<1> QED BY <1>4 DEF q

(* Taking a digit off a quotient. *)
LEMMA DivDiv ==
  ASSUME NEW n \in Nat, NEW a \in Nat \ {0}, NEW b \in Nat \ {0}
  PROVE  n \div a = (n \div (b * a)) * b + ((n \div a) % b)
<1> DEFINE q == n \div a
           r == n % a
           p == q \div b
           s == q % b
<1>1. q \in Nat /\ r \in Nat /\ r < a /\ n = a * q + r
  BY DivMod
<1>2. p \in Nat /\ s \in Nat /\ s < b /\ q = b * p + s
  <2> HIDE DEF q
  <2> QED BY <1>1, DivMod
<1>3. n \div (b * a) = p
  <2> HIDE DEF q, r, p, s
  <2>1. b * a \in Nat \ {0} /\ a * s + r \in Nat
    BY <1>1, <1>2
  <2>2. n = (b * a) * p + (a * s + r)
    BY <1>1, <1>2
  <2>3. a * s + r < b * a
    <3>1. PICK x \in Nat : b = s + 1 + x
      <4>1. b - s - 1 \in Nat /\ b = s + 1 + (b - s - 1)
        BY <1>2
      <4> QED BY <4>1
    <3>2. b * a = a * s + a + a * x /\ a * x \in Nat /\ a * s \in Nat
      BY <1>2, <3>1
    <3> QED BY <1>1, <3>2
  <2> QED BY <1>2, <2>1, <2>2, <2>3, DivUnique
<1>4. p * b + s = q
  BY <1>2
<1> QED BY <1>3, <1>4


(* The powers of Base, as Pow computes them. *)
LEMMA PowDef ==
  /\ Pow = [k \in Nat |-> IF k = 0 THEN 1 ELSE Base * Pow[k - 1]]
  /\ \A k \in Nat : Pow[k] \in Nat \ {0}
<1> DEFINE V == Nat \ {0}
           d == [i \in Nat |-> [x \in V |-> Base * x]]
<1>0. Base \in Nat \ {0, 1}
  BY FramingAssumption
<1>1. d \in [Nat -> [V -> V]] /\ 1 \in V
  BY <1>0
<1>a. PICK f : Solves(f, 1, d, V)
  <2> HIDE DEF d, V
  <2> QED BY <1>1, NatRecursion
<1>2. f \in [Nat -> V] /\ f[0] = 1 /\ \A n \in Nat : f[n + 1] = d[n + 1][f[n]]
  <2> HIDE DEF d, V
  <2> QED BY <1>a DEF Solves
<1>3. \A k \in Nat : f[k] = IF k = 0 THEN 1 ELSE Base * f[k - 1]
  <2> SUFFICES ASSUME NEW k \in Nat, k # 0 PROVE f[k] = Base * f[k - 1]
    BY <1>2
  <2>1. k - 1 \in Nat /\ (k - 1) + 1 = k
    OBVIOUS
  <2>2. f[k] = d[k][f[k - 1]]
    BY <1>2, <2>1
  <2>3. f[k - 1] \in V
    BY <1>2, <2>1
  <2> QED BY <2>1, <2>2, <2>3
<1>4. f = [k \in Nat |-> IF k = 0 THEN 1 ELSE Base * f[k - 1]]
  BY <1>2, <1>3
<1>5. Pow = [k \in Nat |-> IF k = 0 THEN 1 ELSE Base * Pow[k - 1]]
  BY <1>4, Zenon DEF Pow
<1> DEFINE S == {k \in Nat : Pow[k] \in V}
<1>6. 0 \in S
  BY <1>5
<1>7. ASSUME NEW k \in Nat, k \in S PROVE k + 1 \in S
  <2>1. k + 1 \in Nat /\ k + 1 # 0 /\ (k + 1) - 1 = k
    OBVIOUS
  <2>2. Pow[k + 1] = Base * Pow[k]
    BY <1>5, <2>1
  <2>3. Pow[k] \in V
    BY <1>7
  <2>4. Base * Pow[k] \in V
    BY <1>0, <2>3
  <2> QED BY <2>1, <2>2, <2>4
<1> HIDE DEF S
<1>8. \A k \in Nat : k \in S
  BY <1>6, <1>7, NatSetInduction
<1> QED BY <1>5, <1>8 DEF S

LEMMA PowFacts ==
  /\ Pow[0] = 1
  /\ \A k \in Nat : Pow[k] \in Nat /\ Pow[k] > 0 /\ Pow[k + 1] = Base * Pow[k] /\ k < Pow[k]
<1>1. Pow[0] = 1
  BY PowDef
<1>2. ASSUME NEW k \in Nat
      PROVE  Pow[k] \in Nat /\ Pow[k] > 0 /\ Pow[k + 1] = Base * Pow[k]
  <2>1. k + 1 \in Nat /\ k + 1 # 0 /\ (k + 1) - 1 = k
    OBVIOUS
  <2> QED BY <2>1, PowDef
<1> DEFINE S == {k \in Nat : k < Pow[k]}
<1>3. 0 \in S
  BY <1>1
<1>4. ASSUME NEW k \in Nat, k \in S PROVE k + 1 \in S
  <2>1. Base \in Nat /\ Base >= 2 /\ k < Pow[k]
    BY <1>4, FramingAssumption
  <2>2. PICK b \in Nat : Base = 2 + b
    <3>1. Base - 2 \in Nat /\ Base = 2 + (Base - 2)
      BY <2>1
    <3> QED BY <3>1
  <2> DEFINE p == Pow[k]
  <2>3. p \in Nat /\ p > 0 /\ k < p
    BY <1>2, <2>1
  <2> HIDE DEF p
  <2>4. Base * p = p + p + b * p /\ b * p \in Nat
    BY <2>2, <2>3
  <2>5. k + 1 < Base * p
    BY <2>3, <2>4
  <2> QED BY <1>2, <2>5 DEF p
<1> HIDE DEF S
<1>5. \A k \in Nat : k \in S
  BY <1>3, <1>4, NatSetInduction
<1> QED BY <1>1, <1>2, <1>5 DEF S

(* atoi computes a value for each prefix of its digits. *)
AtoiStep(s, x, i) == IF \A k \in 1..i : s[k][1] = 0 THEN x * Base + s[i][2] ELSE x

LEMMA AtoiValues ==
  ASSUME NEW s \in Seq(Byte)
  PROVE  \E v : /\ v[0] = 0 /\ \A i \in 1..Len(s) : v[i] = AtoiStep(s, v[i - 1], i)
                /\ \A i \in 0..Len(s) : v[i] \in Nat
                /\ atoi(s) = v[Len(s)]
<1> DEFINE l == Len(s)
           d == [i \in Nat |-> [x \in Nat |-> IF i \in 1..l THEN AtoiStep(s, x, i) ELSE x]]
<1>0. Base \in Nat /\ l \in Nat /\ \A i \in 1..l : s[i] \in Byte /\ s[i][2] \in Nat
  BY FramingAssumption DEF Byte
<1> HIDE DEF l
<1>1. d \in [Nat -> [Nat -> Nat]] /\ 0 \in Nat
  <2>1. \A i \in 1..l : \A x \in Nat : AtoiStep(s, x, i) \in Nat
    BY <1>0 DEF AtoiStep
  <2> QED BY <2>1
<1>a. PICK f : Solves(f, 0, d, Nat)
  <2> HIDE DEF d
  <2> QED BY <1>1, NatRecursion
<1>2. f \in [Nat -> Nat] /\ f[0] = 0 /\ \A n \in Nat : f[n + 1] = d[n + 1][f[n]]
  <2> HIDE DEF d
  <2> QED BY <1>a DEF Solves
<1> DEFINE g == [i \in 0..l |-> f[i]]
<1>3. g[0] = 0 /\ \A i \in 1..l : g[i] = AtoiStep(s, g[i - 1], i)
  <2>1. g[0] = 0
    BY <1>0, <1>2
  <2>2. ASSUME NEW i \in 1..l PROVE g[i] = AtoiStep(s, g[i - 1], i)
    <3>0. l \in Nat
      BY <1>0
    <3>1. i - 1 \in Nat /\ (i - 1) + 1 = i /\ i \in 0..l /\ i - 1 \in 0..l /\ i \in Nat
      BY <3>0
    <3>2. f[i] = d[i][f[i - 1]]
      BY <1>2, <3>1
    <3>3. f[i] = AtoiStep(s, f[i - 1], i)
      BY <1>2, <3>1, <3>2
    <3> QED BY <3>1, <3>3
  <2> QED BY <2>1, <2>2
<1> DEFINE W(h) == [i \in 0..l |->
                      IF i = 0 THEN 0
                      ELSE IF \A k \in 1..i : s[k][1] = 0 THEN h[i - 1] * Base + s[i][2]
                      ELSE h[i - 1]]
           v == CHOOSE h : h = W(h)
<1>4. g = W(g)
  <2>1. \A i \in 0..l : g[i] = W(g)[i]
    <3> SUFFICES ASSUME NEW i \in 0..l PROVE g[i] = W(g)[i]
      OBVIOUS
    <3>1. CASE i = 0
      BY <1>3, <3>1
    <3>2. CASE i # 0
      <4>1. i \in 1..l
        BY <1>0, <3>2
      <4>2. g[i] = AtoiStep(s, g[i - 1], i)
        BY <1>3, <4>1
      <4> HIDE DEF g
      <4> QED BY <3>2, <4>2 DEF AtoiStep
    <3> QED BY <3>1, <3>2
  <2> QED BY <2>1
<1>5. v = W(v)
  <2> HIDE DEF g, W
  <2> QED BY <1>4
<1>6. atoi(s) = v[Len(s)]
  BY Zenon DEF atoi, l
<1> HIDE DEF v
<1>7. v[0] = 0 /\ \A i \in 1..l : v[i] = AtoiStep(s, v[i - 1], i)
  <2>1. v[0] = W(v)[0] /\ \A i \in 1..l : v[i] = W(v)[i]
    BY <1>5
  <2>2. W(v)[0] = 0 /\ \A i \in 1..l : W(v)[i] = AtoiStep(s, v[i - 1], i)
    BY <1>0 DEF AtoiStep
  <2> HIDE DEF W
  <2> QED BY <2>1, <2>2
<1> DEFINE S == {i \in Nat : i <= l => v[i] \in Nat}
<1>8. 0 \in S
  BY <1>7
<1>9. ASSUME NEW i \in Nat, i \in S PROVE i + 1 \in S
  <2> SUFFICES ASSUME i + 1 <= l PROVE v[i + 1] \in Nat
    OBVIOUS
  <2>1. i + 1 \in 1..l /\ (i + 1) - 1 = i /\ v[i] \in Nat
    BY <1>0, <1>9
  <2>2. v[i + 1] = AtoiStep(s, v[i], i + 1)
    BY <1>7, <2>1
  <2>3. \A x \in Nat : AtoiStep(s, x, i + 1) \in Nat
    <3>1. Base \in Nat /\ s[i + 1][2] \in Nat
      BY <1>0, <2>1
    <3>2. \A x \in Nat : \A y \in Nat : x * Base + y \in Nat
      BY <3>1
    <3> QED BY <3>1, <3>2, Zenon DEF AtoiStep
  <2> QED BY <2>1, <2>2, <2>3
<1> HIDE DEF S
<1>10. \A i \in Nat : i \in S
  BY <1>8, <1>9, NatSetInduction
<1>11. \A i \in 0..l : v[i] \in Nat
  BY <1>0, <1>10 DEF S
<1> QED BY <1>6, <1>7, <1>11 DEF l


(* sprintf writes as many digits as it takes, and at least HeaderLen. *)
LEMMA WidthIs ==
  ASSUME NEW n \in Nat
  PROVE  /\ Width(n) \in Nat /\ Width(n) >= HeaderLen /\ n < Pow[Width(n)]
         /\ \A v \in HeaderLen..(Width(n) - 1) : n >= Pow[v]
<1> DEFINE H == HeaderLen
           Good(w) == n < Pow[w] /\ \A v \in H..(w - 1) : n >= Pow[v]
<1>0. H \in Nat /\ \A k \in Nat : Pow[k] \in Nat /\ k < Pow[k]
  BY FramingAssumption, PowFacts
<1>1. \E w \in H..(H + n) : Good(w)
  <2> SUFFICES ASSUME \A w \in H..(H + n) : ~ Good(w) PROVE FALSE
    OBVIOUS
  <2> DEFINE S == {j \in Nat : j <= n => \A w \in H..(H + j) : n >= Pow[w]}
  <2>1. 0 \in S
    <3>1. Good(H) \/ n >= Pow[H]
      BY <1>0
    <3>2. H \in H..(H + n) /\ \A w \in H..(H + 0) : w = H
      BY <1>0
    <3> QED BY <3>1, <3>2
  <2>2. ASSUME NEW j \in Nat, j \in S PROVE j + 1 \in S
    <3> SUFFICES ASSUME j + 1 <= n, NEW w \in H..(H + (j + 1)) PROVE n >= Pow[w]
      OBVIOUS
    <3>1. \A v \in H..(H + j) : n >= Pow[v]
      BY <2>2
    <3>2. CASE w \in H..(H + j)
      BY <3>1, <3>2
    <3>3. CASE w = H + (j + 1)
      <4>1. w \in H..(H + n) /\ \A v \in H..(w - 1) : v \in H..(H + j)
        BY <1>0, <3>3
      <4>2. w \in Nat
        BY <1>0, <3>3
      <4> QED BY <1>0, <3>1, <4>1, <4>2
    <3> QED BY <1>0, <3>2, <3>3
  <2> HIDE DEF S
  <2>3. n \in S
    BY <2>1, <2>2, NatSetInduction
  <2>4. n >= Pow[H + n]
    BY <1>0, <2>3 DEF S
  <2> QED BY <1>0, <2>4
<1>2. Width(n) \in H..(H + n) /\ Good(Width(n))
  BY <1>1 DEF Width
<1> QED BY <1>0, <1>2

LEMMA FitsIsWidth ==
  ASSUME NEW n \in Nat, Fits(n)
  PROVE  Width(n) = HeaderLen
<1>1. HeaderLen \in Nat /\ Pow[HeaderLen] \in Nat
  BY FramingAssumption, PowFacts
<1>2. CASE Width(n) > HeaderLen
  <2>1. HeaderLen \in HeaderLen..(Width(n) - 1)
    BY <1>1, <1>2, WidthIs
  <2> QED BY <1>1, <2>1, WidthIs DEF Fits
<1> QED BY <1>1, <1>2, WidthIs, SMTT(30)

LEMMA FormatIs ==
  ASSUME NEW n \in Nat
  PROVE  /\ Format(n) \in Seq(Byte) /\ Len(Format(n)) = Width(n)
         /\ \A i \in 1..Width(n) : Format(n)[i] = <<0, (n \div Pow[Width(n) - i]) % Base>>
<1>1. Width(n) \in Nat /\ Base \in Nat \ {0} /\ MaxMsgs \in Nat
  BY WidthIs, FramingAssumption
<1>2. ASSUME NEW i \in 1..Width(n)
      PROVE  Digit((n \div Pow[Width(n) - i]) % Base) \in Byte
  <2>1. Width(n) - i \in Nat
    BY <1>1
  <2>2. Pow[Width(n) - i] \in Nat \ {0}
    BY <2>1, PowDef
  <2>3. n \div Pow[Width(n) - i] \in Nat
    BY <2>2, DivMod
  <2>4. (n \div Pow[Width(n) - i]) % Base \in Nat
    BY <1>1, <2>3, DivMod
  <2> QED BY <1>1, <2>4 DEF Digit, Byte
<1>3. Format(n) \in [1..Width(n) -> Byte]
  BY <1>2 DEF Format
<1>4. Format(n) \in Seq(Byte) /\ Len(Format(n)) = Width(n)
  BY <1>1, <1>3, IsASeq, LenProperties
<1> QED BY <1>4 DEF Format, Digit

(* atoi reads back what sprintf wrote, for a length that fits: after i     *)
(* digits it has the length without its last HeaderLen - i digits.         *)
LEMMA AtoiOfFormat ==
  ASSUME NEW n \in Nat, Fits(n)
  PROVE  atoi(Format(n)) = n
<1> DEFINE H == HeaderLen
           s == Format(n)
<1>0. H \in Nat /\ Base \in Nat \ {0} /\ n < Pow[H]
  BY FramingAssumption DEF Fits
<1>1. s \in Seq(Byte) /\ Len(s) = H /\ \A i \in 1..H : s[i] = <<0, (n \div Pow[H - i]) % Base>>
  BY FormatIs, FitsIsWidth
<1> HIDE DEF s
<1>2. PICK v : /\ v[0] = 0 /\ \A i \in 1..H : v[i] = AtoiStep(s, v[i - 1], i)
               /\ atoi(s) = v[H]
  BY <1>1, AtoiValues
<1> DEFINE S == {i \in Nat : i <= H => v[i] = n \div Pow[H - i]}
<1>3. 0 \in S
  <2>1. Pow[H] \in Nat \ {0} /\ n = Pow[H] * 0 + n
    BY <1>0, PowDef
  <2>2. n \div Pow[H] = 0
    BY <1>0, <2>1, DivUnique
  <2> QED BY <1>0, <1>2, <2>2
<1>4. ASSUME NEW i \in Nat, i \in S PROVE i + 1 \in S
  <2> SUFFICES ASSUME i + 1 <= H PROVE v[i + 1] = n \div Pow[H - (i + 1)]
    OBVIOUS
  <2>1. i + 1 \in 1..H /\ (i + 1) - 1 = i /\ H - (i + 1) \in Nat /\ H - i = (H - (i + 1)) + 1
    BY <1>0
  <2>2. v[i] = n \div Pow[H - i]
    BY <1>0, <1>4, <2>1
  <2> DEFINE a == Pow[H - (i + 1)]
  <2>3. Pow[H - i] = Base * a /\ a \in Nat \ {0}
    BY <2>1, PowFacts, PowDef
  <2>4. s[i + 1][2] = (n \div a) % Base /\ \A k \in 1..(i + 1) : s[k][1] = 0
    BY <1>0, <1>1, <2>1, SMTT(30)
  <2> HIDE DEF a
  <2>5. v[i + 1] = (n \div (Base * a)) * Base + ((n \div a) % Base)
    <3>1. v[i + 1] = AtoiStep(s, v[i], i + 1)
      BY <1>2, <2>1
    <3> QED BY <2>2, <2>3, <2>4, <3>1 DEF AtoiStep
  <2>6. n \div a = (n \div (Base * a)) * Base + ((n \div a) % Base)
    BY <1>0, <2>3, DivDiv
  <2> QED BY <2>5, <2>6 DEF a
<1> HIDE DEF S
<1>5. H \in S
  BY <1>0, <1>3, <1>4, NatSetInduction
<1>6. v[H] = n \div Pow[0]
  BY <1>0, <1>5 DEF S
<1>7. n \div 1 = n
  BY DivUnique
<1> QED BY <1>2, <1>6, <1>7, PowFacts DEF s


---------------------------------------------------------------------------
(* send_to_fd and receive_from_fd: types.                                  *)

(* What the two loops have in hand at each of their places. *)
FrameLocals ==
  /\ Len(sent) <= MaxMsgs
  /\ outpc = "idle" => outbuf = <<>>
  /\ outpc # "idle" => Len(sent) >= 1
  /\ inpc = "header" => inbuf = <<>>
  /\ link = "reset" => stream = <<>>

FrameTypeInv == FrameTypeOK /\ FrameLocals

LEMMA FrameTypeInit == FrameInit => FrameTypeInv
<1> SUFFICES ASSUME FrameInit PROVE FrameTypeInv
  OBVIOUS
<1>1. <<>> \in Seq(Byte) /\ <<>> \in Seq(Lens) /\ <<>> \in Seq(Seq(Byte)) /\ Len(<<>>) = 0
  BY EmptySeq
<1>2. /\ HeaderLen \in Nat /\ Capacity \in Nat /\ MaxMsgs \in Nat /\ 0 \in 0..MaxSignals
      /\ 0 <= HeaderLen /\ 0 <= Capacity /\ 0 <= MaxMsgs
  BY FramingAssumption
<1>3. FrameTypeOK
  <2>1. sent \in Seq(Lens) /\ outbuf \in Seq(Byte) /\ stream \in Seq(Byte) /\ lenbuf \in Seq(Byte)
    BY <1>1, Zenon DEF FrameInit
  <2>2. inbuf \in Seq(Byte) /\ got \in Seq(Seq(Byte))
    BY <1>1, Zenon DEF FrameInit
  <2>3. Len(stream) <= Capacity /\ Len(lenbuf) <= HeaderLen /\ Len(inbuf) <= received
    BY <1>2 DEF FrameInit
  <2> QED BY <1>2, <2>1, <2>2, <2>3 DEF FrameInit, FrameTypeOK
<1>4. FrameLocals
  BY <1>2 DEF FrameInit, FrameLocals
<1> QED BY <1>3, <1>4 DEF FrameTypeInv

(* A prefix that is taken off a sequence, and what is left. *)
LEMMA TakeAndLeave ==
  ASSUME NEW S, NEW s \in Seq(S), NEW n \in Nat, n <= Len(s)
  PROVE  /\ SubSeq(s, 1, n) \in Seq(S) /\ Len(SubSeq(s, 1, n)) = n
         /\ \A j \in 1..n : SubSeq(s, 1, n)[j] = s[j]
         /\ SubSeq(s, n + 1, Len(s)) \in Seq(S)
         /\ Len(SubSeq(s, n + 1, Len(s))) = Len(s) - n
         /\ \A j \in 1..(Len(s) - n) : SubSeq(s, n + 1, Len(s))[j] = s[n + j]
OBVIOUS

LEMMA FrameTypeNext == FrameTypeInv /\ [FrameNext]_fvars => FrameTypeInv'
<1> SUFFICES ASSUME FrameTypeInv, [FrameNext]_fvars PROVE FrameTypeInv'
  OBVIOUS
<1>0. /\ outbuf \in Seq(Byte) /\ stream \in Seq(Byte) /\ lenbuf \in Seq(Byte)
      /\ inbuf \in Seq(Byte) /\ sent \in Seq(Lens) /\ received \in Nat
      /\ Len(outbuf) \in Nat /\ Len(stream) \in Nat /\ Len(lenbuf) \in Nat
      /\ Len(inbuf) \in Nat /\ Len(sent) \in Nat
      /\ HeaderLen \in Nat /\ Capacity \in Nat /\ MaxMsgs \in Nat /\ MaxSignals \in Nat
  BY FramingAssumption DEF FrameTypeInv, FrameTypeOK
<1>t. FrameTypeOK /\ FrameLocals
  BY DEF FrameTypeInv
<1>1. CASE send_frame
  <2>1. PICK n \in Lens : sent' = Append(sent, n) /\ outbuf' = Format(n)
    BY <1>1 DEF send_frame
  <2>2. sent' \in Seq(Lens) /\ Len(sent') = Len(sent) + 1 /\ Len(sent) < MaxMsgs
    BY <1>0, <1>1, <2>1 DEF send_frame
  <2>3. outbuf' \in Seq(Byte)
    BY <2>1, FormatIs, FramingAssumption
  <2> QED BY <1>0, <1>1, <1>t, <2>2, <2>3
          DEF send_frame, invars, FrameTypeInv, FrameTypeOK, FrameLocals
<1>2. CASE send_some
  <2>1. PICK n \in 1..Len(outbuf) :
          /\ n <= Capacity - Len(stream)
          /\ stream' = stream \o SubSeq(outbuf, 1, n)
          /\ outbuf' = SubSeq(outbuf, n + 1, Len(outbuf))
    BY <1>2 DEF send_some, rest
  <2>2. /\ SubSeq(outbuf, 1, n) \in Seq(Byte) /\ Len(SubSeq(outbuf, 1, n)) = n
        /\ outbuf' \in Seq(Byte)
    BY <1>0, <2>1, TakeAndLeave, SMTT(30)
  <2>3. stream' \in Seq(Byte) /\ Len(stream') = Len(stream) + n
    BY <1>0, <2>1, <2>2
  <2>4. Len(stream') <= Capacity
    BY <1>0, <2>1, <2>3
  <2> QED BY <1>2, <1>t, <2>2, <2>3, <2>4
          DEF send_some, invars, FrameTypeInv, FrameTypeOK, FrameLocals
<1>3. CASE send_error
  BY <1>3, <1>t, EmptySeq DEF send_error, invars, FrameTypeInv, FrameTypeOK, FrameLocals
<1>4. CASE send_next
  <2>1. CASE outpc = "header"
    <3>1. /\ outpc' = "body" /\ outbuf' = Body(Len(sent), Last(sent))
          /\ UNCHANGED <<sent, invars, stream, link, nsig, cut>>
      BY <1>4, <2>1 DEF send_next
    <3>2. Len(sent) >= 1 /\ Last(sent) \in Nat
      <4>1. Len(sent) >= 1
        BY <1>t, <2>1 DEF FrameLocals
      <4>2. sent[Len(sent)] \in Lens
        BY <1>0, <4>1, ElementOfSeq
      <4> QED BY <4>1, <4>2, FramingAssumption DEF Last
    <3>3. Body(Len(sent), Last(sent)) \in [1..Last(sent) -> Byte]
      <4>1. ASSUME NEW i \in 1..Last(sent) PROVE <<Len(sent), i>> \in Byte
        <5>1. Len(sent) \in 0..MaxMsgs /\ i \in Nat
          BY <1>0, <1>t, <3>2 DEF FrameLocals
        <5> QED BY <5>1 DEF Byte
      <4> QED BY <4>1 DEF Body
    <3>4. outbuf' \in Seq(Byte)
      BY <3>1, <3>2, <3>3, IsASeq
    <3> QED BY <1>t, <3>1, <3>2, <3>4 DEF invars, FrameTypeInv, FrameTypeOK, FrameLocals
  <2>2. CASE outpc = "body"
    BY <1>4, <1>t, <2>2 DEF send_next, invars, FrameTypeInv, FrameTypeOK, FrameLocals
  <2> QED BY <1>4, <2>1, <2>2 DEF send_next
<1>5. CASE receive_from_fd
  BY <1>5, <1>t, <1>0, EmptySeq
     DEF receive_from_fd, outvars, FrameTypeInv, FrameTypeOK, FrameLocals
<1>h. ASSUME NEW buf \in Seq(Byte), HaveLength(buf)
      PROVE  received' \in Nat /\ lenbuf' = buf /\ inpc' \in {"ended", "body"}
  BY <1>h, AtoiValues, LenProperties DEF HaveLength
<1>6. CASE header_whole
  <2> DEFINE n == HeaderLen - Len(lenbuf)
             buf == lenbuf \o SubSeq(stream, 1, n)
  <2>1. n \in Nat /\ n <= Len(stream) /\ inbuf = <<>>
    BY <1>0, <1>6, <1>t DEF header_whole, Need, FrameTypeOK, FrameLocals
  <2>2. /\ SubSeq(stream, 1, n) \in Seq(Byte) /\ Len(SubSeq(stream, 1, n)) = n
        /\ SubSeq(stream, n + 1, Len(stream)) \in Seq(Byte)
        /\ Len(SubSeq(stream, n + 1, Len(stream))) = Len(stream) - n
    BY <1>0, <2>1, TakeAndLeave
  <2>3. buf \in Seq(Byte) /\ Len(buf) = HeaderLen
    BY <1>0, <2>1, <2>2
  <2>4. /\ HaveLength(buf) /\ stream' = SubSeq(stream, n + 1, Len(stream))
        /\ UNCHANGED <<outvars, link, inbuf, got, nsig, cut>> /\ inpc = "header"
    BY <1>6 DEF header_whole, Need
  <2>5. received' \in Nat /\ lenbuf' = buf /\ inpc' \in {"ended", "body"}
    BY <1>h, <2>3, <2>4
  <2>6. stream' \in Seq(Byte) /\ Len(stream') <= Capacity /\ (link = "reset" => stream' = <<>>)
    BY <1>0, <1>t, <2>1, <2>2, <2>4, EmptySeq, SMTT(30) DEF FrameTypeOK, FrameLocals
  <2> HIDE DEF n, buf
  <2> QED BY <1>0, <1>t, <2>1, <2>3, <2>4, <2>5, <2>6
          DEF outvars, FrameTypeInv, FrameTypeOK, FrameLocals
<1>7. CASE header_short
  <2> DEFINE buf == lenbuf \o stream
  <2>1. buf \in Seq(Byte) /\ Len(buf) = Len(lenbuf) + Len(stream) /\ Len(buf) <= HeaderLen
    BY <1>0, <1>7 DEF header_short, Need
  <2>2. \/ lenbuf' = buf /\ UNCHANGED <<inpc, received, cut>>
        \/ HaveLength(buf) /\ cut' = (cut \/ link = "up")
    BY <1>7 DEF header_short
  <2>3. /\ stream' = <<>> /\ inpc = "header" /\ inbuf = <<>> /\ nsig' \in 0..MaxSignals
        /\ UNCHANGED <<outvars, link, inbuf, got>>
    BY <1>0, <1>7, <1>t DEF header_short, FrameTypeOK, FrameLocals
  <2>4. received' \in Nat /\ lenbuf' = buf /\ inpc' \in {"header", "ended", "body"} /\ cut' \in BOOLEAN
    BY <1>0, <1>h, <1>t, <2>1, <2>2, <2>3 DEF FrameTypeOK
  <2> HIDE DEF buf
  <2> QED BY <1>0, <1>t, <2>1, <2>3, <2>4, EmptySeq, SMTT(30)
          DEF outvars, FrameTypeInv, FrameTypeOK, FrameLocals
<1>8. CASE header_end
  BY <1>8, <1>t DEF header_end, outvars, FrameTypeInv, FrameTypeOK, FrameLocals
<1>9. CASE header_error
  <2>1. received' \in Nat /\ lenbuf' = lenbuf /\ inpc' \in {"ended", "body"}
    BY <1>0, <1>9, <1>h DEF header_error
  <2> QED BY <1>0, <1>9, <1>t, <2>1
          DEF header_error, outvars, FrameTypeInv, FrameTypeOK, FrameLocals
<1>10. CASE body_burst
  <2>1. PICK n \in 1..Len(stream) :
          /\ n <= received - Len(inbuf)
          /\ inbuf' = inbuf \o SubSeq(stream, 1, n)
          /\ stream' = SubSeq(stream, n + 1, Len(stream))
    BY <1>10 DEF body_burst, Wanted
  <2>2. /\ SubSeq(stream, 1, n) \in Seq(Byte) /\ Len(SubSeq(stream, 1, n)) = n
        /\ stream' \in Seq(Byte) /\ Len(stream') = Len(stream) - n
    <3>1. n \in Nat /\ n <= Len(stream) /\ stream \in Seq(Byte)
      BY <1>0
    <3> QED BY <2>1, <3>1, TakeAndLeave
  <2>3. inbuf' \in Seq(Byte) /\ Len(inbuf') = Len(inbuf) + n /\ Len(inbuf') <= received
    BY <1>0, <2>1, <2>2
  <2>4. /\ got' \in Seq(Seq(Byte)) /\ inpc' \in {"idle", "body"} /\ link # "reset"
        /\ UNCHANGED <<outvars, link, lenbuf, received, nsig, cut>>
    <3>1. got \in Seq(Seq(Byte)) /\ inbuf' \in Seq(Byte)
      BY <1>t, <2>3 DEF FrameTypeOK
    <3>2. Append(got, inbuf') \in Seq(Seq(Byte))
      BY <3>1, AppendProperties
    <3>3. link # "reset"
      <4>1. stream # <<>>
        BY <1>0, <2>1, EmptySeq
      <4> QED BY <1>t, <4>1 DEF FrameLocals
    <3>4. got' \in {got, Append(got, inbuf')} /\ inpc' \in {"idle", "body"}
      BY <1>10 DEF body_burst
    <3> QED BY <1>10, <3>1, <3>2, <3>3, <3>4 DEF body_burst
  <2>5. Len(stream') <= Capacity
    BY <1>0, <1>t, <2>1, <2>2 DEF FrameTypeOK
  <2> QED BY <1>t, <2>2, <2>3, <2>4, <2>5 DEF outvars, FrameTypeInv, FrameTypeOK, FrameLocals
<1>11. CASE body_end \/ body_error
  BY <1>11, <1>t DEF body_end, body_error, outvars, invars, FrameTypeInv, FrameTypeOK, FrameLocals
<1>12. CASE lose
  <2>1. stream' \in Seq(Byte) /\ Len(stream') <= Capacity
    <3>1. CASE stream' = stream
      BY <1>t, <3>1 DEF FrameTypeOK
    <3>2. CASE stream' = <<>>
      BY <1>0, <3>2, EmptySeq
    <3> QED BY <1>12, <3>1, <3>2 DEF lose
  <2> QED BY <1>12, <1>t, <2>1 DEF lose, outvars, invars, FrameTypeInv, FrameTypeOK, FrameLocals
<1>13. CASE UNCHANGED fvars
  BY <1>13, <1>t DEF fvars, outvars, invars, FrameTypeInv, FrameTypeOK, FrameLocals
<1> QED BY <1>1, <1>2, <1>3, <1>4, <1>5, <1>6, <1>7, <1>8, <1>9, <1>10, <1>11, <1>12, <1>13
        DEF FrameNext, OutStep, InStep

(* The buffers of sender and receiver hold bytes, and never more than the  *)
(* stream, the length field and the length read leave room for.            *)
THEOREM FrameTypeCorrect == FrameSpec => []FrameTypeOK
<1>1. FrameTypeInv => FrameTypeOK
  BY DEF FrameTypeInv
<1> QED BY <1>1, FrameTypeInit, FrameTypeNext, PTL DEF FrameSpec


---------------------------------------------------------------------------
(* Frames.  Frame k begins after byte off[k] of all that is ever sent, and *)
(* the receiver has taken the first c bytes.  A byte under way is the byte *)
(* of the frame that its place falls into.                                 *)

Offsets(off, snt) ==
  /\ off \in [1..(Len(snt) + 1) -> Nat] /\ off[1] = 0
  /\ \A k \in 1..Len(snt) : off[k + 1] = off[k] + HeaderLen + snt[k]
  /\ \A j, k \in 1..(Len(snt) + 1) : j <= k => off[j] <= off[k]

FrameByte(snt, k, i) == IF i <= HeaderLen THEN Format(snt[k])[i] ELSE <<k, i - HeaderLen>>

IsAt(off, snt, p, b) ==
  \A k \in 1..Len(snt) : off[k] < p /\ p <= off[k + 1] => b = FrameByte(snt, k, p - off[k])

StreamAt(off, c) == \A j \in 1..Len(stream) : IsAt(off, sent, c + j, stream[j])

(* The place of send_to_fd: behind the stream, in the frame sent last. *)
OutPlace(off, e) ==
  /\ outpc = "idle" => e = off[Len(sent) + 1]
  /\ outpc = "header" => /\ off[Len(sent)] <= e
                         /\ e + Len(outbuf) = off[Len(sent)] + HeaderLen
  /\ outpc = "body" => /\ off[Len(sent)] + HeaderLen <= e
                       /\ e + Len(outbuf) = off[Len(sent) + 1]
  /\ \A j \in 1..Len(outbuf) : IsAt(off, sent, e + j, outbuf[j])

OutAt(off, c) ==
  /\ c + Len(stream) <= off[Len(sent) + 1]
  /\ link = "up" => OutPlace(off, c + Len(stream))

(* The place of receive_from_fd: in the frame after those returned.  When  *)
(* the connection was lost in a length, what it takes for the length       *)
(* matters no more: nothing follows.                                       *)
InBody(off, c) ==
  /\ Len(got) < Len(sent) /\ received = sent[Len(got) + 1] /\ Len(inbuf) < received
  /\ c = off[Len(got) + 1] + HeaderLen + Len(inbuf)
  /\ \A j \in 1..Len(inbuf) : inbuf[j] = <<Len(got) + 1, j>>

InAt(off, c) ==
  /\ inpc = "idle" => c = off[Len(got) + 1]
  /\ inpc = "header" =>
       /\ Len(lenbuf) < HeaderLen /\ c = off[Len(got) + 1] + Len(lenbuf)
       /\ \A j \in 1..Len(lenbuf) : IsAt(off, sent, off[Len(got) + 1] + j, lenbuf[j])
  /\ inpc = "body" => (link = "closed" /\ stream = <<>>) \/ InBody(off, c)

Returned == Len(got) <= Len(sent) /\ \A k \in 1..Len(got) : got[k] = Body(k, sent[k])

AllFit == \A k \in 1..Len(sent) : Fits(sent[k])

InPlace(off, c) == StreamAt(off, c) /\ OutAt(off, c) /\ InAt(off, c)

FrameInv ==
  ~ cut /\ AllFit => Returned /\ \E off : Offsets(off, sent) /\ \E c \in Nat : InPlace(off, c)

LEMMA FrameTypes ==
  ASSUME FrameTypeInv
  PROVE  /\ outbuf \in Seq(Byte) /\ stream \in Seq(Byte) /\ lenbuf \in Seq(Byte)
         /\ inbuf \in Seq(Byte) /\ sent \in Seq(Nat) /\ got \in Seq(Seq(Byte)) /\ received \in Nat
         /\ Len(outbuf) \in Nat /\ Len(stream) \in Nat /\ Len(lenbuf) \in Nat
         /\ Len(inbuf) \in Nat /\ Len(sent) \in Nat /\ Len(got) \in Nat
         /\ HeaderLen \in Nat \ {0} /\ \A k \in 1..Len(sent) : sent[k] \in Nat
<1>1. sent \in Seq(Nat)
  BY FramingAssumption, SeqMonotonic DEF FrameTypeInv, FrameTypeOK
<1>2. Len(sent) \in Nat /\ \A k \in 1..Len(sent) : sent[k] \in Nat
  BY <1>1, ElementOfSeq
<1> QED BY <1>1, <1>2, FramingAssumption DEF FrameTypeInv, FrameTypeOK

(* The i-th byte of frame k belongs to no other frame. *)
LEMMA ByteAt ==
  ASSUME NEW snt \in Seq(Nat), NEW off, Offsets(off, snt),
         NEW k \in 1..Len(snt), NEW i \in 1..(HeaderLen + snt[k])
  PROVE  /\ off[k] \in Nat /\ off[k + 1] = off[k] + HeaderLen + snt[k]
         /\ IsAt(off, snt, off[k] + i, FrameByte(snt, k, i))
<1> DEFINE K == Len(snt)
<1>0. K \in Nat /\ snt[k] \in Nat /\ HeaderLen \in Nat
  BY FramingAssumption, ElementOfSeq
<1> HIDE DEF K
<1>a. k \in 1..K
  BY DEF K
<1>1. /\ \A j \in 1..(K + 1) : off[j] \in Nat
      /\ \A j, l \in 1..(K + 1) : j <= l => off[j] <= off[l]
      /\ off[k + 1] = off[k] + HeaderLen + snt[k]
  BY <1>a DEF Offsets, K
<1>2. ASSUME NEW j \in 1..K, off[j] < off[k] + i, off[k] + i <= off[j + 1]
      PROVE  j = k
  <2>1. j \in 1..(K + 1) /\ j + 1 \in 1..(K + 1) /\ k \in 1..(K + 1) /\ k + 1 \in 1..(K + 1)
    BY <1>0, <1>a
  <2>2. off[j] \in Nat /\ off[j + 1] \in Nat /\ off[k] \in Nat /\ off[k + 1] \in Nat
    BY <1>1, <2>1
  <2>3. CASE j < k
    <3>1. off[j + 1] <= off[k]
      BY <1>0, <1>1, <2>1, <2>3
    <3> QED BY <1>0, <1>2, <2>2, <3>1
  <2>4. CASE j > k
    <3>1. off[k + 1] <= off[j]
      BY <1>0, <1>1, <2>1, <2>4
    <3>2. off[k + 1] = off[k] + HeaderLen + snt[k]
      BY <1>1
    <3>3. i \in Nat /\ i <= HeaderLen + snt[k]
      BY <1>0
    <3>4. off[k] + i <= off[k + 1]
      BY <1>0, <2>2, <3>2, <3>3, SMTT(30)
    <3> QED BY <1>2, <2>2, <3>1, <3>3, <3>4, SMTT(30)
  <2> QED BY <1>0, <1>a, <2>3, <2>4
<1>3. off[k] \in Nat /\ (off[k] + i) - off[k] = i
  BY <1>0, <1>1, <1>a
<1>4. IsAt(off, snt, off[k] + i, FrameByte(snt, k, i))
  BY <1>2, <1>3 DEF IsAt, K
<1> QED BY <1>1, <1>3, <1>4

(* A frame that is sent behind the others leaves their bytes in place. *)
LEMMA FrameAdded ==
  ASSUME NEW snt \in Seq(Nat), NEW off, Offsets(off, snt), NEW n \in Nat
  PROVE  \E off2 : /\ Offsets(off2, Append(snt, n))
                   /\ \A k \in 1..(Len(snt) + 1) : off2[k] = off[k]
                   /\ \A p \in Int : \A b : p <= off[Len(snt) + 1] /\ IsAt(off, snt, p, b)
                        => IsAt(off2, Append(snt, n), p, b)
<1> DEFINE K == Len(snt)
           snt2 == Append(snt, n)
           off2 == [k \in 1..(K + 2) |-> IF k = K + 2 THEN off[K + 1] + HeaderLen + n ELSE off[k]]
<1>0. /\ K \in Nat /\ HeaderLen \in Nat /\ Len(snt2) = K + 1
      /\ \A k \in 1..K : snt2[k] = snt[k] /\ snt[k] \in Nat
      /\ snt2[K + 1] = n
  BY FramingAssumption, ElementOfSeq
<1>1. /\ off \in [1..(K + 1) -> Nat] /\ off[1] = 0
      /\ \A k \in 1..K : off[k + 1] = off[k] + HeaderLen + snt[k]
      /\ \A j, k \in 1..(K + 1) : j <= k => off[j] <= off[k]
  BY DEF Offsets
<1> HIDE DEF K, snt2
<1>2. /\ \A k \in 1..(K + 1) : off2[k] = off[k] /\ off[k] \in Nat
      /\ off2[K + 2] = off[K + 1] + HeaderLen + n
  BY <1>0, <1>1
<1>3. off2 \in [1..(Len(snt2) + 1) -> Nat]
  <2>1. (K + 1) + 1 = K + 2 /\ K + 1 \in 1..(K + 1)
    BY <1>0
  <2>2. off[K + 1] + HeaderLen + n \in Nat
    <3>1. off[K + 1] \in Nat /\ HeaderLen \in Nat
      BY <1>0, <1>2, <2>1
    <3> QED BY <3>1
  <2>3. \A k \in 1..(K + 2) : off2[k] \in Nat
    BY <1>0, <1>1, <2>2
  <2> QED BY <1>0, <2>1, <2>3
<1> HIDE DEF off2
<1>4. off2[1] = 0
  BY <1>0, <1>1, <1>2
<1>5. ASSUME NEW k \in 1..Len(snt2) PROVE off2[k + 1] = off2[k] + HeaderLen + snt2[k]
  <2>1. CASE k = K + 1
    <3>1. k + 1 = K + 2 /\ k \in 1..(K + 1)
      BY <1>0, <2>1
    <3> QED BY <1>0, <1>2, <2>1, <3>1
  <2>2. CASE k \in 1..K
    <3>1. k \in 1..(K + 1) /\ k + 1 \in 1..(K + 1)
      BY <1>0, <2>2
    <3> QED BY <1>0, <1>1, <1>2, <2>2, <3>1
  <2> QED BY <1>0, <2>1, <2>2
<1>6. ASSUME NEW j \in 1..(Len(snt2) + 1), NEW k \in 1..(Len(snt2) + 1), j <= k
      PROVE  off2[j] <= off2[k]
  <2>0. /\ j \in 1..(K + 2) /\ k \in 1..(K + 2) /\ K + 1 \in 1..(K + 1) /\ off2[K + 2] \in Nat
        /\ off[K + 1] \in Nat /\ off[K + 1] <= off2[K + 2]
    BY <1>0, <1>2
  <2>1. CASE k = K + 2 /\ j = K + 2
    BY <2>0, <2>1
  <2>2. CASE k = K + 2 /\ j \in 1..(K + 1)
    <3>1. off[j] <= off[K + 1] /\ off[j] \in Nat
      BY <1>0, <1>1, <1>2, <2>0, <2>2
    <3> QED BY <1>2, <2>0, <2>2, <3>1
  <2>3. CASE k \in 1..(K + 1)
    <3>1. j \in 1..(K + 1)
      BY <1>0, <1>6, <2>3
    <3> QED BY <1>1, <1>2, <1>6, <2>3, <3>1
  <2> QED BY <1>0, <1>6, <2>0, <2>1, <2>2, <2>3
<1>7. Offsets(off2, snt2)
  BY <1>3, <1>4, <1>5, <1>6 DEF Offsets
<1>8. ASSUME NEW p \in Int, NEW b, p <= off[K + 1], IsAt(off, snt, p, b)
      PROVE  IsAt(off2, snt2, p, b)
  <2> SUFFICES ASSUME NEW k \in 1..Len(snt2), off2[k] < p, p <= off2[k + 1]
               PROVE  b = FrameByte(snt2, k, p - off2[k])
    BY DEF IsAt
  <2>1. CASE k = K + 1
    <3>1. off2[k] = off[K + 1] /\ off[K + 1] \in Nat
      BY <1>0, <1>2, <2>1
    <3> QED BY <1>8, <3>1
  <2>2. CASE k \in 1..K
    <3>1. off2[k] = off[k] /\ off2[k + 1] = off[k + 1] /\ snt2[k] = snt[k]
      BY <1>0, <1>2, <2>2
    <3>2. b = FrameByte(snt, k, p - off[k])
      BY <1>8, <2>2, <3>1 DEF IsAt, K
    <3> QED BY <3>1, <3>2 DEF FrameByte
  <2> QED BY <1>0, <2>1, <2>2
<1> QED BY <1>2, <1>7, <1>8 DEF K, snt2


(* What joining two sequences of bytes puts where. *)
LEMMA Joined ==
  ASSUME NEW S, NEW s \in Seq(S), NEW t \in Seq(S)
  PROVE  /\ s \o t \in Seq(S) /\ Len(s \o t) = Len(s) + Len(t)
         /\ \A j \in 1..Len(s) : (s \o t)[j] = s[j]
         /\ \A j \in 1..Len(t) : (s \o t)[Len(s) + j] = t[j]
<1>1. /\ s \o t \in Seq(S) /\ Len(s \o t) = Len(s) + Len(t)
      /\ Len(s) \in Nat /\ Len(t) \in Nat
  OBVIOUS
<1>2. ASSUME NEW i \in 1..(Len(s) + Len(t))
      PROVE  (s \o t)[i] = IF i <= Len(s) THEN s[i] ELSE t[i - Len(s)]
  BY ConcatProperties
<1>3. ASSUME NEW j \in 1..Len(s) PROVE (s \o t)[j] = s[j]
  BY <1>1, <1>2
<1>4. ASSUME NEW j \in 1..Len(t) PROVE (s \o t)[Len(s) + j] = t[j]
  <2>1. /\ Len(s) + j \in 1..(Len(s) + Len(t)) /\ ~ (Len(s) + j <= Len(s))
        /\ (Len(s) + j) - Len(s) = j
    BY <1>1
  <2> QED BY <1>2, <2>1
<1> QED BY <1>1, <1>3, <1>4

(* The frame of the next message: its length follows all that was sent. *)
LEMMA FrameSent ==
  ASSUME FrameTypeInv, AllFit', Returned, send_frame,
         NEW off, Offsets(off, sent), NEW c \in Nat, InPlace(off, c)
  PROVE  Returned' /\ \E off2 : Offsets(off2, sent') /\ InPlace(off2, c)'
<1> DEFINE K == Len(sent)
<1>n. /\ K \in Nat /\ Len(stream) \in Nat /\ Len(outbuf) \in Nat /\ Len(lenbuf) \in Nat
      /\ Len(got) \in Nat /\ HeaderLen \in Nat /\ HeaderLen > 0
  BY FrameTypes
<1>o. /\ \A k \in 1..(K + 1) : off[k] \in Nat
      /\ \A k \in 1..K : off[k + 1] = off[k] + HeaderLen + sent[k]
  BY DEF Offsets
<1>1. PICK n \in Lens : sent' = Append(sent, n) /\ outbuf' = Format(n)
  BY DEF send_frame
<1>2. /\ n \in Nat /\ Len(sent') = K + 1 /\ sent'[K + 1] = n
      /\ \A k \in 1..K : sent'[k] = sent[k]
      /\ sent' \in Seq(Nat) /\ K \in Nat
  BY <1>1, FrameTypes, FramingAssumption
<1>3. Fits(n)
  <2>1. K + 1 \in 1..Len(sent')
    BY <1>2
  <2> QED BY <1>2, <2>1 DEF AllFit
<1>4. UNCHANGED <<invars, stream, link>> /\ outpc = "idle" /\ outpc' = "header" /\ link = "up"
  BY DEF send_frame
<1>5. PICK off2 : /\ Offsets(off2, sent') /\ \A k \in 1..(K + 1) : off2[k] = off[k]
                  /\ \A p \in Int : \A b : p <= off[K + 1] /\ IsAt(off, sent, p, b)
                        => IsAt(off2, sent', p, b)
  BY <1>1, <1>2, FrameTypes, FrameAdded
<1> DEFINE e == c + Len(stream)
<1>6. e = off[K + 1] /\ off2[K + 1] = off[K + 1] /\ off[K + 1] \in Nat /\ e \in Nat
  <2>1. K + 1 \in 1..(K + 1)
    BY <1>n
  <2>2. off[K + 1] \in Nat /\ off2[K + 1] = off[K + 1]
    BY <1>5, <1>o, <2>1
  <2>3. e = off[K + 1]
    BY <1>4 DEF InPlace, OutAt, OutPlace
  <2> QED BY <2>2, <2>3
<1>7. StreamAt(off2, c)'
  <2> SUFFICES ASSUME NEW j \in 1..Len(stream) PROVE IsAt(off2, sent', c + j, stream[j])
    BY <1>4 DEF StreamAt
  <2>1. c + j \in Int /\ c + j <= off[K + 1]
    BY <1>6, <1>n
  <2>2. IsAt(off, sent, c + j, stream[j])
    BY DEF InPlace, StreamAt
  <2> QED BY <1>5, <2>1, <2>2
<1>8. OutAt(off2, c)'
  <2>1. Len(outbuf') = HeaderLen /\ \A j \in 1..HeaderLen : outbuf'[j] = Format(n)[j]
    BY <1>1, <1>2, <1>3, FormatIs, FitsIsWidth
  <2>2. K + 1 \in 1..Len(sent') /\ off2[(K + 1) + 1] = off2[K + 1] + HeaderLen + n
    <3>1. K + 1 \in 1..Len(sent')
      BY <1>2
    <3>2. off2[(K + 1) + 1] = off2[K + 1] + HeaderLen + sent'[K + 1]
      BY <1>5, <3>1 DEF Offsets
    <3> QED BY <1>2, <3>1, <3>2
  <2>3. ASSUME NEW j \in 1..HeaderLen PROVE IsAt(off2, sent', e + j, outbuf'[j])
    <3>1. j \in 1..(HeaderLen + sent'[K + 1])
      BY <1>2, <1>n
    <3>2. IsAt(off2, sent', off2[K + 1] + j, FrameByte(sent', K + 1, j))
      BY <1>2, <1>5, <2>2, <3>1, ByteAt
    <3>3. FrameByte(sent', K + 1, j) = outbuf'[j]
      BY <1>2, <1>n, <2>1 DEF FrameByte
    <3> QED BY <1>6, <3>2, <3>3
  <2>4. e <= off2[(K + 1) + 1]
    <3>1. off2[(K + 1) + 1] = e + HeaderLen + n
      BY <1>6, <2>2
    <3> QED BY <1>2, <1>6, <1>n, <3>1
  <2>5. e <= off2[K + 1] /\ off2[K + 1] <= e
    BY <1>6
  <2> QED BY <1>2, <1>4, <1>6, <2>1, <2>3, <2>4, <2>5 DEF OutAt, OutPlace
<1>9. InAt(off2, c)'
  <2>1. /\ Len(got) + 1 \in 1..(K + 1) /\ Len(got) <= K /\ off2[Len(got) + 1] = off[Len(got) + 1]
        /\ off[Len(got) + 1] \in Nat
    <3>1. Len(got) + 1 \in 1..(K + 1) /\ Len(got) <= K
      BY <1>n DEF Returned
    <3> QED BY <1>5, <1>o, <3>1
  <2>2. inpc = "header" => \A j \in 1..Len(lenbuf) : IsAt(off2, sent', off2[Len(got) + 1] + j, lenbuf[j])
    <3> SUFFICES ASSUME inpc = "header", NEW j \in 1..Len(lenbuf)
                 PROVE  IsAt(off2, sent', off[Len(got) + 1] + j, lenbuf[j])
      BY <2>1
    <3>1. IsAt(off, sent, off[Len(got) + 1] + j, lenbuf[j]) /\ c = off[Len(got) + 1] + Len(lenbuf)
      BY DEF InPlace, InAt
    <3>2. off[Len(got) + 1] + j \in Int /\ off[Len(got) + 1] + j <= off[K + 1]
      <4>1. c <= off[K + 1]
        BY <1>6, <1>n
      <4>2. j \in Nat /\ j <= Len(lenbuf)
        BY <1>n
      <4>3. off[Len(got) + 1] \in Nat /\ off[K + 1] \in Nat /\ Len(lenbuf) \in Nat
        BY <1>6, <1>n, <2>1
      <4> HIDE DEF K, e
      <4> QED BY <3>1, <4>1, <4>2, <4>3
    <3> QED BY <1>5, <3>1, <3>2
  <2>3. InBody(off, c) => InBody(off2, c)'
    <3> SUFFICES ASSUME InBody(off, c) PROVE InBody(off2, c)'
      OBVIOUS
    <3>1. Len(got) + 1 \in 1..K
      BY <1>n DEF InBody
    <3>2. sent'[Len(got) + 1] = sent[Len(got) + 1] /\ Len(got) < Len(sent')
      BY <1>2, <1>n, <3>1
    <3> QED BY <1>4, <2>1, <3>2 DEF InBody, invars
  <2> QED BY <1>4, <2>1, <2>2, <2>3 DEF InPlace, InAt, invars
<1>10. Returned'
  <2>1. \A k \in 1..Len(got) : k \in 1..K
    BY <1>n DEF Returned
  <2>2. \A k \in 1..Len(got) : got[k] = Body(k, sent'[k])
    BY <1>2, <2>1 DEF Returned
  <2>3. Len(got) <= Len(sent')
    BY <1>2, <1>n DEF Returned
  <2> QED BY <1>4, <2>2, <2>3 DEF Returned, invars
<1> QED BY <1>5, <1>7, <1>8, <1>9, <1>10 DEF InPlace

(* send_to_fd: the bytes it hands over, or gives up. *)
LEMMA FrameOut ==
  ASSUME FrameTypeInv, AllFit, Returned, OutStep,
         NEW off, Offsets(off, sent), NEW c \in Nat, InPlace(off, c)
  PROVE  Returned' /\ Offsets(off, sent') /\ InPlace(off, c)'
<1> DEFINE K == Len(sent)
           e == c + Len(stream)
<1>n. /\ K \in Nat /\ Len(stream) \in Nat /\ Len(outbuf) \in Nat /\ Len(lenbuf) \in Nat
      /\ Len(got) \in Nat /\ HeaderLen \in Nat /\ HeaderLen > 0
  BY FrameTypes
<1>o. /\ \A k \in 1..(K + 1) : off[k] \in Nat
      /\ \A k \in 1..K : off[k + 1] = off[k] + HeaderLen + sent[k]
  BY DEF Offsets
<1>1. UNCHANGED <<sent, invars, link>>
  BY DEF OutStep, send_some, send_error, send_next
<1>2. Returned' /\ Offsets(off, sent')
  BY <1>1 DEF Returned, invars
<1>3. K + 1 \in 1..(K + 1) /\ off[K + 1] \in Nat /\ K \in Nat /\ e \in Nat
  <2>1. K + 1 \in 1..(K + 1)
    BY <1>n
  <2> QED BY <1>n, <1>o, <2>1
<1>k. outpc # "idle" => /\ K \in 1..K /\ off[K] \in Nat /\ sent[K] \in Nat
                        /\ off[K + 1] = off[K] + HeaderLen + sent[K]
  <2> SUFFICES ASSUME outpc # "idle"
               PROVE  /\ K \in 1..K /\ off[K] \in Nat /\ sent[K] \in Nat
                      /\ off[K + 1] = off[K] + HeaderLen + sent[K]
    OBVIOUS
  <2>1. K \in 1..K /\ K \in 1..(K + 1)
    BY <1>n DEF FrameTypeInv, FrameLocals
  <2> QED BY <1>o, <2>1, FrameTypes
<1>4. CASE send_some
  <2>1. PICK n \in 1..Len(outbuf) :
          /\ stream' = stream \o SubSeq(outbuf, 1, n)
          /\ outbuf' = SubSeq(outbuf, n + 1, Len(outbuf))
    BY <1>4 DEF send_some, rest
  <2>2. n \in Nat /\ n <= Len(outbuf) /\ n > 0
    BY <1>n
  <2>3. /\ SubSeq(outbuf, 1, n) \in Seq(Byte) /\ Len(SubSeq(outbuf, 1, n)) = n
        /\ \A j \in 1..n : SubSeq(outbuf, 1, n)[j] = outbuf[j]
        /\ Len(outbuf') = Len(outbuf) - n
        /\ \A j \in 1..(Len(outbuf) - n) : outbuf'[j] = outbuf[n + j]
    BY <2>1, <2>2, FrameTypes, TakeAndLeave
  <2>4. /\ Len(stream') = Len(stream) + n
        /\ \A j \in 1..Len(stream) : stream'[j] = stream[j]
        /\ \A j \in 1..n : stream'[Len(stream) + j] = outbuf[j]
    <3>1. stream \in Seq(Byte)
      BY FrameTypes
    <3> QED BY <2>1, <2>3, <3>1, Joined
  <2>5. /\ link = "up" /\ outpc' = outpc /\ OutPlace(off, e)
        /\ \A j \in 1..Len(outbuf) : IsAt(off, sent, e + j, outbuf[j])
    BY <1>4 DEF send_some, InPlace, OutAt, OutPlace
  <2>6. StreamAt(off, c)'
    <3> SUFFICES ASSUME NEW j \in 1..(Len(stream) + n) PROVE IsAt(off, sent, c + j, stream'[j])
      BY <1>1, <2>4 DEF StreamAt
    <3>1. CASE j \in 1..Len(stream)
      BY <2>4, <3>1 DEF InPlace, StreamAt
    <3>2. CASE j \notin 1..Len(stream)
      <4>1. PICK i \in 1..n : j = Len(stream) + i
        <5>1. j - Len(stream) \in 1..n /\ j = Len(stream) + (j - Len(stream))
          BY <1>n, <2>2, <3>2
        <5> QED BY <5>1
      <4>2. stream'[j] = outbuf[i] /\ i \in 1..Len(outbuf) /\ e + i = c + j
        BY <1>n, <2>2, <2>4, <4>1
      <4> QED BY <2>5, <4>2
    <3> QED BY <3>1, <3>2
  <2>7. OutAt(off, c)'
    <3>1. c + Len(stream') = e + n
      BY <1>n, <2>2, <2>4
    <3>2. ASSUME NEW j \in 1..Len(outbuf') PROVE IsAt(off, sent, (e + n) + j, outbuf'[j])
      <4>1. n + j \in 1..Len(outbuf) /\ outbuf'[j] = outbuf[n + j] /\ e + (n + j) = (e + n) + j
        BY <1>3, <1>n, <2>2, <2>3
      <4> QED BY <2>5, <4>1
    <3>3. outpc # "idle"
      BY <1>4 DEF send_some, FrameTypeInv, FrameLocals
    <3>4. off[K] \in Nat /\ off[K + 1] = off[K] + HeaderLen + sent[K] /\ sent[K] \in Nat
      BY <1>k, <3>3
    <3>a. (e + n) + Len(outbuf') = e + Len(outbuf)
      BY <1>3, <1>n, <2>2, <2>3
    <3>5. outpc = "header" => off[K] <= e + n /\ (e + n) + Len(outbuf') = off[K] + HeaderLen
      <4>1. outpc = "header" => off[K] <= e /\ e + Len(outbuf) = off[K] + HeaderLen
        BY <2>5 DEF OutPlace
      <4> QED BY <1>3, <2>2, <3>4, <3>a, <4>1
    <3>6. outpc = "body" => off[K] + HeaderLen <= e + n /\ (e + n) + Len(outbuf') = off[K + 1]
      <4>1. outpc = "body" => off[K] + HeaderLen <= e /\ e + Len(outbuf) = off[K + 1]
        BY <2>5 DEF OutPlace
      <4>2. off[K] \in Nat /\ e \in Nat /\ HeaderLen \in Nat /\ n \in Nat
        BY <1>3, <1>n, <2>2, <3>4
      <4> HIDE DEF K, e
      <4> QED BY <3>a, <4>1, <4>2
    <3>7. e + n <= off[K + 1]
      <4>1. outpc \in {"header", "body"}
        BY <3>3 DEF FrameTypeInv, FrameTypeOK
      <4>2. Len(outbuf') \in Nat
        BY <1>n, <2>2, <2>3
      <4>3. CASE outpc = "header"
        <5>1. (e + n) + Len(outbuf') = off[K] + HeaderLen
          BY <3>5, <4>3
        <5>2. off[K] \in Nat /\ e \in Nat /\ HeaderLen \in Nat /\ n \in Nat
          BY <1>3, <1>n, <2>2, <3>4
        <5> HIDE DEF K, e
        <5> QED BY <3>4, <4>2, <5>1, <5>2
      <4>4. CASE outpc = "body"
        BY <1>3, <2>2, <3>6, <4>2, <4>4
      <4> QED BY <4>1, <4>3, <4>4
    <3> QED BY <1>1, <2>5, <3>1, <3>2, <3>3, <3>5, <3>6, <3>7 DEF OutAt, OutPlace
  <2>8. InAt(off, c)'
    <3>1. stream' # <<>> /\ link = "up"
      BY <1>n, <2>2, <2>4, <2>5
    <3> QED BY <1>1, <3>1 DEF InPlace, InAt, InBody, invars
  <2> QED BY <1>2, <2>6, <2>7, <2>8 DEF InPlace
<1>5. CASE send_error
  <2>1. UNCHANGED <<sent, outpc, invars, stream, link>> /\ link # "up"
    BY <1>5 DEF send_error
  <2> QED BY <1>2, <2>1 DEF InPlace, StreamAt, OutAt, InAt, InBody, invars
<1>6. CASE send_next
  <2>1. UNCHANGED <<sent, invars, stream, link>> /\ outpc # "idle" /\ outbuf = <<>>
    BY <1>6 DEF send_next
  <2>2. StreamAt(off, c)' /\ InAt(off, c)'
    BY <2>1 DEF InPlace, StreamAt, InAt, InBody, invars
  <2>3. /\ K \in 1..K /\ off[K] \in Nat /\ off[K + 1] = off[K] + HeaderLen + sent[K] /\ sent[K] \in Nat
        /\ Last(sent) = sent[K]
    BY <1>k, <2>1 DEF Last
  <2>4. CASE outpc = "header"
    <3>1. outpc' = "body" /\ outbuf' = Body(K, sent[K])
      BY <1>6, <2>3, <2>4 DEF send_next
    <3>2. Len(outbuf') = sent[K] /\ \A j \in 1..sent[K] : outbuf'[j] = <<K, j>>
      <4>1. sent[K] \in Nat
        BY <2>3
      <4> HIDE DEF K
      <4> QED BY <3>1, <4>1 DEF Body
    <3>3. link = "up" => e = off[K] + HeaderLen
      <4>1. link = "up" => e + Len(outbuf) = off[K] + HeaderLen
        BY <2>4 DEF InPlace, OutAt, OutPlace
      <4> QED BY <1>3, <2>1, <4>1
    <3>4. ASSUME link = "up", NEW j \in 1..sent[K] PROVE IsAt(off, sent, e + j, outbuf'[j])
      <4>1. HeaderLen + j \in 1..(HeaderLen + sent[K]) /\ off[K] + (HeaderLen + j) = e + j
            /\ ~ (HeaderLen + j <= HeaderLen) /\ (HeaderLen + j) - HeaderLen = j
        <5>1. e = off[K] + HeaderLen /\ sent[K] \in Nat /\ off[K] \in Nat
          BY <2>3, <3>3, <3>4
        <5> HIDE DEF e, K
        <5> QED BY <1>n, <5>1, SMTT(30)
      <4>2. IsAt(off, sent, off[K] + (HeaderLen + j), FrameByte(sent, K, HeaderLen + j))
        BY <2>3, <4>1, FrameTypes, ByteAt
      <4>3. FrameByte(sent, K, HeaderLen + j) = outbuf'[j]
        BY <3>2, <4>1 DEF FrameByte
      <4> QED BY <4>1, <4>2, <4>3
    <3> QED BY <1>2, <1>3, <2>1, <2>2, <2>3, <3>1, <3>2, <3>3, <3>4 DEF InPlace, OutAt, OutPlace
  <2>5. CASE outpc = "body"
    <3>1. outpc' = "idle" /\ outbuf' = outbuf
      BY <1>6, <2>5 DEF send_next
    <3>2. link = "up" => e = off[K + 1]
      <4>1. link = "up" => e + Len(outbuf) = off[K + 1]
        BY <2>5 DEF InPlace, OutAt, OutPlace
      <4> QED BY <1>3, <2>1, <4>1
    <3> QED BY <1>2, <1>3, <2>1, <2>2, <3>1, <3>2 DEF InPlace, OutAt, OutPlace
  <2> QED BY <1>6, <2>4, <2>5 DEF send_next
<1> QED BY <1>4, <1>5, <1>6 DEF OutStep


(* Bytes that receive_from_fd takes off the stream move its place on. *)
LEMMA FrameTaken ==
  ASSUME FrameTypeInv, NEW off, NEW c \in Nat, StreamAt(off, c), OutAt(off, c),
         NEW n \in Nat, n <= Len(stream), stream' = SubSeq(stream, n + 1, Len(stream)),
         UNCHANGED <<outvars, link>>
  PROVE  StreamAt(off, c + n)' /\ OutAt(off, c + n)'
<1>1. /\ Len(stream') = Len(stream) - n /\ Len(stream) \in Nat
      /\ \A j \in 1..(Len(stream) - n) : stream'[j] = stream[n + j]
  BY FrameTypes, TakeAndLeave
<1>2. UNCHANGED <<sent, outpc, outbuf, link>>
  BY DEF outvars
<1>3. (c + n) + Len(stream') = c + Len(stream)
  <2>1. Len(stream') = Len(stream) - n /\ Len(stream) \in Nat
    BY <1>1
  <2>2. ASSUME NEW l \in Nat PROVE (c + n) + (l - n) = c + l
    OBVIOUS
  <2> QED BY <2>1, <2>2
<1>4. ASSUME NEW j \in 1..(Len(stream) - n) PROVE IsAt(off, sent, (c + n) + j, stream[n + j])
  <2>1. n + j \in 1..Len(stream) /\ c + (n + j) = (c + n) + j
    BY <1>1
  <2> QED BY <2>1 DEF StreamAt
<1>5. StreamAt(off, c + n)'
  BY <1>1, <1>2, <1>4 DEF StreamAt
<1>6. OutAt(off, c + n)'
  <2>0. PICK e \in Nat : e = c + Len(stream)
    BY <1>1
  <2>1. e <= off[Len(sent) + 1] /\ (link = "up" => OutPlace(off, e))
    BY <2>0 DEF OutAt
  <2>2. OutPlace(off, e) => OutPlace(off, e)'
    BY <1>2 DEF OutPlace
  <2>3. (c + n) + Len(stream') = e
    BY <1>3, <2>0
  <2> QED BY <1>2, <2>1, <2>2, <2>3 DEF OutAt
<1> QED BY <1>5, <1>6

(* The bytes of the length read so far, with those the next recv() adds. *)
LEMMA LengthBytes ==
  ASSUME FrameTypeInv, Returned, inpc = "header",
         NEW off, Offsets(off, sent), NEW c \in Nat, InPlace(off, c),
         NEW n \in Nat, n <= Len(stream)
  PROVE  LET buf == lenbuf \o SubSeq(stream, 1, n)
         IN  /\ buf \in Seq(Byte) /\ Len(buf) = Len(lenbuf) + n
             /\ off[Len(got) + 1] \in Nat /\ c = off[Len(got) + 1] + Len(lenbuf)
             /\ \A i \in 1..Len(buf) : IsAt(off, sent, off[Len(got) + 1] + i, buf[i])
<1> DEFINE t == SubSeq(stream, 1, n)
           buf == lenbuf \o t
           o == off[Len(got) + 1]
<1>n. Len(lenbuf) \in Nat /\ Len(stream) \in Nat /\ Len(got) \in Nat /\ Len(sent) \in Nat
  BY FrameTypes
<1>0. o \in Nat
  <2>1. Len(got) + 1 \in 1..(Len(sent) + 1)
    BY <1>n DEF Returned
  <2> QED BY <2>1 DEF Offsets
<1>1. t \in Seq(Byte) /\ Len(t) = n /\ \A j \in 1..n : t[j] = stream[j]
  BY FrameTypes, TakeAndLeave
<1>2. /\ buf \in Seq(Byte) /\ Len(buf) = Len(lenbuf) + n
      /\ \A j \in 1..Len(lenbuf) : buf[j] = lenbuf[j]
      /\ \A j \in 1..n : buf[Len(lenbuf) + j] = t[j]
  <2>1. lenbuf \in Seq(Byte)
    BY FrameTypes
  <2>2. t \in Seq(Byte) /\ Len(t) = n
    BY <1>1
  <2> HIDE DEF t
  <2>3. /\ buf \in Seq(Byte) /\ Len(buf) = Len(lenbuf) + Len(t)
        /\ \A j \in 1..Len(lenbuf) : buf[j] = lenbuf[j]
        /\ \A j \in 1..Len(t) : buf[Len(lenbuf) + j] = t[j]
    <3>1. \A s, r \in Seq(Byte) :
            /\ s \o r \in Seq(Byte) /\ Len(s \o r) = Len(s) + Len(r)
            /\ \A j \in 1..Len(s) : (s \o r)[j] = s[j]
            /\ \A j \in 1..Len(r) : (s \o r)[Len(s) + j] = r[j]
      BY Joined
    <3> QED BY <2>1, <2>2, <3>1, Zenon
  <2> QED BY <2>2, <2>3
<1>3. /\ c = o + Len(lenbuf)
      /\ \A j \in 1..Len(lenbuf) : IsAt(off, sent, o + j, lenbuf[j])
      /\ \A j \in 1..n : IsAt(off, sent, c + j, stream[j])
  <2>1. \A j \in 1..n : j \in 1..Len(stream)
    BY <1>n
  <2> QED BY <2>1 DEF InPlace, InAt, StreamAt
<1> HIDE DEF t, buf, o
<1>4. ASSUME NEW i \in 1..(Len(lenbuf) + n) PROVE IsAt(off, sent, o + i, buf[i])
  <2>1. CASE i \in 1..Len(lenbuf)
    BY <1>2, <1>3, <2>1
  <2>2. CASE i \notin 1..Len(lenbuf)
    <3>1. PICK j \in 1..n : i = Len(lenbuf) + j
      <4>1. i - Len(lenbuf) \in 1..n /\ i = Len(lenbuf) + (i - Len(lenbuf))
        BY <1>n, <2>2
      <4> QED BY <4>1
    <3>2. buf[i] = stream[j] /\ o + i = c + j
      BY <1>0, <1>1, <1>2, <1>3, <1>n, <3>1
    <3> QED BY <1>3, <3>2
  <2> QED BY <2>1, <2>2
<1> QED BY <1>0, <1>2, <1>3, <1>4 DEF buf, t, o

(* A whole length is the one that was sent, and a body of it follows. *)
LEMMA FrameLength ==
  ASSUME FrameTypeInv, AllFit, Returned, header_whole,
         NEW off, Offsets(off, sent), NEW c \in Nat, InPlace(off, c)
  PROVE  Returned' /\ \E d \in Nat : InPlace(off, d)'
<1>n. /\ Len(lenbuf) \in Nat /\ Len(stream) \in Nat /\ Len(got) \in Nat /\ Len(sent) \in Nat
      /\ HeaderLen \in Nat /\ inbuf = <<>>
  BY FrameTypes DEF header_whole, FrameTypeInv, FrameLocals
<1>k. PICK k \in Nat : k = Len(got) + 1
  BY <1>n
<1>m. PICK n \in Nat : n = HeaderLen - Len(lenbuf)
  <2>1. Len(lenbuf) < HeaderLen
    BY DEF header_whole, InPlace, InAt
  <2> QED BY <1>n, <2>1
<1> DEFINE buf == lenbuf \o SubSeq(stream, 1, n)
<1>1. /\ inpc = "header" /\ Len(lenbuf) < HeaderLen /\ n <= Len(stream) /\ n \in Nat /\ n > 0
      /\ HaveLength(buf) /\ stream' = SubSeq(stream, n + 1, Len(stream))
      /\ UNCHANGED <<outvars, link, inbuf, got, nsig, cut>>
  BY <1>n, <1>m DEF header_whole, Need, InPlace, InAt
<1>2. /\ buf \in Seq(Byte) /\ Len(buf) = HeaderLen
      /\ off[k] \in Nat /\ c = off[k] + Len(lenbuf)
      /\ \A i \in 1..HeaderLen : IsAt(off, sent, off[k] + i, buf[i])
  <2>1. /\ buf \in Seq(Byte) /\ Len(buf) = Len(lenbuf) + n
        /\ off[k] \in Nat /\ c = off[k] + Len(lenbuf)
        /\ \A i \in 1..Len(buf) : IsAt(off, sent, off[k] + i, buf[i])
    BY <1>1, <1>k, LengthBytes
  <2>2. Len(lenbuf) + n = HeaderLen
    BY <1>n, <1>m
  <2> QED BY <2>1, <2>2
<1>3. k \in 1..Len(sent)
  <2>1. CASE k = Len(sent) + 1
    <3>1. c + Len(stream) <= off[k]
      BY <2>1 DEF InPlace, OutAt
    <3>2. Len(stream) > 0 /\ off[k] \in Nat /\ c = off[k] + Len(lenbuf)
      BY <1>1, <1>2, <1>n
    <3> HIDE DEF buf
    <3> QED BY <1>n, <3>1, <3>2
  <2> QED BY <1>n, <1>k, <2>1 DEF Returned
<1>4. sent[k] \in Nat /\ Fits(sent[k]) /\ off[k + 1] = off[k] + HeaderLen + sent[k]
  BY <1>3, FrameTypes DEF AllFit, Offsets
<1> HIDE DEF buf
<1>5. ASSUME NEW i \in 1..HeaderLen PROVE buf[i] = Format(sent[k])[i]
  <2>1. off[k] < off[k] + i /\ off[k] + i <= off[k + 1] /\ (off[k] + i) - off[k] = i /\ i <= HeaderLen
    <3>1. off[k] \in Nat /\ HeaderLen \in Nat /\ sent[k] \in Nat
          /\ off[k + 1] = off[k] + HeaderLen + sent[k]
      BY <1>2, <1>4, <1>n
    <3>2. i \in Nat /\ i > 0 /\ i <= HeaderLen
      BY <1>n
    <3> QED BY <3>1, <3>2
  <2>2. buf[i] = FrameByte(sent, k, (off[k] + i) - off[k])
    BY <1>2, <1>3, <2>1 DEF IsAt
  <2> QED BY <2>1, <2>2 DEF FrameByte
<1>6. buf = Format(sent[k])
  <2>1. Format(sent[k]) \in Seq(Byte) /\ Len(Format(sent[k])) = HeaderLen
    BY <1>4, FormatIs, FitsIsWidth
  <2> QED BY <1>2, <1>5, <2>1, SeqEqual
<1>7. /\ received' = sent[k] /\ inpc' = IF sent[k] = 0 THEN "ended" ELSE "body"
      /\ lenbuf' = buf
  BY <1>1, <1>4, <1>6, AtoiOfFormat DEF HaveLength
<1>8. StreamAt(off, c + n)' /\ OutAt(off, c + n)'
  BY <1>1, FrameTaken DEF InPlace
<1>9. InAt(off, c + n)'
  <2>1. c + n = off[k] + HeaderLen
    BY <1>2, <1>n, <1>m
  <2>2. CASE sent[k] = 0
    BY <1>7, <2>2 DEF InAt
  <2>3. CASE sent[k] # 0
    <3>1. /\ got' = got /\ sent' = sent /\ inbuf' = <<>> /\ Len(got) < Len(sent)
      BY <1>1, <1>3, <1>k, <1>n DEF outvars
    <3>2. Len(inbuf') = 0 /\ 0 < received' /\ c + n = (off[k] + HeaderLen) + 0
      <4>1. Len(inbuf') = 0 /\ received' = sent[k] /\ sent[k] \in Nat /\ sent[k] # 0
        BY <1>4, <1>7, <2>3, <3>1
      <4>2. off[k] \in Nat /\ HeaderLen \in Nat
        BY <1>2, <1>n
      <4> QED BY <2>1, <4>1, <4>2
    <3>3. InBody(off, c + n)'
      <4>1. /\ Len(got') < Len(sent') /\ received' = sent'[Len(got') + 1] /\ Len(inbuf') < received'
            /\ c + n = off[Len(got') + 1] + HeaderLen + Len(inbuf')
        BY <1>7, <1>k, <3>1, <3>2
      <4>2. \A j \in 1..Len(inbuf') : inbuf'[j] = <<Len(got') + 1, j>>
        BY <3>2
      <4> QED BY <4>1, <4>2 DEF InBody
    <3> QED BY <1>7, <2>3, <3>3 DEF InAt
  <2> QED BY <2>2, <2>3
<1>10. Returned'
  BY <1>1 DEF Returned, outvars
<1> QED BY <1>8, <1>9, <1>10 DEF InPlace


(* A length that is read only in part: the loop goes on with what it has,  *)
(* or the connection was lost and nothing can follow.                      *)
LEMMA FramePart ==
  ASSUME FrameTypeInv, Returned, header_short, ~ cut',
         NEW off, Offsets(off, sent), NEW c \in Nat, InPlace(off, c)
  PROVE  Returned' /\ \E d \in Nat : InPlace(off, d)'
<1>n. /\ Len(lenbuf) \in Nat /\ Len(stream) \in Nat /\ HeaderLen \in Nat /\ stream \in Seq(Byte)
  BY FrameTypes
<1>m. PICK n \in Nat : n = Len(stream)
  BY <1>n
<1>1. /\ inpc = "header" /\ Len(stream) < HeaderLen - Len(lenbuf)
      /\ UNCHANGED <<outvars, link, inbuf, got>> /\ stream' = <<>> /\ link \in {"up", "closed"}
      /\ \/ lenbuf' = lenbuf \o stream /\ UNCHANGED <<inpc, received, cut>>
         \/ HaveLength(lenbuf \o stream) /\ cut' = (cut \/ link = "up")
  BY DEF header_short, Need
<1>2. SubSeq(stream, 1, n) = stream /\ SubSeq(stream, n + 1, Len(stream)) = <<>>
  BY <1>m, <1>n, SubSeqFull, SubSeqEmpty
<1>3. /\ lenbuf \o stream \in Seq(Byte) /\ Len(lenbuf \o stream) = Len(lenbuf) + n
      /\ off[Len(got) + 1] \in Nat /\ c = off[Len(got) + 1] + Len(lenbuf)
      /\ \A i \in 1..Len(lenbuf \o stream) :
           IsAt(off, sent, off[Len(got) + 1] + i, (lenbuf \o stream)[i])
  <2>1. n <= Len(stream)
    BY <1>m
  <2>2. /\ lenbuf \o SubSeq(stream, 1, n) \in Seq(Byte)
        /\ Len(lenbuf \o SubSeq(stream, 1, n)) = Len(lenbuf) + n
        /\ off[Len(got) + 1] \in Nat /\ c = off[Len(got) + 1] + Len(lenbuf)
        /\ \A i \in 1..Len(lenbuf \o SubSeq(stream, 1, n)) :
             IsAt(off, sent, off[Len(got) + 1] + i, (lenbuf \o SubSeq(stream, 1, n))[i])
    BY <1>1, <2>1, LengthBytes
  <2> QED BY <1>2, <2>2
<1>4. StreamAt(off, c + n)' /\ OutAt(off, c + n)'
  <2>1. /\ n <= Len(stream) /\ stream' = SubSeq(stream, n + 1, Len(stream))
        /\ StreamAt(off, c) /\ OutAt(off, c) /\ UNCHANGED <<outvars, link>>
    BY <1>1, <1>2, <1>m DEF InPlace
  <2> QED BY <2>1, FrameTaken
<1>5. InAt(off, c + n)'
  <2>1. CASE lenbuf' = lenbuf \o stream /\ UNCHANGED <<inpc, received, cut>>
    <3>1. inpc' = "header" /\ got' = got /\ sent' = sent
      BY <1>1, <2>1 DEF outvars
    <3>2. Len(lenbuf') = Len(lenbuf) + n
      BY <1>3, <2>1
    <3>3. Len(lenbuf') < HeaderLen /\ c + n = off[Len(got) + 1] + Len(lenbuf')
      <4>1. Len(lenbuf) + n < HeaderLen
        BY <1>1, <1>m, <1>n
      <4>2. c + n = off[Len(got) + 1] + (Len(lenbuf) + n)
        BY <1>3, <1>n
      <4> QED BY <3>2, <4>1, <4>2
    <3>4. \A i \in 1..Len(lenbuf') : IsAt(off, sent, off[Len(got) + 1] + i, lenbuf'[i])
      BY <1>3, <2>1
    <3> QED BY <3>1, <3>3, <3>4 DEF InAt
  <2>2. CASE HaveLength(lenbuf \o stream) /\ cut' = (cut \/ link = "up")
    <3>1. link' = "closed" /\ stream' = <<>> /\ inpc' \in {"ended", "body"}
      BY <1>1, <2>2 DEF HaveLength
    <3> QED BY <3>1 DEF InAt
  <2> QED BY <1>1, <2>1, <2>2
<1>6. Returned'
  BY <1>1 DEF Returned, outvars
<1> QED BY <1>4, <1>5, <1>6 DEF InPlace

(* The bytes of a body: the one that becomes whole is the next one sent. *)
LEMMA FrameBody ==
  ASSUME FrameTypeInv, Returned, body_burst,
         NEW off, Offsets(off, sent), NEW c \in Nat, InPlace(off, c)
  PROVE  Returned' /\ \E d \in Nat : InPlace(off, d)'
<1>n. /\ Len(inbuf) \in Nat /\ Len(stream) \in Nat /\ Len(got) \in Nat /\ Len(sent) \in Nat
      /\ HeaderLen \in Nat /\ received \in Nat
      /\ inbuf \in Seq(Byte) /\ stream \in Seq(Byte) /\ got \in Seq(Seq(Byte))
  BY FrameTypes
<1>1. PICK n \in 1..Len(stream) :
        /\ n <= received - Len(inbuf)
        /\ inbuf' = inbuf \o SubSeq(stream, 1, n)
        /\ stream' = SubSeq(stream, n + 1, Len(stream))
  BY DEF body_burst, Wanted
<1>2. /\ UNCHANGED <<outvars, link, lenbuf, received, nsig, cut>> /\ inpc = "body"
      /\ \/ Len(inbuf') < received /\ UNCHANGED <<inpc, got>>
         \/ Len(inbuf') >= received /\ got' = Append(got, inbuf') /\ inpc' = "idle"
  <2>1. Len(inbuf') \in Nat
    <3>1. SubSeq(stream, 1, n) \in Seq(Byte)
      BY <1>n, TakeAndLeave
    <3>2. inbuf' \in Seq(Byte)
      BY <1>1, <1>n, <3>1, Joined
    <3> QED BY <3>2, LenProperties
  <2> QED BY <1>n, <2>1 DEF body_burst, whole
<1>3. n \in Nat /\ n > 0 /\ n <= Len(stream) /\ stream # <<>>
  BY <1>n
<1>k. PICK k \in Nat : k = Len(got) + 1
  BY <1>n
<1>4. /\ k \in 1..Len(sent) /\ received = sent[k] /\ Len(inbuf) < received
      /\ c = off[k] + HeaderLen + Len(inbuf)
      /\ \A j \in 1..Len(inbuf) : inbuf[j] = <<k, j>>
  <2>1. InBody(off, c)
    BY <1>2, <1>3 DEF InPlace, InAt
  <2> QED BY <1>k, <1>n, <2>1 DEF InBody
<1>5. off[k] \in Nat /\ off[k + 1] = off[k] + HeaderLen + sent[k]
  <2>1. k \in 1..(Len(sent) + 1)
    BY <1>4, <1>n
  <2> QED BY <1>4, <2>1 DEF Offsets
<1>6. /\ Len(inbuf') = Len(inbuf) + n /\ inbuf' \in Seq(Byte)
      /\ \A j \in 1..Len(inbuf) : inbuf'[j] = inbuf[j]
      /\ \A j \in 1..n : inbuf'[Len(inbuf) + j] = stream[j]
  <2>1. /\ SubSeq(stream, 1, n) \in Seq(Byte) /\ Len(SubSeq(stream, 1, n)) = n
        /\ \A j \in 1..n : SubSeq(stream, 1, n)[j] = stream[j]
    BY <1>3, <1>n, TakeAndLeave
  <2>2. PICK t \in Seq(Byte) : t = SubSeq(stream, 1, n)
    BY <2>1
  <2>3. Len(t) = n /\ inbuf' = inbuf \o t /\ \A j \in 1..n : t[j] = stream[j]
    BY <1>1, <2>1, <2>2
  <2>4. /\ inbuf \o t \in Seq(Byte) /\ Len(inbuf \o t) = Len(inbuf) + Len(t)
        /\ \A j \in 1..Len(inbuf) : (inbuf \o t)[j] = inbuf[j]
        /\ \A j \in 1..Len(t) : (inbuf \o t)[Len(inbuf) + j] = t[j]
    BY <1>n, Joined
  <2> QED BY <2>3, <2>4
<1>7. ASSUME NEW j \in 1..n PROVE stream[j] = <<k, Len(inbuf) + j>>
  <2>0. j \in Nat /\ j > 0 /\ j <= n /\ j \in 1..Len(stream)
    BY <1>3, <1>n
  <2>1. IsAt(off, sent, c + j, stream[j])
    BY <2>0 DEF InPlace, StreamAt
  <2>2. Len(inbuf) + j <= sent[k] /\ sent[k] \in Nat
    BY <1>1, <1>3, <1>4, <1>n, <2>0
  <2>3. /\ off[k] < c + j /\ c + j <= off[k + 1]
        /\ (c + j) - off[k] = HeaderLen + (Len(inbuf) + j)
    <3>1. c = off[k] + HeaderLen + Len(inbuf) /\ off[k + 1] = off[k] + HeaderLen + sent[k]
      BY <1>4, <1>5
    <3>2. off[k] \in Nat /\ HeaderLen \in Nat /\ Len(inbuf) \in Nat
      BY <1>5, <1>n
    <3>3. off[k] < c + j
      BY <2>0, <3>1, <3>2
    <3>4. c + j = off[k] + HeaderLen + (Len(inbuf) + j)
      BY <2>0, <3>1, <3>2, SMTT(30)
    <3>5. off[k] + HeaderLen + (Len(inbuf) + j) <= off[k] + HeaderLen + sent[k]
      BY <2>0, <2>2, <3>2
    <3>6. (c + j) - off[k] = HeaderLen + (Len(inbuf) + j)
      BY <2>0, <3>2, <3>4
    <3> QED BY <3>1, <3>3, <3>4, <3>5, <3>6
  <2>4. stream[j] = FrameByte(sent, k, HeaderLen + (Len(inbuf) + j))
    BY <1>4, <2>1, <2>3 DEF IsAt
  <2>5. /\ ~ (HeaderLen + (Len(inbuf) + j) <= HeaderLen)
        /\ (HeaderLen + (Len(inbuf) + j)) - HeaderLen = Len(inbuf) + j
    BY <1>n, <2>0
  <2> QED BY <2>4, <2>5 DEF FrameByte
<1>8. ASSUME NEW i \in 1..(Len(inbuf) + n) PROVE inbuf'[i] = <<k, i>>
  <2>1. CASE i \in 1..Len(inbuf)
    BY <1>4, <1>6, <2>1
  <2>2. CASE i \notin 1..Len(inbuf)
    <3>1. i - Len(inbuf) \in 1..n /\ i = Len(inbuf) + (i - Len(inbuf))
      BY <1>3, <1>n, <2>2
    <3> QED BY <1>6, <1>7, <3>1
  <2> QED BY <2>1, <2>2
<1>9. StreamAt(off, c + n)' /\ OutAt(off, c + n)'
  <2>1. StreamAt(off, c) /\ OutAt(off, c) /\ UNCHANGED <<outvars, link>>
    BY <1>2 DEF InPlace
  <2> QED BY <1>1, <1>3, <2>1, FrameTaken
<1>a. /\ c + n = off[k] + HeaderLen + (Len(inbuf) + n) /\ sent' = sent /\ received' = received
      /\ Len(inbuf) + n <= received
  <2>1. c + n = off[k] + HeaderLen + (Len(inbuf) + n)
    BY <1>3, <1>4, <1>5, <1>n, SMTT(30)
  <2>2. Len(inbuf) + n <= received
    BY <1>1, <1>3, <1>n
  <2> QED BY <1>2, <2>1, <2>2 DEF outvars
<1>10. CASE Len(inbuf') < received /\ UNCHANGED <<inpc, got>>
  <2>1. InBody(off, c + n)'
    <3>1. /\ Len(got') < Len(sent') /\ received' = sent'[Len(got') + 1] /\ Len(inbuf') < received'
      BY <1>10, <1>4, <1>a, <1>k, <1>n
    <3>2. c + n = off[Len(got') + 1] + HeaderLen + Len(inbuf')
      BY <1>10, <1>6, <1>a, <1>k
    <3>3. \A j \in 1..Len(inbuf') : inbuf'[j] = <<Len(got') + 1, j>>
      BY <1>10, <1>6, <1>8, <1>k
    <3> QED BY <3>1, <3>2, <3>3 DEF InBody
  <2>2. InAt(off, c + n)'
    BY <1>10, <1>2, <2>1 DEF InAt
  <2>3. Returned'
    BY <1>10, <1>a DEF Returned
  <2> QED BY <1>9, <2>2, <2>3 DEF InPlace
<1>11. CASE Len(inbuf') >= received /\ got' = Append(got, inbuf') /\ inpc' = "idle"
  <2>1. Len(inbuf) + n = sent[k] /\ sent[k] \in Nat
    <3>1. Len(inbuf) + n >= received /\ Len(inbuf) + n <= received /\ received = sent[k]
      BY <1>11, <1>4, <1>6, <1>a
    <3>2. Len(inbuf) \in Nat /\ n \in Nat /\ received \in Nat
      BY <1>3, <1>n
    <3> QED BY <3>1, <3>2
  <2>2. inbuf' = Body(k, sent[k])
    <3>1. /\ Body(k, sent[k]) = [i \in 1..sent[k] |-> <<k, i>>] /\ DOMAIN inbuf' = 1..sent[k]
          /\ inbuf' = [i \in DOMAIN inbuf' |-> inbuf'[i]]
      BY <1>6, <2>1, LenProperties DEF Body
    <3> QED BY <1>8, <2>1, <3>1
  <2>3. /\ Len(got') = k /\ got'[k] = inbuf' /\ \A i \in 1..Len(got) : got'[i] = got[i]
    BY <1>11, <1>6, <1>k, <1>n, AppendProperties
  <2>4. Returned'
    <3>1. ASSUME NEW i \in 1..k PROVE got'[i] = Body(i, sent[i])
      <4>1. CASE i = k
        BY <2>2, <2>3, <4>1
      <4>2. CASE i # k
        <5>1. i \in 1..Len(got)
          BY <1>k, <1>n, <4>2
        <5> QED BY <2>3, <5>1 DEF Returned
      <4> QED BY <4>1, <4>2
    <3> QED BY <1>4, <1>a, <2>3, <3>1 DEF Returned
  <2>5. c + n = off[k + 1]
    BY <1>5, <1>a, <2>1
  <2>6. InAt(off, c + n)'
    BY <1>11, <2>3, <2>5 DEF InAt
  <2> QED BY <1>9, <2>4, <2>6 DEF InPlace
<1> QED BY <1>2, <1>10, <1>11

(* The other steps of receive_from_fd, and the loss of the connection. *)
LEMMA FrameRest ==
  ASSUME FrameTypeInv, Returned,
         receive_from_fd \/ header_end \/ header_error \/ body_end \/ body_error \/ lose,
         NEW off, Offsets(off, sent), NEW c \in Nat, InPlace(off, c)
  PROVE  Returned' /\ Offsets(off, sent') /\ InPlace(off, c)'
<1>n. HeaderLen \in Nat /\ HeaderLen > 0 /\ Len(got) \in Nat /\ Len(sent) \in Nat /\ Len(stream) \in Nat
  BY FrameTypes
<1>1. UNCHANGED <<outvars, got>>
  BY DEF receive_from_fd, header_end, header_error, body_end, body_error, lose, invars
<1>2. Returned' /\ Offsets(off, sent')
  BY <1>1 DEF Returned, outvars
<1>3. CASE receive_from_fd
  <2>1. /\ UNCHANGED <<sent, outpc, outbuf, stream, link, got>> /\ inpc = "idle"
        /\ inpc' = "header" /\ lenbuf' = <<>>
    BY <1>3 DEF receive_from_fd, outvars
  <2>2. StreamAt(off, c)' /\ OutAt(off, c)'
    BY <2>1 DEF InPlace, StreamAt, OutAt, OutPlace
  <2>3. off[Len(got) + 1] \in Nat /\ c = off[Len(got) + 1]
    <3>1. c = off[Len(got) + 1]
      BY <2>1 DEF InPlace, InAt
    <3> QED BY <3>1
  <2>4. /\ Len(lenbuf') < HeaderLen /\ c = off[Len(got) + 1] + Len(lenbuf')
        /\ \A j \in 1..Len(lenbuf') : IsAt(off, sent, off[Len(got) + 1] + j, lenbuf'[j])
    BY <1>n, <2>1, <2>3
  <2> QED BY <1>2, <2>1, <2>2, <2>4 DEF InPlace, InAt
<1>4. CASE header_end \/ body_end
  <2>1. UNCHANGED <<sent, outpc, outbuf, stream, link>> /\ inpc' = "ended"
    BY <1>4 DEF header_end, body_end, outvars
  <2> QED BY <1>2, <2>1 DEF InPlace, StreamAt, OutAt, OutPlace, InAt
<1>5. CASE header_error \/ body_error
  <2>1. /\ UNCHANGED <<sent, outpc, outbuf, stream>> /\ link' = "closed" /\ link = "reset"
        /\ inpc' \in {"ended", "body"}
    BY <1>5 DEF header_error, body_error, HaveLength, outvars, invars
  <2>2. stream = <<>>
    BY <2>1 DEF FrameTypeInv, FrameLocals
  <2> QED BY <1>2, <2>1, <2>2 DEF InPlace, StreamAt, OutAt, OutPlace, InAt
<1>6. CASE lose
  <2>1. UNCHANGED <<sent, outpc, outbuf, invars>> /\ link = "up" /\ link' # "up"
        /\ stream' \in {stream, <<>>}
    BY <1>6 DEF lose, outvars
  <2>2. StreamAt(off, c)'
    BY <2>1 DEF InPlace, StreamAt
  <2>3. OutAt(off, c)'
    <3>1. c + Len(stream) <= off[Len(sent) + 1] /\ off[Len(sent) + 1] \in Nat
      <4>1. Len(sent) + 1 \in 1..(Len(sent) + 1)
        BY <1>n
      <4> QED BY <4>1 DEF InPlace, OutAt, Offsets
    <3>2. Len(stream') \in Nat /\ Len(stream') <= Len(stream)
      BY <1>n, <2>1
    <3>3. c + Len(stream') <= off[Len(sent) + 1]
      BY <1>n, <3>1, <3>2
    <3> QED BY <2>1, <3>3 DEF OutAt
  <2>4. InAt(off, c)'
    BY <2>1 DEF InPlace, InAt, InBody, invars
  <2> QED BY <1>2, <2>2, <2>3, <2>4 DEF InPlace
<1> QED BY <1>3, <1>4, <1>5, <1>6


LEMMA FrameInvInit == FrameInit => FrameInv
<1> SUFFICES ASSUME FrameInit PROVE FrameInv
  OBVIOUS
<1> DEFINE off == [k \in 1..1 |-> 0]
<1>1. Len(sent) = 0 /\ Len(got) = 0 /\ Len(stream) = 0 /\ Len(outbuf) = 0
  BY DEF FrameInit
<1>2. off \in [1..(0 + 1) -> Nat] /\ off[1] = 0 /\ off[0 + 1] = 0
  OBVIOUS
<1>3. Offsets(off, sent)
  <2>1. \A j, k \in 1..(0 + 1) : off[j] <= off[k]
    OBVIOUS
  <2> HIDE DEF off
  <2> QED BY <1>1, <1>2, <2>1 DEF Offsets
<1> HIDE DEF off
<1>4. StreamAt(off, 0)
  BY <1>1 DEF StreamAt
<1>5. OutAt(off, 0)
  BY <1>1, <1>2 DEF FrameInit, OutAt, OutPlace
<1>6. InAt(off, 0)
  BY <1>1, <1>2 DEF FrameInit, InAt
<1>7. Returned
  BY <1>1 DEF Returned
<1> QED BY <1>3, <1>4, <1>5, <1>6, <1>7 DEF FrameInv, InPlace

LEMMA FrameInvNext == FrameTypeInv /\ FrameInv /\ [FrameNext]_fvars => FrameInv'
<1> SUFFICES ASSUME FrameTypeInv, FrameInv, [FrameNext]_fvars, ~ cut', AllFit'
             PROVE  Returned' /\ \E off : Offsets(off, sent') /\ \E c \in Nat : InPlace(off, c)'
  BY DEF FrameInv
<1>1. ~ cut
  BY DEF FrameNext, send_frame, OutStep, send_some, send_error, send_next, InStep, receive_from_fd,
         header_whole, header_short, header_end, header_error, body_burst, body_end, body_error,
         lose, fvars
<1>2. AllFit
  <2>1. CASE send_frame
    <3>1. PICK n \in Lens : sent' = Append(sent, n)
      BY <2>1 DEF send_frame
    <3>2. Len(sent') = Len(sent) + 1 /\ \A k \in 1..Len(sent) : sent'[k] = sent[k] /\ k \in 1..Len(sent')
      BY <3>1, FrameTypes, FramingAssumption
    <3> QED BY <3>2 DEF AllFit
  <2>2. CASE UNCHANGED sent
    BY <2>2 DEF AllFit
  <2> QED BY <2>1, <2>2
          DEF FrameNext, OutStep, send_some, send_error, send_next, InStep, receive_from_fd,
              header_whole, header_short, header_end, header_error, body_burst, body_end,
              body_error, lose, fvars, outvars
<1>3. Returned /\ \E off : Offsets(off, sent) /\ \E c \in Nat : InPlace(off, c)
  BY <1>1, <1>2 DEF FrameInv
<1>4. PICK off : Offsets(off, sent) /\ \E c \in Nat : InPlace(off, c)
  BY <1>3
<1>5. PICK c \in Nat : InPlace(off, c)
  BY <1>4
<1>6. CASE send_frame
  BY <1>3, <1>4, <1>5, <1>6, FrameSent
<1>7. CASE OutStep
  BY <1>2, <1>3, <1>4, <1>5, <1>7, FrameOut
<1>8. CASE header_whole
  <2>1. Returned' /\ \E d \in Nat : InPlace(off, d)'
    BY <1>2, <1>3, <1>4, <1>5, <1>8, FrameLength
  <2> QED BY <1>4, <1>8, <2>1 DEF header_whole, outvars
<1>9. CASE header_short
  <2>1. Returned' /\ \E d \in Nat : InPlace(off, d)'
    BY <1>3, <1>4, <1>5, <1>9, FramePart
  <2> QED BY <1>4, <1>9, <2>1 DEF header_short, outvars
<1>10. CASE body_burst
  <2>1. Returned' /\ \E d \in Nat : InPlace(off, d)'
    BY <1>3, <1>4, <1>5, <1>10, FrameBody
  <2> QED BY <1>4, <1>10, <2>1 DEF body_burst, outvars
<1>11. CASE receive_from_fd \/ header_end \/ header_error \/ body_end \/ body_error \/ lose
  BY <1>3, <1>4, <1>5, <1>11, FrameRest
<1>12. CASE UNCHANGED fvars
  <2>1. InPlace(off, c)'
    BY <1>12, <1>5 DEF fvars, outvars, invars, InPlace, StreamAt, OutAt, OutPlace, InAt, InBody
  <2> QED BY <1>12, <1>3, <1>4, <2>1 DEF fvars, outvars, invars, Returned
<1> QED BY <1>6, <1>7, <1>8, <1>9, <1>10, <1>11, <1>12 DEF FrameNext, InStep

(* However the writes of send_to_fd and the reads of receive_from_fd are   *)
(* split, and wherever the connection is lost, the bodies returned are the *)
(* first ones sent, whole and in order, as long as the lengths fit their   *)
(* digits and no signal cut one short; for every number of digits, base,   *)
(* capacity of the stream and set of lengths.                              *)
THEOREM FramesAreWhole == FrameSpec => []FramesWhole
<1>1. FrameTypeInv /\ FrameInv => FramesWhole
  <2> SUFFICES ASSUME FrameTypeInv, FrameInv, ~ cut, AllFit PROVE IsPrefix(got, Bodies)
    BY DEF FramesWhole, AllFit
  <2>1. Len(got) <= Len(sent) /\ \A k \in 1..Len(got) : got[k] = Body(k, sent[k])
    BY DEF FrameInv, Returned
  <2>2. Len(got) \in Nat /\ Len(sent) \in Nat /\ got \in Seq(Seq(Byte))
    BY FrameTypes
  <2>3. Len(Bodies) = Len(sent) /\ \A k \in 1..Len(sent) : Bodies[k] = Body(k, sent[k])
    BY <2>2 DEF Bodies
  <2>4. \A k \in 1..Len(got) : k \in 1..Len(sent) /\ got[k] = Bodies[k]
    BY <2>1, <2>2, <2>3
  <2>5. SubSeq(got, 1, Len(got)) = SubSeq(Bodies, 1, Len(got))
    <3>1. \A k \in 1..Len(got) : got[k] \in Seq(Byte) /\ Bodies[k] \in Seq(Byte)
      BY <2>2, <2>4, ElementOfSeq
    <3>2. /\ SubSeq(got, 1, Len(got)) \in Seq(Seq(Byte)) /\ Len(SubSeq(got, 1, Len(got))) = Len(got)
          /\ \A k \in 1..Len(got) : SubSeq(got, 1, Len(got))[k] = got[k]
      BY <2>2, SubSeqFull
    <3>3. /\ SubSeq(Bodies, 1, Len(got)) \in Seq(Seq(Byte))
          /\ Len(SubSeq(Bodies, 1, Len(got))) = Len(got)
          /\ \A k \in 1..Len(got) : SubSeq(Bodies, 1, Len(got))[k] = Bodies[k]
      <4>1. ASSUME NEW m \in Nat, NEW s, \A k \in 1..m : s[k] \in Seq(Byte)
            PROVE  /\ SubSeq(s, 1, m) \in Seq(Seq(Byte)) /\ Len(SubSeq(s, 1, m)) = m
                   /\ \A k \in 1..m : SubSeq(s, 1, m)[k] = s[k]
        <5>1. /\ SubSeq(s, 1, m) \in Seq(Seq(Byte))
              /\ Len(SubSeq(s, 1, m)) = IF 1 <= m THEN m - 1 + 1 ELSE 0
              /\ \A k \in 1..(m - 1 + 1) : SubSeq(s, 1, m)[k] = s[1 + k - 1]
          BY <4>1, SubSeqProperties
        <5>2. m - 1 + 1 = m /\ \A k \in 1..m : 1 + k - 1 = k
          OBVIOUS
        <5> QED BY <5>1, <5>2
      <4> QED BY <2>2, <3>1, <4>1
    <3> QED BY <2>4, <3>2, <3>3, SeqEqual
  <2> QED BY <2>1, <2>3, <2>5 DEF IsPrefix
<1>2. FrameInit => FrameTypeInv /\ FrameInv
  BY FrameTypeInit, FrameInvInit
<1>3. FrameTypeInv /\ FrameInv /\ [FrameNext]_fvars => (FrameTypeInv /\ FrameInv)'
  BY FrameTypeNext, FrameInvNext
<1> QED BY <1>1, <1>2, <1>3, PTL DEF FrameSpec
==============================================================================
