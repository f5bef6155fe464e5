-------------------------- MODULE FrameCodecProofs --------------------------
(***************************************************************************)
(* The codec for every byte width, every limit and frames of any length:   *)
(* what an encoder writes is read back (...Back), what is read may be      *)
(* written in as many bytes or fewer (...Forth), and nothing behind it is  *)
(* looked at (...Extended): of numbers, payloads, texts, lists of entries  *)
(* and messages.  Numbers and lists are coded by recursion; what that      *)
(* computes is shown by induction over sets of natural numbers, which is   *)
(* the well-foundedness of < and no scheme over operators.                 *)
(***************************************************************************)
EXTENDS FrameCodec, WellFoundedInduction, TLAPS

(***************************************************************************)
(* Induction                                                               *)
(***************************************************************************)
LEMMA LeastElement ==
    ASSUME NEW T \in SUBSET Nat, T # {}
    PROVE  \E n \in T : \A m \in T : n <= m
<1> DEFINE R == OpToRel(<, Nat)
<1>1. IsWellFoundedOn(R, Nat)
  BY NatLessThanWellFounded
<1> HIDE DEF R
<1>2. PICK n \in T : \A m \in T : ~(<<m, n>> \in R)
  BY <1>1, WFMin
<1>3. ASSUME NEW m \in T PROVE n <= m
  <2>1. m < n => <<m, n>> \in R
    BY DEF R, OpToRel
  <2>2. QED  BY <1>2, <2>1
<1>4. QED  BY <1>3

LEMMA StrongInduction ==
    ASSUME NEW T, \A n \in Nat : (\A m \in 0 .. (n - 1) : m \in T) => n \in T
    PROVE  \A n \in Nat : n \in T
<1>1. SUFFICES ASSUME Nat \ T # {} PROVE FALSE
  OBVIOUS
<1>2. PICK n \in Nat \ T : \A m \in Nat \ T : n <= m
  BY <1>1, LeastElement
<1>3. QED  BY <1>2

LEMMA Induction ==
    ASSUME NEW T, 0 \in T, \A n \in Nat : n \in T => n + 1 \in T
    PROVE  \A n \in Nat : n \in T
<1>1. ASSUME NEW n \in Nat, \A m \in 0 .. (n - 1) : m \in T PROVE n \in T
  <2>1. CASE n = 0
    BY <2>1
  <2>2. CASE n # 0
    <3>1. n - 1 \in Nat /\ n - 1 \in 0 .. (n - 1) /\ (n - 1) + 1 = n
      BY <2>2
    <3>2. QED  BY <1>1, <3>1
  <2>3. QED  BY <2>1, <2>2
<1>2. QED  BY <1>1, StrongInduction

LEMMA InductionUpTo ==
    ASSUME NEW N \in Nat, NEW T, 0 \in T, \A n \in 1 .. N : n - 1 \in T => n \in T
    PROVE  \A n \in 0 .. N : n \in T
<1> DEFINE U == {n \in Nat : n <= N => n \in T}
<1>1. 0 \in U
  OBVIOUS
<1>2. ASSUME NEW n \in Nat, n \in U PROVE n + 1 \in U
  <2>1. n + 1 \in 1 .. N \/ ~(n + 1 <= N)
    OBVIOUS
  <2>2. (n + 1) - 1 = n
    OBVIOUS
  <2>3. QED  BY <1>2, <2>1, <2>2
<1> HIDE DEF U
<1>3. \A n \in Nat : n \in U
  BY <1>1, <1>2, Induction
<1>4. QED  BY <1>3 DEF U

(* A recursive definition over the naturals: a base case on Stop, and      *)
(* elsewhere a step from the value of a smaller number.                    *)
Recursion(S, Stop, base, step, pred) ==
    /\ base \in [Nat -> S] /\ step \in [Nat \X S -> S] /\ pred \in [Nat -> Nat]
    /\ \A n \in Nat : n \notin Stop => pred[n] < n

Solution(f, S, Stop, base, step, pred) ==
    /\ f \in [Nat -> S]
    /\ \A n \in Nat : f[n] = IF n \in Stop THEN base[n] ELSE step[<<n, f[pred[n]]>>]

(* It has a solution.  The recursions of the codec are instances.          *)
LEMMA RecursiveFunction ==
    ASSUME NEW S, NEW Stop, NEW base, NEW step, NEW pred,
           Recursion(S, Stop, base, step, pred)
    PROVE  \E f : Solution(f, S, Stop, base, step, pred)
<1> USE DEF Recursion
<1> DEFINE Value(f, n) == IF n \in Stop THEN base[n] ELSE step[<<n, f[pred[n]]>>]
           Solves(n, g) == /\ g \in [0 .. n -> S]
                           /\ \A i \in 0 .. n : g[i] = Value(g, i)
<1>1. ASSUME NEW n \in Nat, NEW f, NEW g, n \notin Stop => f[pred[n]] = g[pred[n]]
      PROVE  Value(f, n) = Value(g, n)
  BY <1>1
<1>2. ASSUME NEW n \in Nat, NEW f, n \notin Stop => f[pred[n]] \in S
      PROVE  Value(f, n) \in S
  BY <1>2
<1> HIDE DEF Value
<1>3. ASSUME NEW n \in Nat PROVE \E g : Solves(n, g)
  <2> DEFINE T == {k \in Nat : \E g : Solves(k, g)}
  <2>1. 0 \in T
    <3> DEFINE h == [i \in 0 .. 0 |-> Value(base, 0)]
    <3>1. 0 \in Stop
      OBVIOUS
    <3>2. Value(base, 0) \in S /\ Value(h, 0) = Value(base, 0)
      BY <1>1, <1>2, <3>1
    <3>3. Solves(0, h)
      BY <3>2
    <3>4. QED  BY <3>3
  <2>2. ASSUME NEW k \in Nat, k \in T PROVE k + 1 \in T
    <3>1. PICK g : Solves(k, g)
      BY <2>2
    <3> DEFINE h == [i \in 0 .. (k + 1) |-> IF i <= k THEN g[i] ELSE Value(g, k + 1)]
    <3>2. ASSUME NEW i \in 0 .. (k + 1), i \notin Stop
          PROVE  g[pred[i]] \in S /\ h[pred[i]] = g[pred[i]]
      <4>1. pred[i] \in 0 .. k
        BY <3>2
      <4>2. QED  BY <3>1, <4>1
    <3>3. ASSUME NEW i \in 0 .. (k + 1)
          PROVE  Value(g, i) \in S /\ Value(h, i) = Value(g, i) /\ h[i] = Value(g, i)
      <4>1. i \in Nat /\ (i <= k => g[i] = Value(g, i))
        BY <3>1
      <4>2. Value(g, i) \in S /\ Value(h, i) = Value(g, i)
        BY <1>1, <1>2, <3>2, <4>1
      <4>3. QED  BY <4>1, <4>2
    <3>4. h \in [0 .. (k + 1) -> S]
      BY <3>3
    <3> HIDE DEF h
    <3>5. Solves(k + 1, h)
      BY <3>3, <3>4
    <3> HIDE DEF Solves
    <3>6. QED  BY <3>5
  <2> HIDE DEF T
  <2>3. \A k \in Nat : k \in T
    BY <2>1, <2>2, Induction
  <2>4. QED  BY <2>3 DEF T
<1>4. ASSUME NEW n \in Nat, NEW m \in Nat, NEW g, NEW h, Solves(n, g), Solves(m, h)
      PROVE  \A i \in Nat : i <= n /\ i <= m => g[i] = h[i]
  <2> DEFINE T == {i \in Nat : i <= n /\ i <= m => g[i] = h[i]}
  <2>1. ASSUME NEW i \in Nat, \A j \in 0 .. (i - 1) : j \in T PROVE i \in T
    <3>1. SUFFICES ASSUME i <= n, i <= m PROVE g[i] = h[i]
      OBVIOUS
    <3>2. g[i] = Value(g, i) /\ h[i] = Value(h, i)
      BY <1>4, <3>1
    <3>3. i \notin Stop => g[pred[i]] = h[pred[i]]
      <4>1. SUFFICES ASSUME i \notin Stop PROVE g[pred[i]] = h[pred[i]]
        OBVIOUS
      <4>2. pred[i] \in 0 .. (i - 1) /\ pred[i] <= n /\ pred[i] <= m
        BY <3>1, <4>1
      <4>3. QED  BY <2>1, <4>2
    <3>4. QED  BY <1>1, <3>2, <3>3
  <2> HIDE DEF T
  <2>2. \A i \in Nat : i \in T
    BY <2>1, StrongInduction
  <2>3. QED  BY <2>2 DEF T
<1> HIDE DEF Solves
<1> DEFINE G == [n \in Nat |-> CHOOSE g : Solves(n, g)]
<1>5. \A n \in Nat : Solves(n, G[n])
  BY <1>3
<1> HIDE DEF G
<1> DEFINE f == [n \in Nat |-> G[n][n]]
<1>6. ASSUME NEW n \in Nat PROVE f[n] \in S /\ f[n] = Value(f, n)
  <2>1. f[n] \in S /\ f[n] = Value(G[n], n)
    BY <1>5 DEF Solves
  <2>2. n \notin Stop => f[pred[n]] = G[n][pred[n]]
    <3>1. SUFFICES ASSUME n \notin Stop PROVE f[pred[n]] = G[n][pred[n]]
      OBVIOUS
    <3>2. pred[n] \in Nat /\ pred[n] <= n
      BY <3>1
    <3>3. G[n][pred[n]] = G[pred[n]][pred[n]]
      BY <1>4, <1>5, <3>2
    <3>4. QED  BY <3>2, <3>3
  <2> HIDE DEF f
  <2>3. Value(f, n) = Value(G[n], n)
    BY <1>1, <2>2
  <2>4. QED  BY <2>1, <2>3
<1> HIDE DEF f
<1>7. \A n \in Nat : f[n] \in S
  BY <1>6
<1>8. f \in [Nat -> S]
  BY <1>7 DEF f
<1>9. QED  BY <1>6, <1>8 DEF Value, Solution
(* A loop of N rounds: the value before it, and what a round makes of the  *)
(* value of the round before.                                              *)
Loop(S, N, start, round) ==
    /\ N \in Nat /\ start \in S
    /\ round \in [(1 .. N) \X S -> S]

Rounds(f, S, N, start, round) ==
    /\ f \in [0 .. N -> S]
    /\ f[0] = start
    /\ \A i \in 1 .. N : f[i] = round[<<i, f[i - 1]>>]

LEMMA LoopFunction ==
    ASSUME NEW S, NEW N, NEW start, NEW round, Loop(S, N, start, round)
    PROVE  \E f : Rounds(f, S, N, start, round)
<1> USE DEF Loop
<1> DEFINE Stop == {0}
           base == [n \in Nat |-> start]
           pred == [n \in Nat |-> IF n = 0 THEN 0 ELSE n - 1]
           step == [q \in Nat \X S |-> IF q[1] \in 1 .. N THEN round[q] ELSE q[2]]
<1>1. base \in [Nat -> S] /\ pred \in [Nat -> Nat]
  OBVIOUS
<1>2. step \in [Nat \X S -> S]
  <2>1. ASSUME NEW n \in Nat, NEW x \in S, n \in 1 .. N PROVE round[<<n, x>>] \in S
    BY <2>1
  <2>2. ASSUME NEW q \in Nat \X S PROVE step[q] \in S
    <3>1. PICK n \in Nat, x \in S : q = <<n, x>>
      OBVIOUS
    <3>2. QED  BY <2>1, <3>1
  <2>3. QED  BY <2>2
<1>3. \A n \in Nat : n \notin Stop => pred[n] < n
  OBVIOUS
<1>4. \A n \in 1 .. N : n \in Nat
  OBVIOUS
<1>5. \A n \in 1 .. N, x \in S : step[<<n, x>>] = round[<<n, x>>]
  BY <1>4
<1>6. /\ base[0] = start /\ 0 \in Stop
      /\ \A n \in 1 .. N : n \notin Stop /\ pred[n] = n - 1 /\ n - 1 \in Nat
  OBVIOUS
<1> HIDE DEF Stop, base, pred, step
<1>7. PICK f : Solution(f, S, Stop, base, step, pred)
  BY <1>1, <1>2, <1>3, RecursiveFunction DEF Recursion
<1> DEFINE g == [i \in 0 .. N |-> f[i]]
<1>8. f[0] = start
  BY <1>6, <1>7 DEF Solution
<1>9. ASSUME NEW i \in 1 .. N PROVE f[i] = round[<<i, f[i - 1]>>]
  <2>1. i - 1 \in Nat /\ i \in Nat
    OBVIOUS
  <2>2. f[i - 1] \in S /\ f[i] = step[<<i, f[i - 1]>>]
    BY <1>6, <1>7, <2>1 DEF Solution
  <2>3. QED  BY <1>5, <2>2
<1>10. g \in [0 .. N -> S]
  BY <1>7 DEF Solution
<1>11. g[0] = f[0] /\ \A i \in 1 .. N : g[i] = f[i] /\ g[i - 1] = f[i - 1]
  OBVIOUS
<1> HIDE DEF g
<1>12. QED  BY <1>8, <1>9, <1>10, <1>11 DEF Rounds

-----------------------------------------------------------------------------
(***************************************************************************)
(* Numbers                                                                 *)
(***************************************************************************)
LEMMA Division ==
    ASSUME NEW v \in Nat
    PROVE  /\ v \div Half \in Nat /\ v % Half \in 0 .. (Half - 1)
           /\ v = Half * (v \div Half) + (v % Half)
           /\ v >= Half => v \div Half < v
BY CodecAssumption

LEMMA DigitOf ==
    ASSUME NEW x \in Nat, NEW d \in 0 .. (Half - 1)
    PROVE  /\ d + Half * x \in Nat
           /\ (d + Half * x) \div Half = x /\ (d + Half * x) % Half = d
           /\ d % Half = d /\ (Half + d) % Half = d
           /\ Half + d \in Byte /\ d \in Byte /\ Half + d >= Half
BY CodecAssumption DEF Byte

LEMMA DigitOfByte ==
    ASSUME NEW b \in Byte
    PROVE  b % Half \in 0 .. (Half - 1) /\ b % Half \in Nat /\ b \in Nat
BY CodecAssumption DEF Byte

(* The function that encode_var_uint applies.                              *)
Encoding ==
    CHOOSE encode : encode =
        [v \in Nat |-> IF v >= Half THEN <<Half + (v % Half)>> \o encode[v \div Half]
                                    ELSE <<v>>]

LEMMA EncodingExists ==
    /\ Encoding = [v \in Nat |->
           IF v >= Half THEN <<Half + (v % Half)>> \o Encoding[v \div Half] ELSE <<v>>]
    /\ \A v \in Nat : encode_var_uint(v) = Encoding[v]
<1> DEFINE S == Seq(Nat)
           Stop == 0 .. (Half - 1)
           pred == [v \in Nat |-> v \div Half]
           base == [v \in Nat |-> <<v>>]
           step == [p \in Nat \X S |-> <<Half + (p[1] % Half)>> \o p[2]]
<1>1. base \in [Nat -> S]
  OBVIOUS
<1>2. step \in [Nat \X S -> S]
  <2>1. ASSUME NEW v \in Nat, NEW s \in Seq(Nat)
        PROVE  <<Half + (v % Half)>> \o s \in Seq(Nat)
    <3>1. Half + (v % Half) \in Nat
      BY Division, CodecAssumption
    <3>2. QED  BY <3>1
  <2>2. QED  BY <2>1
<1>3. pred \in [Nat -> Nat] /\ \A v \in Nat : v \notin Stop => pred[v] < v
  BY Division, CodecAssumption
<1>4. \A v \in Nat : v \in Stop <=> ~(v >= Half)
  BY CodecAssumption
<1>5. \A v \in Nat, s \in Seq(Nat) : step[<<v, s>>] = <<Half + (v % Half)>> \o s
  OBVIOUS
<1> HIDE DEF S, Stop, step, base, pred
<1>6. PICK f : Solution(f, S, Stop, base, step, pred)
  BY <1>1, <1>2, <1>3, RecursiveFunction DEF Recursion
<1>7. f = [v \in Nat |-> IF v >= Half THEN <<Half + (v % Half)>> \o f[v \div Half] ELSE <<v>>]
  <2>1. ASSUME NEW v \in Nat
        PROVE  f[v] = IF v >= Half THEN <<Half + (v % Half)>> \o f[v \div Half] ELSE <<v>>
    <3>1. f[v \div Half] \in Seq(Nat)
      BY <1>6, Division DEF S, Solution
    <3>2. base[v] = <<v>> /\ pred[v] = v \div Half
      BY DEF base, pred
    <3>3. QED  BY <1>4, <1>5, <1>6, <3>1, <3>2 DEF Solution
  <2>2. QED  BY <1>6, <2>1 DEF Solution
<1>8. QED  BY <1>7 DEF Encoding, encode_var_uint

LEMMA EncodeVarUint ==
    ASSUME NEW v \in Nat
    PROVE  encode_var_uint(v) =
               IF v >= Half THEN <<Half + (v % Half)>> \o encode_var_uint(v \div Half)
                            ELSE <<v>>
BY EncodingExists, Division

LEMMA EncodeDigit ==
    ASSUME NEW v \in Nat, v < Half
    PROVE  encode_var_uint(v) = <<v>> /\ v \in Byte
<1>1. v \in Byte /\ ~(v >= Half)
  BY CodecAssumption DEF Byte
<1>2. QED  BY <1>1, EncodeVarUint

(* A number in digits: all but the last byte carry the flag.               *)
Digits(s) ==
    /\ s \in Seq(Byte) /\ Len(s) >= 1 /\ s[Len(s)] < Half
    /\ \A j \in 1 .. (Len(s) - 1) : s[j] >= Half

LEMMA MoreDigits ==
    ASSUME NEW s \in Seq(Byte), NEW b \in Byte, b >= Half
    PROVE  /\ Digits(<<b>> \o s) <=> Digits(s)
           /\ Len(<<b>> \o s) = Len(s) + 1
<1> DEFINE t == <<b>> \o s
<1>1. /\ t \in Seq(Byte) /\ Len(t) = Len(s) + 1 /\ t[1] = b /\ Len(s) \in Nat
      /\ \A j \in 1 .. Len(s) : t[j + 1] = s[j]
  OBVIOUS
<1> HIDE DEF t
<1>2. ASSUME Digits(s) PROVE Digits(t)
  <2>1. ASSUME NEW j \in 1 .. (Len(t) - 1) PROVE t[j] >= Half
    <3>1. CASE j = 1
      BY <1>1, <3>1
    <3>2. CASE j # 1
      <4>1. j - 1 \in 1 .. (Len(s) - 1) /\ (j - 1) + 1 = j /\ j - 1 \in 1 .. Len(s)
        BY <1>1, <3>2
      <4>2. t[j] = s[j - 1]
        BY <1>1, <4>1
      <4>3. QED  BY <1>2, <4>1, <4>2 DEF Digits
    <3>3. QED  BY <3>1, <3>2
  <2>2. QED  BY <1>1, <1>2, <2>1 DEF Digits
<1>3. ASSUME Digits(t) PROVE Digits(s)
  <2>1. Len(s) >= 1
    <3>1. SUFFICES ASSUME Len(s) = 0 PROVE FALSE
      BY <1>1
    <3>2. t[Len(t)] = b
      BY <1>1, <3>1
    <3>3. QED  BY <1>3, <3>2, CodecAssumption DEF Digits, Byte
  <2>2. s[Len(s)] < Half
    BY <1>1, <1>3, <2>1 DEF Digits
  <2>3. ASSUME NEW j \in 1 .. (Len(s) - 1) PROVE s[j] >= Half
    <3>1. j + 1 \in 1 .. (Len(t) - 1) /\ t[j + 1] = s[j]
      BY <1>1
    <3>2. QED  BY <1>3, <3>1 DEF Digits
  <2>4. QED  BY <2>1, <2>2, <2>3 DEF Digits
<1>4. QED  BY <1>1, <1>2, <1>3 DEF t

LEMMA EncodeDigits == \A v \in Nat : Digits(encode_var_uint(v))
<1> DEFINE T == {v \in Nat : Digits(encode_var_uint(v))}
<1>1. ASSUME NEW v \in Nat, \A w \in 0 .. (v - 1) : w \in T PROVE v \in T
  <2>1. CASE v < Half
    <3>1. encode_var_uint(v) = <<v>> /\ v \in Byte
      BY <2>1, EncodeDigit
    <3>2. Digits(<<v>>)
      BY <2>1, <3>1 DEF Digits
    <3>3. QED  BY <3>1, <3>2
  <2>2. CASE v >= Half
    <3>1. v \div Half \in 0 .. (v - 1)
      BY <2>2, Division
    <3>2. Digits(encode_var_uint(v \div Half))
      BY <1>1, <3>1
    <3>3. Half + (v % Half) \in Byte /\ Half + (v % Half) >= Half
      BY Division, CodecAssumption DEF Byte
    <3>4. Digits(<<Half + (v % Half)>> \o encode_var_uint(v \div Half))
      BY <3>2, <3>3, MoreDigits DEF Digits
    <3>5. QED  BY <2>2, <3>4, EncodeVarUint
  <2>3. QED  BY <2>1, <2>2, CodecAssumption
<1> HIDE DEF T
<1>2. \A v \in Nat : v \in T
  BY <1>1, StrongInduction
<1>3. QED  BY <1>2 DEF T

(* Greater numbers take no fewer bytes.                                    *)
LEMMA EncodeMonotone ==
    ASSUME NEW v \in Nat, NEW w \in Nat, v <= w
    PROVE  Len(encode_var_uint(v)) <= Len(encode_var_uint(w))
<1> DEFINE T == {x \in Nat : \A y \in Nat : y <= x =>
                     Len(encode_var_uint(y)) <= Len(encode_var_uint(x))}
<1>1. ASSUME NEW x \in Nat, \A z \in 0 .. (x - 1) : z \in T PROVE x \in T
  <2>1. ASSUME NEW y \in Nat, y <= x
        PROVE  Len(encode_var_uint(y)) <= Len(encode_var_uint(x))
    <3>1. Digits(encode_var_uint(x)) /\ Digits(encode_var_uint(x \div Half))
             /\ Digits(encode_var_uint(y \div Half))
      BY EncodeDigits, Division
    <3>2. CASE y < Half
      <4>1. encode_var_uint(y) = <<y>>
        BY <3>2, EncodeDigit
      <4>2. QED  BY <3>1, <4>1 DEF Digits
    <3>3. CASE y >= Half
      <4>1. x >= Half /\ x \div Half \in 0 .. (x - 1)
        BY <2>1, <3>3, Division, CodecAssumption
      <4>2. y \div Half <= x \div Half /\ y \div Half \in Nat
        BY <2>1, Division, CodecAssumption
      <4>3. Len(encode_var_uint(y \div Half)) <= Len(encode_var_uint(x \div Half))
        BY <1>1, <4>1, <4>2
      <4>4. /\ encode_var_uint(x) = <<Half + (x % Half)>> \o encode_var_uint(x \div Half)
            /\ encode_var_uint(y) = <<Half + (y % Half)>> \o encode_var_uint(y \div Half)
        BY <3>3, <4>1, EncodeVarUint
      <4>5. /\ Len(encode_var_uint(x)) = Len(encode_var_uint(x \div Half)) + 1
            /\ Len(encode_var_uint(y)) = Len(encode_var_uint(y \div Half)) + 1
        <5>1. /\ Half + (x % Half) \in Byte /\ Half + (x % Half) >= Half
              /\ Half + (y % Half) \in Byte /\ Half + (y % Half) >= Half
          BY Division, CodecAssumption DEF Byte
        <5>2. QED  BY <3>1, <4>4, <5>1, MoreDigits DEF Digits
      <4>6. /\ Len(encode_var_uint(x \div Half)) \in Nat
            /\ Len(encode_var_uint(y \div Half)) \in Nat
        BY <3>1 DEF Digits
      <4>7. QED  BY <4>3, <4>5, <4>6
    <3>4. QED  BY <3>2, <3>3, CodecAssumption
  <2>2. QED  BY <2>1
<1> HIDE DEF T
<1>2. \A x \in Nat : x \in T
  BY <1>1, StrongInduction
<1>3. QED  BY <1>2 DEF T

(* A number in range takes at most the bytes that a number may have.       *)
LEMMA NumberFits ==
    ASSUME NEW v \in Number
    PROVE  /\ v \in Nat /\ Digits(encode_var_uint(v))
           /\ Len(encode_var_uint(v)) \in 1 .. MaxVarBytes
<1>1. v \in Nat /\ v <= MaxSafe /\ MaxSafe \in Nat /\ MaxVarBytes \in Nat
  BY CodecAssumption DEF Number
<1>2. Digits(encode_var_uint(v)) /\ Digits(encode_var_uint(MaxSafe))
  BY <1>1, EncodeDigits
<1>3. Len(encode_var_uint(v)) <= Len(encode_var_uint(MaxSafe))
  BY <1>1, EncodeMonotone
<1>4. QED  BY <1>1, <1>2, <1>3, RangeAssumption DEF Digits

(* MAX_SAFE_INTEGER of the code, 2^53 - 1: fifteen, and seven more digits  *)
(* of seven bits, all set.                                                 *)
More(n) == 128 * n + 127
SafeInteger == More(More(More(More(More(More(More(15)))))))

(* The constants of the code satisfy RangeAssumption: MAX_SAFE_INTEGER is  *)
(* written in the eight bytes that decode_var_uint reads at most.          *)
THEOREM SafeIntegersFit ==
    ASSUME Half = 128
    PROVE  Len(encode_var_uint(SafeInteger)) = 8
<1> DEFINE Takes(v, n) == v \in Nat /\ v > 0 /\ Len(encode_var_uint(v)) = n
<1>1. Takes(15, 1)
  BY EncodeDigit
<1>2. ASSUME NEW v, NEW n \in Nat, Takes(v, n) PROVE Takes(More(v), n + 1)
  <2>1. /\ More(v) \in Nat /\ More(v) > 0 /\ More(v) >= Half /\ More(v) \div Half = v
        /\ Half + (More(v) % Half) \in Byte
    BY <1>2 DEF More, Byte
  <2>2. encode_var_uint(More(v)) = <<Half + (More(v) % Half)>> \o encode_var_uint(v)
    BY <2>1, EncodeVarUint
  <2>3. encode_var_uint(v) \in Seq(Byte)
    BY <1>2, EncodeDigits DEF Digits
  <2>4. Len(encode_var_uint(More(v))) = 1 + Len(encode_var_uint(v))
    BY <2>1, <2>2, <2>3
  <2>5. QED  BY <1>2, <2>1, <2>4
<1> HIDE DEF Takes
<1>3. Takes(More(More(15)), 3)
  BY <1>1, <1>2
<1>4. Takes(More(More(More(More(15)))), 5)
  BY <1>2, <1>3
<1>5. Takes(More(More(More(More(More(More(15)))))), 7)
  BY <1>2, <1>4
<1>6. Takes(SafeInteger, 8)
  BY <1>2, <1>5 DEF SafeInteger
<1>7. QED  BY <1>6 DEF Takes

(* The loop of decode_var_uint over bytes.                                 *)
Partial == [value : Nat, multiplier : Nat]
NoDigit == [value |-> 0, multiplier |-> 1]
NextDigit(p, b) == [value |-> p.value + (b % Half) * p.multiplier,
                    multiplier |-> p.multiplier * Half]

VarLoop(bytes) ==
    CHOOSE loop : loop = [i \in 0 .. Len(bytes) |->
        IF i = 0 THEN [value |-> 0, multiplier |-> 1]
        ELSE [value |-> loop[i - 1].value + (bytes[i] % Half) * loop[i - 1].multiplier,
              multiplier |-> loop[i - 1].multiplier * Half]]

LEMMA NextDigitType ==
    ASSUME NEW p \in Partial, NEW b \in Byte
    PROVE  NextDigit(p, b) \in Partial
<1>1. p.value \in Nat /\ p.multiplier \in Nat /\ b % Half \in Nat /\ Half \in Nat
  BY DigitOfByte, CodecAssumption DEF Partial
<1>2. (b % Half) * p.multiplier \in Nat /\ p.multiplier * Half \in Nat
  BY <1>1
<1>3. p.value + (b % Half) * p.multiplier \in Nat
  BY <1>1, <1>2
<1>4. QED  BY <1>2, <1>3 DEF NextDigit, Partial

LEMMA VarLoopExists ==
    ASSUME NEW bytes \in Seq(Byte)
    PROVE  /\ VarLoop(bytes)[0] = NoDigit
           /\ \A i \in 1 .. Len(bytes) :
                  VarLoop(bytes)[i] = NextDigit(VarLoop(bytes)[i - 1], bytes[i])
           /\ VarValue(bytes) = VarLoop(bytes)[Len(bytes)].value
<1> DEFINE N == Len(bytes)
           round == [q \in (1 .. N) \X Partial |-> NextDigit(q[2], bytes[q[1]])]
<1>1. N \in Nat /\ NoDigit \in Partial
  BY DEF NoDigit, Partial
<1>2. round \in [(1 .. N) \X Partial -> Partial]
  <2>1. ASSUME NEW n \in 1 .. N, NEW p \in Partial PROVE NextDigit(p, bytes[n]) \in Partial
    BY NextDigitType
  <2>2. QED  BY <2>1
<1>3. \A n \in 1 .. N, p \in Partial : round[<<n, p>>] = NextDigit(p, bytes[n])
  OBVIOUS
<1> HIDE DEF round
<1>4. PICK f : Rounds(f, Partial, N, NoDigit, round)
  BY <1>1, <1>2, LoopFunction DEF Loop
<1>5. ASSUME NEW i \in 0 .. N
      PROVE  f[i] = IF i = 0 THEN [value |-> 0, multiplier |-> 1]
                    ELSE [value |-> f[i - 1].value + (bytes[i] % Half) * f[i - 1].multiplier,
                          multiplier |-> f[i - 1].multiplier * Half]
  <2>1. CASE i = 0
    BY <1>4, <2>1 DEF Rounds, NoDigit
  <2>2. CASE i # 0
    <3>1. i \in 1 .. N /\ i - 1 \in 0 .. N
      BY <2>2
    <3>2. f[i - 1] \in Partial /\ f[i] = round[<<i, f[i - 1]>>]
      BY <1>4, <3>1 DEF Rounds
    <3>3. QED  BY <1>3, <2>2, <3>1, <3>2 DEF NextDigit
  <2>3. QED  BY <2>1, <2>2
<1>6. f = [i \in 0 .. Len(bytes) |->
          IF i = 0 THEN [value |-> 0, multiplier |-> 1]
          ELSE [value |-> f[i - 1].value + (bytes[i] % Half) * f[i - 1].multiplier,
                multiplier |-> f[i - 1].multiplier * Half]]
  BY <1>4, <1>5 DEF Rounds
<1>7. /\ VarLoop(bytes) = [i \in 0 .. Len(bytes) |->
             IF i = 0 THEN [value |-> 0, multiplier |-> 1]
             ELSE [value |-> VarLoop(bytes)[i - 1].value
                                 + (bytes[i] % Half) * VarLoop(bytes)[i - 1].multiplier,
                   multiplier |-> VarLoop(bytes)[i - 1].multiplier * Half]]
      /\ VarValue(bytes) = VarLoop(bytes)[Len(bytes)].value
  BY <1>6 DEF VarLoop, VarValue
<1>8. VarLoop(bytes)[0] = NoDigit
  BY <1>1, <1>7 DEF NoDigit
<1>9. ASSUME NEW i \in 1 .. Len(bytes)
      PROVE  VarLoop(bytes)[i] = NextDigit(VarLoop(bytes)[i - 1], bytes[i])
  <2>1. i \in 0 .. Len(bytes) /\ i # 0
    BY <1>1
  <2>2. QED  BY <1>7, <2>1 DEF NextDigit
<1>10. QED  BY <1>7, <1>8, <1>9

LEMMA VarLoopType ==
    ASSUME NEW bytes \in Seq(Byte)
    PROVE  \A i \in 0 .. Len(bytes) : VarLoop(bytes)[i] \in Partial
<1> DEFINE T == {i \in Nat : VarLoop(bytes)[i] \in Partial}
<1>1. 0 \in T
  BY VarLoopExists DEF NoDigit, Partial
<1>2. ASSUME NEW i \in 1 .. Len(bytes), i - 1 \in T PROVE i \in T
  BY <1>2, VarLoopExists, NextDigitType
<1> HIDE DEF T
<1>3. Len(bytes) \in Nat
  OBVIOUS
<1>4. \A i \in 0 .. Len(bytes) : i \in T
  BY <1>1, <1>2, <1>3, InductionUpTo
<1>5. QED  BY <1>4 DEF T

LEMMA VarValueType ==
    ASSUME NEW bytes \in Seq(Byte)
    PROVE  VarValue(bytes) \in Nat
<1>1. Len(bytes) \in 0 .. Len(bytes)
  OBVIOUS
<1>2. QED  BY <1>1, VarLoopExists, VarLoopType DEF Partial

(* The first byte is the least significant digit.                          *)
LEMMA VarValueFirst ==
    ASSUME NEW b \in Byte, NEW s \in Seq(Byte)
    PROVE  VarValue(<<b>> \o s) = (b % Half) + Half * VarValue(s)
<1> DEFINE t == <<b>> \o s
           T == {i \in Nat :
                    /\ VarLoop(t)[i + 1].value = (b % Half) + Half * VarLoop(s)[i].value
                    /\ VarLoop(t)[i + 1].multiplier = Half * VarLoop(s)[i].multiplier}
<1>1. /\ t \in Seq(Byte) /\ Len(t) = Len(s) + 1 /\ Len(s) \in Nat
      /\ t[1] = b /\ \A i \in 1 .. Len(s) : t[i + 1] = s[i]
  OBVIOUS
<1> HIDE DEF t
<1>2. b % Half \in Nat /\ Half \in Nat
  BY DigitOfByte, CodecAssumption
<1>3. 0 \in T
  <2>1. VarLoop(t)[0] = NoDigit /\ VarLoop(s)[0] = NoDigit
    BY <1>1, VarLoopExists
  <2>2. 1 \in 1 .. Len(t) /\ 1 - 1 = 0
    BY <1>1
  <2>3. VarLoop(t)[1] = NextDigit(NoDigit, b)
    BY <1>1, <2>1, <2>2, VarLoopExists
  <2>4. /\ VarLoop(t)[1].value = 0 + (b % Half) * 1
        /\ VarLoop(t)[1].multiplier = 1 * Half
    BY <2>3 DEF NextDigit, NoDigit
  <2>5. VarLoop(s)[0].value = 0 /\ VarLoop(s)[0].multiplier = 1
    BY <2>1 DEF NoDigit
  <2>6. QED  BY <1>2, <2>4, <2>5
<1>4. ASSUME NEW i \in 1 .. Len(s), i - 1 \in T PROVE i \in T
  <2>1. /\ i + 1 \in 1 .. Len(t) /\ (i + 1) - 1 = i /\ i \in 0 .. Len(t)
        /\ i - 1 \in 0 .. Len(s) /\ i \in 0 .. Len(s) /\ (i - 1) + 1 = i
    BY <1>1
  <2>2. VarLoop(s)[i - 1] \in Partial /\ VarLoop(t)[i] \in Partial
    BY <1>1, <2>1, VarLoopType
  <2>3. /\ VarLoop(t)[i + 1] = NextDigit(VarLoop(t)[i], s[i])
        /\ VarLoop(s)[i] = NextDigit(VarLoop(s)[i - 1], s[i])
    BY <1>1, <2>1, VarLoopExists
  <2> DEFINE v == VarLoop(s)[i - 1].value
             m == VarLoop(s)[i - 1].multiplier
             d == s[i] % Half
  <2>4. v \in Nat /\ m \in Nat /\ d \in Nat
    BY <2>2, DigitOfByte DEF Partial
  <2>5. /\ VarLoop(t)[i].value = (b % Half) + Half * v
        /\ VarLoop(t)[i].multiplier = Half * m
    BY <1>4, <2>1
  <2>6. /\ VarLoop(s)[i].value = v + d * m
        /\ VarLoop(s)[i].multiplier = m * Half
    BY <2>3 DEF NextDigit
  <2>7. /\ VarLoop(t)[i + 1].value = ((b % Half) + Half * v) + d * (Half * m)
        /\ VarLoop(t)[i + 1].multiplier = (Half * m) * Half
    BY <2>3, <2>5 DEF NextDigit
  <2> HIDE DEF v, m, d
  <2>8. ((b % Half) + Half * v) + d * (Half * m) = (b % Half) + Half * (v + d * m)
    BY <1>2, <2>4
  <2>9. (Half * m) * Half = Half * (m * Half)
    BY <1>2, <2>4
  <2>10. QED  BY <2>1, <2>6, <2>7, <2>8, <2>9
<1> HIDE DEF T
<1>5. \A i \in 0 .. Len(s) : i \in T
  BY <1>1, <1>3, <1>4, InductionUpTo
<1>6. VarLoop(t)[Len(s) + 1].value = (b % Half) + Half * VarLoop(s)[Len(s)].value
  BY <1>1, <1>5 DEF T
<1>7. VarValue(t) = (b % Half) + Half * VarValue(s)
  BY <1>1, <1>6, VarLoopExists
<1>8. QED  BY <1>7 DEF t

LEMMA VarValueDigit ==
    ASSUME NEW b \in Byte
    PROVE  VarValue(<<b>>) = b % Half
<1>1. /\ <<b>> \in Seq(Byte) /\ Len(<<b>>) = 1 /\ <<b>>[1] = b
      /\ 1 \in 1 .. 1 /\ 1 - 1 = 0
  OBVIOUS
<1>2. VarValue(<<b>>) = NextDigit(NoDigit, b).value
  BY <1>1, VarLoopExists
<1>3. VarValue(<<b>>) = 0 + (b % Half) * 1
  BY <1>2 DEF NextDigit, NoDigit
<1>4. QED  BY <1>3, DigitOfByte

(* Every number is read back from its encoding.                            *)
LEMMA ValueOfEncoding == \A v \in Nat : VarValue(encode_var_uint(v)) = v
<1> DEFINE T == {v \in Nat : VarValue(encode_var_uint(v)) = v}
<1>1. ASSUME NEW v \in Nat, \A w \in 0 .. (v - 1) : w \in T PROVE v \in T
  <2>1. CASE v < Half
    <3>1. VarValue(encode_var_uint(v)) = v % Half
      BY <2>1, EncodeDigit, VarValueDigit
    <3>2. v % Half = v
      BY <2>1, CodecAssumption
    <3>3. QED  BY <3>1, <3>2
  <2>2. CASE v >= Half
    <3> DEFINE w == v \div Half
               d == v % Half
    <3>1. /\ w \in 0 .. (v - 1) /\ w \in Nat /\ d \in 0 .. (Half - 1)
          /\ v = Half * w + d
      BY <2>2, Division
    <3>2. VarValue(encode_var_uint(w)) = w /\ encode_var_uint(w) \in Seq(Byte)
      BY <1>1, <3>1, EncodeDigits DEF Digits
    <3>3. encode_var_uint(v) = <<Half + d>> \o encode_var_uint(w)
      BY <2>2, EncodeVarUint
    <3> HIDE DEF w, d
    <3>4. Half + d \in Byte /\ (Half + d) % Half = d
      BY <3>1, DigitOf
    <3>5. VarValue(encode_var_uint(v)) = d + Half * w
      BY <3>2, <3>3, <3>4, VarValueFirst
    <3>6. d + Half * w = v
      BY <3>1, CodecAssumption
    <3>7. QED  BY <3>5, <3>6
  <2>3. QED  BY <2>1, <2>2, CodecAssumption
<1> HIDE DEF T
<1>2. \A v \in Nat : v \in T
  BY <1>1, StrongInduction
<1>3. QED  BY <1>2 DEF T

(* No digits of a number are fewer than those that encode_var_uint writes. *)
LEMMA EncodingIsShortest ==
    \A n \in Nat : \A s \in Seq(Byte) :
        Len(s) = n + 1 /\ s[Len(s)] < Half => Len(encode_var_uint(VarValue(s))) <= Len(s)
<1> DEFINE T == {n \in Nat : \A s \in Seq(Byte) :
        Len(s) = n + 1 /\ s[Len(s)] < Half => Len(encode_var_uint(VarValue(s))) <= Len(s)}
<1>1. 0 \in T
  <2>1. ASSUME NEW s \in Seq(Byte), Len(s) = 1, s[1] < Half
        PROVE  Len(encode_var_uint(VarValue(s))) <= 1
    <3>1. s = <<s[1]>> /\ s[1] \in Byte
      BY <2>1
    <3>2. VarValue(s) = s[1] % Half
      BY <3>1, VarValueDigit
    <3>3. s[1] % Half \in Nat /\ s[1] % Half < Half
      BY <3>1, DigitOfByte, CodecAssumption
    <3>4. encode_var_uint(VarValue(s)) = <<s[1] % Half>>
      BY <3>2, <3>3, EncodeDigit
    <3>5. QED  BY <3>4
  <2>2. QED  BY <2>1
<1>2. ASSUME NEW n \in Nat, n \in T PROVE n + 1 \in T
  <2>1. ASSUME NEW s \in Seq(Byte), Len(s) = (n + 1) + 1, s[Len(s)] < Half
        PROVE  Len(encode_var_uint(VarValue(s))) <= Len(s)
    <3> DEFINE r == SubSeq(s, 2, Len(s))
    <3>1. /\ r \in Seq(Byte) /\ Len(r) = n + 1 /\ r[Len(r)] = s[Len(s)]
          /\ s[1] \in Byte /\ s = <<s[1]>> \o r
      BY <2>1
    <3> HIDE DEF r
    <3>2. Len(encode_var_uint(VarValue(r))) <= n + 1
      BY <1>2, <2>1, <3>1
    <3> DEFINE x == VarValue(r)
               d == s[1] % Half
    <3>3. x \in Nat /\ d \in 0 .. (Half - 1) /\ VarValue(s) = d + Half * x
      BY <3>1, VarValueType, VarValueFirst, DigitOfByte
    <3>4. Digits(encode_var_uint(x)) /\ Len(encode_var_uint(x)) <= n + 1
      BY <3>2, <3>3, EncodeDigits
    <3> HIDE DEF x, d
    <3>5. d + Half * x \in Nat /\ (d + Half * x) \div Half = x
      BY <3>3, DigitOf
    <3>6. CASE VarValue(s) < Half
      <4>1. Len(encode_var_uint(VarValue(s))) = 1
        BY <3>3, <3>5, <3>6, EncodeDigit
      <4>2. QED  BY <2>1, <4>1
    <3>7. CASE VarValue(s) >= Half
      <4>1. encode_var_uint(VarValue(s))
                = <<Half + (VarValue(s) % Half)>> \o encode_var_uint(x)
        BY <3>3, <3>5, <3>7, EncodeVarUint
      <4>2. Len(encode_var_uint(VarValue(s))) = 1 + Len(encode_var_uint(x))
        BY <3>4, <4>1 DEF Digits
      <4>3. Len(encode_var_uint(x)) \in Nat
        BY <3>4 DEF Digits
      <4>4. QED  BY <2>1, <3>4, <4>2, <4>3
    <3>8. QED  BY <3>3, <3>5, <3>6, <3>7, CodecAssumption
  <2>2. QED  BY <2>1
<1> HIDE DEF T
<1>3. \A n \in Nat : n \in T
  BY <1>1, <1>2, Induction
<1>4. QED  BY <1>3 DEF T

LEMMA DigitsOfValue ==
    ASSUME NEW s, Digits(s)
    PROVE  /\ VarValue(s) \in Nat
           /\ Len(encode_var_uint(VarValue(s))) <= Len(s)
<1>1. s \in Seq(Byte) /\ Len(s) - 1 \in Nat /\ Len(s) = (Len(s) - 1) + 1
  BY DEF Digits
<1>2. QED  BY <1>1, EncodingIsShortest, VarValueType DEF Digits

-----------------------------------------------------------------------------
(***************************************************************************)
(* Reading                                                                 *)
(***************************************************************************)

(* The bytes s are in data behind the offset o; data is how ext begins.    *)
Holds(data, o, s) ==
    o + Len(s) <= Len(data) /\ \A j \in 1 .. Len(s) : data[o + j] = s[j]

Begins(data, ext) ==
    Len(data) <= Len(ext) /\ \A i \in 1 .. Len(data) : ext[i] = data[i]

LEMMA HoldsConcat ==
    ASSUME NEW data \in Seq(Byte), NEW o \in Nat, NEW s \in Seq(Byte), NEW t \in Seq(Byte)
    PROVE  Holds(data, o, s \o t) <=> Holds(data, o, s) /\ Holds(data, o + Len(s), t)
<1> DEFINE u == s \o t
<1>1. /\ Len(u) = Len(s) + Len(t) /\ Len(s) \in Nat /\ Len(t) \in Nat
      /\ \A j \in 1 .. Len(s) : u[j] = s[j]
      /\ \A j \in 1 .. Len(t) : u[Len(s) + j] = t[j]
      /\ Len(data) \in Nat
  OBVIOUS
<1> HIDE DEF u
<1>2. ASSUME Holds(data, o, u) PROVE Holds(data, o, s) /\ Holds(data, o + Len(s), t)
  <2>1. \A j \in 1 .. Len(s) : j \in 1 .. Len(u)
    BY <1>1
  <2>2. Holds(data, o, s)
    BY <1>1, <1>2, <2>1 DEF Holds
  <2>3. ASSUME NEW j \in 1 .. Len(t) PROVE data[(o + Len(s)) + j] = t[j]
    <3>1. Len(s) + j \in 1 .. Len(u) /\ o + (Len(s) + j) = (o + Len(s)) + j
      BY <1>1
    <3>2. QED  BY <1>1, <1>2, <3>1 DEF Holds
  <2>4. QED  BY <1>1, <1>2, <2>2, <2>3 DEF Holds
<1>3. ASSUME Holds(data, o, s), Holds(data, o + Len(s), t) PROVE Holds(data, o, u)
  <2>1. ASSUME NEW j \in 1 .. Len(u) PROVE data[o + j] = u[j]
    <3>1. CASE j <= Len(s)
      <4>1. j \in 1 .. Len(s)
        BY <1>1, <3>1
      <4>2. QED  BY <1>1, <1>3, <4>1 DEF Holds
    <3>2. CASE j > Len(s)
      <4>1. /\ j - Len(s) \in 1 .. Len(t) /\ Len(s) + (j - Len(s)) = j
            /\ (o + Len(s)) + (j - Len(s)) = o + j
        BY <1>1, <3>2
      <4>2. u[j] = t[j - Len(s)]
        BY <1>1, <4>1
      <4>3. data[o + j] = t[j - Len(s)]
        BY <1>3, <4>1 DEF Holds
      <4>4. QED  BY <4>2, <4>3
    <3>3. QED  BY <1>1, <3>1, <3>2
  <2>2. QED  BY <1>1, <1>3, <2>1 DEF Holds
<1>4. QED  BY <1>2, <1>3 DEF u

LEMMA HoldsExtended ==
    ASSUME NEW data \in Seq(Byte), NEW ext \in Seq(Byte), Begins(data, ext),
           NEW o \in Nat, NEW s \in Seq(Byte), Holds(data, o, s)
    PROVE  Holds(ext, o, s)
<1>1. /\ Len(data) \in Nat /\ Len(ext) \in Nat /\ Len(s) \in Nat
      /\ Len(data) <= Len(ext) /\ o + Len(s) <= Len(data)
  BY DEF Begins, Holds
<1>2. ASSUME NEW j \in 1 .. Len(s) PROVE ext[o + j] = s[j]
  <2>1. o + j \in 1 .. Len(data)
    BY <1>1
  <2>2. QED  BY <2>1 DEF Begins, Holds
<1>3. QED  BY <1>1, <1>2 DEF Holds

LEMMA HoldsPart ==
    ASSUME NEW data \in Seq(Byte), NEW o \in Nat, NEW n \in Nat, o + n <= Len(data)
    PROVE  /\ SubSeq(data, o + 1, o + n) \in Seq(Byte)
           /\ Len(SubSeq(data, o + 1, o + n)) = n
           /\ Holds(data, o, SubSeq(data, o + 1, o + n))
<1>1. /\ SubSeq(data, o + 1, o + n) \in Seq(Byte)
      /\ Len(SubSeq(data, o + 1, o + n)) = n
      /\ \A j \in 1 .. n : SubSeq(data, o + 1, o + n)[j] = data[o + j]
  OBVIOUS
<1>2. QED  BY <1>1 DEF Holds

LEMMA PartHeld ==
    ASSUME NEW data \in Seq(Byte), NEW o \in Nat, NEW s \in Seq(Byte), Holds(data, o, s)
    PROVE  SubSeq(data, o + 1, o + Len(s)) = s
<1> DEFINE p == SubSeq(data, o + 1, o + Len(s))
<1>1. Len(s) \in Nat /\ o + Len(s) <= Len(data)
  BY DEF Holds
<1>2. /\ p \in Seq(Byte) /\ Len(p) = Len(s)
      /\ \A j \in 1 .. Len(s) : p[j] = data[o + j]
  BY <1>1
<1> HIDE DEF p
<1>3. \A j \in 1 .. Len(s) : p[j] = s[j]
  BY <1>2 DEF Holds
<1>4. p = s
  BY <1>2, <1>3
<1>5. QED  BY <1>4 DEF p

-----------------------------------------------------------------------------
LEMMA FailedFields == Failed.next = -1 /\ Failed.value = 0
BY DEF Failed

LEMMA ReadFields ==
    ASSUME NEW v, NEW n
    PROVE  Read(v, n).value = v /\ Read(v, n).next = n
BY DEF Read

(* A number is read up to its first byte without the flag.                 *)
LEMMA ReadNumber ==
    ASSUME NEW data \in Seq(Byte), NEW o \in Nat, NEW s,
           Digits(s), Len(s) <= MaxVarBytes, Holds(data, o, s)
    PROVE  decode_var_uint(data, o) = InRange(Read(VarValue(s), o + Len(s)))
<1> DEFINE W == {n \in 1 .. MaxVarBytes : o + n <= Len(data) /\ data[o + n] < Half}
<1>1. /\ s \in Seq(Byte) /\ Len(s) \in Nat /\ Len(s) >= 1
      /\ MaxVarBytes \in Nat /\ Half \in Nat
  BY CodecAssumption DEF Digits
<1>2. Len(s) \in 1 .. Len(s) /\ Len(s) \in 1 .. MaxVarBytes
  BY <1>1
<1>3. Len(s) \in W
  BY <1>2 DEF Digits, Holds
<1>4. ASSUME NEW n \in W PROVE Len(s) <= n
  <2>1. SUFFICES ASSUME n < Len(s) PROVE FALSE
    BY <1>1
  <2>2. n \in 1 .. (Len(s) - 1) /\ n \in 1 .. Len(s)
    BY <1>1, <2>1
  <2>3. data[o + n] = s[n] /\ s[n] >= Half /\ s[n] \in Byte
    BY <1>1, <2>2 DEF Holds, Digits
  <2>4. data[o + n] < Half
    OBVIOUS
  <2>5. QED  BY <1>1, <2>3, <2>4 DEF Byte
<1>5. Min(W) = Len(s)
  <2>1. W \subseteq Nat
    BY <1>1
  <2> HIDE DEF W
  <2>2. \A x \in W : (\A y \in W : x <= y) => x = Len(s)
    BY <1>1, <1>3, <1>4, <2>1
  <2>3. QED  BY <1>3, <1>4, <2>2 DEF Min
<1>6. SubSeq(data, o + 1, o + Len(s)) = s
  BY <1>1, PartHeld
<1>7. QED  BY <1>3, <1>5, <1>6 DEF decode_var_uint

LEMMA NumberRead ==
    ASSUME NEW data \in Seq(Byte), NEW o \in Nat, decode_var_uint(data, o).next >= 0
    PROVE  \E s : /\ Digits(s) /\ Len(s) <= MaxVarBytes /\ Holds(data, o, s)
                  /\ VarValue(s) \in Number
                  /\ decode_var_uint(data, o) = Read(VarValue(s), o + Len(s))
<1> DEFINE W == {n \in 1 .. MaxVarBytes : o + n <= Len(data) /\ data[o + n] < Half}
           s == SubSeq(data, o + 1, o + Min(W))
<1>1. decode_var_uint(data, o) =
          IF W = {} THEN Failed ELSE InRange(Read(VarValue(s), o + Min(W)))
  BY DEF decode_var_uint
<1>2. W # {}
  BY <1>1, FailedFields
<1>3. W \in SUBSET Nat
  BY CodecAssumption
<1>4. Min(W) \in W /\ \A n \in W : Min(W) <= n
  <2> HIDE DEF W
  <2>1. \E n \in W : \A m \in W : n <= m
    BY <1>2, <1>3, LeastElement
  <2>2. QED  BY <2>1 DEF Min
<1>5. /\ Min(W) \in Nat /\ Min(W) >= 1 /\ Min(W) <= MaxVarBytes
      /\ o + Min(W) <= Len(data) /\ data[o + Min(W)] < Half
  BY <1>4, CodecAssumption
<1>6. \A n \in 1 .. (Min(W) - 1) : n \notin W /\ n \in 1 .. MaxVarBytes /\ o + n <= Len(data)
  <2>1. Len(data) \in Nat /\ MaxVarBytes \in Nat
    BY CodecAssumption
  <2> DEFINE w == Min(W)
  <2>2. w \in Nat /\ w <= MaxVarBytes /\ o + w <= Len(data) /\ \A n \in W : w <= n
    BY <1>4, <1>5
  <2> HIDE DEF w, W
  <2>3. \A n \in 1 .. (w - 1) : n \notin W /\ n \in 1 .. MaxVarBytes /\ o + n <= Len(data)
    BY <2>1, <2>2
  <2>4. QED  BY <2>3 DEF w
<1>7. \A n \in 1 .. (Min(W) - 1) : ~(data[o + n] < Half) /\ data[o + n] \in Byte
  BY <1>6
<1> HIDE DEF W
<1>8. s \in Seq(Byte) /\ Len(s) = Min(W) /\ Holds(data, o, s)
  BY <1>5, HoldsPart
<1> HIDE DEF s
<1>9. Digits(s)
  <2>1. \A j \in 1 .. Len(s) : data[o + j] = s[j]
    BY <1>8 DEF Holds
  <2>2. s[Len(s)] < Half
    BY <1>5, <1>8, <2>1
  <2>3. \A j \in 1 .. (Len(s) - 1) : s[j] >= Half
    <3>1. ASSUME NEW j \in 1 .. (Len(s) - 1) PROVE s[j] >= Half
      <4>1. j \in 1 .. Len(s)
        BY <1>5, <1>8
      <4>2. s[j] \in Byte /\ ~(s[j] < Half)
        BY <1>7, <1>8, <2>1, <4>1
      <4>3. QED  BY <4>2, CodecAssumption DEF Byte
    <3>2. QED  BY <3>1
  <2>4. QED  BY <1>5, <1>8, <2>2, <2>3 DEF Digits
<1>10. decode_var_uint(data, o) = InRange(Read(VarValue(s), o + Len(s)))
  BY <1>1, <1>2, <1>8
<1>11. VarValue(s) \in Nat
  BY <1>8, VarValueType
<1>12. VarValue(s) <= MaxSafe /\ decode_var_uint(data, o) = Read(VarValue(s), o + Len(s))
  BY <1>10, <1>11, FailedFields, ReadFields, CodecAssumption DEF InRange
<1>13. VarValue(s) \in Number
  BY <1>11, <1>12, CodecAssumption DEF Number
<1>14. QED  BY <1>5, <1>8, <1>9, <1>12, <1>13

(* A reader fails or comes to an offset.                                   *)
Outcome(r) == r = Failed \/ r.next >= 0

LEMMA NumberOutcome ==
    ASSUME NEW data \in Seq(Byte), NEW o \in Nat
    PROVE  Outcome(decode_var_uint(data, o))
<1> DEFINE W == {n \in 1 .. MaxVarBytes : o + n <= Len(data) /\ data[o + n] < Half}
           s == SubSeq(data, o + 1, o + Min(W))
<1>1. decode_var_uint(data, o) =
          IF W = {} THEN Failed ELSE InRange(Read(VarValue(s), o + Min(W)))
  BY DEF decode_var_uint
<1>2. W \in SUBSET Nat
  BY CodecAssumption
<1> HIDE DEF s, W
<1>3. W # {} => Min(W) \in Nat
  BY <1>2, LeastElement DEF Min
<1>4. QED  BY <1>1, <1>3, ReadFields DEF InRange, Outcome

(* An encoded number is read back; a number that is read took as many      *)
(* bytes as its encoding or more; and nothing behind it is looked at.      *)
LEMMA NumberBack ==
    ASSUME NEW data \in Seq(Byte), NEW o \in Nat, NEW v \in Number,
           Holds(data, o, encode_var_uint(v))
    PROVE  decode_var_uint(data, o) = Read(v, o + Len(encode_var_uint(v)))
<1>1. /\ v \in Nat /\ Digits(encode_var_uint(v)) /\ Len(encode_var_uint(v)) <= MaxVarBytes
      /\ ~(v > MaxSafe)
  BY NumberFits, CodecAssumption DEF Number
<1>2. VarValue(encode_var_uint(v)) = v
  BY <1>1, ValueOfEncoding
<1>3. QED  BY <1>1, <1>2, ReadNumber, ReadFields DEF InRange

LEMMA NumberForth ==
    ASSUME NEW data \in Seq(Byte), NEW o \in Nat, decode_var_uint(data, o).next >= 0
    PROVE  LET r == decode_var_uint(data, o) IN
           /\ r = Read(r.value, r.next)
           /\ r.value \in Number /\ r.next \in Nat /\ r.next > o /\ r.next <= Len(data)
           /\ Len(encode_var_uint(r.value)) <= r.next - o
<1>1. PICK s : /\ Digits(s) /\ Len(s) <= MaxVarBytes /\ Holds(data, o, s)
               /\ VarValue(s) \in Number
               /\ decode_var_uint(data, o) = Read(VarValue(s), o + Len(s))
  BY NumberRead
<1>2. Len(s) \in Nat /\ Len(s) >= 1 /\ o + Len(s) <= Len(data)
  BY <1>1 DEF Digits, Holds
<1>3. Len(encode_var_uint(VarValue(s))) <= Len(s)
  BY <1>1, DigitsOfValue
<1>4. (o + Len(s)) - o = Len(s) /\ o + Len(s) \in Nat /\ o + Len(s) > o
  BY <1>2
<1>5. QED  BY <1>1, <1>2, <1>3, <1>4, ReadFields

LEMMA NumberExtended ==
    ASSUME NEW data \in Seq(Byte), NEW ext \in Seq(Byte), Begins(data, ext), NEW o \in Nat,
           decode_var_uint(data, o).next >= 0
    PROVE  decode_var_uint(ext, o) = decode_var_uint(data, o)
<1>1. PICK s : /\ Digits(s) /\ Len(s) <= MaxVarBytes /\ Holds(data, o, s)
               /\ VarValue(s) \in Number
               /\ decode_var_uint(data, o) = Read(VarValue(s), o + Len(s))
  BY NumberRead
<1>2. Holds(ext, o, s)
  BY <1>1, HoldsExtended DEF Digits
<1>3. decode_var_uint(ext, o) = InRange(Read(VarValue(s), o + Len(s)))
  BY <1>1, <1>2, ReadNumber
<1>4. ~(VarValue(s) > MaxSafe)
  BY <1>1, CodecAssumption DEF Number
<1>5. QED  BY <1>1, <1>3, <1>4, ReadFields DEF InRange

(* The same of length-prefixed payloads.                                   *)
LEMMA DecodeVarBytes ==
    ASSUME NEW data, NEW o
    PROVE  LET r == decode_var_uint(data, o) IN
           decode_var_bytes(data, o) =
               IF r.next < 0 \/ r.next + r.value > Len(data) THEN Failed
               ELSE Read(SubSeq(data, r.next + 1, r.next + r.value), r.next + r.value)
BY DEF decode_var_bytes, Then

LEMMA EncodeVarBytes ==
    ASSUME NEW p \in Seq(Byte)
    PROVE  /\ encode_var_uint(Len(p)) \in Seq(Byte)
           /\ encode_var_bytes(p) \in Seq(Byte)
           /\ Len(encode_var_bytes(p)) = Len(encode_var_uint(Len(p))) + Len(p)
           /\ Len(encode_var_bytes(p)) > Len(p)
<1>1. Len(p) \in Nat
  OBVIOUS
<1>2. Digits(encode_var_uint(Len(p)))
  BY <1>1, EncodeDigits
<1>3. encode_var_uint(Len(p)) \in Seq(Byte) /\ Len(encode_var_uint(Len(p))) >= 1
  BY <1>2 DEF Digits
<1>4. QED  BY <1>1, <1>3 DEF encode_var_bytes

LEMMA BytesBack ==
    ASSUME NEW data \in Seq(Byte), NEW o \in Nat, NEW p \in Seq(Byte), Len(p) \in Number,
           Holds(data, o, encode_var_bytes(p))
    PROVE  decode_var_bytes(data, o) = Read(p, o + Len(encode_var_bytes(p)))
<1> DEFINE e == encode_var_uint(Len(p))
<1>1. /\ e \in Seq(Byte) /\ Len(e) \in Nat /\ Len(p) \in Nat
      /\ Len(encode_var_bytes(p)) = Len(e) + Len(p)
  <2>1. e \in Seq(Byte) /\ Len(encode_var_bytes(p)) = Len(e) + Len(p)
    BY EncodeVarBytes
  <2> HIDE DEF e
  <2>2. QED  BY <2>1
<1>2. Holds(data, o, e) /\ Holds(data, o + Len(e), p)
  BY <1>1, HoldsConcat DEF encode_var_bytes
<1>3. decode_var_uint(data, o) = Read(Len(p), o + Len(e))
  BY <1>2, NumberBack
<1> HIDE DEF e
<1>4. /\ o + Len(e) \in Nat /\ ~(o + Len(e) < 0)
      /\ (o + Len(e)) + Len(p) = o + Len(encode_var_bytes(p))
      /\ ~((o + Len(e)) + Len(p) > Len(data))
  BY <1>1, <1>2 DEF Holds
<1>5. SubSeq(data, (o + Len(e)) + 1, (o + Len(e)) + Len(p)) = p
  BY <1>2, <1>4, PartHeld
<1>6. decode_var_bytes(data, o) = Read(p, (o + Len(e)) + Len(p))
  <2>1. decode_var_uint(data, o).next = o + Len(e) /\ decode_var_uint(data, o).value = Len(p)
    BY <1>3, ReadFields
  <2>2. decode_var_bytes(data, o) =
            IF o + Len(e) < 0 \/ (o + Len(e)) + Len(p) > Len(data) THEN Failed
            ELSE Read(SubSeq(data, (o + Len(e)) + 1, (o + Len(e)) + Len(p)), (o + Len(e)) + Len(p))
    BY <2>1, DecodeVarBytes
  <2>3. QED  BY <1>4, <1>5, <2>2
<1>7. QED  BY <1>4, <1>6

LEMMA BytesForth ==
    ASSUME NEW data \in Seq(Byte), NEW o \in Nat, decode_var_bytes(data, o).next >= 0
    PROVE  LET r == decode_var_bytes(data, o) IN
           /\ r = Read(r.value, r.next)
           /\ r.value \in Seq(Byte) /\ Len(r.value) \in Number
           /\ r.next \in Nat /\ r.next > o /\ r.next <= Len(data)
           /\ Len(encode_var_bytes(r.value)) <= r.next - o
<1> DEFINE u == decode_var_uint(data, o)
           p == SubSeq(data, u.next + 1, u.next + u.value)
<1>1. ~(u.next < 0) /\ ~(u.next + u.value > Len(data))
      /\ decode_var_bytes(data, o) = Read(p, u.next + u.value)
  BY DecodeVarBytes, FailedFields
<1>2. u.next >= 0
  BY <1>1, NumberOutcome, FailedFields DEF Outcome
<1>3. /\ u.value \in Number /\ u.next \in Nat /\ u.next > o
      /\ Len(encode_var_uint(u.value)) <= u.next - o
  BY <1>2, NumberForth
<1>4. u.value \in Nat /\ Digits(encode_var_uint(u.value)) /\ Len(data) \in Nat
  BY <1>3, NumberFits
<1>5. Len(encode_var_uint(u.value)) \in Nat
  BY <1>4 DEF Digits
<1> HIDE DEF u
<1>6. u.next + u.value <= Len(data)
  BY <1>1, <1>3, <1>4
<1>7. p \in Seq(Byte) /\ Len(p) = u.value
  BY <1>3, <1>4, <1>6, HoldsPart
<1> HIDE DEF p
<1>8. Len(encode_var_bytes(p)) = Len(encode_var_uint(u.value)) + u.value
  BY <1>7, EncodeVarBytes
<1>9. Len(encode_var_bytes(p)) <= (u.next + u.value) - o
  BY <1>3, <1>4, <1>5, <1>8
<1>10. u.next + u.value \in Nat /\ u.next + u.value > o
  BY <1>3, <1>4
<1>11. QED  BY <1>1, <1>3, <1>6, <1>7, <1>9, <1>10, ReadFields

LEMMA BytesOutcome ==
    ASSUME NEW data \in Seq(Byte), NEW o \in Nat
    PROVE  Outcome(decode_var_bytes(data, o))
<1> DEFINE u == decode_var_uint(data, o)
<1>1. CASE u.next >= 0
  <2>1. u.value \in Number /\ u.next \in Nat
    BY <1>1, NumberForth
  <2>2. u.next + u.value >= 0
    BY <2>1, NumberFits
  <2>3. QED  BY <2>2, DecodeVarBytes, ReadFields DEF Outcome
<1>2. CASE u = Failed
  BY <1>2, DecodeVarBytes, FailedFields DEF Outcome
<1>3. QED  BY <1>1, <1>2, NumberOutcome DEF Outcome

LEMMA BytesExtended ==
    ASSUME NEW data \in Seq(Byte), NEW ext \in Seq(Byte), Begins(data, ext), NEW o \in Nat,
           decode_var_bytes(data, o).next >= 0
    PROVE  decode_var_bytes(ext, o) = decode_var_bytes(data, o)
<1> DEFINE u == decode_var_uint(data, o)
<1>1. ~(u.next < 0) /\ ~(u.next + u.value > Len(data))
      /\ decode_var_bytes(data, o)
             = Read(SubSeq(data, u.next + 1, u.next + u.value), u.next + u.value)
  BY DecodeVarBytes, FailedFields
<1>2. u.next >= 0
  BY <1>1, NumberOutcome, FailedFields DEF Outcome
<1>3. u.value \in Nat /\ u.next \in Nat /\ decode_var_uint(ext, o) = u
  BY <1>2, NumberForth, NumberFits, NumberExtended
<1>4. Len(data) \in Nat /\ Len(ext) \in Nat /\ Len(data) <= Len(ext)
  BY DEF Begins
<1> HIDE DEF u
<1>5. u.next + u.value <= Len(data) /\ u.next + u.value <= Len(ext)
  BY <1>1, <1>3, <1>4
<1> DEFINE p == SubSeq(data, u.next + 1, u.next + u.value)
<1>6. p \in Seq(Byte) /\ Len(p) = u.value /\ Holds(data, u.next, p)
  BY <1>3, <1>5, HoldsPart
<1> HIDE DEF p
<1>7. Holds(ext, u.next, p)
  BY <1>3, <1>6, HoldsExtended
<1>8. SubSeq(ext, u.next + 1, u.next + u.value) = p
  BY <1>3, <1>6, <1>7, PartHeld
<1>9. decode_var_bytes(ext, o) = Read(p, u.next + u.value)
  <2>1. decode_var_bytes(ext, o) =
            IF u.next < 0 \/ u.next + u.value > Len(ext) THEN Failed
            ELSE Read(SubSeq(ext, u.next + 1, u.next + u.value), u.next + u.value)
    BY <1>3, DecodeVarBytes
  <2>2. ~(u.next < 0) /\ ~(u.next + u.value > Len(ext))
    BY <1>3, <1>4, <1>5
  <2>3. QED  BY <1>8, <2>1, <2>2
<1>10. QED  BY <1>1, <1>9 DEF p

(* The same of texts.                                                      *)
LEMMA DecodeString ==
    ASSUME NEW data, NEW o
    PROVE  LET r == decode_var_bytes(data, o) IN
           DecodeVarString(data, o) =
               IF r.next < 0 \/ r.value \notin Utf8 THEN Failed ELSE Read(r.value, r.next)
BY DEF DecodeVarString, Then

LEMMA StringBack ==
    ASSUME NEW data \in Seq(Byte), NEW o \in Nat, NEW p \in Seq(Byte) \cap Utf8,
           Len(p) \in Number, Holds(data, o, encode_var_bytes(p))
    PROVE  DecodeVarString(data, o) = Read(p, o + Len(encode_var_bytes(p)))
<1>1. decode_var_bytes(data, o) = Read(p, o + Len(encode_var_bytes(p)))
  BY BytesBack
<1>2. ~(o + Len(encode_var_bytes(p)) < 0)
  <2>1. Len(encode_var_bytes(p)) \in Nat
    BY EncodeVarBytes
  <2>2. QED  BY <2>1
<1>3. QED  BY <1>1, <1>2, DecodeString, ReadFields

LEMMA StringRead ==
    ASSUME NEW data \in Seq(Byte), NEW o \in Nat
    PROVE  /\ Outcome(DecodeVarString(data, o))
           /\ DecodeVarString(data, o).next >= 0 =>
                 /\ decode_var_bytes(data, o).next >= 0
                 /\ DecodeVarString(data, o) = decode_var_bytes(data, o)
                 /\ DecodeVarString(data, o).value \in Utf8
<1> DEFINE r == decode_var_bytes(data, o)
<1>1. DecodeVarString(data, o) =
          IF r.next < 0 \/ r.value \notin Utf8 THEN Failed ELSE Read(r.value, r.next)
  BY DecodeString
<1>2. Outcome(r) /\ (r.next >= 0 => r = Read(r.value, r.next))
  BY BytesOutcome, BytesForth
<1> HIDE DEF r
<1>3. /\ Outcome(DecodeVarString(data, o))
      /\ DecodeVarString(data, o).next >= 0 =>
             /\ r.next >= 0 /\ DecodeVarString(data, o) = r
             /\ DecodeVarString(data, o).value \in Utf8
  BY <1>1, <1>2, FailedFields, ReadFields DEF Outcome
<1>4. QED  BY <1>3 DEF r

LEMMA StringForth ==
    ASSUME NEW data \in Seq(Byte), NEW o \in Nat, DecodeVarString(data, o).next >= 0
    PROVE  LET r == DecodeVarString(data, o) IN
           /\ r = Read(r.value, r.next)
           /\ r.value \in Seq(Byte) \cap Utf8 /\ Len(r.value) \in Number
           /\ r.next \in Nat /\ r.next > o /\ r.next <= Len(data)
           /\ Len(encode_var_bytes(r.value)) <= r.next - o
BY StringRead, BytesForth

LEMMA StringExtended ==
    ASSUME NEW data \in Seq(Byte), NEW ext \in Seq(Byte), Begins(data, ext), NEW o \in Nat,
           DecodeVarString(data, o).next >= 0
    PROVE  DecodeVarString(ext, o) = DecodeVarString(data, o)
<1>1. decode_var_bytes(ext, o) = decode_var_bytes(data, o)
  BY StringRead, BytesExtended
<1>2. QED  BY <1>1, DecodeString

-----------------------------------------------------------------------------
(***************************************************************************)
(* Awareness entries                                                       *)
(***************************************************************************)
LEMMA DecodeEntryCases ==
    ASSUME NEW data, NEW o
    PROVE  LET c == decode_var_uint(data, o)
               k == decode_var_uint(data, c.next)
               s == DecodeVarString(data, k.next)
           IN DecodeEntry(data, o) =
                  IF c.next < 0 \/ k.next < 0 \/ s.next < 0 \/ s.value \notin Json THEN Failed
                  ELSE Read([client_id |-> c.value, clock |-> k.value, state |-> s.value], s.next)
BY DEF DecodeEntry, Then, Failed

LEMMA EncodeEntryBytes ==
    ASSUME NEW e \in Entry
    PROVE  LET c == encode_var_uint(e.client_id)
               k == encode_var_uint(e.clock)
               s == encode_var_bytes(e.state)
           IN /\ c \in Seq(Byte) /\ k \in Seq(Byte) /\ s \in Seq(Byte)
              /\ EncodeEntry(e) = (c \o k) \o s
              /\ EncodeEntry(e) \in Seq(Byte)
              /\ Len(EncodeEntry(e)) = Len(c) + Len(k) + Len(s)
<1> DEFINE c == encode_var_uint(e.client_id)
           k == encode_var_uint(e.clock)
           s == encode_var_bytes(e.state)
<1>1. e.client_id \in Number /\ e.clock \in Number /\ e.state \in Seq(Byte)
  BY DEF Entry
<1>2. Digits(c) /\ Digits(k) /\ s \in Seq(Byte)
  BY <1>1, NumberFits, EncodeVarBytes
<1>3. EncodeEntry(e) = (c \o k) \o s
  BY DEF EncodeEntry
<1> HIDE DEF c, k, s
<1>4. c \in Seq(Byte) /\ k \in Seq(Byte)
  BY <1>2 DEF Digits
<1>5. (c \o k) \o s \in Seq(Byte) /\ Len((c \o k) \o s) = Len(c) + Len(k) + Len(s)
  BY <1>2, <1>4
<1>6. QED  BY <1>2, <1>3, <1>4, <1>5 DEF c, k, s

LEMMA EntryBack ==
    ASSUME NEW data \in Seq(Byte), NEW o \in Nat, NEW e \in Entry, Len(e.state) \in Number,
           Holds(data, o, EncodeEntry(e))
    PROVE  DecodeEntry(data, o) = Read(e, o + Len(EncodeEntry(e)))
<1> DEFINE c == encode_var_uint(e.client_id)
           k == encode_var_uint(e.clock)
           s == encode_var_bytes(e.state)
<1>1. /\ c \in Seq(Byte) /\ k \in Seq(Byte) /\ s \in Seq(Byte)
      /\ EncodeEntry(e) = (c \o k) \o s
      /\ Len(EncodeEntry(e)) = Len(c) + Len(k) + Len(s)
  BY EncodeEntryBytes
<1>2. /\ e.client_id \in Number /\ e.clock \in Number
      /\ e.state \in Seq(Byte) \cap Utf8 /\ e.state \in Json
      /\ e = [client_id |-> e.client_id, clock |-> e.clock, state |-> e.state]
  BY DEF Entry
<1> HIDE DEF c, k, s
<1>3. /\ c \o k \in Seq(Byte) /\ Len(c \o k) = Len(c) + Len(k)
      /\ Len(c) \in Nat /\ Len(k) \in Nat /\ Len(s) \in Nat
      /\ o + Len(c) \in Nat /\ (o + Len(c)) + Len(k) \in Nat
      /\ o + Len(c \o k) = (o + Len(c)) + Len(k)
      /\ ((o + Len(c)) + Len(k)) + Len(s) = o + Len(EncodeEntry(e))
  BY <1>1
<1>4. Holds(data, o, c \o k) /\ Holds(data, (o + Len(c)) + Len(k), s)
  <2> DEFINE ck == c \o k
  <2>1. ck \in Seq(Byte) /\ o + Len(ck) = (o + Len(c)) + Len(k) /\ EncodeEntry(e) = ck \o s
    BY <1>1, <1>3
  <2> HIDE DEF ck
  <2>2. Holds(data, o, ck) /\ Holds(data, o + Len(ck), s)
    BY <1>1, <2>1, HoldsConcat
  <2>3. QED  BY <2>1, <2>2 DEF ck
<1>5. Holds(data, o, c) /\ Holds(data, o + Len(c), k)
  BY <1>1, <1>4, HoldsConcat
<1>6. decode_var_uint(data, o) = Read(e.client_id, o + Len(c))
  BY <1>2, <1>5, NumberBack DEF c
<1>7. decode_var_uint(data, o + Len(c)) = Read(e.clock, (o + Len(c)) + Len(k))
  BY <1>2, <1>3, <1>5, NumberBack DEF k
<1>8. DecodeVarString(data, (o + Len(c)) + Len(k)) = Read(e.state, o + Len(EncodeEntry(e)))
  BY <1>2, <1>3, <1>4, StringBack DEF s
<1>9. /\ ~(o + Len(c) < 0) /\ ~((o + Len(c)) + Len(k) < 0) /\ ~(o + Len(EncodeEntry(e)) < 0)
  BY <1>3
<1>10. DecodeEntry(data, o) =
           Read([client_id |-> e.client_id, clock |-> e.clock, state |-> e.state],
                o + Len(EncodeEntry(e)))
  BY <1>2, <1>6, <1>7, <1>8, <1>9, DecodeEntryCases, ReadFields
<1>11. QED  BY <1>2, <1>10

LEMMA EntryForth ==
    ASSUME NEW data \in Seq(Byte), NEW o \in Nat
    PROVE  LET r == DecodeEntry(data, o) IN
           /\ Outcome(r)
           /\ r.next >= 0 =>
                 /\ r = Read(r.value, r.next)
                 /\ r.value \in Entry
                 /\ r.next \in Nat /\ r.next > o /\ r.next <= Len(data)
                 /\ Len(EncodeEntry(r.value)) <= r.next - o
<1> DEFINE c == decode_var_uint(data, o)
           k == decode_var_uint(data, c.next)
           s == DecodeVarString(data, k.next)
           e == [client_id |-> c.value, clock |-> k.value, state |-> s.value]
           bad == c.next < 0 \/ k.next < 0 \/ s.next < 0 \/ s.value \notin Json
<1>1. DecodeEntry(data, o) = IF bad THEN Failed ELSE Read(e, s.next)
  BY DecodeEntryCases
<1>2. CASE bad
  BY <1>1, <1>2, FailedFields DEF Outcome
<1>3. CASE ~bad
  <2>1. c.next >= 0
    BY <1>3, NumberOutcome, FailedFields DEF Outcome
  <2>2. /\ c.value \in Number /\ c.next \in Nat /\ c.next > o
        /\ Len(encode_var_uint(c.value)) <= c.next - o
    BY <2>1, NumberForth
  <2> HIDE DEF c
  <2>3. k.next >= 0
    BY <1>3, <2>2, NumberOutcome, FailedFields DEF Outcome
  <2>4. /\ k.value \in Number /\ k.next \in Nat /\ k.next > c.next
        /\ Len(encode_var_uint(k.value)) <= k.next - c.next
    BY <2>2, <2>3, NumberForth
  <2> HIDE DEF k
  <2>5. s.next >= 0
    BY <1>3, <2>4, StringRead, FailedFields DEF Outcome
  <2>6. /\ s.value \in Seq(Byte) \cap Utf8
        /\ s.next \in Nat /\ s.next > k.next /\ s.next <= Len(data)
        /\ Len(encode_var_bytes(s.value)) <= s.next - k.next
    BY <2>4, <2>5, StringForth
  <2> HIDE DEF s
  <2>7. e \in Entry
    BY <1>3, <2>2, <2>4, <2>6 DEF Entry
  <2>8. e.client_id = c.value /\ e.clock = k.value /\ e.state = s.value
    OBVIOUS
  <2> HIDE DEF e
  <2>9. /\ encode_var_uint(c.value) \in Seq(Byte) /\ encode_var_uint(k.value) \in Seq(Byte)
        /\ encode_var_bytes(s.value) \in Seq(Byte)
        /\ Len(EncodeEntry(e)) = Len(encode_var_uint(c.value)) + Len(encode_var_uint(k.value))
                                     + Len(encode_var_bytes(s.value))
    BY <2>7, <2>8, EncodeEntryBytes
  <2>10. /\ Len(encode_var_uint(c.value)) \in Nat /\ Len(encode_var_uint(k.value)) \in Nat
         /\ Len(encode_var_bytes(s.value)) \in Nat
    BY <2>9
  <2>11. Len(EncodeEntry(e)) <= s.next - o /\ s.next > o
    BY <2>2, <2>4, <2>6, <2>9, <2>10
  <2>12. DecodeEntry(data, o) = Read(e, s.next)
    BY <1>1, <1>3
  <2>13. QED  BY <2>6, <2>7, <2>11, <2>12, ReadFields DEF Outcome
<1>4. QED  BY <1>2, <1>3

(* The payload that encode_awareness_message fills, entry by entry.        *)
EncodeLoop(entries) ==
    CHOOSE payload : payload = [i \in 0 .. Len(entries) |->
        IF i = 0 THEN encode_var_uint(Len(entries))
        ELSE payload[i - 1] \o EncodeEntry(entries[i])]

EncodeEntries(entries) == EncodeLoop(entries)[Len(entries)]

LEMMA EncodeAwareness ==
    ASSUME NEW es
    PROVE  encode_awareness_message(es) =
               encode_var_uint(MESSAGE_AWARENESS) \o encode_var_bytes(EncodeEntries(es))
BY DEF encode_awareness_message, EncodeEntries, EncodeLoop

LEMMA EncodeLoopExists ==
    ASSUME NEW es \in Seq(Entry)
    PROVE  /\ EncodeLoop(es)[0] = encode_var_uint(Len(es))
           /\ \A i \in 1 .. Len(es) :
                  EncodeLoop(es)[i] = EncodeLoop(es)[i - 1] \o EncodeEntry(es[i])
<1> DEFINE S == Seq(Byte)
           N == Len(es)
           count == encode_var_uint(N)
           round == [q \in (1 .. N) \X S |-> q[2] \o EncodeEntry(es[q[1]])]
<1>1. N \in Nat
  OBVIOUS
<1>2. count \in S
  BY <1>1, EncodeDigits DEF Digits
<1>3. round \in [(1 .. N) \X S -> S]
  <2>1. ASSUME NEW n \in 1 .. N, NEW p \in Seq(Byte)
        PROVE  p \o EncodeEntry(es[n]) \in Seq(Byte)
    <3>1. EncodeEntry(es[n]) \in Seq(Byte)
      BY EncodeEntryBytes
    <3>2. QED  BY <3>1
  <2>2. QED  BY <2>1
<1>4. \A n \in 1 .. N, p \in S : round[<<n, p>>] = p \o EncodeEntry(es[n])
  <2> HIDE DEF S
  <2>1. QED  OBVIOUS
<1> HIDE DEF S, round, count
<1>5. PICK f : Rounds(f, S, N, count, round)
  BY <1>1, <1>2, <1>3, LoopFunction DEF Loop
<1>6. ASSUME NEW i \in 0 .. N
      PROVE  f[i] = IF i = 0 THEN encode_var_uint(N) ELSE f[i - 1] \o EncodeEntry(es[i])
  <2>1. CASE i = 0
    BY <1>5, <2>1 DEF Rounds, count
  <2>2. CASE i # 0
    <3>1. i \in 1 .. N /\ i - 1 \in 0 .. N
      BY <2>2
    <3>2. f[i - 1] \in S /\ f[i] = round[<<i, f[i - 1]>>]
      BY <1>5, <3>1 DEF Rounds
    <3>3. QED  BY <1>4, <2>2, <3>1, <3>2
  <2>3. QED  BY <2>1, <2>2
<1>7. f = [i \in 0 .. Len(es) |->
          IF i = 0 THEN encode_var_uint(Len(es)) ELSE f[i - 1] \o EncodeEntry(es[i])]
  BY <1>5, <1>6 DEF Rounds
<1>8. EncodeLoop(es) = [i \in 0 .. Len(es) |->
          IF i = 0 THEN encode_var_uint(Len(es))
          ELSE EncodeLoop(es)[i - 1] \o EncodeEntry(es[i])]
  BY <1>7 DEF EncodeLoop
<1>9. EncodeLoop(es)[0] = encode_var_uint(Len(es))
  BY <1>1, <1>8
<1>10. ASSUME NEW i \in 1 .. Len(es)
       PROVE  EncodeLoop(es)[i] = EncodeLoop(es)[i - 1] \o EncodeEntry(es[i])
  <2>1. i \in 0 .. Len(es) /\ i # 0
    BY <1>1
  <2>2. QED  BY <1>8, <2>1
<1>11. QED  BY <1>9, <1>10

LEMMA EncodeLoopType ==
    ASSUME NEW es \in Seq(Entry)
    PROVE  /\ \A i \in 0 .. Len(es) : EncodeLoop(es)[i] \in Seq(Byte)
           /\ EncodeEntries(es) \in Seq(Byte)
<1> DEFINE T == {i \in Nat : EncodeLoop(es)[i] \in Seq(Byte)}
<1>1. Len(es) \in Nat
  OBVIOUS
<1>2. 0 \in T
  BY <1>1, EncodeLoopExists, EncodeDigits DEF Digits
<1>3. ASSUME NEW i \in 1 .. Len(es), i - 1 \in T PROVE i \in T
  <2>1. EncodeEntry(es[i]) \in Seq(Byte) /\ i \in Nat
    BY EncodeEntryBytes
  <2>2. EncodeLoop(es)[i - 1] \o EncodeEntry(es[i]) \in Seq(Byte)
    BY <1>3, <2>1
  <2>3. EncodeLoop(es)[i] = EncodeLoop(es)[i - 1] \o EncodeEntry(es[i])
    BY EncodeLoopExists
  <2>4. EncodeLoop(es)[i] \in Seq(Byte)
    BY <2>2, <2>3
  <2>5. QED  BY <2>1, <2>4
<1> HIDE DEF T
<1>4. \A i \in 0 .. Len(es) : i \in T
  BY <1>1, <1>2, <1>3, InductionUpTo
<1>5. QED  BY <1>1, <1>4 DEF T, EncodeEntries

(* Each state of the loop is how the whole payload begins.                 *)
LEMMA EncodeLoopPrefix ==
    ASSUME NEW es \in Seq(Entry)
    PROVE  \A i \in 0 .. Len(es) : Holds(EncodeEntries(es), 0, EncodeLoop(es)[i])
<1> DEFINE n == Len(es)
           data == EncodeEntries(es)
           T == {k \in Nat : Holds(data, 0, EncodeLoop(es)[n - k])}
<1>1. n \in Nat /\ data \in Seq(Byte) /\ data = EncodeLoop(es)[n]
  BY EncodeLoopType DEF EncodeEntries
<1>2. 0 \in T
  <2>1. Holds(data, 0, data)
    <3> HIDE DEF data
    <3>1. QED  BY <1>1 DEF Holds
  <2>2. n - 0 = n
    BY <1>1
  <2>3. QED  BY <1>1, <2>1, <2>2
<1>3. ASSUME NEW k \in 1 .. n, k - 1 \in T PROVE k \in T
  <2> DEFINE i == n - (k - 1)
             before == EncodeLoop(es)[n - k]
             entry == EncodeEntry(es[i])
  <2>1. i \in 1 .. n /\ i - 1 = n - k /\ n - k \in 0 .. n /\ k \in Nat
    BY <1>1
  <2>2. Holds(data, 0, EncodeLoop(es)[i])
    BY <1>3
  <2> HIDE DEF i
  <2>3. EncodeLoop(es)[i] = EncodeLoop(es)[i - 1] \o entry
    BY <2>1, EncodeLoopExists
  <2>4. es[i] \in Entry
    BY <2>1
  <2>5. entry \in Seq(Byte)
    BY <2>4, EncodeEntryBytes
  <2>6. before \in Seq(Byte)
    BY <2>1, EncodeLoopType
  <2>7. EncodeLoop(es)[i] = before \o entry
    BY <2>1, <2>3
  <2> HIDE DEF data, entry, before
  <2>8. Holds(data, 0, before)
    BY <1>1, <2>2, <2>5, <2>6, <2>7, HoldsConcat
  <2>9. QED  BY <2>1, <2>8 DEF before
<1> HIDE DEF T
<1>4. \A k \in 0 .. n : k \in T
  BY <1>1, <1>2, <1>3, InductionUpTo
<1>5. ASSUME NEW i \in 0 .. n PROVE Holds(data, 0, EncodeLoop(es)[i])
  <2>1. n - i \in 0 .. n /\ n - (n - i) = i
    BY <1>1
  <2>2. QED  BY <1>4, <2>1 DEF T
<1>6. QED  BY <1>5

(* The entries that DecodeEntries has read, and the offset behind them.    *)
EntryState == {Failed} \cup [value : Seq(Entry), next : Nat]

NextEntry(payload, r) ==
    Then(r, LAMBDA before, at :
    Then(DecodeEntry(payload, at), LAMBDA entry, next :
        Read(Append(before, entry), next)))

EntryLoop(payload, count, start) ==
    CHOOSE entries : entries = [i \in 0 .. count |->
        IF i = 0 THEN Read(<<>>, start)
        ELSE Then(entries[i - 1], LAMBDA before, at :
             Then(DecodeEntry(payload, at), LAMBDA entry, next :
                 Read(Append(before, entry), next)))]

LEMMA DecodeEntriesCases ==
    ASSUME NEW payload
    PROVE  LET c == decode_var_uint(payload, 0) IN
           DecodeEntries(payload) =
               IF c.next < 0 \/ c.value > MaxEntries THEN Failed
               ELSE Finished(payload, EntryLoop(payload, c.value, c.next)[c.value])
BY DEF DecodeEntries, Then, EntryLoop

LEMMA NextEntryCases ==
    ASSUME NEW payload, NEW r
    PROVE  LET e == DecodeEntry(payload, r.next) IN
           NextEntry(payload, r) =
               IF r.next < 0 \/ e.next < 0 THEN Failed
               ELSE Read(Append(r.value, e.value), e.next)
BY DEF NextEntry, Then

LEMMA NextEntryType ==
    ASSUME NEW payload \in Seq(Byte), NEW r \in EntryState
    PROVE  NextEntry(payload, r) \in EntryState
<1> DEFINE e == DecodeEntry(payload, r.next)
<1>1. NextEntry(payload, r) =
          IF r.next < 0 \/ e.next < 0 THEN Failed ELSE Read(Append(r.value, e.value), e.next)
  BY NextEntryCases
<1>2. CASE r.next < 0 \/ e.next < 0
  BY <1>1, <1>2 DEF EntryState
<1>3. CASE ~(r.next < 0 \/ e.next < 0)
  <2>1. r # Failed
    BY <1>3, FailedFields
  <2>2. r.value \in Seq(Entry) /\ r.next \in Nat
    BY <2>1 DEF EntryState
  <2>3. Outcome(e)
    BY <2>2, EntryForth
  <2>4. e.next >= 0
    BY <1>3, <2>3, FailedFields DEF Outcome
  <2>5. e.value \in Entry /\ e.next \in Nat
    BY <2>2, <2>4, EntryForth
  <2> HIDE DEF e
  <2>6. Append(r.value, e.value) \in Seq(Entry)
    BY <2>2, <2>5
  <2>7. NextEntry(payload, r) = Read(Append(r.value, e.value), e.next)
    BY <1>1, <1>3
  <2>8. QED  BY <2>5, <2>6, <2>7 DEF EntryState, Read
<1>4. QED  BY <1>2, <1>3

LEMMA EntryLoopExists ==
    ASSUME NEW payload \in Seq(Byte), NEW count \in Nat, NEW start \in Nat
    PROVE  LET loop == EntryLoop(payload, count, start) IN
           /\ loop[0] = Read(<<>>, start)
           /\ \A i \in 1 .. count : loop[i] = NextEntry(payload, loop[i - 1])
           /\ \A i \in 0 .. count : loop[i] \in EntryState
<1> DEFINE first == Read(<<>>, start)
           round == [q \in (1 .. count) \X EntryState |-> NextEntry(payload, q[2])]
<1>1. first \in EntryState
  <2>1. <<>> \in Seq(Entry)
    OBVIOUS
  <2>2. QED  BY <2>1 DEF EntryState, Read
<1>2. round \in [(1 .. count) \X EntryState -> EntryState]
  BY NextEntryType
<1>3. \A n \in 1 .. count, r \in EntryState : round[<<n, r>>] = NextEntry(payload, r)
  OBVIOUS
<1> HIDE DEF first, round
<1>4. PICK f : Rounds(f, EntryState, count, first, round)
  BY <1>1, <1>2, LoopFunction DEF Loop
<1>5. ASSUME NEW i \in 1 .. count PROVE f[i] = NextEntry(payload, f[i - 1])
  <2>1. i - 1 \in 0 .. count
    OBVIOUS
  <2>2. QED  BY <1>3, <1>4, <2>1 DEF Rounds
<1>6. ASSUME NEW i \in 0 .. count
      PROVE  f[i] = IF i = 0 THEN Read(<<>>, start) ELSE NextEntry(payload, f[i - 1])
  <2>1. CASE i = 0
    BY <1>4, <2>1 DEF Rounds, first
  <2>2. CASE i # 0
    <3>1. i \in 1 .. count
      BY <2>2
    <3>2. QED  BY <1>5, <2>2, <3>1
  <2>3. QED  BY <2>1, <2>2
<1>7. f = [i \in 0 .. count |-> IF i = 0 THEN Read(<<>>, start) ELSE NextEntry(payload, f[i - 1])]
  BY <1>4, <1>6 DEF Rounds
<1> DEFINE loop == EntryLoop(payload, count, start)
<1>8. loop = [i \in 0 .. count |->
                 IF i = 0 THEN Read(<<>>, start) ELSE NextEntry(payload, loop[i - 1])]
  BY <1>7 DEF EntryLoop, NextEntry
<1> HIDE DEF loop
<1>9. loop[0] = Read(<<>>, start)
  BY <1>8
<1>10. ASSUME NEW i \in 1 .. count PROVE loop[i] = NextEntry(payload, loop[i - 1])
  <2>1. i \in 0 .. count /\ i # 0
    OBVIOUS
  <2>2. QED  BY <1>8, <2>1
<1> DEFINE T == {i \in Nat : loop[i] \in EntryState}
<1>11. 0 \in T
  BY <1>1, <1>9 DEF first
<1>12. ASSUME NEW i \in 1 .. count, i - 1 \in T PROVE i \in T
  <2>1. i \in Nat /\ loop[i - 1] \in EntryState
    BY <1>12
  <2>2. QED  BY <1>10, <2>1, NextEntryType
<1> HIDE DEF T
<1>13. \A i \in 0 .. count : i \in T
  BY <1>11, <1>12, InductionUpTo
<1>14. QED  BY <1>9, <1>10, <1>13 DEF T, loop

(* The list of entries is read back from the payload of the encoder.       *)
LEMMA EntriesBack ==
    ASSUME NEW es \in Seq(Entry), Len(es) <= MaxEntries, Len(EncodeEntries(es)) \in Number
    PROVE  DecodeEntries(EncodeEntries(es)) = Read(es, Len(EncodeEntries(es)))
<1> DEFINE n == Len(es)
           data == EncodeEntries(es)
           start == Len(EncodeLoop(es)[0])
           loop == EntryLoop(data, n, start)
           T == {i \in Nat : loop[i] = Read(SubSeq(es, 1, i), Len(EncodeLoop(es)[i]))}
<1>1. /\ n \in Nat /\ data \in Seq(Byte) /\ data = EncodeLoop(es)[n] /\ Len(data) \in Number
      /\ \A i \in 0 .. n : EncodeLoop(es)[i] \in Seq(Byte) /\ Holds(data, 0, EncodeLoop(es)[i])
  BY EncodeLoopType, EncodeLoopPrefix DEF EncodeEntries
<1>2. n \in Number
  BY <1>1, CodecAssumption DEF Number
<1>3. EncodeLoop(es)[0] = encode_var_uint(n) /\ start \in Nat
  <2>1. EncodeLoop(es)[0] = encode_var_uint(n)
    BY EncodeLoopExists
  <2>2. 0 \in 0 .. n
    BY <1>1
  <2>3. EncodeLoop(es)[0] \in Seq(Byte)
    BY <1>1, <2>2
  <2>4. QED  BY <2>1, <2>3
<1>4. decode_var_uint(data, 0) = Read(n, start)
  <2>1. Holds(data, 0, encode_var_uint(n))
    BY <1>1, <1>3
  <2>2. decode_var_uint(data, 0) = Read(n, 0 + Len(encode_var_uint(n)))
    BY <1>1, <1>2, <2>1, NumberBack
  <2>3. QED  BY <1>3, <2>2
<1>5. loop[0] = Read(<<>>, start) /\ \A i \in 1 .. n : loop[i] = NextEntry(data, loop[i - 1])
  BY <1>1, <1>3, EntryLoopExists
<1> HIDE DEF data, start, loop
<1>6. 0 \in T
  <2>1. SubSeq(es, 1, 0) = <<>>
    OBVIOUS
  <2>2. QED  BY <1>5, <2>1 DEF start
<1>7. ASSUME NEW i \in 1 .. n, i - 1 \in T PROVE i \in T
  <2> DEFINE p == EncodeLoop(es)[i - 1]
             q == EncodeEntry(es[i])
             e == es[i]
             before == SubSeq(es, 1, i - 1)
  <2>1. /\ i - 1 \in 0 .. n /\ i \in 0 .. n /\ i \in Nat /\ e \in Entry
        /\ Append(before, e) = SubSeq(es, 1, i)
    BY <1>1
  <2>2. /\ p \in Seq(Byte) /\ q \in Seq(Byte) /\ EncodeLoop(es)[i] = p \o q
        /\ Holds(data, 0, EncodeLoop(es)[i])
    BY <1>1, <2>1, EncodeLoopExists, EncodeEntryBytes
  <2>3. loop[i - 1] = Read(before, Len(p))
    BY <1>7
  <2>4. e.state \in Seq(Byte) /\ Len(e.state) <= Len(q)
    <3>1. /\ encode_var_uint(e.client_id) \in Seq(Byte) /\ encode_var_uint(e.clock) \in Seq(Byte)
          /\ encode_var_bytes(e.state) \in Seq(Byte)
          /\ Len(q) = Len(encode_var_uint(e.client_id)) + Len(encode_var_uint(e.clock))
                          + Len(encode_var_bytes(e.state))
      BY <2>1, EncodeEntryBytes
    <3>2. e.state \in Seq(Byte)
      BY <2>1 DEF Entry
    <3>3. Len(encode_var_bytes(e.state)) > Len(e.state)
      BY <3>2, EncodeVarBytes
    <3>4. /\ Len(encode_var_uint(e.client_id)) \in Nat /\ Len(encode_var_uint(e.clock)) \in Nat
          /\ Len(encode_var_bytes(e.state)) \in Nat /\ Len(e.state) \in Nat
      BY <3>1, <3>2
    <3> HIDE DEF e, q
    <3>5. QED  BY <3>1, <3>2, <3>3, <3>4
  <2>5. DecodeEntry(data, Len(p)) = Read(e, Len(p) + Len(q))
    <3> HIDE DEF e, p, q
    <3>1. Len(p) \in Nat /\ Len(q) \in Nat /\ 0 + Len(p) = Len(p)
      BY <2>2
    <3>2. Holds(data, Len(p), q)
      BY <1>1, <2>2, <3>1, HoldsConcat
    <3>3. Len(e.state) \in Number
      <4>1. Len(e.state) \in Nat /\ Len(data) \in Nat /\ Len(p) + Len(q) <= Len(data)
        BY <1>1, <2>4, <3>1, <3>2 DEF Holds
      <4>2. Len(e.state) <= Len(data)
        BY <2>4, <3>1, <4>1
      <4>3. QED  BY <1>1, <4>1, <4>2, CodecAssumption DEF Number
    <3>4. Holds(data, Len(p), EncodeEntry(e)) /\ q = EncodeEntry(e)
      BY <3>2 DEF q, e
    <3>5. QED  BY <1>1, <2>1, <3>1, <3>3, <3>4, EntryBack
  <2>6. /\ Len(EncodeLoop(es)[i]) = Len(p) + Len(q)
        /\ ~(Len(p) < 0) /\ ~(Len(p) + Len(q) < 0)
    <3> HIDE DEF p, q
    <3>1. QED  BY <2>2
  <2> HIDE DEF p, q, e, before
  <2>7. NextEntry(data, loop[i - 1]) = Read(Append(before, e), Len(p) + Len(q))
    BY <2>3, <2>5, <2>6, NextEntryCases, ReadFields
  <2>8. QED  BY <1>5, <2>1, <2>6, <2>7
<1> HIDE DEF T
<1>8. \A i \in 0 .. n : i \in T
  BY <1>1, <1>6, <1>7, InductionUpTo
<1>9. loop[n] = Read(SubSeq(es, 1, n), Len(EncodeLoop(es)[n])) /\ SubSeq(es, 1, n) = es
  BY <1>1, <1>8 DEF T
<1>10. loop[n] = Read(es, Len(data))
  BY <1>1, <1>9
<1>11. ~(start < 0) /\ ~(n > MaxEntries)
  BY <1>1, <1>3, CodecAssumption
<1>12. DecodeEntries(data) = Finished(data, loop[n])
  BY <1>4, <1>11, DecodeEntriesCases, ReadFields DEF loop
<1>13. QED  BY <1>10, <1>12, ReadFields DEF Finished, data

(* One round of the decoder's loop that did not fail.                      *)
LEMMA EntryRead ==
    ASSUME NEW payload \in Seq(Byte), NEW r \in EntryState, NextEntry(payload, r).next >= 0
    PROVE  /\ r.value \in Seq(Entry) /\ r.next \in Nat
           /\ \E e \in Entry :
                  /\ NextEntry(payload, r).value = Append(r.value, e)
                  /\ NextEntry(payload, r).next \in Nat
                  /\ Len(EncodeEntry(e)) <= NextEntry(payload, r).next - r.next
<1> DEFINE e == DecodeEntry(payload, r.next)
<1>1. NextEntry(payload, r) =
          IF r.next < 0 \/ e.next < 0 THEN Failed ELSE Read(Append(r.value, e.value), e.next)
  BY NextEntryCases
<1>2. ~(r.next < 0) /\ ~(e.next < 0)
  BY <1>1, FailedFields
<1>3. r.value \in Seq(Entry) /\ r.next \in Nat
  BY <1>2, FailedFields DEF EntryState
<1>4. Outcome(e)
  BY <1>3, EntryForth
<1>5. e.next >= 0
  BY <1>2, <1>4, FailedFields DEF Outcome
<1>6. e.value \in Entry /\ e.next \in Nat /\ Len(EncodeEntry(e.value)) <= e.next - r.next
  BY <1>3, <1>5, EntryForth
<1>7. NextEntry(payload, r) = Read(Append(r.value, e.value), e.next)
  BY <1>1, <1>2
<1> HIDE DEF e
<1>8. NextEntry(payload, r).value = Append(r.value, e.value) /\ NextEntry(payload, r).next = e.next
  BY <1>7 DEF Read
<1>9. QED  BY <1>3, <1>6, <1>8

(* A payload that is read holds a list of entries, and is no shorter than  *)
(* what the encoder makes of them.                                         *)
LEMMA EntriesForth ==
    ASSUME NEW payload \in Seq(Byte), DecodeEntries(payload).next >= 0
    PROVE  LET es == DecodeEntries(payload).value IN
           /\ es \in Seq(Entry) /\ Len(es) <= MaxEntries
           /\ Len(EncodeEntries(es)) <= Len(payload)
<1> DEFINE c == decode_var_uint(payload, 0)
           count == c.value
           loop == EntryLoop(payload, count, c.next)
           es == loop[count].value
<1>1. /\ ~(c.next < 0) /\ ~(c.value > MaxEntries)
      /\ DecodeEntries(payload) = Finished(payload, loop[count])
  BY DecodeEntriesCases, FailedFields
<1>2. c.next >= 0
  BY <1>1, NumberOutcome, FailedFields DEF Outcome
<1>3. /\ count \in Nat /\ c.next \in Nat /\ count <= MaxEntries
      /\ Len(encode_var_uint(count)) <= c.next
  <2>1. /\ c.value \in Number /\ c.next \in Nat
        /\ Len(encode_var_uint(c.value)) <= c.next - 0
    BY <1>2, NumberForth
  <2>2. c.value \in Nat /\ MaxEntries \in Nat
    BY <2>1, NumberFits, CodecAssumption
  <2>3. QED  BY <1>1, <2>1, <2>2
<1>4. /\ loop[0] = Read(<<>>, c.next)
      /\ \A i \in 1 .. count : loop[i] = NextEntry(payload, loop[i - 1])
      /\ \A i \in 0 .. count : loop[i] \in EntryState
  BY <1>3, EntryLoopExists
<1>5. /\ loop[count].next = Len(payload) /\ DecodeEntries(payload) = loop[count]
      /\ loop[count].next >= 0
  BY <1>1, FailedFields DEF Finished
<1> HIDE DEF loop, c
<1>6. /\ \A i \in 1 .. count : i - 1 \in 0 .. count /\ i \in 0 .. count
      /\ count \in 0 .. count
  BY <1>3
<1>7. \A i \in 0 .. count : loop[i].next >= 0
  <2> DEFINE T == {k \in Nat : loop[count - k].next >= 0}
  <2>1. 0 \in T
    <3>1. count - 0 = count
      BY <1>3
    <3>2. QED  BY <1>5, <3>1
  <2>2. ASSUME NEW k \in 1 .. count, k - 1 \in T PROVE k \in T
    <3> DEFINE i == count - (k - 1)
    <3>1. i \in 1 .. count /\ i - 1 = count - k /\ k \in Nat
      BY <1>3
    <3>2. loop[i].next >= 0
      BY <2>2
    <3> HIDE DEF i
    <3>3. loop[i - 1].next \in Nat
      BY <1>4, <1>6, <3>1, <3>2, EntryRead
    <3>4. QED  BY <3>1, <3>3
  <2> HIDE DEF T
  <2>3. \A k \in 0 .. count : k \in T
    BY <1>3, <2>1, <2>2, InductionUpTo
  <2>4. ASSUME NEW i \in 0 .. count PROVE loop[i].next >= 0
    <3>1. count - i \in 0 .. count /\ count - (count - i) = i
      BY <1>3
    <3>2. QED  BY <2>3, <3>1 DEF T
  <2>5. QED  BY <2>4
<1>8. \A i \in 1 .. count :
          /\ loop[i - 1].value \in Seq(Entry) /\ loop[i - 1].next \in Nat /\ loop[i].next \in Nat
          /\ \E e \in Entry : /\ loop[i].value = Append(loop[i - 1].value, e)
                              /\ Len(EncodeEntry(e)) <= loop[i].next - loop[i - 1].next
  <2>1. ASSUME NEW i \in 1 .. count
        PROVE  /\ loop[i - 1].value \in Seq(Entry) /\ loop[i - 1].next \in Nat
               /\ \E e \in Entry : /\ loop[i].value = Append(loop[i - 1].value, e)
                                   /\ loop[i].next \in Nat
                                   /\ Len(EncodeEntry(e)) <= loop[i].next - loop[i - 1].next
    BY <1>4, <1>6, <1>7, EntryRead
  <2>2. QED  BY <2>1
<1>9. \A i \in 0 .. count : loop[i].value \in Seq(Entry) /\ Len(loop[i].value) = i
  <2> DEFINE T == {i \in Nat : loop[i].value \in Seq(Entry) /\ Len(loop[i].value) = i}
  <2>1. 0 \in T
    <3>1. loop[0].value = <<>>
      BY <1>4, ReadFields
    <3>2. <<>> \in Seq(Entry) /\ Len(<<>>) = 0
      OBVIOUS
    <3>3. QED  BY <3>1, <3>2
  <2>2. ASSUME NEW i \in 1 .. count, i - 1 \in T PROVE i \in T
    <3>1. PICK e \in Entry : loop[i].value = Append(loop[i - 1].value, e)
      BY <1>8
    <3>2. loop[i - 1].value \in Seq(Entry) /\ Len(loop[i - 1].value) = i - 1
      BY <2>2
    <3> DEFINE s == loop[i - 1].value
    <3>3. s \in Seq(Entry) /\ Len(s) = i - 1 /\ i \in Nat
      BY <3>2
    <3> HIDE DEF s
    <3>4. Append(s, e) \in Seq(Entry) /\ Len(Append(s, e)) = i
      BY <3>3
    <3>5. loop[i].value \in Seq(Entry) /\ Len(loop[i].value) = i
      BY <3>1, <3>4 DEF s
    <3>6. QED  BY <3>3, <3>5
  <2> HIDE DEF T
  <2>3. \A i \in 0 .. count : i \in T
    BY <1>3, <2>1, <2>2, InductionUpTo
  <2>4. QED  BY <2>3 DEF T
<1>10. es \in Seq(Entry) /\ Len(es) = count
  BY <1>6, <1>9
<1>11. \A i \in 0 .. count : loop[i].value = SubSeq(es, 1, i)
  <2> DEFINE T == {k \in Nat : loop[count - k].value = SubSeq(es, 1, count - k)}
  <2>1. 0 \in T
    <3>1. count - 0 = count
      BY <1>3
    <3>2. SubSeq(es, 1, count) = es
      BY <1>10
    <3>3. QED  BY <3>1, <3>2
  <2>2. ASSUME NEW k \in 1 .. count, k - 1 \in T PROVE k \in T
    <3> DEFINE i == count - (k - 1)
    <3>1. i \in 1 .. count /\ i - 1 = count - k /\ k \in Nat
      BY <1>3
    <3>2. loop[i].value = SubSeq(es, 1, i)
      BY <2>2
    <3> HIDE DEF i
    <3>3. PICK e \in Entry : loop[i].value = Append(loop[i - 1].value, e)
      BY <1>8, <3>1
    <3> DEFINE s == loop[i - 1].value
    <3>4. s \in Seq(Entry) /\ Len(s) = i - 1
      BY <1>6, <1>9, <3>1
    <3> HIDE DEF s, es
    <3>5. Append(s, e) = SubSeq(es, 1, i)
      BY <3>2, <3>3 DEF s
    <3>6. \A j \in 1 .. (i - 1) : s[j] = es[j]
      <4>1. ASSUME NEW j \in 1 .. (i - 1) PROVE s[j] = es[j]
        <5>1. Append(s, e)[j] = s[j]
          BY <3>4
        <5>2. SubSeq(es, 1, i)[j] = es[j]
          BY <1>10, <3>1
        <5>3. QED  BY <3>5, <5>1, <5>2
      <4>2. QED  BY <4>1
    <3>7. s = SubSeq(es, 1, i - 1)
      BY <1>10, <3>1, <3>4, <3>6
    <3>8. QED  BY <3>1, <3>7 DEF s
  <2> HIDE DEF T
  <2>3. \A k \in 0 .. count : k \in T
    BY <1>3, <2>1, <2>2, InductionUpTo
  <2>4. ASSUME NEW i \in 0 .. count PROVE loop[i].value = SubSeq(es, 1, i)
    <3>1. count - i \in 0 .. count /\ count - (count - i) = i
      BY <1>3
    <3>2. QED  BY <2>3, <3>1 DEF T
  <2>5. QED  BY <2>4
<1> HIDE DEF es
<1>12. \A i \in 0 .. count : Len(EncodeLoop(es)[i]) <= loop[i].next
  <2> DEFINE T == {i \in Nat : Len(EncodeLoop(es)[i]) <= loop[i].next}
  <2>1. 0 \in T
    <3>1. EncodeLoop(es)[0] = encode_var_uint(count)
      BY <1>10, EncodeLoopExists
    <3>2. loop[0].next = c.next
      BY <1>4, ReadFields
    <3>3. QED  BY <1>3, <3>1, <3>2
  <2>2. ASSUME NEW i \in 1 .. count, i - 1 \in T PROVE i \in T
    <3>1. PICK e \in Entry : /\ loop[i].value = Append(loop[i - 1].value, e)
                             /\ Len(EncodeEntry(e)) <= loop[i].next - loop[i - 1].next
      BY <1>8
    <3>2. /\ loop[i - 1].value \in Seq(Entry) /\ Len(loop[i - 1].value) = i - 1
          /\ i \in Nat /\ loop[i].value = SubSeq(es, 1, i)
      BY <1>6, <1>9, <1>11
    <3>3. es[i] = e
      <4>1. Append(loop[i - 1].value, e)[i] = e
        BY <3>2
      <4>2. SubSeq(es, 1, i)[i] = es[i]
        BY <1>10
      <4>3. QED  BY <3>1, <3>2, <4>1, <4>2
    <3> DEFINE p == EncodeLoop(es)[i - 1]
               q == EncodeEntry(e)
    <3>4. EncodeLoop(es)[i] = p \o q
      BY <1>10, <3>3, EncodeLoopExists
    <3>5. p \in Seq(Byte) /\ q \in Seq(Byte)
      BY <1>6, <1>10, EncodeLoopType, EncodeEntryBytes
    <3>6. Len(p) <= loop[i - 1].next
      BY <2>2
    <3> HIDE DEF p, q
    <3>7. Len(p \o q) = Len(p) + Len(q) /\ Len(p) \in Nat /\ Len(q) \in Nat
      BY <3>5
    <3>8. loop[i - 1].next \in Nat /\ loop[i].next \in Nat
      BY <1>8
    <3>9. Len(q) <= loop[i].next - loop[i - 1].next
      BY <3>1 DEF q
    <3>10. Len(p \o q) <= loop[i].next
      BY <3>6, <3>7, <3>8, <3>9
    <3>11. QED  BY <3>2, <3>4, <3>10
  <2> HIDE DEF T
  <2>3. \A i \in 0 .. count : i \in T
    BY <1>3, <2>1, <2>2, InductionUpTo
  <2>4. QED  BY <2>3 DEF T
<1>13. Len(EncodeEntries(es)) <= Len(payload)
  BY <1>5, <1>6, <1>10, <1>12 DEF EncodeEntries
<1>14. QED  BY <1>3, <1>5, <1>10, <1>13 DEF es

-----------------------------------------------------------------------------
(***************************************************************************)
(* Messages                                                                *)
(***************************************************************************)
LEMMA TwoParts ==
    ASSUME NEW a \in Seq(Byte), NEW b \in Seq(Byte)
    PROVE  /\ a \o b \in Seq(Byte) /\ Len(a \o b) = Len(a) + Len(b)
           /\ Holds(a \o b, 0, a) /\ Holds(a \o b, Len(a), b)
<1> DEFINE u == a \o b
<1>1. /\ u \in Seq(Byte) /\ Len(u) = Len(a) + Len(b) /\ Len(a) \in Nat /\ Len(b) \in Nat
      /\ 0 + Len(a) = Len(a)
  OBVIOUS
<1>2. Holds(u, 0, u)
  <2> HIDE DEF u
  <2>1. QED  BY <1>1 DEF Holds
<1>3. Holds(u, 0, a) /\ Holds(u, 0 + Len(a), b)
  BY <1>1, <1>2, HoldsConcat
<1> HIDE DEF u
<1>4. Holds(u, Len(a), b)
  BY <1>1, <1>3
<1>5. QED  BY <1>1, <1>3, <1>4 DEF u

LEMMA ThreeParts ==
    ASSUME NEW a \in Seq(Byte), NEW b \in Seq(Byte), NEW c \in Seq(Byte)
    PROVE  LET u == (a \o b) \o c IN
           /\ u \in Seq(Byte) /\ Len(u) = (Len(a) + Len(b)) + Len(c)
           /\ Holds(u, 0, a) /\ Holds(u, Len(a), b) /\ Holds(u, Len(a) + Len(b), c)
<1> DEFINE ab == a \o b
           u == ab \o c
<1>1. /\ ab \in Seq(Byte) /\ Len(ab) = Len(a) + Len(b)
      /\ Len(a) \in Nat /\ Len(b) \in Nat /\ Len(c) \in Nat /\ 0 + Len(a) = Len(a)
  OBVIOUS
<1>2. /\ u \in Seq(Byte) /\ Len(u) = Len(ab) + Len(c)
      /\ Holds(u, 0, ab) /\ Holds(u, Len(ab), c)
  <2> HIDE DEF ab
  <2>1. QED  BY <1>1, TwoParts
<1> HIDE DEF u
<1>3. Holds(u, 0, a) /\ Holds(u, 0 + Len(a), b)
  BY <1>2, HoldsConcat
<1>4. Holds(u, Len(a), b) /\ Holds(u, Len(a) + Len(b), c) /\ Len(u) = (Len(a) + Len(b)) + Len(c)
  <2> HIDE DEF ab
  <2>1. QED  BY <1>1, <1>2, <1>3
<1>5. QED  BY <1>2, <1>3, <1>4 DEF u

LEMMA ParsedCases ==
    ASSUME NEW f
    PROVE  LET t == decode_var_uint(f, 0) IN
           Parsed(f) =
               IF t.next < 0 THEN Failed
               ELSE IF t.value = 0 THEN ParseSync(f, t.next)
               ELSE IF t.value = 1 THEN ParseAwareness(f, t.next)
               ELSE IF t.value = 2 THEN ParseAuth(f, t.next)
               ELSE IF t.value = 3 /\ t.next = Len(f) THEN Read(Query, t.next)
               ELSE Failed
BY ReadFields DEF Parsed, Then, Finished,
    MESSAGE_SYNC, MESSAGE_AWARENESS, MESSAGE_AUTH, MESSAGE_QUERY_AWARENESS

LEMMA ParseSyncCases ==
    ASSUME NEW f, NEW o
    PROVE  LET s == decode_var_uint(f, o)
               p == decode_var_bytes(f, s.next)
           IN ParseSync(f, o) =
                  IF s.next < 0 \/ s.value \notin SyncSubtypes \/ p.next # Len(f) \/ p.next < 0
                     THEN Failed
                  ELSE Read(Sync(s.value, p.value), p.next)
BY FailedFields DEF ParseSync, Then, Finished

LEMMA ParseAwarenessCases ==
    ASSUME NEW f, NEW o
    PROVE  LET p == decode_var_bytes(f, o)
               e == DecodeEntries(p.value)
           IN ParseAwareness(f, o) =
                  IF p.next # Len(f) \/ p.next < 0 \/ e.next < 0 THEN Failed
                  ELSE Read(AwarenessOf(e.value), p.next)
BY FailedFields DEF ParseAwareness, Then, Finished

LEMMA ParseAuthCases ==
    ASSUME NEW f, NEW o
    PROVE  LET s == decode_var_uint(f, o)
               p == DecodeVarString(f, s.next)
           IN ParseAuth(f, o) =
                  IF s.next < 0 \/ s.value # 0 \/ p.next # Len(f) \/ p.next < 0 THEN Failed
                  ELSE Read(Auth(s.value, p.value), p.next)
BY FailedFields DEF ParseAuth, Then, Finished, AUTH_PERMISSION_DENIED

(* The types and subtypes of messages are numbers.                         *)
LEMMA TypeNumbers ==
    /\ \A t \in 0 .. 5 : t \in Number
    /\ SyncSubtypes \subseteq 0 .. 5 /\ CustomTypes \subseteq 0 .. 5
BY CodecAssumption DEF Number, SyncSubtypes, CustomTypes

LEMMA MessageCases ==
    ASSUME NEW m
    PROVE  m \in Message <=>
               \/ \E t \in SyncSubtypes, p \in Seq(Byte) : m = Sync(t, p)
               \/ \E es \in Seq(Entry) : Len(es) <= MaxEntries /\ m = AwarenessOf(es)
               \/ m = Query
               \/ \E p \in Seq(Byte) \cap Utf8 : m = Auth(0, p)
               \/ \E t \in CustomTypes, p \in Seq(Byte) : m = Custom(t, p)
BY DEF Message, Sync, AwarenessOf, Query, Auth, Custom, AUTH_PERMISSION_DENIED

LEMMA EncodeCases ==
    ASSUME NEW t, NEW p
    PROVE  /\ Encode(Sync(t, p)) = encode_sync_message(t, p)
           /\ Encode(AwarenessOf(p)) = encode_awareness_message(p)
           /\ Encode(Query) = encode_var_uint(3)
           /\ Encode(Auth(t, p)) = encode_permission_denied(p)
           /\ Encode(Custom(t, p)) = EncodeCustom(t, p)
BY DEF Encode, Sync, AwarenessOf, Query, Auth, Custom, MESSAGE_QUERY_AWARENESS

(* What each encoder writes is parsed at its full length.                  *)
SizeFits(f) == f \in Seq(Byte) /\ Len(f) >= 1 /\ Len(f) \in Number

LEMMA PartFits ==
    ASSUME NEW p \in Seq(Byte), NEW n \in Number, Len(encode_var_bytes(p)) <= n
    PROVE  Len(p) \in Number
<1>1. Len(p) \in Nat /\ Len(encode_var_bytes(p)) \in Nat
  <2>1. encode_var_bytes(p) \in Seq(Byte)
    BY EncodeVarBytes
  <2>2. QED  BY <2>1
<1>2. n \in Nat /\ n <= MaxSafe /\ MaxSafe \in Nat
  BY CodecAssumption DEF Number
<1>3. Len(encode_var_bytes(p)) > Len(p)
  BY EncodeVarBytes
<1>4. QED  BY <1>1, <1>2, <1>3 DEF Number

LEMMA SyncBack ==
    ASSUME NEW t \in SyncSubtypes, NEW p \in Seq(Byte), Len(encode_sync_message(t, p)) <= MaxSafe
    PROVE  /\ SizeFits(encode_sync_message(t, p))
           /\ Parsed(encode_sync_message(t, p)) = Read(Sync(t, p), Len(encode_sync_message(t, p)))
<1> DEFINE a == encode_var_uint(0)
           b == encode_var_uint(t)
           c == encode_var_bytes(p)
           f == (a \o b) \o c
<1>1. encode_sync_message(t, p) = f
  BY DEF encode_sync_message, MESSAGE_SYNC
<1>2. 0 \in Number /\ t \in Number
  BY TypeNumbers
<1>3. /\ a \in Seq(Byte) /\ b \in Seq(Byte) /\ c \in Seq(Byte)
      /\ Len(a) \in Nat /\ Len(b) \in Nat /\ Len(c) \in Nat /\ Len(a) >= 1
  <2>1. Digits(a) /\ Digits(b) /\ c \in Seq(Byte)
    BY <1>2, NumberFits, EncodeVarBytes
  <2> HIDE DEF a, b, c
  <2>2. QED  BY <2>1 DEF Digits
<1> HIDE DEF a, b, c
<1>4. /\ f \in Seq(Byte) /\ Len(f) = (Len(a) + Len(b)) + Len(c)
      /\ Holds(f, 0, a) /\ Holds(f, Len(a), b) /\ Holds(f, Len(a) + Len(b), c)
  BY <1>3, ThreeParts
<1>5. Len(f) <= MaxSafe
  BY <1>1
<1> HIDE DEF f
<1>6. SizeFits(f) /\ Len(f) \in Number
  BY <1>3, <1>4, <1>5, CodecAssumption DEF SizeFits, Number
<1>7. Len(p) \in Number
  <2>1. Len(c) <= Len(f)
    BY <1>3, <1>4
  <2>2. QED  BY <1>6, <2>1, PartFits DEF c
<1>8. decode_var_uint(f, 0) = Read(0, Len(a))
  <2>1. decode_var_uint(f, 0) = Read(0, 0 + Len(a))
    BY <1>2, <1>4, NumberBack DEF a
  <2>2. QED  BY <1>3, <2>1
<1>9. decode_var_uint(f, Len(a)) = Read(t, Len(a) + Len(b))
  BY <1>2, <1>3, <1>4, NumberBack DEF b
<1>10. decode_var_bytes(f, Len(a) + Len(b)) = Read(p, Len(f))
  <2>1. Len(a) + Len(b) \in Nat
    BY <1>3
  <2>2. decode_var_bytes(f, Len(a) + Len(b)) = Read(p, (Len(a) + Len(b)) + Len(c))
    BY <1>4, <1>7, <2>1, BytesBack DEF c
  <2>3. QED  BY <1>4, <2>2
<1>11. ~(Len(a) < 0) /\ ~(Len(a) + Len(b) < 0) /\ ~(Len(f) < 0)
  BY <1>3, <1>4
<1>12. ParseSync(f, Len(a)) = Read(Sync(t, p), Len(f))
  BY <1>9, <1>10, <1>11, ParseSyncCases, ReadFields
<1>13. Parsed(f) = ParseSync(f, Len(a))
  BY <1>8, <1>11, ParsedCases, ReadFields
<1>14. QED  BY <1>1, <1>6, <1>12, <1>13

LEMMA AuthBack ==
    ASSUME NEW p \in Seq(Byte) \cap Utf8, Len(encode_permission_denied(p)) <= MaxSafe
    PROVE  /\ SizeFits(encode_permission_denied(p))
           /\ Parsed(encode_permission_denied(p))
                  = Read(Auth(0, p), Len(encode_permission_denied(p)))
<1> DEFINE a == encode_var_uint(2)
           b == encode_var_uint(0)
           c == encode_var_bytes(p)
           f == (a \o b) \o c
<1>1. encode_permission_denied(p) = f
  BY DEF encode_permission_denied, MESSAGE_AUTH, AUTH_PERMISSION_DENIED
<1>2. 0 \in Number /\ 2 \in Number
  BY TypeNumbers
<1>3. /\ a \in Seq(Byte) /\ b \in Seq(Byte) /\ c \in Seq(Byte)
      /\ Len(a) \in Nat /\ Len(b) \in Nat /\ Len(c) \in Nat /\ Len(a) >= 1
  <2>1. Digits(a) /\ Digits(b) /\ c \in Seq(Byte)
    BY <1>2, NumberFits, EncodeVarBytes
  <2> HIDE DEF a, b, c
  <2>2. QED  BY <2>1 DEF Digits
<1> HIDE DEF a, b, c
<1>4. /\ f \in Seq(Byte) /\ Len(f) = (Len(a) + Len(b)) + Len(c)
      /\ Holds(f, 0, a) /\ Holds(f, Len(a), b) /\ Holds(f, Len(a) + Len(b), c)
  BY <1>3, ThreeParts
<1>5. Len(f) <= MaxSafe
  BY <1>1
<1> HIDE DEF f
<1>6. SizeFits(f) /\ Len(f) \in Number
  BY <1>3, <1>4, <1>5, CodecAssumption DEF SizeFits, Number
<1>7. Len(p) \in Number
  <2>1. Len(c) <= Len(f)
    BY <1>3, <1>4
  <2>2. QED  BY <1>6, <2>1, PartFits DEF c
<1>8. decode_var_uint(f, 0) = Read(2, Len(a))
  <2>1. decode_var_uint(f, 0) = Read(2, 0 + Len(a))
    BY <1>2, <1>4, NumberBack DEF a
  <2>2. QED  BY <1>3, <2>1
<1>9. decode_var_uint(f, Len(a)) = Read(0, Len(a) + Len(b))
  BY <1>2, <1>3, <1>4, NumberBack DEF b
<1>10. DecodeVarString(f, Len(a) + Len(b)) = Read(p, Len(f))
  <2>1. Len(a) + Len(b) \in Nat
    BY <1>3
  <2>2. DecodeVarString(f, Len(a) + Len(b)) = Read(p, (Len(a) + Len(b)) + Len(c))
    BY <1>4, <1>7, <2>1, StringBack DEF c
  <2>3. QED  BY <1>4, <2>2
<1>11. ~(Len(a) < 0) /\ ~(Len(a) + Len(b) < 0) /\ ~(Len(f) < 0)
  BY <1>3, <1>4
<1>12. ParseAuth(f, Len(a)) = Read(Auth(0, p), Len(f))
  BY <1>9, <1>10, <1>11, ParseAuthCases, ReadFields
<1>13. Parsed(f) = ParseAuth(f, Len(a))
  BY <1>8, <1>11, ParsedCases, ReadFields
<1>14. QED  BY <1>1, <1>6, <1>12, <1>13

(* A number for the type and a payload: awareness and custom events.       *)
LEMMA TypeAndPayload ==
    ASSUME NEW t \in 0 .. 5, NEW p \in Seq(Byte), NEW f,
           f = encode_var_uint(t) \o encode_var_bytes(p), Len(f) <= MaxSafe
    PROVE  /\ SizeFits(f) /\ Len(p) \in Number
           /\ Len(encode_var_uint(t)) \in Nat
           /\ decode_var_uint(f, 0) = Read(t, Len(encode_var_uint(t)))
           /\ decode_var_bytes(f, Len(encode_var_uint(t))) = Read(p, Len(f))
<1> DEFINE a == encode_var_uint(t)
           c == encode_var_bytes(p)
<1>1. t \in Number
  BY TypeNumbers
<1>2. /\ a \in Seq(Byte) /\ c \in Seq(Byte)
      /\ Len(a) \in Nat /\ Len(c) \in Nat /\ Len(a) >= 1
  <2>1. Digits(a) /\ c \in Seq(Byte)
    BY <1>1, NumberFits, EncodeVarBytes
  <2> HIDE DEF a, c
  <2>2. QED  BY <2>1 DEF Digits
<1> HIDE DEF a, c
<1>3. /\ f \in Seq(Byte) /\ Len(f) = Len(a) + Len(c)
      /\ Holds(f, 0, a) /\ Holds(f, Len(a), c)
  BY <1>2, TwoParts DEF a, c
<1>4. SizeFits(f) /\ Len(f) \in Number
  BY <1>2, <1>3, CodecAssumption DEF SizeFits, Number
<1>5. Len(p) \in Number
  <2>1. Len(c) <= Len(f)
    BY <1>2, <1>3
  <2>2. QED  BY <1>4, <2>1, PartFits DEF c
<1>6. decode_var_uint(f, 0) = Read(t, Len(a))
  <2>1. decode_var_uint(f, 0) = Read(t, 0 + Len(a))
    BY <1>1, <1>3, NumberBack DEF a
  <2>2. QED  BY <1>2, <2>1
<1>7. decode_var_bytes(f, Len(a)) = Read(p, Len(f))
  <2>1. decode_var_bytes(f, Len(a)) = Read(p, Len(a) + Len(c))
    BY <1>2, <1>3, <1>5, BytesBack DEF c
  <2>2. QED  BY <1>3, <2>1
<1>8. QED  BY <1>2, <1>4, <1>5, <1>6, <1>7 DEF a

LEMMA AwarenessBack ==
    ASSUME NEW es \in Seq(Entry), Len(es) <= MaxEntries,
           Len(encode_awareness_message(es)) <= MaxSafe
    PROVE  LET f == encode_awareness_message(es) IN
           SizeFits(f) /\ Parsed(f) = Read(AwarenessOf(es), Len(f))
<1> DEFINE f == encode_awareness_message(es)
           p == EncodeEntries(es)
           a == encode_var_uint(1)
<1>1. f = a \o encode_var_bytes(p)
  BY EncodeAwareness DEF MESSAGE_AWARENESS
<1>2. p \in Seq(Byte) /\ 1 \in 0 .. 5
  BY EncodeLoopType
<1> HIDE DEF f, p
<1>3. /\ SizeFits(f) /\ Len(p) \in Number /\ Len(a) \in Nat
      /\ decode_var_uint(f, 0) = Read(1, Len(a))
      /\ decode_var_bytes(f, Len(a)) = Read(p, Len(f))
  BY <1>1, <1>2, TypeAndPayload DEF f
<1> HIDE DEF a
<1>4. DecodeEntries(p) = Read(es, Len(p))
  BY <1>3, EntriesBack DEF p
<1>5. ~(Len(a) < 0) /\ ~(Len(f) < 0) /\ ~(Len(p) < 0)
  BY <1>2, <1>3 DEF SizeFits
<1>6. ParseAwareness(f, Len(a)) = Read(AwarenessOf(es), Len(f))
  BY <1>3, <1>4, <1>5, ParseAwarenessCases, ReadFields
<1>7. Parsed(f) = ParseAwareness(f, Len(a))
  BY <1>3, <1>5, ParsedCases, ReadFields
<1>8. QED  BY <1>3, <1>6, <1>7 DEF f

LEMMA QueryBack ==
    ASSUME Len(encode_var_uint(3)) <= MaxSafe
    PROVE  LET f == encode_var_uint(3) IN SizeFits(f) /\ Parsed(f) = Read(Query, Len(f))
<1> DEFINE f == encode_var_uint(3)
<1>1. 3 \in Number
  BY TypeNumbers
<1>2. Digits(f)
  BY <1>1, NumberFits
<1>3. Len(f) <= MaxSafe
  OBVIOUS
<1> HIDE DEF f
<1>4. f \in Seq(Byte) /\ Len(f) \in Nat /\ Len(f) >= 1
  BY <1>2 DEF Digits
<1>5. SizeFits(f)
  BY <1>3, <1>4, CodecAssumption DEF SizeFits, Number
<1>6. Holds(f, 0, f)
  BY <1>4 DEF Holds
<1>7. decode_var_uint(f, 0) = Read(3, Len(f))
  <2>1. decode_var_uint(f, 0) = Read(3, 0 + Len(f))
    BY <1>1, <1>4, <1>6, NumberBack DEF f
  <2>2. QED  BY <1>4, <2>1
<1>8. ~(Len(f) < 0)
  BY <1>4
<1>9. Parsed(f) = Read(Query, Len(f))
  BY <1>7, <1>8, ParsedCases, ReadFields
<1>10. QED  BY <1>5, <1>9 DEF f

(* The custom events are of types that are not parsed.                     *)
LEMMA CustomBack ==
    ASSUME NEW t \in CustomTypes, NEW p \in Seq(Byte), Len(EncodeCustom(t, p)) <= MaxSafe
    PROVE  SizeFits(EncodeCustom(t, p)) /\ Parsed(EncodeCustom(t, p)) = Failed
<1> DEFINE f == EncodeCustom(t, p)
           n == Len(encode_var_uint(t))
<1>1. t \in 0 .. 5 /\ t \notin {0, 1, 2, 3}
  BY DEF CustomTypes
<1>2. f = encode_var_uint(t) \o encode_var_bytes(p)
  BY DEF EncodeCustom
<1> HIDE DEF f
<1>3. SizeFits(f) /\ n \in Nat /\ decode_var_uint(f, 0) = Read(t, n)
  BY <1>1, <1>2, TypeAndPayload DEF f
<1> HIDE DEF n
<1>4. Parsed(f) = Failed
  BY <1>1, <1>3, ParsedCases, ReadFields
<1>5. QED  BY <1>3, <1>4 DEF f

LEMMA ParsedBack ==
    ASSUME NEW m \in Message, Len(Encode(m)) <= MaxSafe
    PROVE  /\ SizeFits(Encode(m))
           /\ Parsed(Encode(m)) = IF m.kind = "custom" THEN Failed ELSE Read(m, Len(Encode(m)))
<1>1. CASE \E t \in SyncSubtypes, p \in Seq(Byte) : m = Sync(t, p)
  <2>1. PICK t \in SyncSubtypes, p \in Seq(Byte) : m = Sync(t, p)
    BY <1>1
  <2>2. Encode(m) = encode_sync_message(t, p) /\ m.kind # "custom"
    BY <2>1, EncodeCases DEF Sync
  <2>3. QED  BY <2>1, <2>2, SyncBack
<1>2. CASE \E es \in Seq(Entry) : Len(es) <= MaxEntries /\ m = AwarenessOf(es)
  <2>1. PICK es \in Seq(Entry) : Len(es) <= MaxEntries /\ m = AwarenessOf(es)
    BY <1>2
  <2>2. Encode(m) = encode_awareness_message(es) /\ m.kind # "custom"
    BY <2>1, EncodeCases DEF AwarenessOf
  <2>3. QED  BY <2>1, <2>2, AwarenessBack
<1>3. CASE m = Query
  <2>1. Encode(m) = encode_var_uint(3) /\ m.kind # "custom"
    BY <1>3, EncodeCases DEF Query
  <2>2. QED  BY <1>3, <2>1, QueryBack
<1>4. CASE \E p \in Seq(Byte) \cap Utf8 : m = Auth(0, p)
  <2>1. PICK p \in Seq(Byte) \cap Utf8 : m = Auth(0, p)
    BY <1>4
  <2>2. Encode(m) = encode_permission_denied(p) /\ m.kind # "custom"
    BY <2>1, EncodeCases DEF Auth
  <2>3. QED  BY <2>1, <2>2, AuthBack
<1>5. CASE \E t \in CustomTypes, p \in Seq(Byte) : m = Custom(t, p)
  <2>1. PICK t \in CustomTypes, p \in Seq(Byte) : m = Custom(t, p)
    BY <1>5
  <2>2. Encode(m) = EncodeCustom(t, p) /\ m.kind = "custom"
    BY <2>1, EncodeCases DEF Custom
  <2>3. QED  BY <2>1, <2>2, CustomBack
<1>6. QED  BY <1>1, <1>2, <1>3, <1>4, <1>5, MessageCases

(* For every message: what its encoder writes is parsed as the message, or *)
(* as an error if it is a custom event (encode_* and parse_message).       *)
THEOREM MessageBack ==
    ASSUME NEW m, WellFormed(m)
    PROVE  /\ Encode(m) \in Seq(Byte)
           /\ parse_message(Encode(m)) = IF m.kind = "custom" THEN ProtocolError ELSE m
<1> DEFINE f == Encode(m)
<1>1. m \in Message /\ Len(f) <= MaxSize
  BY DEF WellFormed
<1>2. MaxSize \in Nat /\ MaxSafe \in Nat /\ MaxSize <= MaxSafe
  BY CodecAssumption
<1>3. SizeFits(f) /\ Parsed(f) = IF m.kind = "custom" THEN Failed ELSE Read(m, Len(f))
  <2>1. Len(f) <= MaxSafe
    BY <1>1, <1>2
  <2>2. QED  BY <1>1, <2>1, ParsedBack
<1> HIDE DEF f
<1>4. f \in Seq(Byte) /\ Len(f) \in Nat /\ Len(f) \in 1 .. MaxSize
  BY <1>1, <1>2, <1>3 DEF SizeFits
<1>5. parse_message(f) = IF m.kind = "custom" THEN ProtocolError ELSE m
  BY <1>3, <1>4, FailedFields, ReadFields DEF parse_message
<1>6. QED  BY <1>4, <1>5 DEF f

-----------------------------------------------------------------------------
(* A frame that is parsed is a message, whose own frame is no longer.      *)
Relayable(f, r) ==
    /\ r.next = Len(f)
    /\ r.value \in Message /\ r.value.kind # "custom"
    /\ Len(Encode(r.value)) <= Len(f)

LEMMA EncodeLength ==
    ASSUME NEW v \in Number, NEW p \in Seq(Byte)
    PROVE  /\ encode_var_uint(v) \in Seq(Byte) /\ Len(encode_var_uint(v)) \in Nat
           /\ encode_var_bytes(p) \in Seq(Byte) /\ Len(encode_var_bytes(p)) \in Nat
<1>1. Digits(encode_var_uint(v)) /\ encode_var_bytes(p) \in Seq(Byte)
  BY NumberFits, EncodeVarBytes
<1>2. QED  BY <1>1 DEF Digits

LEMMA BytesMonotone ==
    ASSUME NEW p \in Seq(Byte), NEW q \in Seq(Byte), Len(q) <= Len(p)
    PROVE  Len(encode_var_bytes(q)) <= Len(encode_var_bytes(p))
<1>1. Len(q) \in Nat /\ Len(p) \in Nat
  OBVIOUS
<1>2. Len(encode_var_uint(Len(q))) <= Len(encode_var_uint(Len(p)))
  BY <1>1, EncodeMonotone
<1>3. Digits(encode_var_uint(Len(q))) /\ Digits(encode_var_uint(Len(p)))
  BY <1>1, EncodeDigits
<1>4. Len(encode_var_uint(Len(q))) \in Nat /\ Len(encode_var_uint(Len(p))) \in Nat
  BY <1>3 DEF Digits
<1>5. /\ Len(encode_var_bytes(q)) = Len(encode_var_uint(Len(q))) + Len(q)
      /\ Len(encode_var_bytes(p)) = Len(encode_var_uint(Len(p))) + Len(p)
  BY EncodeVarBytes
<1>6. QED  BY <1>1, <1>2, <1>4, <1>5

(* The length of a message with a subtype: sync and permission denied.     *)
LEMMA SubtypeLength ==
    ASSUME NEW t \in Number, NEW s \in Number, NEW p \in Seq(Byte),
           NEW i \in Nat, NEW j \in Nat, NEW n \in Nat,
           Len(encode_var_uint(t)) <= i, Len(encode_var_uint(s)) <= j - i,
           Len(encode_var_bytes(p)) <= n - j
    PROVE  Len((encode_var_uint(t) \o encode_var_uint(s)) \o encode_var_bytes(p)) <= n
<1> DEFINE a == encode_var_uint(t)
           b == encode_var_uint(s)
           c == encode_var_bytes(p)
<1>1. /\ a \in Seq(Byte) /\ b \in Seq(Byte) /\ c \in Seq(Byte)
      /\ Len(a) \in Nat /\ Len(b) \in Nat /\ Len(c) \in Nat
      /\ Len(a) <= i /\ Len(b) <= j - i /\ Len(c) <= n - j
  BY EncodeLength
<1> HIDE DEF a, b, c
<1>2. Len((a \o b) \o c) = (Len(a) + Len(b)) + Len(c)
  BY <1>1, ThreeParts
<1>3. Len((a \o b) \o c) <= n
  BY <1>1, <1>2
<1>4. QED  BY <1>3 DEF a, b, c

LEMMA SyncForth ==
    ASSUME NEW f \in Seq(Byte), NEW o \in Nat, Len(encode_var_uint(0)) <= o,
           ParseSync(f, o).next >= 0
    PROVE  Relayable(f, ParseSync(f, o))
<1> DEFINE s == decode_var_uint(f, o)
           p == decode_var_bytes(f, s.next)
           r == ParseSync(f, o)
<1>1. /\ ~(s.next < 0) /\ s.value \in SyncSubtypes /\ p.next = Len(f) /\ ~(p.next < 0)
      /\ r = Read(Sync(s.value, p.value), p.next)
  BY ParseSyncCases, FailedFields
<1>2. s.next >= 0
  BY <1>1, NumberOutcome, FailedFields DEF Outcome
<1>3. s.value \in Number /\ s.next \in Nat /\ Len(encode_var_uint(s.value)) <= s.next - o
  BY <1>2, NumberForth
<1> HIDE DEF s
<1>4. p.next >= 0
  BY <1>1, <1>3, BytesOutcome, FailedFields DEF Outcome
<1>5. p.value \in Seq(Byte) /\ p.next \in Nat /\ Len(encode_var_bytes(p.value)) <= p.next - s.next
  BY <1>3, <1>4, BytesForth
<1> HIDE DEF p, r
<1>6. r.value = Sync(s.value, p.value) /\ r.next = Len(f)
  BY <1>1, ReadFields
<1>7. r.value \in Message /\ r.value.kind # "custom"
  BY <1>1, <1>5, <1>6, MessageCases DEF Sync
<1>8. Encode(r.value) =
          (encode_var_uint(0) \o encode_var_uint(s.value)) \o encode_var_bytes(p.value)
  BY <1>6, EncodeCases DEF encode_sync_message, MESSAGE_SYNC
<1>9. 0 \in Number
  BY TypeNumbers
<1>10. Len(Encode(r.value)) <= Len(f)
  BY <1>1, <1>3, <1>5, <1>8, <1>9, SubtypeLength
<1>11. QED  BY <1>6, <1>7, <1>10 DEF Relayable, r

LEMMA AuthForth ==
    ASSUME NEW f \in Seq(Byte), NEW o \in Nat, Len(encode_var_uint(2)) <= o,
           ParseAuth(f, o).next >= 0
    PROVE  Relayable(f, ParseAuth(f, o))
<1> DEFINE s == decode_var_uint(f, o)
           p == DecodeVarString(f, s.next)
           r == ParseAuth(f, o)
<1>1. /\ ~(s.next < 0) /\ s.value = 0 /\ p.next = Len(f) /\ ~(p.next < 0)
      /\ r = Read(Auth(s.value, p.value), p.next)
  BY ParseAuthCases, FailedFields
<1>2. s.next >= 0
  BY <1>1, NumberOutcome, FailedFields DEF Outcome
<1>3. s.value \in Number /\ s.next \in Nat /\ Len(encode_var_uint(s.value)) <= s.next - o
  BY <1>2, NumberForth
<1> HIDE DEF s
<1>4. p.next >= 0
  BY <1>1, <1>3, StringRead, FailedFields DEF Outcome
<1>5. /\ p.value \in Seq(Byte) \cap Utf8 /\ p.next \in Nat
      /\ Len(encode_var_bytes(p.value)) <= p.next - s.next
  BY <1>3, <1>4, StringForth
<1> HIDE DEF p, r
<1>6. r.value = Auth(0, p.value) /\ r.next = Len(f)
  BY <1>1, ReadFields
<1>7. r.value \in Message /\ r.value.kind # "custom"
  BY <1>5, <1>6, MessageCases DEF Auth
<1>8. Encode(r.value) =
          (encode_var_uint(2) \o encode_var_uint(s.value)) \o encode_var_bytes(p.value)
  BY <1>1, <1>6, EncodeCases DEF encode_permission_denied, MESSAGE_AUTH, AUTH_PERMISSION_DENIED
<1>9. 2 \in Number
  BY TypeNumbers
<1>10. Len(Encode(r.value)) <= Len(f)
  BY <1>1, <1>3, <1>5, <1>8, <1>9, SubtypeLength
<1>11. QED  BY <1>6, <1>7, <1>10 DEF Relayable, r

LEMMA EntriesOutcome ==
    ASSUME NEW payload \in Seq(Byte)
    PROVE  Outcome(DecodeEntries(payload))
<1> DEFINE c == decode_var_uint(payload, 0)
           r == EntryLoop(payload, c.value, c.next)[c.value]
<1>1. DecodeEntries(payload) =
          IF c.next < 0 \/ c.value > MaxEntries THEN Failed ELSE Finished(payload, r)
  BY DecodeEntriesCases
<1> HIDE DEF r
<1>2. Finished(payload, r) = Failed \/ Finished(payload, r).next = Len(payload)
  BY DEF Finished
<1>3. Len(payload) \in Nat
  OBVIOUS
<1>4. QED  BY <1>1, <1>2, <1>3 DEF Outcome

LEMMA AwarenessForth ==
    ASSUME NEW f \in Seq(Byte), NEW o \in Nat, Len(encode_var_uint(1)) <= o,
           ParseAwareness(f, o).next >= 0
    PROVE  Relayable(f, ParseAwareness(f, o))
<1> DEFINE p == decode_var_bytes(f, o)
           e == DecodeEntries(p.value)
           r == ParseAwareness(f, o)
           q == EncodeEntries(e.value)
<1>1. /\ p.next = Len(f) /\ ~(p.next < 0) /\ ~(e.next < 0)
      /\ r = Read(AwarenessOf(e.value), p.next)
  BY ParseAwarenessCases, FailedFields
<1>2. p.next >= 0
  BY <1>1, BytesOutcome, FailedFields DEF Outcome
<1>3. /\ p.value \in Seq(Byte) /\ p.next \in Nat /\ Len(p.value) \in Number
      /\ Len(encode_var_bytes(p.value)) <= p.next - o
  BY <1>2, BytesForth
<1> HIDE DEF p
<1>4. e.next >= 0
  BY <1>1, <1>3, EntriesOutcome, FailedFields DEF Outcome
<1>5. /\ e.value \in Seq(Entry) /\ Len(e.value) <= MaxEntries
      /\ Len(q) <= Len(p.value)
  BY <1>3, <1>4, EntriesForth
<1> HIDE DEF e, r
<1>6. r.value = AwarenessOf(e.value) /\ r.next = Len(f)
  BY <1>1, ReadFields
<1>7. r.value \in Message /\ r.value.kind # "custom"
  BY <1>5, <1>6, MessageCases DEF AwarenessOf
<1>8. Encode(r.value) = encode_var_uint(1) \o encode_var_bytes(q)
  BY <1>6, EncodeCases, EncodeAwareness DEF MESSAGE_AWARENESS
<1>9. q \in Seq(Byte)
  BY <1>5, EncodeLoopType
<1> HIDE DEF q
<1>10. Len(encode_var_bytes(q)) <= Len(encode_var_bytes(p.value))
  BY <1>3, <1>5, <1>9, BytesMonotone
<1>11. Len(Encode(r.value)) <= Len(f)
  <2> DEFINE a == encode_var_uint(1)
             c == encode_var_bytes(q)
             d == encode_var_bytes(p.value)
  <2>1. 1 \in Number
    BY TypeNumbers
  <2>2. /\ a \in Seq(Byte) /\ c \in Seq(Byte) /\ d \in Seq(Byte)
        /\ Len(a) \in Nat /\ Len(c) \in Nat /\ Len(d) \in Nat
    BY <1>3, <1>9, <2>1, EncodeLength
  <2>3. Len(a) <= o /\ Len(c) <= Len(d) /\ Len(d) <= p.next - o
    BY <1>3, <1>10
  <2> HIDE DEF a, c, d
  <2>4. Len(a \o c) = Len(a) + Len(c)
    BY <2>2
  <2>5. Len(a \o c) <= Len(f)
    BY <1>1, <1>3, <2>2, <2>3, <2>4
  <2>6. QED  BY <1>8, <2>5 DEF a, c
<1>12. QED  BY <1>6, <1>7, <1>11 DEF Relayable, r

LEMMA ParsedForth ==
    ASSUME NEW f \in Seq(Byte), Parsed(f).next >= 0
    PROVE  Relayable(f, Parsed(f))
<1> DEFINE t == decode_var_uint(f, 0)
<1>1. ~(t.next < 0)
  BY ParsedCases, FailedFields
<1>2. t.next >= 0
  BY <1>1, NumberOutcome, FailedFields DEF Outcome
<1>3. t.next \in Nat /\ Len(encode_var_uint(t.value)) <= t.next
  <2>1. t.next \in Nat /\ Len(encode_var_uint(t.value)) <= t.next - 0
    BY <1>2, NumberForth
  <2>2. QED  BY <2>1
<1>4. Parsed(f) =
          IF t.value = 0 THEN ParseSync(f, t.next)
          ELSE IF t.value = 1 THEN ParseAwareness(f, t.next)
          ELSE IF t.value = 2 THEN ParseAuth(f, t.next)
          ELSE IF t.value = 3 /\ t.next = Len(f) THEN Read(Query, t.next)
          ELSE Failed
  BY <1>1, ParsedCases
<1> HIDE DEF t
<1>5. CASE t.value = 0
  BY <1>3, <1>4, <1>5, SyncForth
<1>6. CASE t.value = 1
  BY <1>3, <1>4, <1>6, AwarenessForth
<1>7. CASE t.value = 2
  BY <1>3, <1>4, <1>7, AuthForth
<1>8. CASE t.value \notin {0, 1, 2}
  <2>1. t.value = 3 /\ t.next = Len(f) /\ Parsed(f) = Read(Query, t.next)
    BY <1>4, <1>8, FailedFields
  <2>2. Query \in Message /\ Query.kind # "custom" /\ Encode(Query) = encode_var_uint(3)
    BY MessageCases, EncodeCases DEF Query
  <2>3. QED  BY <1>3, <2>1, <2>2, ReadFields DEF Relayable
<1>9. QED  BY <1>5, <1>6, <1>7, <1>8

(* Nothing behind a frame that is parsed is looked at; so that a longer    *)
(* one that begins with it is refused for the bytes that are left.         *)
LEMMA ParsedExtended ==
    ASSUME NEW f \in Seq(Byte), NEW ext \in Seq(Byte), Begins(f, ext), Len(f) < Len(ext),
           Parsed(f).next >= 0
    PROVE  Parsed(ext) = Failed
<1> DEFINE t == decode_var_uint(f, 0)
           o == t.next
<1>1. ~(t.next < 0)
  BY ParsedCases, FailedFields
<1>2. t.next >= 0
  BY <1>1, NumberOutcome, FailedFields DEF Outcome
<1>3. o \in Nat /\ decode_var_uint(ext, 0) = t
  BY <1>2, NumberForth, NumberExtended
<1>4. Parsed(f) =
          IF t.value = 0 THEN ParseSync(f, o)
          ELSE IF t.value = 1 THEN ParseAwareness(f, o)
          ELSE IF t.value = 2 THEN ParseAuth(f, o)
          ELSE IF t.value = 3 /\ o = Len(f) THEN Read(Query, o)
          ELSE Failed
  BY <1>1, ParsedCases
<1>5. Parsed(ext) =
          IF t.value = 0 THEN ParseSync(ext, o)
          ELSE IF t.value = 1 THEN ParseAwareness(ext, o)
          ELSE IF t.value = 2 THEN ParseAuth(ext, o)
          ELSE IF t.value = 3 /\ o = Len(ext) THEN Read(Query, o)
          ELSE Failed
  BY <1>1, <1>3, ParsedCases
<1>6. Len(f) # Len(ext)
  <2>1. Len(f) \in Nat /\ Len(ext) \in Nat
    OBVIOUS
  <2>2. QED  BY <2>1
<1> HIDE DEF o, t
<1>7. ASSUME ParseSync(f, o).next >= 0 PROVE ParseSync(ext, o) = Failed
  <2> DEFINE s == decode_var_uint(f, o)
             p == decode_var_bytes(f, s.next)
  <2>1. ~(s.next < 0) /\ p.next = Len(f) /\ ~(p.next < 0)
    BY <1>7, ParseSyncCases, FailedFields
  <2>2. s.next >= 0
    BY <1>3, <2>1, NumberOutcome, FailedFields DEF Outcome
  <2>3. s.next \in Nat /\ decode_var_uint(ext, o) = s
    BY <1>3, <2>2, NumberForth, NumberExtended
  <2> HIDE DEF s
  <2>4. p.next >= 0
    BY <2>1, <2>3, BytesOutcome, FailedFields DEF Outcome
  <2>5. decode_var_bytes(ext, s.next) = p
    BY <2>3, <2>4, BytesExtended
  <2> HIDE DEF p
  <2>6. QED  BY <1>6, <2>1, <2>3, <2>5, ParseSyncCases
<1>8. ASSUME ParseAwareness(f, o).next >= 0 PROVE ParseAwareness(ext, o) = Failed
  <2> DEFINE p == decode_var_bytes(f, o)
  <2>1. p.next = Len(f) /\ ~(p.next < 0)
    BY <1>8, ParseAwarenessCases, FailedFields
  <2>2. p.next >= 0
    BY <1>3, <2>1, BytesOutcome, FailedFields DEF Outcome
  <2>3. decode_var_bytes(ext, o) = p
    BY <1>3, <2>2, BytesExtended
  <2> HIDE DEF p
  <2>4. QED  BY <1>6, <2>1, <2>3, ParseAwarenessCases
<1>9. ASSUME ParseAuth(f, o).next >= 0 PROVE ParseAuth(ext, o) = Failed
  <2> DEFINE s == decode_var_uint(f, o)
             p == DecodeVarString(f, s.next)
  <2>1. ~(s.next < 0) /\ p.next = Len(f) /\ ~(p.next < 0)
    BY <1>9, ParseAuthCases, FailedFields
  <2>2. s.next >= 0
    BY <1>3, <2>1, NumberOutcome, FailedFields DEF Outcome
  <2>3. s.next \in Nat /\ decode_var_uint(ext, o) = s
    BY <1>3, <2>2, NumberForth, NumberExtended
  <2> HIDE DEF s
  <2>4. p.next >= 0
    BY <2>1, <2>3, StringRead, FailedFields DEF Outcome
  <2>5. DecodeVarString(ext, s.next) = p
    BY <2>3, <2>4, StringExtended
  <2> HIDE DEF p
  <2>6. QED  BY <1>6, <2>1, <2>3, <2>5, ParseAuthCases
<1>10. t.value \notin {0, 1, 2} => o = Len(f)
  BY <1>4, FailedFields
<1>11. QED  BY <1>4, <1>5, <1>6, <1>7, <1>8, <1>9, <1>10, FailedFields

-----------------------------------------------------------------------------
(***************************************************************************)
(* parse_message                                                           *)
(***************************************************************************)
LEMMA AcceptedFrame ==
    ASSUME NEW f \in Seq(Byte), Accepted(f)
    PROVE  /\ Len(f) \in 1 .. MaxSize
           /\ Parsed(f).next >= 0 /\ parse_message(f) = Parsed(f).value
BY DEF Accepted, parse_message

(* For every frame, of whatever origin: an accepted one is a message that  *)
(* may be encoded, and takes no more bytes then (parse_message).           *)
THEOREM MessageForth ==
    ASSUME NEW f \in Seq(Byte), Accepted(f)
    PROVE  LET m == parse_message(f) IN
           WellFormed(m) /\ m.kind # "custom" /\ Len(Encode(m)) <= Len(f)
<1> DEFINE m == parse_message(f)
<1>1. Len(f) \in 1 .. MaxSize /\ Parsed(f).next >= 0 /\ m = Parsed(f).value
  BY AcceptedFrame
<1>2. m \in Message /\ m.kind # "custom" /\ Len(Encode(m)) <= Len(f)
  BY <1>1, ParsedForth DEF Relayable
<1> HIDE DEF m
<1>3. Encode(m) \in Seq(Byte)
  <2>1. Len(Encode(m)) <= MaxSafe
    BY <1>1, <1>2, CodecAssumption
  <2>2. QED  BY <1>2, <2>1, ParsedBack DEF SizeFits
<1>4. Len(Encode(m)) \in Nat /\ Len(f) \in Nat /\ MaxSize \in Nat /\ Len(f) <= MaxSize
  BY <1>1, <1>3, CodecAssumption
<1>5. QED  BY <1>2, <1>4 DEF WellFormed, m

(* No two frames, of whatever origin, are accepted of which one begins     *)
(* with the other (_ensure_finished).                                      *)
THEOREM AcceptedPrefix ==
    ASSUME NEW f \in Seq(Byte), Accepted(f), NEW n \in 0 .. (Len(f) - 1)
    PROVE  ~Accepted(SubSeq(f, 1, n))
<1> DEFINE g == SubSeq(f, 1, n)
<1>1. /\ g \in Seq(Byte) /\ Len(g) = n /\ n \in Nat /\ Len(f) \in Nat /\ Len(g) < Len(f)
      /\ \A i \in 1 .. n : f[i] = g[i]
  OBVIOUS
<1> HIDE DEF g
<1>2. Begins(g, f)
  BY <1>1 DEF Begins
<1>3. SUFFICES ASSUME Accepted(g) PROVE FALSE
  BY DEF g
<1>4. Parsed(f) = Failed
  BY <1>1, <1>2, <1>3, AcceptedFrame, ParsedExtended
<1>5. QED  BY <1>4, AcceptedFrame, FailedFields

-----------------------------------------------------------------------------
(***************************************************************************)
(* The receiver                                                            *)
(***************************************************************************)

(* The frame is a sequence of bytes, and that of the message sent.         *)
CodecIInv ==
    /\ frame \in Seq(Byte)
    /\ sent # ProtocolError => WellFormed(sent) /\ frame = Encode(sent)

LEMMA CodecIInvInit == CodecInit => CodecIInv
BY DEF CodecInit, CodecIInv

LEMMA CodecIInvNext == CodecIInv /\ [CodecNext]_codecVars => CodecIInv'
<1> SUFFICES ASSUME CodecIInv, [CodecNext]_codecVars PROVE CodecIInv'
  OBVIOUS
<1> USE DEF CodecIInv
<1>1. CASE \E m \in Messages : Send(m)
  <2>1. PICK m \in Messages : Send(m)
    BY <1>1
  <2>2. WellFormed(m) /\ Encode(m) \in Seq(Byte)
    BY MessagesAssumption, MessageBack
  <2>3. QED  BY <2>1, <2>2 DEF Send
<1>2. CASE \E b \in Byte : TypeByte(b)
  BY <1>2 DEF TypeByte
<1>3. CASE \E i \in DOMAIN frame, b \in Byte : DamageByte(i, b)
  BY <1>3 DEF DamageByte
<1>4. CASE \E n \in 0 .. (Len(frame) - 1) : Truncate(n)
  BY <1>4 DEF Truncate
<1>5. CASE UNCHANGED codecVars
  BY <1>5 DEF codecVars
<1>6. QED  BY <1>1, <1>2, <1>3, <1>4, <1>5 DEF CodecNext

(* In every behaviour the frame is a sequence of bytes, and as long as it  *)
(* is the one that was sent, the encoding of a well-formed message.        *)
THEOREM CodecInvariant == CodecSpec => []CodecIInv
<1>1. CodecInit => CodecIInv
  BY CodecIInvInit
<1>2. CodecIInv /\ [CodecNext]_codecVars => CodecIInv'
  BY CodecIInvNext
<1>3. QED  BY <1>1, <1>2, PTL DEF CodecSpec

(* Every message that the encoders are given is read back as it was, and   *)
(* the custom events are refused (encode_* and parse_message).             *)
THEOREM CodecRoundTrip == CodecSpec => []RoundTrip
<1>1. CodecIInv => RoundTrip
  BY MessageBack DEF CodecIInv, RoundTrip
<1>2. QED  BY <1>1, CodecInvariant, PTL

(* What the server relays of an accepted frame is within the limits of the *)
(* encoder, no longer than the frame, and means the same (parse_message;   *)
(* websocket._handle_binary_message).                                      *)
THEOREM CodecRelay == CodecSpec => []RelayKeepsMeaning
<1>1. CodecIInv => RelayKeepsMeaning
  <2> SUFFICES ASSUME frame \in Seq(Byte), Accepted(frame)
               PROVE  LET relayed == Encode(parse_message(frame)) IN
                      /\ Numbers(parse_message(frame)) \subseteq 0 .. MaxSafe
                      /\ Len(relayed) <= Len(frame)
                      /\ parse_message(relayed) = parse_message(frame)
    BY DEF CodecIInv, RelayKeepsMeaning
  <2> DEFINE m == parse_message(frame)
  <2>1. WellFormed(m) /\ m.kind # "custom" /\ Len(Encode(m)) <= Len(frame)
    BY MessageForth
  <2> HIDE DEF m
  <2>2. parse_message(Encode(m)) = m
    BY <2>1, MessageBack
  <2>3. Numbers(m) \subseteq Number
    <3>1. CASE m.kind # "awareness"
      BY <3>1 DEF Numbers
    <3>2. CASE m.kind = "awareness"
      <4>1. m.entries \in Seq(Entry)
        BY <2>1, <3>2 DEF WellFormed, Message, Query
      <4>2. \A i \in DOMAIN m.entries : m.entries[i] \in Entry
        BY <4>1
      <4>3. \A i \in DOMAIN m.entries :
                m.entries[i].client_id \in Number /\ m.entries[i].clock \in Number
        BY <4>2 DEF Entry
      <4>4. QED  BY <4>3 DEF Numbers
    <3>3. QED  BY <3>1, <3>2
  <2>4. QED  BY <2>1, <2>2, <2>3 DEF Number, m
<1>2. QED  BY <1>1, CodecInvariant, PTL

(* No beginning of an accepted frame is accepted: a truncated frame is     *)
(* never taken for another message (_ensure_finished, decode_var_bytes).   *)
THEOREM CodecPrefixFree == CodecSpec => []PrefixFree
<1>1. CodecIInv => PrefixFree
  BY AcceptedPrefix DEF CodecIInv, PrefixFree
<1>2. QED  BY <1>1, CodecInvariant, PTL

=============================================================================
