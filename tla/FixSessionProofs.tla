--------------------------- MODULE FixSessionProofs ---------------------------
(***************************************************************************)
(* The stream of a client is cut into the messages it sent; each of them   *)
(* is answered for what its fields say; a message that was damaged on its  *)
(* way becomes no order; and every reply is a well-formed message.  For    *)
(* any scripts, any way the stream is cut into reads and any number of     *)
(* jobs at a time.                                                         *)
(***************************************************************************)
EXTENDS FixSession, FoldTheorems, SequenceTheorems

-----------------------------------------------------------------------------
(* Tokens                                                                  *)

Replies == {"bad_checksum", "unsupported_msgtype", "malformed_message"} \cup Reasons

\* The tokens that may travel: what messages are made of, and what the client
\* puts in.
Tokens ==
    {Tag(n) : n \in Nat} \cup {Num(n) : n \in Int} \cup {Txt(s) : s \in Replies}
    \cup {SOH, Txt("FIX.4.2")}
    \cup UNION {Vocabulary(s) \cup Noise(s) : s \in Scripts}

\* The bytes of a token add up to a number.
TokensWeigh == \A t \in Tokens : Weight(t) \in Nat

\* A separator is no tag, number or text.
LEMMA TokensDiffer ==
    ASSUME NEW n, NEW s
    PROVE  /\ Tag(n) # SOH /\ Num(n) # SOH /\ Txt(s) # SOH
           /\ Num(n) # Tag(s) /\ SOH # Tag(n)
  BY DEF Tag, Num, Txt, SOH

\* What messages are made of are tokens.
LEMMA TokensAre ==
    /\ \A n \in Nat : Tag(n) \in Tokens
    /\ \A n \in Int : Num(n) \in Tokens
    /\ \A s \in Replies : Txt(s) \in Tokens
    /\ SOH \in Tokens /\ Txt("FIX.4.2") \in Tokens
  BY DEF Tokens

-----------------------------------------------------------------------------
(* Searching                                                               *)

\* find() returns the first position ...
LEMMA FindsSoh ==
    ASSUME NEW T, NEW b \in Seq(T), NEW from \in Nat \ {0}, NEW i \in from .. Len(b), b[i] = SOH,
           \A j \in from .. i - 1 : b[j] # SOH
    PROVE  FindSoh(b, from) = i
<1> DEFINE I == {j \in from .. Len(b) : b[j] = SOH}
<1>1. i \in I /\ \A y \in I : i <= y
  OBVIOUS
<1>2. \A x \in I : (\A y \in I : x <= y) => x = i
  BY <1>1
<1>3. Min(I) = i
  BY <1>1, <1>2 DEF Min
<1> QED
  BY <1>1, <1>3 DEF FindSoh, SelectInSubSeq

\* ... or npos.
LEMMA FindsNoSoh ==
    ASSUME NEW b, NEW from, \A j \in from .. Len(b) : b[j] # SOH
    PROVE  FindSoh(b, from) = 0
<1>1. {j \in from .. Len(b) : b[j] = SOH} = {}
  OBVIOUS
<1> QED
  BY <1>1 DEF FindSoh, SelectInSubSeq

\* A part of one token.
LEMMA OneToken ==
    ASSUME NEW T, NEW b \in Seq(T), NEW i \in 1 .. Len(b)
    PROVE  SubSeq(b, i, i) = <<b[i]>>
<1>1. i \in Int /\ \A j \in i .. i : b[j] \in T
  OBVIOUS
<1>2. /\ SubSeq(b, i, i) \in Seq(T)
      /\ Len(SubSeq(b, i, i)) = IF i <= i THEN i - i + 1 ELSE 0
      /\ \A j \in 1 .. i - i + 1 : SubSeq(b, i, i)[j] = b[i + j - 1]
  BY <1>1, SubSeqProperties
<1>3. Len(SubSeq(b, i, i)) = 1 /\ SubSeq(b, i, i)[1] = b[i]
  BY <1>1, <1>2
<1>4. <<b[i]>> \in Seq(T) /\ Len(<<b[i]>>) = 1 /\ <<b[i]>>[1] = b[i]
  OBVIOUS
<1>5. \A j \in 1 .. 1 : j = 1
  OBVIOUS
<1> QED
  BY <1>2, <1>3, <1>4, <1>5, SeqEqual

\* A part of no token, and the first k tokens.
LEMMA NoToken ==
    ASSUME NEW T, NEW b \in Seq(T), NEW i \in Nat
    PROVE  SubSeq(b, i + 1, i) = << >>
<1>1. PICK p, a : a = i + 1 /\ p = SubSeq(b, a, i)
  OBVIOUS
<1>2. a > i
  BY <1>1
<1>3. p = << >>
  BY <1>1, <1>2
<1> QED
  BY <1>1, <1>3

LEMMA FirstTokens ==
    ASSUME NEW T, NEW b \in Seq(T), NEW k \in Nat, k <= Len(b), NEW p, p = SubSeq(b, 1, k)
    PROVE  p \in Seq(T) /\ Len(p) = k /\ \A i \in 1 .. k : p[i] = b[i]
<1>1. k \in Int /\ \A i \in 1 .. k : b[i] \in T
  OBVIOUS
<1>2. p \in Seq(T) /\ Len(p) = (IF 1 <= k THEN k - 1 + 1 ELSE 0) /\ \A i \in 1 .. k - 1 + 1 : p[i] = b[1 + i - 1]
  BY <1>1, SubSeqProperties
<1>3. Len(p) = k /\ \A i \in 1 .. k : p[i] = b[i]
  BY <1>2
<1> QED
  BY <1>2, <1>3

-----------------------------------------------------------------------------
(* Framing                                                                 *)

Header(n) == <<Tag(8), Txt("FIX.4.2"), SOH, Tag(9), Num(n), SOH>>

\* As far as b goes, it starts with the header of a message with n tokens.
Starts(b, n) == \A i \in 1 .. 6 : i <= Len(b) => b[i] = Header(n)[i]

\* That is, as far as framing looks at it: what BeginString is does not matter.
Opens(b, n) ==
    \A i \in 1 .. 6 : i <= Len(b) => IF i = 2 THEN b[i] # SOH ELSE b[i] = Header(n)[i]

\* A header opens a message.
LEMMA StartsOpens ==
    ASSUME NEW b, NEW n, Starts(b, n)
    PROVE  Opens(b, n)
<1>1. Header(n)[2] # SOH
  BY TokensDiffer DEF Header
<1> QED
  BY <1>1 DEF Starts, Opens

\* A message with a body of n tokens fits in a size_t, with room to spare.
Fits(n) == n + 12 < 2^Width

\* tryExtractMessage() waits for the whole message and then cuts exactly it off.
LEMMA Extracts ==
    ASSUME NEW T, NEW b \in Seq(T), NEW n \in Nat, Fits(n), Opens(b, n)
    PROVE  TryExtractMessage(b) = IF Len(b) >= n + 9 THEN n + 9 ELSE NoMessage
<1>0. Len(b) \in Nat
  OBVIOUS
<1>1. 2^Width \in Nat
  BY WidthAssumption
<1>2. /\ Len(b) >= 1 => b[1] = Tag(8)
      /\ Len(b) >= 2 => b[2] # SOH
      /\ Len(b) >= 3 => b[3] = SOH
      /\ Len(b) >= 4 => b[4] = Tag(9)
      /\ Len(b) >= 5 => b[5] = Num(n)
      /\ Len(b) >= 6 => b[6] = SOH
  BY <1>0, TokensDiffer DEF Opens, Header
<1>3. Tag(8) # SOH /\ Num(n) # SOH
  BY TokensDiffer
<1>4. CASE Len(b) < 3
  <2>1. FindSoh(b, 1) = 0
    <3>1. \A j \in 1 .. Len(b) : b[j] # SOH
      BY <1>0, <1>2, <1>3, <1>4
    <3> QED
      BY <3>1, FindsNoSoh
  <2> QED
    BY <1>0, <1>4, <2>1 DEF TryExtractMessage
<1>5. ASSUME Len(b) >= 3 PROVE FindSoh(b, 1) = 3
  <2>1. 3 \in 1 .. Len(b) /\ \A j \in 1 .. 3 - 1 : b[j] # SOH
    BY <1>0, <1>2, <1>3, <1>5
  <2> QED
    BY <1>2, <1>5, <2>1, FindsSoh
<1>6. CASE Len(b) = 3
  BY <1>0, <1>5, <1>6 DEF TryExtractMessage
<1>7. CASE Len(b) = 4 \/ Len(b) = 5
  <2>0. Len(b) >= 3
    <3>1. 4 >= 3 /\ 5 >= 3
      OBVIOUS
    <3> QED
      BY <1>7, <3>1, Zenon
  <2>1. FindSoh(b, 3 + 2) = 0
    <3>1. \A j \in 3 + 2 .. Len(b) : b[j] # SOH
      BY <1>0, <1>2, <1>3, <1>7
    <3> QED
      BY <3>1, FindsNoSoh
  <2>2. FindSoh(b, 1) = 3
    BY <1>5, <2>0
  <2>3. TryExtractMessage(b) = NoMessage
    BY <2>1, <2>2 DEF TryExtractMessage
  <2>4. \A m \in Nat : m = 4 \/ m = 5 => ~(m >= n + 9)
    OBVIOUS
  <2> QED
    BY <1>0, <1>7, <2>3, <2>4
<1>8. CASE Len(b) >= 6
  <2>0. Len(b) >= 3
    BY <1>0, <1>8
  <2>1. FindSoh(b, 1) = 3
    BY <1>5, <2>0
  <2>2. FindSoh(b, 3 + 2) = 6
    <3>1. 6 \in 5 .. Len(b) /\ \A j \in 5 .. 6 - 1 : b[j] # SOH
      BY <1>0, <1>2, <1>3, <1>8
    <3>2. FindSoh(b, 5) = 6
      BY <1>2, <1>8, <3>1, FindsSoh
    <3> QED
      BY <3>2
  <2>3. SubSeq(b, 3 + 2, 6 - 1) = <<Num(n)>>
    <3>1. SubSeq(b, 5, 5) = <<b[5]>>
      <4>1. 5 \in 1 .. Len(b)
        BY <1>0, <1>8
      <4> QED
        BY <4>1, OneToken
    <3>2. 3 + 2 = 5 /\ 6 - 1 = 5
      OBVIOUS
    <3> QED
      BY <1>2, <1>8, <3>1, <3>2
  <2>4. <<Num(n)>> # << >> /\ <<Num(n)>>[1][1] = "num" /\ <<Num(n)>>[1][2] = n
    BY DEF Num
  <2>5. Converts(<<Num(n)>>)
    BY <1>1, <2>4 DEF Converts, Fits
  <2>6. Unsigned(<<Num(n)>>, Width) = n
    BY <1>1, <2>4 DEF Unsigned, Fits
  <2>7. (6 + n + 3) % 2^Width = n + 9
    BY <1>1 DEF Fits
  <2>8. b # << >> /\ b[1] = Tag(8) /\ 3 < Len(b) /\ b[3 + 1] = Tag(9)
    BY <1>0, <1>2, <1>8
  <2>9. PICK first, sep, length, total :
           /\ first = FindSoh(b, 1) /\ sep = FindSoh(b, first + 2)
           /\ length = SubSeq(b, first + 2, sep - 1)
           /\ total = (sep + Unsigned(length, Width) + 3) % 2^Width
    OBVIOUS
  <2>10. first = 3 /\ sep = 6 /\ length = <<Num(n)>>
    BY <2>1, <2>2, <2>3, <2>9
  <2>11. total = n + 9
    BY <2>6, <2>7, <2>9, <2>10
  <2>12. TryExtractMessage(b) =
            IF /\ b # << >> /\ b[1] = Tag(8) /\ first # 0
               /\ first < Len(b) /\ b[first + 1] = Tag(9)
               /\ sep # 0 /\ Converts(length) /\ Len(b) >= total
            THEN total ELSE NoMessage
    BY <2>9, Zenon DEF TryExtractMessage
  <2> QED
    BY <2>5, <2>8, <2>10, <2>11, <2>12
<1>9. Len(b) < 3 \/ Len(b) = 3 \/ Len(b) = 4 \/ Len(b) = 5 \/ Len(b) >= 6
  <2>1. \A m \in Nat : m < 3 \/ m = 3 \/ m = 4 \/ m = 5 \/ m >= 6
    OBVIOUS
  <2> QED
    BY <1>0, <2>1
<1> QED
  BY <1>4, <1>6, <1>7, <1>8, <1>9

\* find() returns npos or a position.
LEMMA FindsWithin ==
    ASSUME NEW T, NEW b \in Seq(T), NEW from \in Nat \ {0}
    PROVE  FindSoh(b, from) \in 0 .. Len(b)
<1> DEFINE I == {j \in from .. Len(b) : b[j] = SOH}
<1>1. Len(b) \in Nat /\ I \subseteq Nat /\ \A j \in I : j \in 0 .. Len(b)
  OBVIOUS
<1>2. CASE I = {}
  BY <1>1, <1>2 DEF FindSoh, SelectInSubSeq
<1>3. CASE I # {}
  <2>1. PICK i \in I : \A y \in I : i <= y
    <3> HIDE DEF I
    <3> QED
      BY <1>1, <1>3, LeastElement
  <2>2. Min(I) \in I
    BY <2>1 DEF Min
  <2> QED
    BY <1>1, <1>3, <2>2 DEF FindSoh, SelectInSubSeq
<1> QED
  BY <1>2, <1>3

\* Whatever is in the buffer, a message cut off is a part of it.
LEMMA ExtractsWithin ==
    ASSUME NEW T, NEW b \in Seq(T), TryExtractMessage(b) # NoMessage
    PROVE  TryExtractMessage(b) \in 0 .. Len(b)
<1>1. PICK first, sep, length, total :
         /\ first = FindSoh(b, 1) /\ sep = FindSoh(b, first + 2)
         /\ length = SubSeq(b, first + 2, sep - 1)
         /\ total = (sep + Unsigned(length, Width) + 3) % 2^Width
  OBVIOUS
<1>2. TryExtractMessage(b) =
          IF /\ b # << >> /\ b[1] = Tag(8) /\ first # 0
             /\ first < Len(b) /\ b[first + 1] = Tag(9)
             /\ sep # 0 /\ Converts(length) /\ Len(b) >= total
          THEN total ELSE NoMessage
  BY <1>1, Zenon DEF TryExtractMessage
<1>3. Converts(length) /\ Len(b) >= total /\ TryExtractMessage(b) = total
  BY <1>2, Zenon
<1>4. first \in 0 .. Len(b) /\ Len(b) \in Nat
  BY <1>1, FindsWithin
<1>5. sep \in 0 .. Len(b)
  <2>1. first + 2 \in Nat \ {0}
    BY <1>4
  <2> QED
    BY <1>1, <2>1, FindsWithin
<1>6. 2^Width \in Nat /\ 2^Width > 0
  BY WidthAssumption
<1>7. Unsigned(length, Width) \in Nat
  BY <1>3, <1>6 DEF Converts, Unsigned
<1>8. total \in Nat
  <2>1. \A a, c \in Nat, m \in Nat : m > 0 => (a + c + 3) % m \in Nat
    OBVIOUS
  <2>2. sep \in Nat
    BY <1>5
  <2> QED
    BY <1>1, <1>6, <1>7, <2>1, <2>2
<1> QED
  BY <1>3, <1>4, <1>8

-----------------------------------------------------------------------------
(* The stream                                                              *)

Joins(T) == [vx \in Seq(T) \X Seq(T) |-> vx[1] \o vx[2]]

\* The first i messages of q, one after the other.
Upto(T, q, i) == Run(Joins(T), << >>, SubSeq(q, 1, i))

\* They grow by one message at a time.
LEMMA UptoGrows ==
    ASSUME NEW T, NEW q \in Seq(Seq(T))
    PROVE  /\ Upto(T, q, 0) = << >>
           /\ \A i \in 0 .. Len(q) : Upto(T, q, i) \in Seq(T)
           /\ \A i \in 0 .. Len(q) - 1 : Upto(T, q, i + 1) = Upto(T, q, i) \o q[i + 1]
<1> DEFINE M == Seq(T)
<1>1. Joins(T) \in [M \X M -> M] /\ << >> \in M
  BY ConcatProperties DEF Joins
<1>2. Steps(Joins(T), M, M)
  BY <1>1 DEF Steps
<1>3. \A v, x \in M : Joins(T)[<<v, x>>] = v \o x
  BY DEF Joins
<1>4. Len(q) \in Nat /\ \A i \in 1 .. Len(q) : q[i] \in M
  OBVIOUS
<1>5. ASSUME NEW i \in 0 .. Len(q) PROVE SubSeq(q, 1, i) \in Seq(M)
  <2>1. i \in Int /\ \A j \in 1 .. i : q[j] \in M
    BY <1>4
  <2> HIDE DEF M
  <2> QED
    BY <2>1, SubSeqProperties
<1>6. ASSUME NEW i \in 0 .. Len(q) - 1 PROVE SubSeq(q, 1, i + 1) = Append(SubSeq(q, 1, i), q[i + 1])
  <2>1. q \in Seq(M) /\ 1 \in 1 .. Len(q) /\ i + 1 \in 1 .. Len(q) /\ i + 1 - 1 = i /\ i \in 0 .. Len(q)
    BY <1>4
  <2>2. SubSeq(q, 1, i + 1) = SubSeq(q, 1, i + 1 - 1) \o <<q[i + 1]>>
    BY <2>1, SubSeqRecursiveSecond
  <2>3. Append(SubSeq(q, 1, i), q[i + 1]) = SubSeq(q, 1, i) \o <<q[i + 1]>>
    BY <1>4, <1>5, <2>1, AppendIsConcat
  <2> QED
    BY <2>1, <2>2, <2>3
<1>7. SubSeq(q, 1, 0) = << >>
  BY SubSeqEmpty
<1> HIDE DEF M
<1>8. Upto(T, q, 0) = << >>
  BY <1>1, <1>7, RunEmpty DEF Upto
<1>9. ASSUME NEW i \in 0 .. Len(q) - 1
      PROVE  Upto(T, q, i) \in M /\ Upto(T, q, i + 1) = Upto(T, q, i) \o q[i + 1]
  <2>1. i \in 0 .. Len(q) /\ q[i + 1] \in M
    BY <1>4
  <2>2. PICK p, e : p = SubSeq(q, 1, i) /\ e = q[i + 1]
    OBVIOUS
  <2>3. p \in Seq(M) /\ e \in M
    BY <1>5, <2>1, <2>2
  <2>4. /\ Run(Joins(T), << >>, p) \in M
        /\ Run(Joins(T), << >>, Append(p, e)) = Joins(T)[<<Run(Joins(T), << >>, p), e>>]
    BY <1>1, <1>2, <2>3, RunAppend
  <2>5. Run(Joins(T), << >>, Append(p, e)) = Run(Joins(T), << >>, p) \o e
    BY <1>3, <2>3, <2>4
  <2>6. Upto(T, q, i) = Run(Joins(T), << >>, p)
    BY <2>2 DEF Upto
  <2>7. Upto(T, q, i + 1) = Run(Joins(T), << >>, Append(p, e))
    BY <1>6, <2>2 DEF Upto
  <2> QED
    BY <2>2, <2>4, <2>5, <2>6, <2>7
<1>10. ASSUME NEW i \in 0 .. Len(q) PROVE Upto(T, q, i) \in M
  <2>1. CASE i = 0
    BY <1>1, <1>8, <2>1
  <2>2. CASE i # 0
    <3>1. PICK j \in 0 .. Len(q) - 1 : i = j + 1
      <4>1. i - 1 \in 0 .. Len(q) - 1 /\ i = i - 1 + 1
        BY <1>4, <2>2
      <4> QED
        BY <4>1
    <3>2. Upto(T, q, j) \in Seq(T) /\ q[j + 1] \in Seq(T)
      BY <1>4, <1>9 DEF M
    <3>3. Upto(T, q, j) \o q[j + 1] \in Seq(T)
      BY <3>2, ConcatProperties
    <3> QED
      BY <1>9, <3>1, <3>3 DEF M
  <2> QED
    BY <2>1, <2>2
<1> QED
  BY <1>8, <1>9, <1>10 DEF M

IsFlat(f, q) == f = [i \in 1 .. Len(q) |-> IF i = 1 THEN q[i] ELSE f[i - 1] \o q[i]]

\* The definition of the community modules, unfolded.
LEMMA FlatUnfolds ==
    ASSUME NEW q
    PROVE  FlattenSeq(q) = IF Len(q) = 0 THEN q ELSE (CHOOSE f : IsFlat(f, q))[Len(q)]
  BY DEF FlattenSeq, IsFlat

\* The stream is its messages one after the other.
LEMMA Flattens ==
    ASSUME NEW T, NEW q \in Seq(Seq(T))
    PROVE  FlattenSeq(q) = Upto(T, q, Len(q))
<1> DEFINE n == Len(q)
           u == [i \in 1 .. n |-> Upto(T, q, i)]
           f == CHOOSE g : IsFlat(g, q)
<1>1. n \in Nat /\ \A i \in 1 .. n : q[i] \in Seq(T)
  OBVIOUS
<1>2. CASE n = 0
  <2>1. q = << >>
    BY <1>2
  <2> QED
    BY <1>2, <2>1, FlatUnfolds, UptoGrows
<1>3. CASE n # 0
  <2>1. ASSUME NEW i \in 1 .. n PROVE u[i] = IF i = 1 THEN q[i] ELSE u[i - 1] \o q[i]
    <3>1. PICK j \in 0 .. n - 1 : i = j + 1
      <4>1. i - 1 \in 0 .. n - 1 /\ i = i - 1 + 1
        BY <1>1
      <4> QED
        BY <4>1
    <3>2. u[i] = Upto(T, q, j) \o q[i]
      BY <3>1, UptoGrows
    <3>3. CASE i = 1
      <4>1. j = 0 /\ q[i] \in Seq(T)
        BY <1>1, <3>1, <3>3
      <4>2. << >> \o q[i] = q[i]
        BY <4>1, ConcatEmptySeq
      <4> QED
        BY <3>2, <3>3, <4>1, <4>2, UptoGrows
    <3>4. CASE i # 1
      <4>1. i - 1 = j /\ j \in 1 .. n
        BY <1>1, <3>1, <3>4
      <4> QED
        BY <3>2, <3>4, <4>1
    <3> QED
      BY <3>3, <3>4
  <2>2. IsFlat(u, q)
    <3>1. u = [i \in 1 .. n |-> u[i]]
      OBVIOUS
    <3>2. [i \in 1 .. n |-> u[i]] = [i \in 1 .. n |-> IF i = 1 THEN q[i] ELSE u[i - 1] \o q[i]]
      <4> HIDE DEF u
      <4> QED
        BY <2>1
    <3> HIDE DEF u
    <3> QED
      BY <3>1, <3>2 DEF IsFlat
  <2>3. IsFlat(f, q)
    BY <2>2
  <2> HIDE DEF f
  <2>4. ASSUME NEW i \in 1 .. n PROVE f[i] = IF i = 1 THEN q[i] ELSE f[i - 1] \o q[i]
    BY <2>3 DEF IsFlat
  <2> DEFINE Good == {i \in Nat : i + 1 \in 1 .. n => f[i + 1] = u[i + 1]}
  <2>5. 0 \in Good
    <3>1. 1 \in 1 .. n
      BY <1>1, <1>3
    <3>2. f[1] = q[1]
      BY <2>4, <3>1
    <3>3. u[1] = q[1]
      <4> HIDE DEF u
      <4> QED
        BY <2>1, <3>1
    <3> QED
      BY <3>2, <3>3
  <2>6. ASSUME NEW i \in Nat, i \in Good PROVE i + 1 \in Good
    <3> SUFFICES ASSUME i + 1 + 1 \in 1 .. n PROVE f[i + 1 + 1] = u[i + 1 + 1]
      OBVIOUS
    <3>1. PICK j \in 1 .. n, k \in 1 .. n : j = i + 1 /\ k = i + 1 + 1 /\ k - 1 = j /\ k # 1
      BY <1>1
    <3>2. f[j] = u[j]
      BY <2>6, <3>1
    <3>3. f[k] = f[j] \o q[k]
      <4>1. f[k] = IF k = 1 THEN q[k] ELSE f[k - 1] \o q[k]
        BY <2>4
      <4> QED
        BY <3>1, <4>1
    <3>4. u[k] = u[j] \o q[k]
      <4> HIDE DEF u
      <4>1. u[k] = IF k = 1 THEN q[k] ELSE u[k - 1] \o q[k]
        BY <2>1
      <4> QED
        BY <3>1, <4>1
    <3> HIDE DEF u
    <3> QED
      BY <3>1, <3>2, <3>3, <3>4
  <2>7. Nat \subseteq Good
    <3> HIDE DEF Good
    <3> QED
      BY <2>5, <2>6, NatInduct
  <2>8. n - 1 \in Nat /\ n - 1 + 1 = n /\ n \in 1 .. n
    BY <1>1, <1>3
  <2>9. f[n] = u[n]
    BY <2>7, <2>8
  <2>10. FlattenSeq(q) = f[n]
    BY <1>3, FlatUnfolds DEF f
  <2> QED
    BY <2>8, <2>9, <2>10
<1> QED
  BY <1>2, <1>3

Cat(s, t) == s \o t

\* Joining streams.
LEMMA Joining ==
    ASSUME NEW T, NEW s \in Seq(T), NEW t \in Seq(T), NEW u \in Seq(T)
    PROVE  /\ Cat(s, t) \in Seq(T) /\ Cat(Cat(s, t), u) = Cat(s, Cat(t, u))
           /\ Cat(s, << >>) = s /\ Cat(<< >>, s) = s
           /\ Cat(s, t) = Cat(s, u) => t = u
<1>1. Cat(s, t) \in Seq(T) /\ Cat(Cat(s, t), u) = Cat(s, Cat(t, u))
  BY DEF Cat
<1>2. Cat(s, << >>) = s /\ Cat(<< >>, s) = s
  BY ConcatEmptySeq DEF Cat
<1>3. ASSUME Cat(s, t) = Cat(s, u) PROVE t = u
  <2>1. /\ Len(Cat(s, t)) = Len(s) + Len(t) /\ Len(Cat(s, u)) = Len(s) + Len(u)
        /\ \A i \in 1 .. Len(t) : t[i] = Cat(s, t)[Len(s) + i]
        /\ \A i \in 1 .. Len(u) : u[i] = Cat(s, u)[Len(s) + i]
    BY DEF Cat
  <2>2. Len(t) = Len(u)
    BY <1>3, <2>1
  <2>3. \A i \in 1 .. Len(t) : t[i] = u[i]
    BY <1>3, <2>1, <2>2
  <2> QED
    BY <2>2, <2>3, SeqEqual
<1> QED
  BY <1>1, <1>2, <1>3

\* What the first messages make is the beginning of the stream.
LEMMA UptoPrefix ==
    ASSUME NEW T, NEW q \in Seq(Seq(T)), NEW i \in 0 .. Len(q)
    PROVE  \E r \in Seq(T) : Upto(T, q, Len(q)) = Cat(Upto(T, q, i), r)
<1> DEFINE Extends(j) == \E r \in Seq(T) : Upto(T, q, j) = Cat(Upto(T, q, i), r)
           Good == {d \in Nat : i + d <= Len(q) => Extends(i + d)}
<1>1. Len(q) \in Nat /\ i \in Nat /\ i + 0 = i /\ \A j \in 1 .. Len(q) : q[j] \in Seq(T)
  OBVIOUS
<1>2. Upto(T, q, i) \in Seq(T)
  BY UptoGrows
<1>3. 0 \in Good
  <2>1. Upto(T, q, i) = Cat(Upto(T, q, i), << >>) /\ << >> \in Seq(T)
    BY <1>2, Joining, EmptySeq
  <2>2. Extends(i)
    BY <2>1
  <2> HIDE DEF Extends
  <2> QED
    BY <1>1, <2>2
<1>4. ASSUME NEW d \in Nat, d \in Good PROVE d + 1 \in Good
  <2>1. ASSUME i + (d + 1) <= Len(q) PROVE Extends(i + (d + 1))
    <3>1. PICK j \in 0 .. Len(q) - 1 : j = i + d /\ j + 1 = i + (d + 1) /\ j + 1 \in 1 .. Len(q)
      BY <1>1, <2>1
    <3>2. Extends(j)
      <4> HIDE DEF Extends
      <4> QED
        BY <1>1, <1>4, <3>1
    <3>3. PICK r \in Seq(T) : Upto(T, q, j) = Cat(Upto(T, q, i), r)
      BY <3>2
    <3>4. q[j + 1] \in Seq(T)
      BY <1>1, <3>1
    <3>5. Upto(T, q, j + 1) = Cat(Upto(T, q, j), q[j + 1])
      <4>1. Upto(T, q, j + 1) = Upto(T, q, j) \o q[j + 1]
        BY UptoGrows
      <4> QED
        BY <4>1, Zenon DEF Cat
    <3>6. Cat(r, q[j + 1]) \in Seq(T) /\ Upto(T, q, j + 1) = Cat(Upto(T, q, i), Cat(r, q[j + 1]))
      <4>1. PICK v \in Seq(T), m \in Seq(T) : v = Upto(T, q, i) /\ m = q[j + 1]
        BY <1>2, <3>4, Zenon
      <4>2. Cat(r, m) \in Seq(T) /\ Cat(Cat(v, r), m) = Cat(v, Cat(r, m))
        BY Joining
      <4> QED
        BY <3>3, <3>5, <4>1, <4>2, Zenon
    <3>7. Extends(j + 1)
      BY <3>6
    <3> HIDE DEF Extends
    <3> QED
      BY <3>1, <3>7
  <2> HIDE DEF Extends
  <2> QED
    BY <2>1
<1>5. Nat \subseteq Good
  <2> HIDE DEF Good
  <2> QED
    BY <1>3, <1>4, NatInduct
<1>6. Len(q) - i \in Nat /\ i + (Len(q) - i) = Len(q) /\ i + (Len(q) - i) <= Len(q)
  BY <1>1
<1>7. Extends(i + (Len(q) - i))
  <2> HIDE DEF Extends
  <2>1. PICK d \in Nat : d = Len(q) - i /\ i + d <= Len(q)
    BY <1>6, Zenon
  <2>2. d \in Good
    BY <1>5
  <2>3. Extends(i + d)
    BY <2>1, <2>2
  <2> QED
    BY <2>1, <2>3
<1> QED
  BY <1>6, <1>7

-----------------------------------------------------------------------------
(* Messages the program builds                                             *)

Tally(q) == FoldLeft(LAMBDA sum, t : sum + Weight(t), 0, q)

IsTally(g, q) ==
    g = [s \in SUBSET DOMAIN q |-> IF s = {} THEN 0 ELSE g[s \ {Max(s)}] + Weight(q[Max(s)])]

\* The definition of the community modules, unfolded.
LEMMA TallyUnfolds ==
    ASSUME NEW q
    PROVE  Tally(q) = (CHOOSE g : IsTally(g, q))[DOMAIN q] /\ Checksum(q) = Tally(q) % 256
  BY DEF Tally, IsTally, Checksum, FoldLeft, MapThenFoldSet

\* The sum is one of natural numbers, taken from left to right.
LEMMA TallyExists ==
    ASSUME TokensWeigh, NEW q \in Seq(Tokens)
    PROVE  \E h : /\ IsTally(h, q) /\ Checksum(q) = h[DOMAIN q] % 256
                  /\ \A s \in SUBSET DOMAIN q : h[s] \in Nat
<1> DEFINE step == [vx \in Nat \X Tokens |-> vx[1] + Weight(vx[2])]
           S == DOMAIN q
           h == CHOOSE g : IsTally(g, q)
<1>1. step \in [Nat \X Tokens -> Nat]
  <2>1. \A vx \in Nat \X Tokens : vx[1] \in Nat /\ Weight(vx[2]) \in Nat
    BY DEF TokensWeigh
  <2>2. \A a, c \in Nat : a + c \in Nat
    OBVIOUS
  <2> QED
    BY <2>1, <2>2
<1>2. \A v \in Nat, x \in Tokens : step[<<v, x>>] = v + Weight(x)
  OBVIOUS
<1>3. S = 1 .. Len(q) /\ Len(q) \in Nat /\ \A i \in S : q[i] \in Tokens
  OBVIOUS
<1>4. ASSUME NEW s \in SUBSET S, s # {} PROVE Max(s) \in s /\ q[Max(s)] \in Tokens
  BY <1>3, <1>4, MaxIn
<1>5. PICK g \in [SUBSET S -> Nat] : IsRun(g, step, 0, q)
  <2> HIDE DEF step
  <2> QED
    BY <1>1, RunExists
<1> HIDE DEF step
<1>6. IsTally(g, q)
  <2>1. ASSUME NEW s \in SUBSET S
        PROVE  g[s] = IF s = {} THEN 0 ELSE g[s \ {Max(s)}] + Weight(q[Max(s)])
    <3>1. g[s] = IF s = {} THEN 0 ELSE step[<<g[s \ {Max(s)}], q[Max(s)]>>]
      BY <1>5 DEF IsRun
    <3>2. CASE s = {}
      BY <3>1, <3>2
    <3>3. CASE s # {}
      <4>1. g[s \ {Max(s)}] \in Nat /\ q[Max(s)] \in Tokens
        BY <1>4, <3>3
      <4>2. step[<<g[s \ {Max(s)}], q[Max(s)]>>] = g[s \ {Max(s)}] + Weight(q[Max(s)])
        BY <1>2, <4>1
      <4> QED
        BY <3>1, <3>3, <4>2
    <3> QED
      BY <3>2, <3>3
  <2>2. g = [s \in SUBSET S |-> g[s]]
    OBVIOUS
  <2> QED
    BY <2>1, <2>2 DEF IsTally
<1>7. IsTally(h, q)
  BY <1>6
<1>8. Checksum(q) = h[S] % 256
  BY TallyUnfolds
<1> HIDE DEF h
<1> DEFINE Good == {s \in SUBSET S : h[s] \in Nat}
<1>9. {} \in Good
  BY <1>7 DEF IsTally
<1>10. ASSUME NEW s \in SUBSET S, s # {}, \A x \in s : s \ {x} \in Good PROVE s \in Good
  <2>1. h[s] = h[s \ {Max(s)}] + Weight(q[Max(s)])
    BY <1>7, <1>10 DEF IsTally
  <2>2. h[s \ {Max(s)}] \in Nat /\ Weight(q[Max(s)]) \in Nat
    BY <1>4, <1>10 DEF TokensWeigh
  <2> QED
    BY <2>1, <2>2
<1>11. SUBSET S \subseteq Good
  <2>1. IsFiniteSet(S)
    BY FinitePositions
  <2> HIDE DEF Good, S
  <2> QED
    BY <1>9, <1>10, <2>1, SubsetInduct
<1>12. \A s \in SUBSET S : h[s] \in Nat
  BY <1>11
<1> QED
  BY <1>7, <1>8, <1>12

\* A checksum is a byte.
LEMMA ChecksumIsByte ==
    ASSUME TokensWeigh, NEW q \in Seq(Tokens)
    PROVE  Checksum(q) \in 0 .. 255
<1>1. PICK h : Checksum(q) = h[DOMAIN q] % 256 /\ h[DOMAIN q] \in Nat
  BY TallyExists
<1>2. \A m \in Nat : m % 256 \in 0 .. 255
  OBVIOUS
<1> QED
  BY <1>1, <1>2

\* d is q with token i replaced by t.
DiffersAt(d, q, i, t) ==
    /\ d \in Seq(Tokens) /\ Len(d) = Len(q) /\ d[i] = t
    /\ \A j \in 1 .. Len(q) : j # i => d[j] = q[j]

\* Sums that differ in one term.
LEMMA OneTermDiffers ==
    \A a, b, x, y \in Nat : b = a + y - x /\ y % 256 # x % 256 => b % 256 # a % 256
OBVIOUS

\* The checksum sees one token replaced by another of a different weight.
LEMMA ChecksumSees ==
    ASSUME TokensWeigh, NEW q \in Seq(Tokens), NEW i \in 1 .. Len(q), NEW t \in Tokens, NEW d,
           DiffersAt(d, q, i, t), Weight(t) % 256 # Weight(q[i]) % 256
    PROVE  Checksum(d) # Checksum(q)
<1> DEFINE S == 1 .. Len(q)
<1>1. /\ d \in Seq(Tokens) /\ DOMAIN d = S /\ DOMAIN q = S /\ Len(q) \in Nat /\ d[i] = t
      /\ \A j \in S : j # i => d[j] = q[j]
  BY DEF DiffersAt
<1>2. PICK g : IsTally(g, q) /\ Checksum(q) = g[S] % 256 /\ \A s \in SUBSET S : g[s] \in Nat
  BY <1>1, TallyExists, ZenonT(30)
<1>3. PICK h : IsTally(h, d) /\ Checksum(d) = h[S] % 256 /\ \A s \in SUBSET S : h[s] \in Nat
  BY <1>1, TallyExists, ZenonT(30)
<1>4. PICK x \in Nat, y \in Nat : x = Weight(q[i]) /\ y = Weight(t)
  BY DEF TokensWeigh
<1> DEFINE Good == {s \in SUBSET S : h[s] = g[s] + (IF i \in s THEN y - x ELSE 0)}
<1>5. g[{}] = 0 /\ h[{}] = 0
  BY <1>1, <1>2, <1>3 DEF IsTally
<1>6. {} \in Good
  BY <1>5
<1>7. ASSUME NEW s \in SUBSET S, s # {}, \A e \in s : s \ {e} \in Good PROVE s \in Good
  <2>1. PICK top, r : top = Max(s) /\ r = s \ {top}
    OBVIOUS
  <2>2. top \in s
    BY <1>1, <1>7, <2>1, MaxIn
  <2>3. g[s] = g[r] + Weight(q[top]) /\ h[s] = h[r] + Weight(d[top])
    BY <1>1, <1>2, <1>3, <1>7, <2>1, ZenonT(30) DEF IsTally
  <2>4. r \in Good /\ g[r] \in Nat /\ h[r] \in Nat /\ top \in S
    BY <1>2, <1>3, <1>7, <2>1, <2>2, ZenonT(30)
  <2>5. Weight(q[top]) \in Nat /\ q[top] \in Tokens
    BY <1>1, <2>4 DEF TokensWeigh
  <2>6. CASE top = i
    <3>1. i \notin r /\ i \in s
      BY <2>1, <2>2, <2>6
    <3>2. h[r] = g[r]
      BY <2>4, <3>1
    <3>3. g[s] = g[r] + x /\ h[s] = h[r] + y
      BY <1>1, <1>4, <2>3, <2>6
    <3>4. h[s] = g[s] + (y - x)
      BY <2>4, <3>2, <3>3
    <3> QED
      BY <1>7, <3>1, <3>4
  <2>7. CASE top # i
    <3>1. i \in r <=> i \in s
      BY <2>1, <2>7
    <3>2. PICK w \in Nat : w = Weight(q[top]) /\ w = Weight(d[top])
      BY <1>1, <2>4, <2>5, <2>7
    <3>3. h[r] = g[r] + (IF i \in s THEN y - x ELSE 0)
      BY <2>4, <3>1
    <3>4. h[s] = g[s] + (IF i \in s THEN y - x ELSE 0)
      BY <2>3, <2>4, <3>2, <3>3
    <3> QED
      BY <1>7, <3>4
  <2> QED
    BY <2>6, <2>7
<1>8. SUBSET S \subseteq Good
  <2>1. IsFiniteSet(S)
    BY <1>1, FS_Interval
  <2> HIDE DEF Good, S
  <2> QED
    BY <1>6, <1>7, <2>1, SubsetInduct
<1>9. h[S] = g[S] + (y - x) /\ g[S] \in Nat /\ h[S] \in Nat
  BY <1>2, <1>3, <1>8
<1>10. PICK a \in Nat, b \in Nat : a = g[S] /\ b = h[S] /\ b = a + y - x
  BY <1>9
<1>11. y % 256 # x % 256
  BY <1>4
<1>12. b % 256 # a % 256
  <2>1. a \in Nat /\ b \in Nat /\ x \in Nat /\ y \in Nat /\ b = a + y - x
    BY <1>10
  <2> QED
    BY ONLY <1>11, <2>1, OneTermDiffers
<1> QED
  BY <1>2, <1>3, <1>10, <1>12, ZenonT(30)

\* u is s and then t.
IsJoin(u, s, t) ==
    /\ Len(u) = Len(s) + Len(t)
    /\ \A i \in 1 .. Len(s) : u[i] = s[i]
    /\ \A i \in 1 .. Len(t) : u[Len(s) + i] = t[i]

\* What is where in two sequences joined.
LEMMA Joined ==
    ASSUME NEW T, NEW s \in Seq(T), NEW t \in Seq(T), NEW u, u = Cat(s, t)
    PROVE  u \in Seq(T) /\ IsJoin(u, s, t)
  BY DEF Cat, IsJoin

\* Two fields joined.
LEMMA TwoFields ==
    ASSUME NEW T, NEW a \in T, NEW b \in T, NEW c \in T, NEW d \in T, NEW e \in T, NEW f \in T
    PROVE  <<a, b, c>> \o <<d, e, f>> = <<a, b, c, d, e, f>>
<1>1. PICK s, t, u, v : s = <<a, b, c>> /\ t = <<d, e, f>> /\ u = Cat(s, t) /\ v = <<a, b, c, d, e, f>>
  OBVIOUS
<1>2. /\ s \in Seq(T) /\ Len(s) = 3 /\ s[1] = a /\ s[2] = b /\ s[3] = c
      /\ t \in Seq(T) /\ Len(t) = 3 /\ t[1] = d /\ t[2] = e /\ t[3] = f
      /\ v \in Seq(T) /\ Len(v) = 6 /\ v[1] = a /\ v[2] = b /\ v[3] = c
      /\ v[4] = d /\ v[5] = e /\ v[6] = f
  BY <1>1
<1>3. /\ u \in Seq(T) /\ Len(u) = 6 /\ \A i \in 1 .. 3 : u[i] = s[i] /\ u[3 + i] = t[i]
  <2>1. u \in Seq(T) /\ IsJoin(u, s, t)
    BY <1>1, <1>2, Joined
  <2> QED
    BY <1>2, <2>1 DEF IsJoin
<1>4. u[1] = a /\ u[2] = b /\ u[3] = c /\ u[4] = d /\ u[5] = e /\ u[6] = f
  BY <1>2, <1>3
<1>5. \A i \in 1 .. 6 : i = 1 \/ i = 2 \/ i = 3 \/ i = 4 \/ i = 5 \/ i = 6
  OBVIOUS
<1>6. \A i \in 1 .. 6 : u[i] = v[i]
  BY <1>2, <1>4, <1>5
<1>7. u = v
  BY <1>2, <1>3, <1>6, SeqEqual
<1> QED
  BY <1>1, <1>7 DEF Cat

Preamble(body) == Field(8, Txt("FIX.4.2")) \o Field(9, Num(Len(body))) \o body

\* m has body after its header.
Carries(m, body) == \A i \in 1 .. Len(body) : m[i + 6] = body[i]

\* What buildMessage() puts where.
LEMMA Built ==
    ASSUME TokensWeigh, NEW body \in Seq(Tokens), NEW m, m = BuildMessage(body)
    PROVE  /\ m \in Seq(Tokens) /\ Len(m) = Len(body) + 9
           /\ Starts(m, Len(body)) /\ Carries(m, body)
           /\ \E c \in 0 .. 255, head \in Seq(Tokens) :
                 /\ c = Checksum(head) /\ Len(head) = Len(body) + 6
                 /\ \A i \in 1 .. Len(head) : m[i] = head[i]
                 /\ m[Len(body) + 7] = Tag(10) /\ m[Len(body) + 8] = Num(c) /\ m[Len(body) + 9] = SOH
<1> DEFINE n == Len(body)
           top == <<Tag(8), Txt("FIX.4.2"), SOH, Tag(9), Num(n), SOH>>
           head == Preamble(body)
           c == Checksum(head)
           foot == <<Tag(10), Num(c), SOH>>
<1>1. n \in Nat
  OBVIOUS
<1>2. /\ Tag(8) \in Tokens /\ Tag(9) \in Tokens /\ Tag(10) \in Tokens /\ Num(n) \in Tokens
      /\ SOH \in Tokens /\ Txt("FIX.4.2") \in Tokens
  BY <1>1, TokensAre
<1>3. top \in Seq(Tokens) /\ Len(top) = 6
  BY <1>2
<1>4. head = Cat(top, body)
  <2>1. Field(8, Txt("FIX.4.2")) \o Field(9, Num(n)) = top
    BY <1>2, TwoFields DEF Field
  <2> QED
    BY <2>1, Zenon DEF Preamble, Cat
<1>5. \A i \in 1 .. 6 : top[i] = Header(n)[i]
  BY DEF Header
<1> HIDE DEF top, c, foot
<1>6. /\ head \in Seq(Tokens) /\ Len(head) = n + 6 /\ \A i \in 1 .. 6 : head[i] = top[i]
      /\ \A i \in 1 .. n : head[6 + i] = body[i]
  <2> HIDE DEF head
  <2>0. head \in Seq(Tokens) /\ IsJoin(head, top, body)
    BY <1>3, <1>4, Joined
  <2>1. /\ Len(head) = 6 + n /\ head \in Seq(Tokens) /\ \A i \in 1 .. 6 : head[i] = top[i]
        /\ \A i \in 1 .. n : head[6 + i] = body[i]
    BY <1>3, <2>0 DEF IsJoin
  <2> QED
    BY <1>1, <2>1
<1> HIDE DEF head
<1>7. c \in 0 .. 255 /\ c = Checksum(head)
  BY <1>6, ChecksumIsByte DEF c
<1>8. m = Cat(head, foot)
  BY Zenon DEF Cat, BuildMessage, Preamble, Field, head, foot, c
<1>9. /\ foot \in Seq(Tokens) /\ Len(foot) = 3
      /\ foot[1] = Tag(10) /\ foot[2] = Num(c) /\ foot[3] = SOH
  <2>1. Num(c) \in Tokens
    BY <1>7, TokensAre
  <2> QED
    BY <1>2, <2>1 DEF foot
<1>10. /\ m \in Seq(Tokens) /\ Len(m) = Len(head) + 3
       /\ \A i \in 1 .. Len(head) : m[i] = head[i]
       /\ \A i \in 1 .. 3 : m[Len(head) + i] = foot[i]
  <2>1. m \in Seq(Tokens) /\ IsJoin(m, head, foot)
    BY <1>6, <1>8, <1>9, Joined
  <2> QED
    BY <1>9, <2>1 DEF IsJoin
<1>11. m \in Seq(Tokens) /\ Len(m) = n + 9
  BY <1>1, <1>6, <1>10
<1>12. \A i \in 1 .. Len(head) : m[i] = head[i]
  BY <1>10
<1>13. m[n + 7] = Tag(10) /\ m[n + 8] = Num(c) /\ m[n + 9] = SOH
  <2>1. Len(head) + 1 = n + 7 /\ Len(head) + 2 = n + 8 /\ Len(head) + 3 = n + 9
    BY <1>1, <1>6
  <2>2. m[Len(head) + 1] = foot[1] /\ m[Len(head) + 2] = foot[2] /\ m[Len(head) + 3] = foot[3]
    BY <1>10
  <2> QED
    BY <1>9, <2>1, <2>2
<1>14. Starts(m, n)
  BY <1>1, <1>5, <1>6, <1>11, <1>12 DEF Starts
<1>15. Carries(m, body)
  <2>1. \A i \in 1 .. n : i + 6 \in 1 .. Len(head) /\ 6 + i = i + 6
    BY <1>1, <1>6
  <2> QED
    BY <1>6, <1>12, <2>1 DEF Carries
<1> HIDE DEF n
<1>16. \E d \in 0 .. 255, p \in Seq(Tokens) :
          /\ d = Checksum(p) /\ Len(p) = n + 6
          /\ \A i \in 1 .. Len(p) : m[i] = p[i]
          /\ m[n + 7] = Tag(10) /\ m[n + 8] = Num(d) /\ m[n + 9] = SOH
  BY <1>6, <1>7, <1>12, <1>13, Zenon
<1> QED
  BY <1>11, <1>14, <1>15, <1>16, Zenon DEF n

-----------------------------------------------------------------------------
(* Reading the stream                                                      *)

\* What the client is.
Sound ==
    /\ script \in Scripts
    /\ sent = [k \in DOMAIN script |-> BuildMessage(script[k])]
    /\ \/ fault = NoFault
       \/ \E k \in DOMAIN sent : \E i \in DOMAIN sent[k], t \in Noise(script) :
             Weight(t) % 256 # Weight(sent[k][i]) % 256 /\ fault = <<k, i, t>>

\* Damage that leaves the header legible, so that messages stay apart; and
\* damage after which no message is found any more.
Legible ==
    \/ fault = NoFault
    \/ fault[2] > 6
    \/ fault[2] = 2 /\ fault[3] # SOH

Stuck ==
    /\ fault # NoFault
    /\ \/ fault[2] \in {1, 4}
       \/ fault[2] = 2 /\ fault[3] = SOH
       \/ fault[2] = 3 /\ sent[fault[1]][7] # Tag(9)
       \/ fault[2] = 5 /\ fault[3][1] # "num"

\* Damage that makes a message run over into the next one: the separator after
\* BodyLength is gone, and the first one in the body taken for it.
Overrun ==
    /\ fault # NoFault /\ fault[2] = 6
    /\ sent[fault[1]][7] # SOH /\ sent[fault[1]][8] # SOH /\ sent[fault[1]][9] = SOH

\* How many messages are cut off where they end.
Aligned == IF Legible THEN Len(sent) ELSE Intact

\* m is a message with a body of n tokens.
IsMessage(m, n) == n \in Nat /\ Fits(n) /\ m \in Seq(Tokens) /\ Len(m) = n + 9 /\ Opens(m, n)

\* A script's tokens are tokens.
LEMMA ScriptTokens ==
    ASSUME NEW s \in Scripts, NEW k \in DOMAIN s
    PROVE  s[k] \in Seq(Tokens) /\ Fits(Len(s[k])) /\ DOMAIN s = 1 .. Len(s) /\ Len(s) \in Nat
<1>1. s \in Seq(Seq(Vocabulary(s))) /\ Fits(Len(s[k]))
  BY FixAssumption DEF Fits
<1>2. Vocabulary(s) \subseteq Tokens
  BY DEF Tokens
<1>3. s[k] \in Seq(Vocabulary(s)) /\ DOMAIN s = 1 .. Len(s) /\ Len(s) \in Nat
  BY <1>1
<1> QED
  BY <1>1, <1>2, <1>3, SeqMonotonic

\* A function on 1 .. n is a sequence.
LEMMA FunctionIsSeq ==
    ASSUME NEW S, NEW n \in Nat, NEW f \in [1 .. n -> S]
    PROVE  f \in Seq(S) /\ Len(f) = n
OBVIOUS

\* One token of a message replaced.
LEMMA Replaced ==
    ASSUME NEW q \in Seq(Tokens), NEW i \in 1 .. Len(q), NEW t \in Tokens
    PROVE  DiffersAt(ReplaceAt(q, i, t), q, i, t)
<1>1. PICK d : d = ReplaceAt(q, i, t)
  OBVIOUS
<1>2. d = [q EXCEPT ![i] = t]
  BY <1>1 DEF ReplaceAt
<1>3. /\ d \in Seq(Tokens) /\ Len(d) = Len(q) /\ d[i] = t
      /\ \A j \in 1 .. Len(q) : j # i => d[j] = q[j]
  BY <1>2, ExceptSeq
<1> QED
  BY <1>1, <1>3 DEF DiffersAt

\* Every message sent is one.
LEMMA SentMessages ==
    ASSUME TokensWeigh, Sound
    PROVE  /\ DOMAIN script = 1 .. Len(sent) /\ Len(sent) \in Nat /\ sent \in Seq(Seq(Tokens))
           /\ \A k \in 1 .. Len(sent) :
                  /\ script[k] \in Seq(Tokens) /\ sent[k] = BuildMessage(script[k])
                  /\ IsMessage(sent[k], Len(script[k])) /\ Starts(sent[k], Len(script[k]))
<1> DEFINE N == Len(script)
<1>0. script \in Scripts
  BY DEF Sound
<1>1. DOMAIN script = 1 .. N /\ N \in Nat
  BY <1>0, FixAssumption
<1>2. ASSUME NEW k \in 1 .. N PROVE sent[k] = BuildMessage(script[k])
  BY <1>1 DEF Sound
<1>3. ASSUME NEW k \in 1 .. N
      PROVE  /\ IsMessage(sent[k], Len(script[k])) /\ Starts(sent[k], Len(script[k]))
             /\ script[k] \in Seq(Tokens)
  <2>1. script[k] \in Seq(Tokens) /\ Fits(Len(script[k]))
    BY <1>0, <1>1, ScriptTokens
  <2>2. /\ sent[k] \in Seq(Tokens) /\ Len(sent[k]) = Len(script[k]) + 9
        /\ Starts(sent[k], Len(script[k]))
    BY <1>2, <2>1, Built
  <2> QED
    BY <2>1, <2>2, StartsOpens DEF IsMessage
<1>4. sent \in [1 .. N -> Seq(Tokens)]
  <2>1. sent = [k \in 1 .. N |-> sent[k]]
    BY <1>1 DEF Sound
  <2> QED
    BY <1>3, <2>1 DEF IsMessage
<1>5. sent \in Seq(Seq(Tokens)) /\ Len(sent) = N
  BY <1>1, <1>4
<1> QED
  BY <1>1, <1>2, <1>3, <1>5

\* The damage, where there is any.
IsDamage(k, i, t) ==
    /\ fault[1] = k /\ fault[2] = i /\ fault[3] = t
    /\ k \in 1 .. Len(sent) /\ i \in 1 .. Len(sent[k]) /\ t \in Tokens /\ t \in Noise(script)
    /\ Weight(t) % 256 # Weight(sent[k][i]) % 256
    /\ Intact = k - 1
    /\ Delivered[k] = ReplaceAt(sent[k], i, t)

\* The messages delivered, and which of them arrive as they were.
LEMMA ClientFacts ==
    ASSUME TokensWeigh, Sound
    PROVE  /\ Len(sent) \in Nat /\ sent \in Seq(Seq(Tokens))
           /\ Delivered \in Seq(Seq(Tokens)) /\ Len(Delivered) = Len(sent)
           /\ Intact \in 0 .. Len(sent) /\ (fault = NoFault => Intact = Len(sent))
           /\ \A k \in 1 .. Len(sent) : k # fault[1] => Delivered[k] = sent[k]
           /\ \A k \in 1 .. Intact : Delivered[k] = sent[k]
           /\ fault # NoFault => \E k, i, t : IsDamage(k, i, t)
<1> DEFINE N == Len(sent)
<1>1. N \in Nat /\ sent \in Seq(Seq(Tokens)) /\ script \in Scripts
  BY SentMessages DEF Sound
<1>2. DOMAIN sent = 1 .. N /\ \A k \in 1 .. N : sent[k] \in Seq(Tokens)
  BY <1>1
<1>3. /\ DOMAIN Delivered = 1 .. N /\ Delivered = [k \in 1 .. N |-> Delivered[k]]
      /\ \A k \in 1 .. N : k # fault[1] => Delivered[k] = sent[k]
      /\ \A k \in 1 .. N : k = fault[1] => Delivered[k] = ReplaceAt(sent[k], fault[2], fault[3])
  BY <1>2 DEF Delivered
<1>4. CASE fault = NoFault
  <2>1. fault[1] = 0
    BY <1>4 DEF NoFault
  <2>2. \A k \in 1 .. N : Delivered[k] = sent[k]
    BY <1>3, <2>1
  <2>3. Delivered \in [1 .. N -> Seq(Tokens)]
    BY <1>2, <1>3, <2>2
  <2>4. Delivered \in Seq(Seq(Tokens)) /\ Len(Delivered) = N
    BY <1>1, <2>3, SMTT(30)
  <2>5. Intact = N
    BY <1>4 DEF Intact
  <2> QED
    BY <1>1, <1>4, <2>2, <2>4, <2>5
<1>5. CASE fault # NoFault
  <2>1. PICK k \in DOMAIN sent : \E i \in DOMAIN sent[k], t \in Noise(script) :
           Weight(t) % 256 # Weight(sent[k][i]) % 256 /\ fault = <<k, i, t>>
    BY <1>5, Zenon DEF Sound
  <2>2. PICK i \in DOMAIN sent[k], t \in Noise(script) :
           Weight(t) % 256 # Weight(sent[k][i]) % 256 /\ fault = <<k, i, t>>
    BY <2>1
  <2>3. t \in Tokens
    BY <1>1 DEF Tokens
  <2>4. k \in 1 .. N /\ fault[1] = k /\ fault[2] = i /\ fault[3] = t
    BY <1>2, <2>2
  <2>5. Intact = k - 1
    BY <1>5, <2>4 DEF Intact
  <2>6. PICK q \in Seq(Tokens) : q = sent[k] /\ i \in 1 .. Len(q)
    BY <1>2, <2>4
  <2>7. Delivered[k] = ReplaceAt(sent[k], i, t)
    BY <1>3, <2>4
  <2>8. Delivered[k] \in Seq(Tokens)
    BY <2>3, <2>6, <2>7, Replaced DEF DiffersAt
  <2>9. Delivered \in [1 .. N -> Seq(Tokens)]
    BY <1>2, <1>3, <2>4, <2>8
  <2>10. Delivered \in Seq(Seq(Tokens)) /\ Len(Delivered) = N
    BY <1>1, <2>9, FunctionIsSeq, Zenon
  <2>11. Intact \in 0 .. N /\ \A l \in 1 .. Intact : l \in 1 .. N /\ l # k
    BY <1>1, <2>4, <2>5, SMTT(30)
  <2>12. IsDamage(k, i, t)
    BY <2>2, <2>3, <2>4, <2>5, <2>6, <2>7 DEF IsDamage
  <2> QED
    BY <1>1, <1>3, <1>5, <2>4, <2>10, <2>11, <2>12
<1> QED
  BY <1>4, <1>5

\* Up to there, what arrives are messages.
LEMMA AlignedFacts ==
    ASSUME TokensWeigh, Sound
    PROVE  /\ Aligned \in Intact .. Len(sent)
           /\ Legible => Aligned = Len(sent)
           /\ ~Legible => Aligned = Intact
           /\ \A k \in 1 .. Aligned : \E n \in Nat : IsMessage(Delivered[k], n)
<1>1. /\ Len(sent) \in Nat /\ Intact \in 0 .. Len(sent)
      /\ \A k \in 1 .. Intact : Delivered[k] = sent[k]
      /\ \A k \in 1 .. Len(sent) : k # fault[1] => Delivered[k] = sent[k]
  BY ClientFacts
<1>2. \A k \in 1 .. Len(sent) : \E n \in Nat : IsMessage(sent[k], n)
  BY SentMessages DEF IsMessage
<1>3. Aligned \in Intact .. Len(sent) /\ (Legible => Aligned = Len(sent)) /\ (~Legible => Aligned = Intact)
  BY <1>1 DEF Aligned
<1>4. ASSUME NEW k \in 1 .. Aligned PROVE \E n \in Nat : IsMessage(Delivered[k], n)
  <2>1. k \in 1 .. Len(sent)
    BY <1>1, <1>3
  <2>2. CASE Delivered[k] = sent[k]
    BY <1>2, <2>1, <2>2
  <2>3. CASE Delivered[k] # sent[k]
    <3>1. k = fault[1] /\ ~(k \in 1 .. Intact)
      BY <1>1, <2>1, <2>3
    <3>2. fault # NoFault
      BY <2>1, <3>1 DEF NoFault
    <3>3. Legible
      BY <1>3, <3>1
    <3>4. PICK i, t : IsDamage(k, i, t)
      <4>1. PICK l, i, t : IsDamage(l, i, t)
        BY <3>2, ClientFacts, Zenon
      <4>2. l = k
        BY <3>1, <4>1, Zenon DEF IsDamage
      <4> QED
        BY <4>1, <4>2, Zenon
    <3>5. i > 6 \/ (i = 2 /\ t # SOH)
      BY <3>2, <3>3, <3>4 DEF Legible, IsDamage
    <3>6. PICK n \in Nat : IsMessage(sent[k], n)
      BY <1>2, <2>1
    <3>7. PICK q, d : q = sent[k] /\ d = Delivered[k]
      OBVIOUS
    <3>8. q \in Seq(Tokens) /\ Len(q) = n + 9 /\ Opens(q, n) /\ Fits(n)
      BY <3>6, <3>7 DEF IsMessage
    <3>9. i \in 1 .. Len(q) /\ t \in Tokens /\ d = ReplaceAt(q, i, t)
      BY <3>4, <3>7 DEF IsDamage
    <3>10. /\ d \in Seq(Tokens) /\ Len(d) = Len(q) /\ d[i] = t
           /\ \A j \in 1 .. Len(q) : j # i => d[j] = q[j]
      <4>1. DiffersAt(d, q, i, t)
        BY <3>8, <3>9, Replaced
      <4> QED
        BY <4>1 DEF DiffersAt
    <3>11. ASSUME NEW j \in 1 .. 6 PROVE IF j = 2 THEN d[j] # SOH ELSE d[j] = Header(n)[j]
      <4>1. j \in 1 .. Len(q) /\ j <= Len(q)
        BY <3>8
      <4>2. IF j = 2 THEN q[j] # SOH ELSE q[j] = Header(n)[j]
        BY <3>8, <4>1 DEF Opens
      <4>3. CASE j = i
        <5>1. j = 2 /\ t # SOH
          BY <3>5, <4>3
        <5> QED
          BY <3>10, <4>3, <5>1
      <4>4. CASE j # i
        BY <3>10, <4>1, <4>2, <4>4
      <4> QED
        BY <4>3, <4>4
    <3>12. Opens(d, n)
      BY <3>11 DEF Opens
    <3>13. IsMessage(d, n)
      BY <3>8, <3>10, <3>12 DEF IsMessage
    <3> QED
      BY <3>7, <3>13
  <2> QED
    BY <2>2, <2>3
<1> QED
  BY <1>3, <1>4

FirstOf(w, n) == SubSeq(w, 1, n)
RestOf(w, n)  == SubSeq(w, n + 1, Len(w))

\* recv() moves the front of the stream to the end of the buffer.
LEMMA Shifts ==
    ASSUME NEW T, NEW b \in Seq(T), NEW w \in Seq(T), NEW n \in 1 .. Len(w)
    PROVE  /\ Cat(b, FirstOf(w, n)) \in Seq(T) /\ RestOf(w, n) \in Seq(T)
           /\ Cat(Cat(b, FirstOf(w, n)), RestOf(w, n)) = Cat(b, w)
<1>1. PICK p, v : p = FirstOf(w, n) /\ v = RestOf(w, n)
  OBVIOUS
<1>2. Len(w) \in Nat /\ n \in Int /\ n + 1 \in Int /\ \A i \in 1 .. Len(w) : w[i] \in T
  OBVIOUS
<1>3. p \in Seq(T)
  <2>1. \A i \in 1 .. n : w[i] \in T
    BY <1>2
  <2> QED
    BY <1>1, <1>2, <2>1, SubSeqProperties DEF FirstOf
<1>4. v \in Seq(T)
  <2>1. \A i \in n + 1 .. Len(w) : w[i] \in T
    BY <1>2
  <2> QED
    BY <1>1, <1>2, <2>1, SubSeqProperties DEF RestOf
<1>5. Cat(p, v) = w
  <2>1. 1 \in 1 .. Len(w) + 1 /\ n \in 1 - 1 .. Len(w) /\ Len(w) \in n .. Len(w)
    BY <1>2
  <2>2. SubSeq(w, 1, n) \o SubSeq(w, n + 1, Len(w)) = SubSeq(w, 1, Len(w))
    BY <2>1, ConcatAdjacentSubSeq
  <2>3. SubSeq(w, 1, Len(w)) = w
    BY SubSeqFull
  <2> QED
    BY <1>1, <2>2, <2>3, Zenon DEF Cat, FirstOf, RestOf
<1>7. Cat(b, p) \in Seq(T) /\ Cat(Cat(b, p), v) = Cat(b, Cat(p, v))
  BY ONLY b \in Seq(T), <1>3, <1>4, Joining
<1> QED
  BY <1>1, <1>4, <1>5, <1>7

\* Where the next thing in the stream is a message, the buffer starts like it,
\* and once it is long enough it holds all of it.
LEMMA FrontIsMessage ==
    ASSUME NEW b \in Seq(Tokens), NEW w \in Seq(Tokens), NEW m, NEW n, IsMessage(m, n),
           NEW r \in Seq(Tokens), Cat(b, w) = Cat(m, r)
    PROVE  /\ Opens(b, n)
           /\ Len(b) >= n + 9 => /\ SubSeq(b, 1, n + 9) = m
                                 /\ Cat(SubSeq(b, n + 9 + 1, Len(b)), w) = r
<1>1. PICK u : u = Cat(b, w)
  OBVIOUS
<1>2. m \in Seq(Tokens) /\ n \in Nat /\ Len(m) = n + 9 /\ Opens(m, n)
  BY DEF IsMessage
<1>3. u \in Seq(Tokens) /\ IsJoin(u, b, w) /\ IsJoin(u, m, r)
  BY <1>1, <1>2, Joined
<1>4. Len(b) \in Nat /\ Len(w) \in Nat /\ Len(m) \in Nat /\ Len(r) \in Nat
  BY <1>2
<1>5. \A i \in 1 .. 6 : i <= Len(b) => b[i] = m[i]
  BY <1>2, <1>3, <1>4 DEF IsJoin
<1>6. Opens(b, n)
  BY <1>2, <1>5 DEF Opens
<1>7. ASSUME Len(b) >= n + 9 PROVE SubSeq(b, 1, n + 9) = m
  <2>1. PICK p : p = SubSeq(b, 1, n + 9)
    OBVIOUS
  <2>2. n + 9 \in Int /\ \A i \in 1 .. n + 9 : b[i] \in Tokens
    BY <1>2, <1>4, <1>7
  <2>3. p \in Seq(Tokens) /\ Len(p) = n + 9 /\ \A i \in 1 .. n + 9 : p[i] = b[i]
    BY <1>2, <1>4, <1>7, <2>1, <2>2, SubSeqProperties
  <2>4. \A i \in 1 .. n + 9 : b[i] = m[i]
    BY <1>2, <1>3, <1>4, <1>7 DEF IsJoin
  <2>5. \A i \in 1 .. Len(p) : p[i] = m[i]
    BY <2>3, <2>4
  <2>6. p = m
    BY <1>2, <2>3, <2>5, SeqEqual
  <2> QED
    BY <2>1, <2>6
<1>8. ASSUME Len(b) >= n + 9 PROVE Cat(SubSeq(b, n + 9 + 1, Len(b)), w) = r
  <2>1. PICK p : p = SubSeq(b, n + 9 + 1, Len(b))
    OBVIOUS
  <2>2. n + 9 + 1 \in Int /\ \A i \in n + 9 + 1 .. Len(b) : b[i] \in Tokens
    BY <1>2, <1>4
  <2>3. p \in Seq(Tokens)
    BY <1>4, <2>1, <2>2, SubSeqProperties
  <2>4. Cat(m, p) = b
    <3>1. 1 \in 1 .. Len(b) + 1 /\ n + 9 \in 1 - 1 .. Len(b) /\ Len(b) \in n + 9 .. Len(b)
      BY <1>2, <1>4, <1>8
    <3>2. SubSeq(b, 1, n + 9) \o SubSeq(b, n + 9 + 1, Len(b)) = SubSeq(b, 1, Len(b))
      BY <3>1, ConcatAdjacentSubSeq
    <3>3. SubSeq(b, 1, Len(b)) = b
      BY SubSeqFull
    <3> QED
      BY <1>7, <1>8, <2>1, <3>2, <3>3, Zenon DEF Cat
  <2>5. Cat(Cat(m, p), w) = Cat(m, Cat(p, w)) /\ Cat(p, w) \in Seq(Tokens)
    BY <1>2, <2>3, Joining
  <2>6. Cat(m, Cat(p, w)) = Cat(m, r)
    BY <2>4, <2>5, Zenon
  <2>7. Cat(p, w) = r
    BY <1>2, <2>5, <2>6, Joining
  <2> QED
    BY <2>1, <2>7
<1> QED
  BY <1>6, <1>7, <1>8

\* What the loop has: sequences of tokens.
Typed ==
    /\ wire \in Seq(Tokens)
    /\ recvBuffer \in Seq(Tokens)
    /\ jobs \in Seq(Seq(Tokens))

Stream == Upto(Tokens, Delivered, Len(Delivered))
Before == Upto(Tokens, Delivered, Len(jobs))

\* raw is d and perhaps more tokens, none of them the tag of a checksum.
Overlong(raw, d) ==
    /\ raw \in Seq(Tokens) /\ Len(raw) >= Len(d)
    /\ \A i \in 1 .. Len(raw) : IF i <= Len(d) THEN raw[i] = d[i] ELSE raw[i] # Tag(10)

\* b and what follows does not start like a message.
Stray(b, w) == Len(Cat(b, w)) > 0 /\ Cat(b, w)[1] # Tag(8)

\* The message that runs over is the last to be cut off: the next one has lost
\* its start.
Overran ==
    Overrun => /\ Len(jobs) <= Intact + 1
               /\ Len(jobs) = Intact + 1 => /\ Overlong(jobs[Intact + 1], Delivered[Intact + 1])
                                            /\ Stray(recvBuffer, wire)

\* Nothing is lost, repeated or split: what was cut off, what is in the buffer
\* and what is still to come make the stream, as long as messages are aligned.
Whole ==
    /\ Len(jobs) <= Aligned => Cat(Before, Cat(recvBuffer, wire)) = Stream
    /\ Legible => Len(jobs) <= Len(sent)
    /\ Stuck => Len(jobs) <= Intact
    /\ Overran
    /\ \A k \in 1 .. Len(jobs) : k <= Aligned => jobs[k] = Delivered[k]
    /\ loop = "wait" => TryExtractMessage(recvBuffer) = NoMessage

Framed == Sound /\ Typed /\ Whole

\* After the first j messages comes the next one, or nothing after the last.
LEMMA NextAfter ==
    ASSUME TokensWeigh, Sound, NEW j \in 0 .. Len(sent), NEW x \in Seq(Tokens),
           Cat(Upto(Tokens, Delivered, j), x) = Stream
    PROVE  /\ j < Len(sent) =>
                  \E r \in Seq(Tokens) : /\ x = Cat(Delivered[j + 1], r)
                                         /\ Cat(Upto(Tokens, Delivered, j + 1), r) = Stream
           /\ j = Len(sent) => x = << >>
<1>1. /\ j \in Nat /\ Delivered \in Seq(Seq(Tokens)) /\ Len(Delivered) = Len(sent) /\ Len(sent) \in Nat
      /\ j <= Len(sent)
  BY ClientFacts
<1>2. PICK z \in Seq(Tokens) : z = Upto(Tokens, Delivered, j)
  <2>1. j \in 0 .. Len(Delivered)
    BY <1>1
  <2> QED
    BY <1>1, <2>1, UptoGrows
<1>3. ASSUME j < Len(sent)
      PROVE  \E r \in Seq(Tokens) : /\ x = Cat(Delivered[j + 1], r)
                                    /\ Cat(Upto(Tokens, Delivered, j + 1), r) = Stream
  <2>1. /\ j + 1 \in 0 .. Len(Delivered) /\ j \in 0 .. Len(Delivered) - 1
        /\ j + 1 \in 1 .. Len(Delivered)
    BY <1>1, <1>3
  <2>2. PICK m \in Seq(Tokens) : m = Delivered[j + 1]
    BY <1>1, <2>1
  <2>3. PICK r \in Seq(Tokens) : Stream = Cat(Upto(Tokens, Delivered, j + 1), r)
    BY <1>1, <2>1, UptoPrefix DEF Stream
  <2>4. Upto(Tokens, Delivered, j + 1) = Cat(z, m)
    <3>1. Upto(Tokens, Delivered, j + 1) = Upto(Tokens, Delivered, j) \o Delivered[j + 1]
      BY <1>1, <2>1, UptoGrows
    <3> QED
      BY <1>2, <2>2, <3>1, Zenon DEF Cat
  <2>5. Cat(Cat(z, m), r) = Cat(z, Cat(m, r)) /\ Cat(m, r) \in Seq(Tokens)
    BY Joining
  <2>6. Cat(z, x) = Cat(z, Cat(m, r))
    BY <1>2, <2>3, <2>4, <2>5, Zenon
  <2>7. x = Cat(m, r)
    BY <2>5, <2>6, Joining
  <2> QED
    BY <2>2, <2>3, <2>7, Zenon
<1>4. ASSUME j = Len(sent) PROVE x = << >>
  <2>1. z = Stream
    BY <1>1, <1>2, <1>4 DEF Stream
  <2>2. PICK e \in Seq(Tokens) : e = << >>
    BY EmptySeq
  <2>3. Cat(z, x) = Cat(z, e)
    BY <1>2, <2>1, <2>2, Joining
  <2>4. x = e
    BY <2>3, Joining
  <2> QED
    BY <2>2, <2>4
<1> QED
  BY <1>3, <1>4

\* What comes next is the next message, or nothing after the last one.
LEMMA NextInStream ==
    ASSUME TokensWeigh, Framed, Len(jobs) <= Aligned
    PROVE  /\ Len(jobs) < Len(sent) =>
                  \E r \in Seq(Tokens) :
                      /\ Cat(recvBuffer, wire) = Cat(Delivered[Len(jobs) + 1], r)
                      /\ Cat(Upto(Tokens, Delivered, Len(jobs) + 1), r) = Stream
           /\ Len(jobs) = Len(sent) => recvBuffer = << >>
<1>1. Sound /\ Typed /\ Whole
  BY DEF Framed
<1>2. /\ Len(jobs) \in 0 .. Len(sent) /\ wire \in Seq(Tokens) /\ recvBuffer \in Seq(Tokens)
  BY <1>1, ClientFacts, AlignedFacts DEF Typed
<1>3. PICK j \in 0 .. Len(sent), x \in Seq(Tokens) : j = Len(jobs) /\ x = Cat(recvBuffer, wire)
  BY <1>2, Joining
<1>4. Cat(Upto(Tokens, Delivered, j), x) = Stream
  BY <1>1, <1>3 DEF Whole, Before
<1>5. /\ j < Len(sent) =>
            \E r \in Seq(Tokens) : /\ x = Cat(Delivered[j + 1], r)
                                   /\ Cat(Upto(Tokens, Delivered, j + 1), r) = Stream
      /\ j = Len(sent) => x = << >>
  BY <1>1, <1>4, NextAfter
<1>6. x = << >> => recvBuffer = << >>
  <2>1. IsJoin(x, recvBuffer, wire)
    BY <1>2, <1>3, Joined
  <2>2. x = << >> => Len(recvBuffer) = 0
    BY <1>2, <1>3, <2>1 DEF IsJoin
  <2> QED
    BY <1>2, <2>2, EmptySeq
<1> QED
  BY <1>3, <1>5, <1>6

\* Nothing comes out of an empty buffer.
LEMMA EmptyWaits ==
    TryExtractMessage(<< >>) = NoMessage
<1>1. PICK b \in Seq(Tokens) : b = << >>
  BY EmptySeq
<1>2. Len(b) = 0
  BY <1>1
<1>3. Opens(b, 0)
  BY <1>2 DEF Opens
<1>4. Fits(0)
  BY WidthAssumption DEF Fits
<1>5. TryExtractMessage(b) = IF Len(b) >= 0 + 9 THEN 0 + 9 ELSE NoMessage
  BY <1>3, <1>4, Extracts
<1> QED
  BY <1>1, <1>2, <1>5

\* d does not start as a message does.
Broken(d) ==
    \/ d[1] # Tag(8)
    \/ \E f \in 2 .. 6 : /\ d[f] = SOH /\ d[f + 1] # Tag(9)
                          /\ \A i \in 1 .. f - 1 : d[i] # SOH
    \/ d[2] # SOH /\ d[3] = SOH /\ d[5][1] # "num"

\* Nothing is cut off a buffer that starts like d.
LEMMA BrokenWaits ==
    ASSUME NEW b \in Seq(Tokens), NEW d, Broken(d), \A i \in 1 .. 7 : i <= Len(b) => b[i] = d[i]
    PROVE  TryExtractMessage(b) = NoMessage
<1>1. Len(b) \in Nat
  OBVIOUS
<1>2. CASE b = << >> \/ b[1] # Tag(8)
  BY <1>2, Zenon DEF TryExtractMessage
<1>3. ASSUME ~(b = << >> \/ b[1] # Tag(8)),
             NEW f \in 2 .. 6, d[f] = SOH, d[f + 1] # Tag(9), \A i \in 1 .. f - 1 : d[i] # SOH
      PROVE  TryExtractMessage(b) = NoMessage
  <2>3. CASE Len(b) < f
    <3>1. \A i \in 1 .. Len(b) : b[i] # SOH
      BY <1>1, <1>3, <2>3
    <3>2. FindSoh(b, 1) = 0
      BY <3>1, FindsNoSoh
    <3> QED
      BY <3>2, Zenon DEF TryExtractMessage
  <2>4. CASE Len(b) >= f
    <3>1. f \in 1 .. Len(b) /\ b[f] = SOH /\ \A i \in 1 .. f - 1 : b[i] # SOH
      BY <1>1, <1>3, <2>4
    <3>2. FindSoh(b, 1) = f
      BY <3>1, FindsSoh
    <3>3. ~(f < Len(b) /\ b[f + 1] = Tag(9))
      BY <1>1, <1>3
    <3> QED
      BY <3>2, <3>3, Zenon DEF TryExtractMessage
  <2> QED
    BY <1>1, <2>3, <2>4
<1>4. CASE ~(b = << >> \/ b[1] # Tag(8)) /\ d[2] # SOH /\ d[3] = SOH /\ d[5][1] # "num"
  <2>1. PICK first, sep, length :
           first = FindSoh(b, 1) /\ sep = FindSoh(b, first + 2) /\ length = SubSeq(b, first + 2, sep - 1)
    OBVIOUS
  <2>2. b[1] # SOH
    BY <1>4, TokensDiffer
  <2>3. CASE Len(b) < 3
    <3>1. \A i \in 1 .. Len(b) : b[i] # SOH
      BY <1>1, <1>4, <2>2, <2>3
    <3>2. FindSoh(b, 1) = 0
      BY <3>1, FindsNoSoh
    <3> QED
      BY <3>2, Zenon DEF TryExtractMessage
  <2>4. CASE Len(b) >= 3
    <3>1. 3 \in 1 .. Len(b) /\ b[3] = SOH /\ \A i \in 1 .. 3 - 1 : b[i] # SOH
      BY <1>1, <1>4, <2>2, <2>4
    <3>2. first = 3 /\ first + 2 = 5
      BY <2>1, <3>1, FindsSoh
    <3>3. sep \in 0 .. Len(b)
      <4>1. sep = FindSoh(b, 5) /\ 5 \in Nat \ {0}
        BY <2>1, <3>2
      <4> QED
        BY <4>1, FindsWithin
    <3>4. length = << >> \/ length[1][1] # "num"
      <4>1. PICK last \in Int : last = sep - 1 /\ last <= Len(b)
        BY <1>1, <3>3
      <4>2. length = SubSeq(b, 5, last)
        BY <2>1, <3>2, <4>1
      <4>3. CASE last < 5
        <5>1. length = << >>
          BY <4>2, <4>3
        <5> QED
          BY <5>1
      <4>4. CASE last >= 5
        <5>1. \A i \in 5 .. last : b[i] \in Tokens
          BY <1>1, <4>1
        <5>2. \A i \in 1 .. last - 5 + 1 : length[i] = b[5 + i - 1]
          BY <4>1, <4>2, <5>1, SubSeqProperties
        <5>3. length[1] = b[5] /\ 5 <= Len(b)
          BY <1>1, <4>1, <4>4, <5>2
        <5> QED
          BY <1>4, <5>3
      <4> QED
        BY <4>1, <4>3, <4>4
    <3>5. ~Converts(length)
      BY <3>4, Zenon DEF Converts
    <3> QED
      BY <2>1, <3>5, Zenon DEF TryExtractMessage
  <2> QED
    BY <1>1, <2>3, <2>4
<1>5. CASE ~(b = << >> \/ b[1] # Tag(8))
  <2>1. b[1] = d[1]
    BY <1>1, <1>5
  <2> QED
    BY <1>3, <1>4, <1>5, <2>1 DEF Broken
<1> QED
  BY <1>2, <1>5

\* Damage that leaves loop and buffer stuck breaks the message.
LEMMA StuckIsBroken ==
    ASSUME TokensWeigh, Sound, Stuck
    PROVE  /\ Intact < Len(sent) /\ ~Legible
           /\ Broken(Delivered[Intact + 1]) /\ Len(Delivered[Intact + 1]) >= 7
<1>1. PICK k, i, t : IsDamage(k, i, t)
  BY ClientFacts DEF Stuck
<1>2. Len(sent) \in Nat /\ k \in 1 .. Len(sent) /\ Intact = k - 1 /\ k = Intact + 1
  BY <1>1, ClientFacts DEF IsDamage
<1>3. \/ i \in {1, 4}
      \/ i = 2 /\ t = SOH
      \/ i = 3 /\ sent[k][7] # Tag(9)
      \/ i = 5 /\ t[1] # "num"
  BY <1>1 DEF Stuck, IsDamage
<1>4. ~Legible
  BY <1>1, <1>3 DEF Stuck, Legible, IsDamage
<1>5. PICK q, d : q = sent[k] /\ d = Delivered[k]
  OBVIOUS
<1>6. PICK n \in Nat : q \in Seq(Tokens) /\ Len(q) = n + 9 /\ Starts(q, n)
  BY <1>2, <1>5, SentMessages DEF IsMessage
<1>7. /\ d \in Seq(Tokens) /\ Len(d) = Len(q) /\ d[i] = t
      /\ \A j \in 1 .. Len(q) : j # i => d[j] = q[j]
  <2>1. i \in 1 .. Len(q) /\ t \in Tokens /\ d = ReplaceAt(q, i, t)
    BY <1>1, <1>5 DEF IsDamage
  <2>2. DiffersAt(d, q, i, t)
    BY <1>6, <2>1, Replaced
  <2> QED
    BY <2>2 DEF DiffersAt
<1>8. /\ q[1] = Tag(8) /\ q[2] = Txt("FIX.4.2") /\ q[3] = SOH /\ q[4] = Tag(9)
      /\ q[5] = Num(n) /\ q[6] = SOH
  BY <1>6 DEF Starts, Header
<1>9. Weight(t) % 256 # Weight(q[i]) % 256
  BY <1>1, <1>5 DEF IsDamage
<1>10. t # q[i]
  BY <1>9
<1>11. Tag(8) # SOH /\ Txt("FIX.4.2") # SOH /\ SOH # Tag(9) /\ Tag(9) # SOH /\ Num(n) # SOH
  BY TokensDiffer
<1>12. Broken(d)
  <2>1. CASE i = 1
    BY <1>7, <1>8, <1>10, <2>1 DEF Broken
  <2>2. CASE i = 4
    <3>1. d[1] = Tag(8) /\ d[2] = Txt("FIX.4.2") /\ d[3] = SOH /\ d[4] # Tag(9)
      BY <1>6, <1>7, <1>8, <1>10, <2>2
    <3>2. 3 \in 2 .. 6 /\ d[3 + 1] # Tag(9) /\ \A j \in 1 .. 3 - 1 : d[j] # SOH
      BY <1>11, <3>1
    <3> QED
      BY <3>1, <3>2 DEF Broken
  <2>3. CASE i = 2 /\ t = SOH
    <3>1. d[1] = Tag(8) /\ d[2] = SOH /\ d[3] = SOH
      BY <1>6, <1>7, <1>8, <2>3
    <3>2. 2 \in 2 .. 6 /\ d[2 + 1] # Tag(9) /\ \A j \in 1 .. 2 - 1 : d[j] # SOH
      BY <1>11, <3>1
    <3> QED
      BY <3>1, <3>2 DEF Broken
  <2>4. CASE i = 3 /\ sent[k][7] # Tag(9)
    <3>1. /\ d[1] = Tag(8) /\ d[2] = Txt("FIX.4.2") /\ d[3] # SOH /\ d[4] = Tag(9)
          /\ d[5] = Num(n) /\ d[6] = SOH /\ d[7] # Tag(9)
      BY <1>5, <1>6, <1>7, <1>8, <1>10, <2>4
    <3>2. \A j \in 1 .. 6 - 1 : j = 1 \/ j = 2 \/ j = 3 \/ j = 4 \/ j = 5
      OBVIOUS
    <3>3. \A j \in 1 .. 6 - 1 : d[j] # SOH
      BY <1>11, <3>1, <3>2
    <3>4. 6 \in 2 .. 6 /\ d[6 + 1] # Tag(9)
      BY <3>1
    <3> QED
      BY <3>1, <3>3, <3>4 DEF Broken
  <2>5. CASE i = 5 /\ t[1] # "num"
    <3>1. d[2] = Txt("FIX.4.2") /\ d[3] = SOH /\ d[5][1] # "num"
      BY <1>6, <1>7, <1>8, <2>5
    <3> QED
      BY <1>11, <3>1 DEF Broken
  <2> QED
    BY <1>3, <2>1, <2>2, <2>3, <2>4, <2>5
<1>13. Len(d) >= 7
  BY <1>6, <1>7
<1> QED
  BY <1>2, <1>4, <1>5, <1>12, <1>13

\* d starts like a message with n tokens but for the separator after BodyLength.
Straddles(d, n) ==
    /\ d[1] = Tag(8) /\ d[2] # SOH /\ d[3] = SOH /\ d[5] = Num(n)
    /\ d[6] # SOH /\ d[7] # SOH /\ d[8] # SOH /\ d[9] = SOH

\* Three tokens too many are cut off.
LEMMA CutsLate ==
    ASSUME NEW b \in Seq(Tokens), NEW n \in Nat, Fits(n), NEW d, Straddles(d, n),
           \A i \in 1 .. 9 : i <= Len(b) => b[i] = d[i], TryExtractMessage(b) # NoMessage
    PROVE  TryExtractMessage(b) = n + 12
<1>1. PICK first, sep, length, total :
         /\ first = FindSoh(b, 1) /\ sep = FindSoh(b, first + 2)
         /\ length = SubSeq(b, first + 2, sep - 1)
         /\ total = (sep + Unsigned(length, Width) + 3) % 2^Width
  OBVIOUS
<1>2. TryExtractMessage(b) =
          IF /\ b # << >> /\ b[1] = Tag(8) /\ first # 0
             /\ first < Len(b) /\ b[first + 1] = Tag(9)
             /\ sep # 0 /\ Converts(length) /\ Len(b) >= total
          THEN total ELSE NoMessage
  BY <1>1, Zenon DEF TryExtractMessage
<1>3. first # 0 /\ sep # 0 /\ TryExtractMessage(b) = total
  BY <1>2, Zenon
<1>4. Len(b) \in Nat /\ Tag(8) # SOH /\ Num(n) # SOH
  BY TokensDiffer
<1>5. /\ d[1] # SOH /\ d[2] # SOH /\ d[3] = SOH /\ d[5] = Num(n) /\ d[5] # SOH
      /\ d[6] # SOH /\ d[7] # SOH /\ d[8] # SOH /\ d[9] = SOH
  BY <1>4 DEF Straddles
<1>6. first = 3
  <2>1. CASE Len(b) < 3
    <3>1. \A i \in 1 .. Len(b) : i = 1 \/ i = 2
      BY <1>4, <2>1
    <3>2. \A i \in 1 .. Len(b) : b[i] # SOH
      BY <1>4, <1>5, <3>1
    <3> QED
      BY <1>1, <1>3, <3>2, FindsNoSoh
  <2>2. CASE Len(b) >= 3
    <3>1. 3 \in 1 .. Len(b) /\ \A i \in 1 .. 3 - 1 : i = 1 \/ i = 2
      BY <1>4, <2>2
    <3>2. b[3] = SOH /\ \A i \in 1 .. 3 - 1 : b[i] # SOH
      BY <1>4, <1>5, <2>2, <3>1
    <3> QED
      BY <1>1, <3>1, <3>2, FindsSoh
  <2> QED
    BY <1>4, <2>1, <2>2
<1>7. sep = FindSoh(b, 5)
  BY <1>1, <1>6
<1>8. sep = 9 /\ Len(b) >= 9
  <2>1. CASE Len(b) < 9
    <3>1. \A i \in 5 .. Len(b) : i = 5 \/ i = 6 \/ i = 7 \/ i = 8
      BY <1>4, <2>1
    <3>2. \A i \in 5 .. Len(b) : i \in 1 .. 9 /\ i <= Len(b)
      BY <1>4, <2>1
    <3>3. \A i \in 5 .. Len(b) : b[i] # SOH
      BY <1>5, <3>1, <3>2
    <3> QED
      BY <1>3, <1>7, <3>3, FindsNoSoh
  <2>2. CASE Len(b) >= 9
    <3>1. 9 \in 5 .. Len(b) /\ \A i \in 5 .. 9 - 1 : i = 5 \/ i = 6 \/ i = 7 \/ i = 8
      BY <1>4, <2>2
    <3>2. \A i \in 5 .. 9 - 1 : i \in 1 .. 9 /\ i <= Len(b)
      BY <1>4, <2>2
    <3>3. b[9] = SOH /\ \A i \in 5 .. 9 - 1 : b[i] # SOH
      BY <1>5, <2>2, <3>1, <3>2
    <3>4. FindSoh(b, 5) = 9
      BY <3>1, <3>3, FindsSoh
    <3> QED
      BY <1>7, <2>2, <3>4
  <2> QED
    BY <1>4, <2>1, <2>2
<1>9. length[1] = Num(n)
  <2>1. length = SubSeq(b, 5, 8)
    <3>1. first + 2 = 5 /\ sep - 1 = 8
      BY <1>6, <1>8
    <3> QED
      BY <1>1, <3>1
  <2>2. \A i \in 5 .. 8 : b[i] \in Tokens
    BY <1>4, <1>8
  <2>3. \A i \in 1 .. 8 - 5 + 1 : length[i] = b[5 + i - 1]
    BY <2>1, <2>2, SubSeqProperties
  <2>4. length[1] = b[5]
    BY <2>3
  <2> QED
    BY <1>4, <1>5, <1>8, <2>4
<1>10. Unsigned(length, Width) = n
  <2>1. length[1][2] = n
    BY <1>9 DEF Num
  <2>2. 2^Width \in Nat
    BY WidthAssumption
  <2>3. n % 2^Width = n
    BY <2>2, SMTT(30) DEF Fits
  <2> QED
    BY <2>1, <2>3, Zenon DEF Unsigned
<1>11. total = n + 12
  <2>1. 2^Width \in Nat
    BY WidthAssumption
  <2>2. (9 + n + 3) % 2^Width = n + 12
    BY <2>1, SMTT(30) DEF Fits
  <2> QED
    BY <1>1, <1>8, <1>10, <2>2
<1> QED
  BY <1>3, <1>11

\* A message that runs over is one of those.
LEMMA OverrunStraddles ==
    ASSUME TokensWeigh, Sound, Overrun
    PROVE  /\ Intact < Len(sent) /\ ~Legible /\ ~Stuck
           /\ \E n \in Nat : /\ Straddles(Delivered[Intact + 1], n) /\ Fits(n)
                             /\ Delivered[Intact + 1] \in Seq(Tokens) /\ Len(Delivered[Intact + 1]) = n + 9
<1>1. PICK k, i, t : IsDamage(k, i, t)
  BY ClientFacts DEF Overrun
<1>2. Len(sent) \in Nat /\ k \in 1 .. Len(sent) /\ Intact = k - 1 /\ k = Intact + 1
  BY <1>1, ClientFacts DEF IsDamage
<1>3. i = 6 /\ fault[2] = 6 /\ fault # NoFault /\ sent[k][7] # SOH /\ sent[k][8] # SOH /\ sent[k][9] = SOH
  BY <1>1 DEF Overrun, IsDamage
<1>4. ~Legible /\ ~Stuck
  BY <1>3 DEF Stuck, Legible
<1>5. PICK q, d : q = sent[k] /\ d = Delivered[k]
  OBVIOUS
<1>6. PICK n \in Nat : q \in Seq(Tokens) /\ Len(q) = n + 9 /\ Starts(q, n) /\ Fits(n)
  BY <1>2, <1>5, SentMessages DEF IsMessage
<1>7. /\ d \in Seq(Tokens) /\ Len(d) = Len(q) /\ d[i] = t
      /\ \A j \in 1 .. Len(q) : j # i => d[j] = q[j]
  <2>1. i \in 1 .. Len(q) /\ t \in Tokens /\ d = ReplaceAt(q, i, t)
    BY <1>1, <1>5 DEF IsDamage
  <2>2. DiffersAt(d, q, i, t)
    BY <1>6, <2>1, Replaced
  <2> QED
    BY <2>2 DEF DiffersAt
<1>8. q[1] = Tag(8) /\ q[2] = Txt("FIX.4.2") /\ q[3] = SOH /\ q[5] = Num(n) /\ q[6] = SOH
  BY <1>6 DEF Starts, Header
<1>9. Txt("FIX.4.2") # SOH /\ t # SOH
  <2>1. Weight(t) % 256 # Weight(q[6]) % 256
    BY <1>1, <1>3, <1>5 DEF IsDamage
  <2>2. t # SOH
    BY <1>8, <2>1
  <2> QED
    BY <2>2, TokensDiffer
<1>10. \A j \in {1, 2, 3, 5, 7, 8, 9} : d[j] = q[j]
  <2>1. \A j \in {1, 2, 3, 5, 7, 8, 9} : j \in 1 .. Len(q) /\ j # i
    BY <1>3, <1>6
  <2> QED
    BY <1>7, <2>1
<1>11. Straddles(d, n)
  BY <1>3, <1>5, <1>7, <1>8, <1>9, <1>10 DEF Straddles
<1> QED
  BY <1>2, <1>4, <1>5, <1>6, <1>7, <1>11

\* Cutting three tokens too many off leaves the next message without its start.
LEMMA RunsOver ==
    ASSUME NEW b \in Seq(Tokens), NEW w \in Seq(Tokens), NEW d \in Seq(Tokens), NEW r \in Seq(Tokens),
           NEW n \in Nat, Len(d) = n + 9, Cat(b, w) = Cat(d, r), Len(b) >= n + 12,
           Len(r) >= 4, r[1] = Tag(8), r[2] = Txt("FIX.4.2"), r[3] = SOH, r[4] = Tag(9)
    PROVE  /\ Overlong(SubSeq(b, 1, n + 12), d)
           /\ Stray(SubSeq(b, n + 12 + 1, Len(b)), w)
<1>1. PICK u : u = Cat(b, w)
  OBVIOUS
<1>2. u \in Seq(Tokens) /\ IsJoin(u, b, w) /\ IsJoin(u, d, r)
  BY <1>1, Joined
<1>3. Len(b) \in Nat /\ Len(w) \in Nat /\ Len(d) \in Nat /\ Len(r) \in Nat
  OBVIOUS
<1>4. r[1] # Tag(10) /\ r[2] # Tag(10) /\ r[3] # Tag(10) /\ r[4] # Tag(8)
  <2>1. /\ Tag(8) # Tag(10) /\ Txt("FIX.4.2") # Tag(10) /\ SOH # Tag(10) /\ Tag(9) # Tag(8)
    BY DEF Tag, Txt, SOH
  <2> QED
    BY <2>1
<1>5. /\ \A i \in 1 .. n + 9 : u[i] = d[i]
      /\ \A i \in 1 .. Len(r) : u[n + 9 + i] = r[i]
      /\ \A i \in 1 .. Len(b) : u[i] = b[i]
      /\ \A i \in 1 .. Len(w) : u[Len(b) + i] = w[i]
      /\ Len(u) = n + 9 + Len(r) /\ Len(u) = Len(b) + Len(w)
  BY <1>2 DEF IsJoin
<1>6. u[n + 10] # Tag(10) /\ u[n + 11] # Tag(10) /\ u[n + 12] # Tag(10) /\ u[n + 13] # Tag(8)
  <2>1. n + 9 + 1 = n + 10 /\ n + 9 + 2 = n + 11 /\ n + 9 + 3 = n + 12 /\ n + 9 + 4 = n + 13
    OBVIOUS
  <2>2. 1 \in 1 .. Len(r) /\ 2 \in 1 .. Len(r) /\ 3 \in 1 .. Len(r) /\ 4 \in 1 .. Len(r)
    BY <1>3
  <2>3. u[n + 9 + 1] = r[1] /\ u[n + 9 + 2] = r[2] /\ u[n + 9 + 3] = r[3] /\ u[n + 9 + 4] = r[4]
    BY <1>5, <2>2
  <2> QED
    BY <1>4, <2>1, <2>3
<1>7. Overlong(SubSeq(b, 1, n + 12), d)
  <2>1. PICK k, p : k \in Nat /\ k = n + 12 /\ p = SubSeq(b, 1, k)
    <3>1. PICK k \in Nat : k = n + 12
      OBVIOUS
    <3> QED
      BY <3>1, Zenon
  <2>2. p \in Seq(Tokens) /\ Len(p) = k /\ \A i \in 1 .. k : p[i] = b[i]
    BY <2>1, FirstTokens
  <2>3. Len(p) >= Len(d)
    BY <2>1, <2>2
  <2>4. ASSUME NEW i \in 1 .. Len(p) PROVE IF i <= Len(d) THEN p[i] = d[i] ELSE p[i] # Tag(10)
    <3>1. p[i] = u[i]
      BY <1>3, <1>5, <2>1, <2>2
    <3>2. CASE i <= Len(d)
      BY <1>5, <3>1, <3>2
    <3>3. CASE ~(i <= Len(d))
      <4>1. i \in Int /\ i > n + 9 /\ i <= n + 12
        BY <2>1, <2>2, <3>3, SMTT(30)
      <4>2. i = n + 10 \/ i = n + 11 \/ i = n + 12
        BY <4>1
      <4> QED
        BY <1>6, <3>1, <3>3, <4>2
    <3> QED
      BY <3>2, <3>3
  <2>5. Overlong(p, d)
    BY <2>2, <2>3, <2>4 DEF Overlong
  <2> QED
    BY <2>1, <2>5, Zenon
<1>8. Stray(SubSeq(b, n + 12 + 1, Len(b)), w)
  <2>1. PICK p : p = SubSeq(b, n + 12 + 1, Len(b))
    OBVIOUS
  <2>2. n + 12 + 1 \in Int /\ Len(b) \in Int /\ \A i \in n + 12 + 1 .. Len(b) : b[i] \in Tokens
    BY <1>3
  <2>3. /\ p \in Seq(Tokens)
        /\ Len(p) = (IF n + 12 + 1 <= Len(b) THEN Len(b) - (n + 12 + 1) + 1 ELSE 0)
        /\ \A i \in 1 .. Len(b) - (n + 12 + 1) + 1 : p[i] = b[n + 12 + 1 + i - 1]
    BY <2>1, <2>2, SubSeqProperties
  <2>4. PICK v : v = Cat(p, w)
    OBVIOUS
  <2>5. v \in Seq(Tokens) /\ IsJoin(v, p, w)
    BY <2>3, <2>4, Joined
  <2>6. Len(v) > 0 /\ v[1] = u[n + 13]
    <3>1. CASE Len(b) = n + 12
      <4>1. Len(p) = 0 /\ Len(w) >= 1
        BY <1>3, <1>5, <2>3, <3>1
      <4>2. Len(v) = Len(w) /\ v[0 + 1] = w[1] /\ 0 + 1 = 1
        BY <1>3, <2>5, <4>1 DEF IsJoin
      <4>3. u[Len(b) + 1] = w[1] /\ Len(b) + 1 = n + 13
        BY <1>3, <1>5, <3>1, <4>1
      <4> QED
        BY <4>1, <4>2, <4>3
    <3>2. CASE Len(b) > n + 12
      <4>1. Len(p) >= 1 /\ n + 12 + 1 + 1 - 1 = n + 13 /\ 1 \in 1 .. Len(b) - (n + 12 + 1) + 1
        BY <1>3, <2>3, <3>2
      <4>2. p[1] = b[n + 13]
        BY <2>3, <4>1
      <4>3. n + 13 \in 1 .. Len(b)
        BY <1>3, <3>2
      <4>4. v[1] = p[1] /\ Len(v) = Len(p) + Len(w) /\ Len(p) \in Nat
        BY <2>3, <2>5, <4>1 DEF IsJoin
      <4> QED
        BY <1>3, <1>5, <4>1, <4>2, <4>3, <4>4
    <3> QED
      BY <1>3, <3>1, <3>2
  <2>7. Stray(p, w)
    BY <1>6, <2>4, <2>6 DEF Stray
  <2> QED
    BY <2>1, <2>7
<1> QED
  BY <1>7, <1>8

\* Nothing is cut off what does not start like a message.
LEMMA StrayWaits ==
    ASSUME NEW b \in Seq(Tokens), NEW w \in Seq(Tokens), Stray(b, w)
    PROVE  TryExtractMessage(b) = NoMessage
<1>1. b = << >> \/ b[1] # Tag(8)
  <2> SUFFICES ASSUME b # << >> PROVE b[1] # Tag(8)
    OBVIOUS
  <2>1. PICK u : u = Cat(b, w)
    OBVIOUS
  <2>2. IsJoin(u, b, w) /\ 1 \in 1 .. Len(b)
    BY <2>1, Joined
  <2>3. u[1] = b[1]
    BY <2>2 DEF IsJoin
  <2> QED
    BY <2>1, <2>3 DEF Stray
<1> QED
  BY <1>1, Zenon DEF TryExtractMessage

\* The message that runs over is cut off once.
LEMMA OverrunExtract ==
    ASSUME TokensWeigh, Framed, Overrun, Len(jobs) >= Aligned, NEW total, total = TryExtractMessage(recvBuffer),
           total # NoMessage
    PROVE  /\ Len(jobs) = Intact
           /\ Overlong(SubSeq(recvBuffer, 1, total), Delivered[Intact + 1])
           /\ Stray(SubSeq(recvBuffer, total + 1, Len(recvBuffer)), wire)
<1>1. Sound /\ Typed /\ Whole
  BY DEF Framed
<1>2. /\ Len(sent) \in Nat /\ Intact \in 0 .. Len(sent) /\ Intact < Len(sent) /\ ~Legible
      /\ Aligned = Intact /\ Len(jobs) \in Nat /\ wire \in Seq(Tokens) /\ recvBuffer \in Seq(Tokens)
  BY <1>1, ClientFacts, AlignedFacts, OverrunStraddles DEF Typed
<1>3. PICK n \in Nat, d \in Seq(Tokens) :
         d = Delivered[Intact + 1] /\ Straddles(d, n) /\ Fits(n) /\ Len(d) = n + 9
  BY <1>1, OverrunStraddles, Zenon
<1>4. Len(jobs) = Intact
  <2>1. Len(jobs) <= Intact + 1
    BY <1>1 DEF Whole, Overran
  <2>2. Len(jobs) # Intact + 1
    <3> SUFFICES ASSUME Len(jobs) = Intact + 1 PROVE FALSE
      OBVIOUS
    <3>1. Stray(recvBuffer, wire)
      BY <1>1 DEF Whole, Overran
    <3> QED
      BY <1>2, <3>1, StrayWaits
  <2> QED
    BY <1>2, <2>1, <2>2
<1>5. PICK x \in Seq(Tokens) : x = Cat(recvBuffer, wire)
  BY <1>2, Joining
<1>6. PICK r \in Seq(Tokens) : x = Cat(d, r) /\ Cat(Upto(Tokens, Delivered, Intact + 1), r) = Stream
  BY <1>2, <1>3, <1>4, <1>5, NextInStream
<1>7. IsJoin(x, recvBuffer, wire) /\ IsJoin(x, d, r)
  BY <1>2, <1>5, <1>6, Joined
<1>8. total = n + 12
  <2>1. \A i \in 1 .. 9 : i <= Len(recvBuffer) => recvBuffer[i] = d[i]
    BY <1>2, <1>3, <1>7, SMTT(30) DEF IsJoin
  <2> QED
    BY <1>2, <1>3, <2>1, CutsLate
<1>9. Len(recvBuffer) >= n + 12 /\ Len(recvBuffer) \in Nat
  <2>1. total \in 0 .. Len(recvBuffer)
    BY <1>2, ExtractsWithin
  <2> QED
    BY <1>2, <1>8, <2>1
<1>10. Len(r) >= 3
  BY <1>2, <1>3, <1>7, <1>9 DEF IsJoin
<1>11. PICK j \in 0 .. Len(sent) : j = Intact + 1
  BY <1>2
<1>12. /\ j < Len(sent) =>
             \E z \in Seq(Tokens) : /\ r = Cat(Delivered[j + 1], z)
                                    /\ Cat(Upto(Tokens, Delivered, j + 1), z) = Stream
       /\ j = Len(sent) => r = << >>
  BY <1>1, <1>6, <1>11, NextAfter
<1>13. j < Len(sent)
  <2>1. r # << >>
    BY <1>10
  <2> QED
    BY <1>2, <1>11, <1>12, <2>1
<1>14. PICK m \in Seq(Tokens), l \in Nat : m = Delivered[j + 1] /\ Len(m) = l + 9 /\ Starts(m, l)
  <2>1. j + 1 \in 1 .. Len(sent) /\ j + 1 # fault[1]
    <3>1. fault # NoFault => Intact = fault[1] - 1 /\ fault[1] \in Nat
      <4> SUFFICES ASSUME fault # NoFault PROVE Intact = fault[1] - 1 /\ fault[1] \in Nat
        OBVIOUS
      <4>1. PICK k, i, t : IsDamage(k, i, t)
        BY <1>1, ClientFacts
      <4> QED
        BY <1>2, <4>1 DEF IsDamage
    <3>2. fault # NoFault
      BY DEF Overrun
    <3> QED
      BY <1>2, <1>11, <1>13, <3>1, <3>2
  <2>2. Delivered[j + 1] = sent[j + 1]
    BY <1>1, <2>1, ClientFacts
  <2>3. PICK l \in Nat : sent[j + 1] \in Seq(Tokens) /\ Len(sent[j + 1]) = l + 9 /\ Starts(sent[j + 1], l)
    BY <1>1, <2>1, SentMessages DEF IsMessage
  <2> QED
    BY <2>2, <2>3
<1>15. PICK z \in Seq(Tokens) : r = Cat(m, z)
  BY <1>12, <1>13, <1>14
<1>16. Len(r) >= 4 /\ r[1] = Tag(8) /\ r[2] = Txt("FIX.4.2") /\ r[3] = SOH /\ r[4] = Tag(9)
  <2>1. IsJoin(r, m, z)
    BY <1>15, Joined
  <2>2. m[1] = Tag(8) /\ m[2] = Txt("FIX.4.2") /\ m[3] = SOH /\ m[4] = Tag(9)
    BY <1>14 DEF Starts, Header
  <2>3. Len(m) >= 4
    <3>1. \A y \in Nat : y + 9 >= 4
      OBVIOUS
    <3> QED
      BY <1>14, <3>1
  <2>4. Len(r) >= 4 /\ \A i \in 1 .. 4 : i \in 1 .. Len(m)
    <3>1. Len(m) \in Nat /\ Len(z) \in Nat
      OBVIOUS
    <3> QED
      BY <2>1, <2>3, <3>1 DEF IsJoin
  <2>5. \A i \in 1 .. 4 : r[i] = m[i]
    BY <2>1, <2>4 DEF IsJoin
  <2> QED
    BY <2>2, <2>4, <2>5, SMTT(30)
<1>17. /\ Overlong(SubSeq(recvBuffer, 1, n + 12), d)
       /\ Stray(SubSeq(recvBuffer, n + 12 + 1, Len(recvBuffer)), wire)
  BY <1>2, <1>3, <1>5, <1>6, <1>9, <1>16, RunsOver
<1> QED
  BY <1>3, <1>4, <1>8, <1>17, Zenon

\* At first all of the stream is still to come.
LEMMA FramedAtFirst ==
    ASSUME TokensWeigh, FixInit
    PROVE  Framed
<1>1. Sound
  BY Zenon DEF FixInit, Sound
<1>2. /\ Delivered \in Seq(Seq(Tokens)) /\ Intact \in 0 .. Len(sent) /\ Len(sent) \in Nat
      /\ Len(Delivered) = Len(sent)
  BY <1>1, ClientFacts
<1>3. wire = Stream /\ recvBuffer = << >> /\ jobs = << >> /\ Len(jobs) = 0
  BY <1>2, Flattens DEF FixInit, Stream
<1>4. Stream \in Seq(Tokens) /\ Before = << >>
  BY <1>2, <1>3, UptoGrows DEF Stream, Before
<1>5. Typed
  BY <1>3, <1>4 DEF Typed
<1>6. Cat(Before, Cat(recvBuffer, wire)) = Stream
  BY <1>3, <1>4, Joining, Zenon
<1>7. Overran
  BY <1>2, <1>3 DEF Overran
<1>8. Whole
  BY <1>2, <1>3, <1>6, <1>7, EmptyWaits DEF Whole
<1> QED
  BY <1>1, <1>5, <1>8 DEF Framed

\* A step that leaves the client alone leaves what it sent alone.
LEMMA ClientStays ==
    ASSUME Sound, UNCHANGED client
    PROVE  /\ Sound' /\ Delivered' = Delivered /\ Intact' = Intact /\ Stream' = Stream
           /\ sent' = sent /\ fault' = fault /\ Aligned' = Aligned
           /\ (Legible' <=> Legible) /\ (Stuck' <=> Stuck) /\ (Overrun' <=> Overrun)
<1>1. script' = script /\ sent' = sent /\ fault' = fault
  BY DEF client
<1>2. Sound'
  BY <1>1 DEF Sound
<1>3. Delivered' = Delivered /\ Intact' = Intact
  BY <1>1 DEF Delivered, Intact
<1>4. Stream' = Stream
  BY <1>3 DEF Stream
<1>5. (Legible' <=> Legible) /\ (Stuck' <=> Stuck) /\ (Overrun' <=> Overrun)
  BY <1>1 DEF Legible, Stuck, Overrun
<1>6. Aligned' = Aligned
  BY <1>1, <1>3, <1>5 DEF Aligned
<1> QED
  BY <1>1, <1>2, <1>3, <1>4, <1>5, <1>6

\* So does one that cuts nothing off for a message that ran over.
LEMMA OverranStays ==
    ASSUME Overran, Overrun' <=> Overrun, Intact' = Intact, Delivered' = Delivered, jobs' = jobs,
           Cat(recvBuffer', wire') = Cat(recvBuffer, wire)
    PROVE  Overran'
<1>1. Stray(recvBuffer', wire') <=> Stray(recvBuffer, wire)
  BY Zenon DEF Stray
<1> QED
  BY <1>1, Zenon DEF Overran

\* handleReadable() adds to the buffer what it takes from the stream.
LEMMA FramedReadable ==
    ASSUME TokensWeigh, Framed, NEW n \in 1 .. Len(wire), Readable(n)
    PROVE  Framed'
<1>1. Sound /\ Typed /\ Whole
  BY DEF Framed
<1>2. UNCHANGED client /\ jobs' = jobs /\ loop' = "extract"
  BY DEF Readable
<1>3. /\ Sound' /\ Delivered' = Delivered /\ Intact' = Intact /\ Stream' = Stream
      /\ sent' = sent /\ fault' = fault /\ Aligned' = Aligned
      /\ (Legible' <=> Legible) /\ (Stuck' <=> Stuck) /\ (Overrun' <=> Overrun)
  BY <1>1, <1>2, ClientStays
<1>4. wire \in Seq(Tokens) /\ recvBuffer \in Seq(Tokens) /\ jobs \in Seq(Seq(Tokens))
  BY <1>1 DEF Typed
<1>5. recvBuffer' \in Seq(Tokens) /\ wire' \in Seq(Tokens) /\ Cat(recvBuffer', wire') = Cat(recvBuffer, wire)
  <2>1. recvBuffer' = Cat(recvBuffer, FirstOf(wire, n)) /\ wire' = RestOf(wire, n)
    BY Zenon DEF Readable, Cat, FirstOf, RestOf
  <2> QED
    BY <1>4, <2>1, Shifts
<1>6. Before' = Before
  BY <1>2, <1>3 DEF Before
<1>7. Typed'
  BY <1>2, <1>4, <1>5 DEF Typed
<1>8. Cat(Before, Cat(recvBuffer, wire))' = Cat(Before, Cat(recvBuffer, wire))
  BY <1>5, <1>6
<1>9. Overran'
  <2>1. Overran
    BY <1>1 DEF Whole
  <2> QED
    BY <1>2, <1>3, <1>5, <2>1, OverranStays, Zenon
<1>10. Whole'
  BY <1>1, <1>2, <1>3, <1>8, <1>9 DEF Whole
<1> QED
  BY <1>3, <1>7, <1>10 DEF Framed

\* A message cut off is the next one sent.
LEMMA FramedExtract ==
    ASSUME TokensWeigh, Framed, Extract
    PROVE  Framed'
<1> DEFINE j == Len(jobs)
           total == TryExtractMessage(recvBuffer)
<1>1. Sound /\ Typed /\ Whole
  BY DEF Framed
<1>2. /\ UNCHANGED client /\ wire' = wire /\ loop' = "extract" /\ total # NoMessage
      /\ jobs' = Append(jobs, SubSeq(recvBuffer, 1, total))
      /\ recvBuffer' = SubSeq(recvBuffer, total + 1, Len(recvBuffer))
  BY DEF Extract
<1>3. /\ Sound' /\ Delivered' = Delivered /\ Intact' = Intact /\ Stream' = Stream
      /\ sent' = sent /\ fault' = fault /\ Aligned' = Aligned
      /\ (Legible' <=> Legible) /\ (Stuck' <=> Stuck) /\ (Overrun' <=> Overrun)
  BY <1>1, <1>2, ClientStays
<1>4. wire \in Seq(Tokens) /\ recvBuffer \in Seq(Tokens) /\ jobs \in Seq(Seq(Tokens))
  BY <1>1 DEF Typed
<1>5. total \in 0 .. Len(recvBuffer)
  BY <1>2, <1>4, ExtractsWithin
<1> HIDE DEF total
<1>6. PICK m : m = SubSeq(recvBuffer, 1, total)
  OBVIOUS
<1>7. m \in Seq(Tokens) /\ recvBuffer' \in Seq(Tokens)
  <2>1. total \in Int /\ total + 1 \in Int /\ Len(recvBuffer) \in Int
    BY <1>4, <1>5
  <2>2. /\ \A i \in 1 .. total : recvBuffer[i] \in Tokens
        /\ \A i \in total + 1 .. Len(recvBuffer) : recvBuffer[i] \in Tokens
    BY <1>4, <1>5
  <2> QED
    BY <1>2, <1>6, <2>1, <2>2, SubSeqProperties
<1>8. /\ jobs' \in Seq(Seq(Tokens)) /\ Len(jobs') = j + 1 /\ jobs'[j + 1] = m /\ j \in Nat
      /\ \A k \in 1 .. j : jobs'[k] = jobs[k]
  BY <1>2, <1>4, <1>6, <1>7, AppendProperties
<1>9. Typed'
  BY <1>2, <1>4, <1>7, <1>8 DEF Typed
<1>10. /\ Len(sent) \in Nat /\ Intact \in 0 .. Len(sent) /\ Aligned \in Intact .. Len(sent)
       /\ (Legible => Aligned = Len(sent)) /\ (~Legible => Aligned = Intact)
  BY <1>1, ClientFacts, AlignedFacts
<1>11. CASE j < Aligned
  <2>1. PICK r \in Seq(Tokens) :
           /\ Cat(recvBuffer, wire) = Cat(Delivered[j + 1], r)
           /\ Cat(Upto(Tokens, Delivered, j + 1), r) = Stream
    BY <1>8, <1>10, <1>11, NextInStream
  <2>2. PICK n \in Nat : IsMessage(Delivered[j + 1], n)
    <3>1. j + 1 \in 1 .. Aligned
      BY <1>8, <1>10, <1>11
    <3> QED
      BY <1>1, <3>1, AlignedFacts
  <2>3. /\ Opens(recvBuffer, n)
        /\ Len(recvBuffer) >= n + 9 => /\ SubSeq(recvBuffer, 1, n + 9) = Delivered[j + 1]
                                       /\ Cat(SubSeq(recvBuffer, n + 9 + 1, Len(recvBuffer)), wire) = r
    BY <1>4, <2>1, <2>2, FrontIsMessage
  <2>4. total = IF Len(recvBuffer) >= n + 9 THEN n + 9 ELSE NoMessage
    BY <1>4, <2>2, <2>3, Extracts DEF IsMessage, total
  <2>5. total = n + 9 /\ Len(recvBuffer) >= n + 9
    BY <1>2, <2>4
  <2>6. m = Delivered[j + 1] /\ Cat(recvBuffer', wire') = r
    BY <1>2, <1>6, <2>3, <2>5
  <2>7. Before' = Upto(Tokens, Delivered, j + 1)
    BY <1>3, <1>8 DEF Before
  <2>8. Cat(Before, Cat(recvBuffer, wire))' = Stream'
    BY <1>3, <2>1, <2>6, <2>7
  <2>9. \A k \in 1 .. Len(jobs') : k <= Aligned => jobs'[k] = Delivered[k]
    <3> SUFFICES ASSUME NEW k \in 1 .. Len(jobs'), k <= Aligned PROVE jobs'[k] = Delivered[k]
      OBVIOUS
    <3>1. CASE k = j + 1
      BY <1>8, <2>6, <3>1
    <3>2. CASE k # j + 1
      <4>1. k \in 1 .. j
        BY <1>8, <3>2
      <4> QED
        BY <1>1, <1>8, <4>1 DEF Whole
    <3> QED
      BY <3>1, <3>2
  <2>10. Legible => Len(jobs') <= Len(sent)
    BY <1>8, <1>10, <1>11
  <2>11. Stuck => Len(jobs') <= Intact
    BY <1>1, <1>8, <1>10, <1>11, StuckIsBroken
  <2>12. Overran'
    <3> SUFFICES ASSUME Overrun PROVE Len(jobs') <= Intact
      BY <1>3, <1>8, <1>10 DEF Overran
    <3>1. ~Legible
      BY <1>1, OverrunStraddles
    <3> QED
      BY <1>8, <1>10, <1>11, <3>1
  <2>13. Whole'
    BY <1>2, <1>3, <2>8, <2>9, <2>10, <2>11, <2>12 DEF Whole
  <2> QED
    BY <1>3, <1>9, <2>13 DEF Framed
<1>12. CASE ~(j < Aligned)
  <2>1. ~Legible
    <3> SUFFICES ASSUME Legible PROVE FALSE
      OBVIOUS
    <3>1. j = Len(sent) /\ j <= Aligned
      BY <1>1, <1>8, <1>10, <1>12 DEF Whole
    <3>2. recvBuffer = << >>
      BY <3>1, NextInStream
    <3> QED
      BY <1>2, <3>2, EmptyWaits DEF total
  <2>2. ~Stuck
    <3> SUFFICES ASSUME Stuck PROVE FALSE
      OBVIOUS
    <3>1. PICK d : d = Delivered[j + 1]
      OBVIOUS
    <3>2. /\ j = Intact /\ j <= Aligned /\ j < Len(sent) /\ Broken(d) /\ Len(d) >= 7
      BY <1>1, <1>8, <1>10, <1>12, <3>1, StuckIsBroken DEF Whole
    <3>3. PICK r \in Seq(Tokens) : Cat(recvBuffer, wire) = Cat(d, r)
      BY <3>1, <3>2, NextInStream
    <3>4. d \in Seq(Tokens)
      <4>1. Len(Delivered) = Len(sent) /\ Delivered \in Seq(Seq(Tokens))
        BY <1>1, ClientFacts
      <4>2. j + 1 \in 1 .. Len(Delivered)
        BY <1>8, <1>10, <3>2, <4>1
      <4> QED
        BY <3>1, <4>1, <4>2
    <3>5. PICK u : u = Cat(recvBuffer, wire)
      OBVIOUS
    <3>6. IsJoin(u, recvBuffer, wire) /\ IsJoin(u, d, r)
      BY <1>4, <3>3, <3>4, <3>5, Joined
    <3>7. \A x \in 1 .. 7 : x <= Len(recvBuffer) => recvBuffer[x] = d[x]
      <4>1. Len(recvBuffer) \in Nat /\ Len(d) \in Nat
        BY <1>4, <3>4
      <4>2. \A x \in 1 .. 7 : /\ x \in 1 .. Len(d)
                              /\ x <= Len(recvBuffer) => x \in 1 .. Len(recvBuffer)
        BY ONLY <3>2, <4>1
      <4>3. /\ \A x \in 1 .. Len(recvBuffer) : u[x] = recvBuffer[x]
            /\ \A x \in 1 .. Len(d) : u[x] = d[x]
        BY <3>6, Zenon DEF IsJoin
      <4> QED
        BY <4>2, <4>3, Zenon
    <3>8. total = NoMessage
      BY <1>4, <3>2, <3>7, BrokenWaits DEF total
    <3> QED
      BY <1>2, <3>8
  <2>3. ~(Len(jobs') <= Aligned)
    BY <1>8, <1>10, <1>12
  <2>4. \A k \in 1 .. Len(jobs') : k <= Aligned => jobs'[k] = Delivered[k]
    <3> SUFFICES ASSUME NEW k \in 1 .. Len(jobs'), k <= Aligned PROVE jobs'[k] = Delivered[k]
      OBVIOUS
    <3>1. k \in 1 .. j
      BY <1>8, <1>10, <1>12
    <3> QED
      BY <1>1, <1>8, <3>1 DEF Whole
  <2>5. Overran'
    <3> SUFFICES ASSUME Overrun
                 PROVE  /\ Len(jobs') <= Intact + 1
                        /\ Overlong(jobs'[Intact + 1], Delivered[Intact + 1]) /\ Stray(recvBuffer', wire')
      BY <1>3, Zenon DEF Overran
    <3>1. j >= Aligned
      BY <1>8, <1>10, <1>12
    <3>2. /\ j = Intact /\ Overlong(m, Delivered[Intact + 1])
          /\ Stray(SubSeq(recvBuffer, total + 1, Len(recvBuffer)), wire)
      BY <1>2, <1>6, <3>1, OverrunExtract DEF total
    <3>3. Len(jobs') <= Intact + 1
      BY <1>8, <1>10, <3>2
    <3>4. Overlong(jobs'[Intact + 1], Delivered[Intact + 1])
      <4>1. jobs'[Intact + 1] = m
        BY <1>8, <3>2
      <4> QED
        BY <3>2, <4>1
    <3>5. Stray(recvBuffer', wire')
      BY <1>2, <3>2, Zenon
    <3> QED
      BY <3>3, <3>4, <3>5
  <2>6. Whole'
    BY <1>2, <1>3, <2>1, <2>2, <2>3, <2>4, <2>5 DEF Whole
  <2> QED
    BY <1>3, <1>9, <2>6 DEF Framed
<1> QED
  BY <1>11, <1>12

\* The other steps change none of it.
LEMMA FramedOthers ==
    ASSUME TokensWeigh, Framed,
           \/ ExtractNone
           \/ \E k \in DOMAIN jobs, verdict \in Reasons \cup {""} : Respond(k, verdict)
           \/ UNCHANGED fixVars
    PROVE  Framed'
<1>1. Sound /\ Typed /\ Whole
  BY DEF Framed
<1>2. /\ UNCHANGED client /\ wire' = wire /\ recvBuffer' = recvBuffer /\ jobs' = jobs
      /\ loop' = loop \/ TryExtractMessage(recvBuffer) = NoMessage
  BY Zenon DEF ExtractNone, Respond, fixVars
<1>3. /\ Sound' /\ Delivered' = Delivered /\ Intact' = Intact /\ Stream' = Stream
      /\ sent' = sent /\ fault' = fault /\ Aligned' = Aligned
      /\ (Legible' <=> Legible) /\ (Stuck' <=> Stuck) /\ (Overrun' <=> Overrun)
  BY <1>1, <1>2, ClientStays
<1>4. Typed' /\ Before' = Before
  BY <1>1, <1>2, <1>3 DEF Typed, Before
<1>5. Overran'
  <2>1. Overran
    BY <1>1 DEF Whole
  <2>2. Cat(recvBuffer', wire') = Cat(recvBuffer, wire)
    BY <1>2
  <2> QED
    BY <1>2, <1>3, <2>1, <2>2, OverranStays, Zenon
<1>6. Whole'
  BY <1>1, <1>2, <1>3, <1>4, <1>5 DEF Whole
<1> QED
  BY <1>3, <1>4, <1>6 DEF Framed

\* Framing is what the buffer says once the loop is at rest.
LEMMA FramedIsExact ==
    ASSUME TokensWeigh, Framed
    PROVE  FramingExact
<1>1. Sound /\ Typed /\ Whole
  BY DEF Framed
<1>2. /\ Intact \in 0 .. Len(sent) /\ Len(sent) \in Nat /\ (fault = NoFault => Intact = Len(sent))
      /\ Len(jobs) \in Nat /\ Aligned \in Intact .. Len(sent)
      /\ \A k \in 1 .. Intact : Delivered[k] = sent[k]
  BY <1>1, ClientFacts, AlignedFacts, SMTT(30) DEF Typed
<1>3. \A k \in 1 .. Min({Intact, Len(jobs)}) : jobs[k] = sent[k]
  <2>0. Intact \in Nat
    BY <1>2
  <2>1. PICK x \in Nat, y \in Nat : x = Intact /\ y = Len(jobs)
    BY <1>2, <2>0, Zenon
  <2>2. Min({x, y}) \in {x, y} /\ \A z \in {x, y} : Min({x, y}) <= z
    <3>1. \E z \in {x, y} : \A w \in {x, y} : z <= w
      OBVIOUS
    <3> QED
      BY <3>1 DEF Min
  <2>3. Min({x, y}) \in Nat /\ Min({x, y}) <= x /\ Min({x, y}) <= y
    BY <2>2
  <2>4. \A k \in 1 .. Min({x, y}) : k \in 1 .. y /\ k \in 1 .. x
    BY <2>3
  <2>5. \A k \in 1 .. x : k <= Aligned
    BY <1>2, <2>1
  <2> QED
    BY <1>1, <1>2, <2>1, <2>4, <2>5 DEF Whole
<1>4. ASSUME AtRest PROVE Len(jobs) >= Intact
  <2> SUFFICES ASSUME Len(jobs) < Intact PROVE FALSE
    BY <1>2
  <2>0. Len(jobs) <= Aligned /\ Len(jobs) < Len(sent) /\ Len(jobs) + 1 \in 1 .. Aligned
    BY <1>2
  <2>1. PICK r \in Seq(Tokens) : Cat(recvBuffer, wire) = Cat(Delivered[Len(jobs) + 1], r)
    BY <2>0, NextInStream
  <2>2. PICK m : m = Delivered[Len(jobs) + 1]
    OBVIOUS
  <2>3. PICK n \in Nat : IsMessage(m, n) /\ Cat(recvBuffer, wire) = Cat(m, r)
    BY <1>1, <2>0, <2>1, <2>2, AlignedFacts
  <2>4. recvBuffer \in Seq(Tokens) /\ wire \in Seq(Tokens) /\ wire = << >>
    BY <1>1, <1>4 DEF Typed, AtRest
  <2>5. Opens(recvBuffer, n)
    BY <2>3, <2>4, FrontIsMessage
  <2>6. Cat(recvBuffer, wire) = recvBuffer
    BY <2>4, Joining
  <2>7. m \in Seq(Tokens) /\ Len(m) = n + 9 /\ Fits(n)
    BY <2>3 DEF IsMessage
  <2>8. IsJoin(recvBuffer, m, r)
    BY <2>3, <2>6, <2>7, Joined
  <2>9. Len(recvBuffer) >= n + 9
    BY <2>4, <2>7, <2>8 DEF IsJoin
  <2>10. TryExtractMessage(recvBuffer) = n + 9
    BY <2>4, <2>5, <2>7, <2>9, Extracts
  <2>11. TryExtractMessage(recvBuffer) = NoMessage
    BY <1>1, <1>4 DEF Whole, AtRest
  <2> QED
    BY <2>10, <2>11 DEF NoMessage
<1>5. ASSUME AtRest, fault = NoFault PROVE Len(jobs) = Len(sent) /\ recvBuffer = << >>
  <2>1. Len(jobs) = Len(sent)
    BY <1>1, <1>2, <1>4, <1>5 DEF Whole, Legible
  <2>2. Len(jobs) <= Aligned
    BY <1>2, <1>5, <2>1
  <2> QED
    BY <2>1, <2>2, NextInStream
<1> QED
  BY <1>3, <1>4, <1>5 DEF FramingExact

\* handleReadable() recovers the messages a client sent from any way the
\* stream is cut into reads, up to the first damaged one, for every script,
\* every damage and any number of workers.
THEOREM FixFramingExact ==
    ASSUME TokensWeigh
    PROVE  FixSpec => []FramingExact
<1>1. FixInit => Framed
  BY FramedAtFirst
<1>2. Framed /\ [FixNext]_fixVars => Framed'
  <2> SUFFICES ASSUME Framed, [FixNext]_fixVars PROVE Framed'
    OBVIOUS
  <2>1. ASSUME NEW n \in 1 .. Len(wire), Readable(n) PROVE Framed'
    BY <2>1, FramedReadable
  <2>2. CASE Extract
    BY <2>2, FramedExtract
  <2>3. CASE \/ ExtractNone
             \/ \E k \in DOMAIN jobs, verdict \in Reasons \cup {""} : Respond(k, verdict)
             \/ UNCHANGED fixVars
    BY <2>3, FramedOthers
  <2> QED
    BY <2>1, <2>2, <2>3, Zenon DEF FixNext
<1>3. Framed => FramingExact
  BY FramedIsExact
<1> QED
  BY <1>1, <1>2, <1>3, PTL DEF FixSpec

-----------------------------------------------------------------------------
(* Replies                                                                 *)

\* rfind() returns the last position.
LEMMA FindsLast ==
    ASSUME NEW T, NEW b \in Seq(T), NEW t, NEW at \in 1 .. Len(b), b[at] = t,
           \A j \in 1 .. Len(b) : j > at => b[j] # t
    PROVE  SelectLastInSeq(b, LAMBDA x : x = t) = at
<1> DEFINE I == {j \in 1 .. Len(b) : b[j] = t}
<1>1. at \in I /\ \A y \in I : at >= y
  OBVIOUS
<1>2. \A x \in I : (\A y \in I : x >= y) => x = at
  BY <1>1
<1>3. Max(I) = at
  BY <1>1, <1>2 DEF Max
<1> QED
  BY <1>1, <1>3 DEF SelectLastInSeq

LastSum(d) == SelectLastInSeq(d, LAMBDA t : t = Tag(10))

\* ... or npos.
LEMMA FindsNoLast ==
    ASSUME NEW d, \A j \in 1 .. Len(d) : d[j] # Tag(10)
    PROVE  LastSum(d) = 0
<1>1. {j \in 1 .. Len(d) : d[j] = Tag(10)} = {}
  OBVIOUS
<1> QED
  BY <1>1 DEF LastSum, SelectLastInSeq

\* verifyChecksum(), its variables named.
LEMMA VerifyUnfolds ==
    \A d, at, end, value :
        LastSum(d) = at /\ FindSoh(d, at + 1) = end /\ SubSeq(d, at + 1, end - 1) = value
        => (VerifyChecksum(d) <=> /\ at # 0 /\ end # 0 /\ Converts(value)
                                  /\ Checksum(SubSeq(d, 1, at - 1)) = value[1][2])
  BY ZenonT(30) DEF VerifyChecksum, LastSum

\* verifyChecksum() accepts what buildMessage() makes.
LEMMA Verifies ==
    ASSUME TokensWeigh, NEW body \in Seq(Tokens), NEW m, m = BuildMessage(body)
    PROVE  VerifyChecksum(m)
<1> DEFINE n == Len(body)
<1>1. n \in Nat /\ m \in Seq(Tokens) /\ Len(m) = n + 9
  BY Built
<1>2. PICK c \in 0 .. 255, head \in Seq(Tokens) :
         /\ c = Checksum(head) /\ Len(head) = n + 6
         /\ \A i \in 1 .. Len(head) : m[i] = head[i]
         /\ m[n + 7] = Tag(10) /\ m[n + 8] = Num(c) /\ m[n + 9] = SOH
  BY Built, ZenonT(30)
<1> HIDE DEF n
<1>3. Num(c) # Tag(10) /\ SOH # Tag(10) /\ Num(c) # SOH
  BY TokensDiffer
<1>4. PICK at \in 1 .. Len(m) : at = n + 7
  BY <1>1
<1>5. m[at] = Tag(10) /\ \A j \in 1 .. Len(m) : j > at => m[j] # Tag(10)
  <2>1. \A j \in 1 .. Len(m) : j > at => j = n + 8 \/ j = n + 9
    BY <1>1, <1>4
  <2> QED
    BY <1>2, <1>3, <1>4, <2>1
<1>6. SelectLastInSeq(m, LAMBDA t : t = Tag(10)) = at
  BY <1>1, <1>5, FindsLast
<1>7. FindSoh(m, at + 1) = n + 9
  <2>1. PICK from \in Nat \ {0}, i \in 1 .. Len(m) : from = at + 1 /\ i = n + 9 /\ i \in from .. Len(m)
    BY <1>1, <1>4
  <2>2. m[i] = SOH /\ \A j \in from .. i - 1 : m[j] # SOH
    <3>1. \A j \in from .. i - 1 : j = n + 8
      BY <1>1, <1>4, <2>1
    <3> QED
      BY <1>2, <1>3, <2>1, <3>1
  <2>3. FindSoh(m, from) = i
    BY <1>1, <2>1, <2>2, FindsSoh
  <2> QED
    BY <2>1, <2>3
<1>8. ASSUME NEW end, end = n + 9 PROVE SubSeq(m, at + 1, end - 1) = <<Num(c)>>
  <2>1. PICK i \in 1 .. Len(m) : i = n + 8 /\ at + 1 = i /\ end - 1 = i
    BY <1>1, <1>4, <1>8
  <2>2. SubSeq(m, i, i) = <<m[i]>>
    BY <1>1, OneToken
  <2> QED
    BY <1>2, <2>1, <2>2
<1>9. Converts(<<Num(c)>>) /\ <<Num(c)>>[1][2] = c
  <2>1. <<Num(c)>> # << >> /\ <<Num(c)>>[1][1] = "num" /\ <<Num(c)>>[1][2] = c
    BY DEF Num
  <2>2. c \in 1 - 2^Width .. 2^Width - 1
    BY WidthAssumption
  <2> QED
    BY <2>1, <2>2 DEF Converts
<1>10. SubSeq(m, 1, at - 1) = head
  <2>0. PICK k \in Nat : k = at - 1 /\ k = n + 6
    BY <1>1, <1>4
  <2>1. PICK p : k = at - 1 /\ k = n + 6 /\ p = SubSeq(m, 1, k)
    BY <2>0
  <2>2. k \in Int /\ \A i \in 1 .. k : m[i] \in Tokens
    BY <1>1, <2>1
  <2>3. p \in Seq(Tokens) /\ Len(p) = (IF 1 <= k THEN k - 1 + 1 ELSE 0) /\ \A i \in 1 .. k - 1 + 1 : p[i] = m[1 + i - 1]
    BY <2>1, <2>2, SubSeqProperties
  <2>4. Len(p) = k /\ \A i \in 1 .. k : p[i] = m[i]
    BY <1>1, <2>1, <2>3
  <2>5. Len(p) = Len(head) /\ \A i \in 1 .. Len(p) : p[i] = head[i]
    BY <1>2, <2>1, <2>4, SMTT(30)
  <2>6. p = head
    BY <2>3, <2>5, SeqEqual
  <2> QED
    BY <2>1, <2>6
<1>11. PICK end, value : end = FindSoh(m, at + 1) /\ value = SubSeq(m, at + 1, end - 1)
  OBVIOUS
<1>12. end = n + 9 /\ value = <<Num(c)>>
  BY <1>7, <1>8, <1>11
<1>13. end # 0 /\ at # 0
  BY <1>1, <1>12
<1>14. VerifyChecksum(m) <=> /\ at # 0 /\ end # 0 /\ Converts(value)
                             /\ Checksum(SubSeq(m, 1, at - 1)) = value[1][2]
  BY <1>6, <1>11, Zenon DEF VerifyChecksum
<1> QED
  BY <1>2, <1>9, <1>10, <1>12, <1>13, <1>14

\* A reply: one complete message with a valid checksum.
Complete(reply) == TryExtractMessage(reply) = Len(reply) /\ VerifyChecksum(reply)

\* Short messages are complete.
LEMMA ShortIsComplete ==
    ASSUME TokensWeigh, NEW body \in Seq(Tokens), Len(body) <= 12
    PROVE  Complete(BuildMessage(body))
<1>1. PICK m : m = BuildMessage(body)
  OBVIOUS
<1>2. PICK n \in Nat : n = Len(body)
  OBVIOUS
<1>3. m \in Seq(Tokens) /\ Len(m) = n + 9 /\ Starts(m, n) /\ VerifyChecksum(m)
  BY <1>1, <1>2, Built, Verifies
<1>4. Fits(n)
  BY <1>2, WidthAssumption DEF Fits
<1>5. TryExtractMessage(m) = IF Len(m) >= n + 9 THEN n + 9 ELSE NoMessage
  BY <1>3, <1>4, StartsOpens, Extracts
<1>6. TryExtractMessage(m) = Len(m)
  BY <1>3, <1>5
<1> QED
  BY <1>1, <1>3, <1>6 DEF Complete

\* A field is three tokens.
LEMMA FieldIs ==
    ASSUME NEW t \in Nat, NEW v \in Tokens, NEW f, f = Field(t, v)
    PROVE  f \in Seq(Tokens) /\ Len(f) = 3
<1>1. Tag(t) \in Tokens /\ SOH \in Tokens
  BY TokensAre
<1> QED
  BY <1>1 DEF Field

\* The rejection of a message that is no order is complete.
LEMMA NakIsComplete ==
    ASSUME TokensWeigh, NEW reason \in Replies
    PROVE  Complete(Nak(reason))
<1>1. PICK f, g, body : f = Field(35, Num(3)) /\ g = Field(58, Txt(reason)) /\ body = Cat(f, g)
  OBVIOUS
<1>2. Num(3) \in Tokens /\ Txt(reason) \in Tokens
  BY TokensAre
<1>3. f \in Seq(Tokens) /\ Len(f) = 3 /\ g \in Seq(Tokens) /\ Len(g) = 3
  BY <1>1, <1>2, FieldIs
<1>4. body \in Seq(Tokens) /\ Len(body) <= 12
  <2>1. body \in Seq(Tokens) /\ IsJoin(body, f, g)
    BY <1>1, <1>3, Joined
  <2> QED
    BY <1>3, <2>1 DEF IsJoin
<1>5. Nak(reason) = BuildMessage(body)
  BY <1>1, Zenon DEF Nak, Cat
<1>6. Complete(BuildMessage(body))
  BY <1>4, ShortIsComplete
<1> QED
  BY <1>5, <1>6

\* What validate() may say, NoReason to accept.
NoReason == ""
Verdicts == Reasons \cup {NoReason}

\* The report of an order is complete, with or without a reason.
LEMMA ReportIsComplete ==
    ASSUME TokensWeigh, NEW orderId \in Nat, NEW verdict \in Verdicts
    PROVE  Complete(Report(orderId, verdict))
<1>1. PICK f, g, h, t :
         /\ f = Field(35, Num(8)) /\ g = Field(37, Num(orderId))
         /\ h = Field(39, Num(IF verdict = NoReason THEN 0 ELSE 8))
         /\ t = IF verdict = NoReason THEN << >> ELSE Field(58, Txt(verdict))
  OBVIOUS
<1>2. PICK fg, fgh, body : fg = Cat(f, g) /\ fgh = Cat(fg, h) /\ body = Cat(fgh, t)
  OBVIOUS
<1>3. Num(8) \in Tokens /\ Num(orderId) \in Tokens /\ Num(IF verdict = NoReason THEN 0 ELSE 8) \in Tokens
  BY TokensAre
<1>4. /\ f \in Seq(Tokens) /\ Len(f) = 3 /\ g \in Seq(Tokens) /\ Len(g) = 3
      /\ h \in Seq(Tokens) /\ Len(h) = 3
  BY <1>1, <1>3, FieldIs
<1>5. t \in Seq(Tokens) /\ (Len(t) = 0 \/ Len(t) = 3)
  <2>1. CASE verdict = NoReason
    BY <1>1, <2>1, EmptySeq
  <2>2. CASE verdict # NoReason
    <3>1. Txt(verdict) \in Tokens
      BY <2>2, TokensAre DEF Replies, Verdicts
    <3>2. t = Field(58, Txt(verdict))
      BY <1>1, <2>2
    <3> QED
      BY <3>1, <3>2, FieldIs
  <2> QED
    BY <2>1, <2>2
<1>6. fg \in Seq(Tokens) /\ IsJoin(fg, f, g)
  BY <1>2, <1>4, Joined
<1>7. fgh \in Seq(Tokens) /\ IsJoin(fgh, fg, h)
  BY <1>2, <1>4, <1>6, Joined
<1>8. body \in Seq(Tokens) /\ IsJoin(body, fgh, t)
  BY <1>2, <1>5, <1>7, Joined
<1>9. Len(body) <= 12
  <2>1. Len(fg) = 6
    BY <1>4, <1>6 DEF IsJoin
  <2>2. Len(fgh) = 9
    BY <1>4, <1>7, <2>1 DEF IsJoin
  <2> QED
    <3>1. Len(body) = 9 + Len(t)
      BY <1>8, <2>2 DEF IsJoin
    <3>2. CASE Len(t) = 0
      BY <3>1, <3>2
    <3>3. CASE Len(t) = 3
      BY <3>1, <3>3
    <3> QED
      BY <1>5, <3>2, <3>3
<1>10. Report(orderId, verdict) = BuildMessage(body)
  BY <1>1, <1>2, Zenon DEF Report, Cat, NoReason
<1>11. Complete(BuildMessage(body))
  BY <1>8, <1>9, ShortIsComplete
<1> QED
  BY <1>10, <1>11

\* What has been answered: complete replies, and order ids given out before.
Answered ==
    /\ nextOrderId \in Nat
    /\ \A k \in DOMAIN answers :
           /\ Complete(answers[k].reply)
           /\ answers[k].order # NoOrder => /\ answers[k].order.orderId \in Nat
                                            /\ answers[k].order.orderId < nextOrderId
    /\ \A k, l \in DOMAIN answers :
           answers[k].order # NoOrder /\ answers[l].order # NoOrder /\ k # l
           => answers[k].order.orderId # answers[l].order.orderId

\* parseOrder() returns one of its reasons, or draws an order id.
LEMMA ReasonOrId ==
    ASSUME NEW raw
    PROVE  /\ RejectReason(raw) # NoReason => RejectReason(raw) \in Replies
           /\ RejectReason(raw) = NoReason => DrawsOrderId(raw)
<1>1. "" # "bad_checksum" /\ "" # "unsupported_msgtype" /\ "" # "malformed_message"
  OBVIOUS
<1>3. \/ RejectReason(raw) \in {"bad_checksum", "unsupported_msgtype", "malformed_message"}
      \/ /\ RejectReason(raw) = NoReason
         /\ VerifyChecksum(raw) /\ IsNewOrder(SplitFields(raw)) /\ Required \subseteq DOMAIN SplitFields(raw)
  BY DEF RejectReason, NoReason
<1> QED
  BY <1>1, <1>3, Zenon DEF Replies, DrawsOrderId, NoReason

\* A reply more.
LEMMA AnsweredRespond ==
    ASSUME TokensWeigh, Answered, NEW k \in DOMAIN jobs, NEW verdict \in Verdicts, Respond(k, verdict)
    PROVE  Answered'
<1>1. PICK reason, answer :
         /\ reason = RejectReason(jobs[k])
         /\ answer = IF reason # NoReason THEN [order |-> NoOrder, reply |-> Nak(reason)]
                     ELSE [order |-> OrderOf(jobs[k], nextOrderId), reply |-> Report(nextOrderId, verdict)]
  OBVIOUS
<1>2. answers' = [l \in DOMAIN answers \cup {k} |-> IF l = k THEN answer ELSE answers[l]]
  BY <1>1, Zenon DEF Respond, NoReason
<1>3. k \notin DOMAIN answers
  BY Zenon DEF Respond, Running, Unanswered
<1>4. /\ DOMAIN answers' = DOMAIN answers \cup {k} /\ answers'[k] = answer
      /\ \A l \in DOMAIN answers : answers'[l] = answers[l]
  BY <1>2, <1>3
<1>5. nextOrderId \in Nat
  BY DEF Answered
<1>6. nextOrderId' = nextOrderId + (IF DrawsOrderId(jobs[k]) THEN 1 ELSE 0)
  BY Zenon DEF Respond
<1>7. CASE reason # NoReason
  <2>1. answer.order = NoOrder /\ answer.reply = Nak(reason)
    BY <1>1, <1>7
  <2>2. reason \in Replies
    BY <1>1, <1>7, ReasonOrId
  <2>3. Complete(answer.reply)
    BY <2>1, <2>2, NakIsComplete
  <2>4. nextOrderId' \in Nat /\ nextOrderId <= nextOrderId'
    BY <1>5, <1>6
  <2> QED
    BY <1>4, <1>5, <2>1, <2>3, <2>4 DEF Answered
<1>8. CASE reason = NoReason
  <2>1. answer.order.orderId = nextOrderId /\ answer.reply = Report(nextOrderId, verdict)
    BY <1>1, <1>8 DEF OrderOf
  <2>2. Complete(answer.reply)
    BY <1>5, <2>1, ReportIsComplete
  <2>3. nextOrderId' = nextOrderId + 1
    BY <1>1, <1>6, <1>8, ReasonOrId
  <2>4. nextOrderId' \in Nat /\ nextOrderId < nextOrderId'
    BY <1>5, <2>3
  <2> QED
    BY <1>4, <1>5, <2>1, <2>2, <2>4 DEF Answered
<1> QED
  BY <1>7, <1>8

\* Every reply safeSend() is given is one complete message with a valid
\* checksum, and no two orders share an id, whatever the client sent.
THEOREM FixRepliesWellFormed ==
    ASSUME TokensWeigh
    PROVE  FixSpec => []RepliesWellFormed
<1>1. FixInit => Answered
  BY DEF FixInit, Answered
<1>2. Answered /\ [FixNext]_fixVars => Answered'
  <2> SUFFICES ASSUME Answered, [FixNext]_fixVars PROVE Answered'
    OBVIOUS
  <2>1. ASSUME NEW k \in DOMAIN jobs, NEW verdict \in Verdicts, Respond(k, verdict) PROVE Answered'
    BY <2>1, AnsweredRespond
  <2>2. CASE UNCHANGED <<answers, nextOrderId>>
    BY <2>2 DEF Answered
  <2>3. ASSUME NEW n \in 1 .. Len(wire), Readable(n) PROVE UNCHANGED <<answers, nextOrderId>>
    BY <2>3 DEF Readable
  <2>4. Extract \/ ExtractNone \/ UNCHANGED fixVars => UNCHANGED <<answers, nextOrderId>>
    BY Zenon DEF Extract, ExtractNone, fixVars
  <2> QED
    BY <2>1, <2>2, <2>3, <2>4, Zenon DEF FixNext, Verdicts, NoReason
<1>3. Answered => RepliesWellFormed
  BY Zenon DEF Answered, RepliesWellFormed, Complete
<1> QED
  BY <1>1, <1>2, <1>3, PTL DEF FixSpec

-----------------------------------------------------------------------------
(* Fields                                                                  *)

Ends(raw, pos)  == FindEq(raw, pos) = 0 \/ FindSoh(raw, FindEq(raw, pos)) = 0
After(raw, pos) == FindSoh(raw, FindEq(raw, pos)) + 1

Entry(raw, pos) ==
    IF raw[pos][1] \in {"tag", "num"}
    THEN [tag \in {raw[pos][2]} |-> SubSeq(raw, FindEq(raw, pos) + 1, FindSoh(raw, FindEq(raw, pos)) - 1)]
    ELSE << >>

\* One turn of splitFields()'s loop, and the function its recursion defines.
Turn(f, raw, pos) ==
    IF Ends(raw, pos) THEN << >> ELSE Overwrite(f[After(raw, pos)], Entry(raw, pos))

IsSplit(f, raw) == f = [pos \in 1 .. Len(raw) + 1 |-> Turn(f, raw, pos)]

\* The recursion, unfolded.
LEMMA SplitUnfolds ==
    ASSUME NEW raw
    PROVE  SplitFields(raw) = (CHOOSE f : IsSplit(f, raw))[1]
  BY DEF SplitFields, IsSplit, Turn, Ends, After, Entry

\* find('=') returns npos or a position further on.
LEMMA FindsEqWithin ==
    ASSUME NEW T, NEW b \in Seq(T), NEW from \in Nat \ {0}
    PROVE  FindEq(b, from) = 0 \/ FindEq(b, from) \in from .. Len(b)
<1> DEFINE I == {j \in from .. Len(b) : b[j][1] = "tag"}
<1>1. Len(b) \in Nat /\ I \subseteq Nat /\ I \subseteq from .. Len(b)
  OBVIOUS
<1>2. CASE I = {}
  BY <1>2 DEF FindEq, SelectInSubSeq
<1>3. CASE I # {}
  <2>1. PICK i \in I : \A y \in I : i <= y
    <3> HIDE DEF I
    <3> QED
      BY <1>1, <1>3, LeastElement
  <2>2. Min(I) \in I
    BY <2>1 DEF Min
  <2> QED
    BY <1>1, <1>3, <2>2 DEF FindEq, SelectInSubSeq
<1> QED
  BY <1>2, <1>3

\* So does find(SOH).
LEMMA FindsSohWithin ==
    ASSUME NEW T, NEW b \in Seq(T), NEW from \in Nat \ {0}
    PROVE  FindSoh(b, from) = 0 \/ FindSoh(b, from) \in from .. Len(b)
<1> DEFINE I == {j \in from .. Len(b) : b[j] = SOH}
<1>1. Len(b) \in Nat /\ I \subseteq Nat /\ I \subseteq from .. Len(b)
  OBVIOUS
<1>2. CASE I = {}
  BY <1>2 DEF FindSoh, SelectInSubSeq
<1>3. CASE I # {}
  <2>1. PICK i \in I : \A y \in I : i <= y
    <3> HIDE DEF I
    <3> QED
      BY <1>1, <1>3, LeastElement
  <2>2. Min(I) \in I
    BY <2>1 DEF Min
  <2> QED
    BY <1>1, <1>3, <2>2 DEF FindSoh, SelectInSubSeq
<1> QED
  BY <1>2, <1>3

\* Every turn of the loop moves on.
LEMMA MovesOn ==
    ASSUME NEW T, NEW raw \in Seq(T), NEW pos \in 1 .. Len(raw) + 1, ~Ends(raw, pos)
    PROVE  After(raw, pos) \in pos + 1 .. Len(raw) + 1
<1>1. PICK eq : eq = FindEq(raw, pos)
  OBVIOUS
<1>2. PICK soh : soh = FindSoh(raw, eq)
  OBVIOUS
<1>3. eq # 0 /\ soh # 0 /\ After(raw, pos) = soh + 1
  BY <1>1, <1>2 DEF Ends, After
<1>4. Len(raw) \in Nat /\ pos \in Nat \ {0}
  OBVIOUS
<1>5. eq \in pos .. Len(raw)
  BY <1>1, <1>3, <1>4, FindsEqWithin
<1>6. eq \in Nat \ {0}
  BY <1>4, <1>5
<1>7. soh \in eq .. Len(raw)
  BY <1>2, <1>3, <1>6, FindsSohWithin
<1> QED
  BY <1>3, <1>4, <1>5, <1>7

\* The recursion defines a function.
LEMMA SplitExists ==
    ASSUME NEW T, NEW raw \in Seq(T)
    PROVE  \E f : IsSplit(f, raw)
<1> DEFINE L == Len(raw) + 1
           Settled(f, n) == \A pos \in 1 .. L : pos > L - n => f[pos] = Turn(f, raw, pos)
           Good == {n \in Nat : \E f : f = [pos \in 1 .. L |-> f[pos]] /\ Settled(f, n)}
<1>1. L \in Nat
  OBVIOUS
<1>2. 0 \in Good
  <2>1. PICK f : f = [pos \in 1 .. L |-> 0]
    OBVIOUS
  <2>2. f = [pos \in 1 .. L |-> f[pos]]
    BY <2>1
  <2>3. Settled(f, 0)
    BY <1>1
  <2> QED
    BY <2>2, <2>3
<1>3. ASSUME NEW n \in Nat, n \in Good PROVE n + 1 \in Good
  <2>1. PICK f : f = [pos \in 1 .. L |-> f[pos]] /\ Settled(f, n)
    BY <1>3
  <2>2. PICK g : g = [pos \in 1 .. L |-> Turn(f, raw, pos)]
    OBVIOUS
  <2>3. g = [pos \in 1 .. L |-> g[pos]] /\ \A pos \in 1 .. L : g[pos] = Turn(f, raw, pos)
    BY <2>2
  <2>4. ASSUME NEW pos \in 1 .. L, pos > L - (n + 1) PROVE g[pos] = Turn(g, raw, pos)
    <3>1. CASE Ends(raw, pos)
      BY <2>3, <3>1 DEF Turn
    <3>2. CASE ~Ends(raw, pos)
      <4>1. PICK next : next = After(raw, pos)
        OBVIOUS
      <4>2. next \in pos + 1 .. L
        BY <3>2, <4>1, MovesOn
      <4>3. next \in 1 .. L /\ next > L - n
        BY <1>1, <2>4, <4>2
      <4>4. f[next] = g[next]
        BY <2>1, <2>3, <4>3
      <4> QED
        BY <2>3, <3>2, <4>1, <4>4 DEF Turn
    <3> QED
      BY <3>1, <3>2
  <2>5. Settled(g, n + 1)
    BY <2>4
  <2> HIDE DEF Settled
  <2> QED
    BY <2>3, <2>5
<1>4. Nat \subseteq Good
  <2> HIDE DEF Good
  <2> QED
    BY <1>2, <1>3, NatInduct
<1>5. PICK f : f = [pos \in 1 .. L |-> f[pos]] /\ Settled(f, L)
  BY <1>1, <1>4
<1>6. \A pos \in 1 .. L : f[pos] = Turn(f, raw, pos)
  BY <1>1, <1>5
<1>7. f = [pos \in 1 .. L |-> Turn(f, raw, pos)]
  BY <1>5, <1>6
<1> QED
  BY <1>7 DEF IsSplit

\* A field starts at pos.
FieldAt(raw, pos) ==
    /\ raw[pos] = Tag(raw[pos][2]) /\ IsValue(raw[pos + 1]) /\ raw[pos + 2] = SOH

\* A value is no tag, no separator and not missing.
LEMMA ValueIs ==
    ASSUME NEW v, IsValue(v)
    PROVE  /\ v # SOH /\ v # Absent /\ \A tag : v # Tag(tag)
           /\ (v = Num(v[2]) /\ v[1] = "num" /\ v[2] \in Int) \/ (v = Txt(v[2]) /\ v[1] = "txt")
<1>1. CASE v = Num(v[2]) /\ v[2] \in Int
  <2>1. v[1] = "num"
    BY <1>1 DEF Num
  <2>2. SOH[1] = "soh" /\ Absent[1] = "absent" /\ \A tag : Tag(tag)[1] = "tag"
    BY DEF SOH, Absent, Tag
  <2> QED
    BY <1>1, <2>1, <2>2
<1>2. CASE v = Txt(v[2])
  <2>1. v[1] = "txt"
    BY <1>2 DEF Txt
  <2>2. SOH[1] = "soh" /\ Absent[1] = "absent" /\ \A tag : Tag(tag)[1] = "tag"
    BY DEF SOH, Absent, Tag
  <2> QED
    BY <1>2, <2>1, <2>2
<1> QED
  BY <1>1, <1>2 DEF IsValue

\* find('=') finds a tag where it starts.
LEMMA FindsEqHere ==
    ASSUME NEW T, NEW b \in Seq(T), NEW pos \in 1 .. Len(b), b[pos][1] = "tag"
    PROVE  FindEq(b, pos) = pos
<1> DEFINE I == {j \in pos .. Len(b) : b[j][1] = "tag"}
<1>1. pos \in I /\ \A y \in I : pos <= y
  OBVIOUS
<1>2. \A x \in I : (\A y \in I : x <= y) => x = pos
  BY <1>1
<1>3. Min(I) = pos
  BY <1>1, <1>2 DEF Min
<1> QED
  BY <1>1, <1>3 DEF FindEq, SelectInSubSeq

\* The turn that reads one field.
LEMMA FieldTurn ==
    ASSUME NEW T, NEW raw \in Seq(T), NEW pos \in 1 .. Len(raw), pos + 2 <= Len(raw), FieldAt(raw, pos)
    PROVE  /\ ~Ends(raw, pos) /\ After(raw, pos) = pos + 3
           /\ Entry(raw, pos) = [tag \in {raw[pos][2]} |-> <<raw[pos + 1]>>]
<1>1. raw[pos][1] = "tag" /\ raw[pos] # SOH
  BY DEF FieldAt, Tag, SOH
<1>2. FindEq(raw, pos) = pos
  BY <1>1, FindsEqHere
<1>3. raw[pos + 1] # SOH /\ raw[pos + 2] = SOH
  BY ValueIs DEF FieldAt
<1>4. FindSoh(raw, pos) = pos + 2
  <2>1. PICK i \in pos .. Len(raw) : i = pos + 2
    OBVIOUS
  <2>2. raw[i] = SOH /\ \A j \in pos .. i - 1 : raw[j] # SOH
    <3>1. \A j \in pos .. i - 1 : j = pos \/ j = pos + 1
      BY <2>1
    <3> QED
      BY <1>1, <1>3, <2>1, <3>1
  <2>3. pos \in Nat \ {0}
    OBVIOUS
  <2> QED
    BY <2>1, <2>2, <2>3, FindsSoh
<1>5. SubSeq(raw, pos + 1, pos + 2 - 1) = <<raw[pos + 1]>>
  <2>1. PICK i \in 1 .. Len(raw) : i = pos + 1 /\ i = pos + 2 - 1
    OBVIOUS
  <2>2. SubSeq(raw, i, i) = <<raw[i]>>
    BY OneToken
  <2> QED
    BY <2>1, <2>2
<1>6. ~Ends(raw, pos) /\ After(raw, pos) = pos + 3
  BY <1>2, <1>4 DEF Ends, After
<1>7. PICK eq, soh, value : /\ eq = FindEq(raw, pos) /\ soh = FindSoh(raw, eq)
                             /\ value = SubSeq(raw, eq + 1, soh - 1)
  OBVIOUS
<1>8. eq = pos /\ soh = pos + 2
  BY <1>2, <1>4, <1>7
<1>9. value = <<raw[pos + 1]>>
  BY <1>5, <1>7, <1>8
<1>10. Entry(raw, pos) = [tag \in {raw[pos][2]} |-> value]
  BY <1>1, <1>7 DEF Entry
<1> QED
  BY <1>6, <1>9, <1>10

\* After the last field the loop ends.
LEMMA LastTurn ==
    ASSUME NEW T, NEW raw \in Seq(T)
    PROVE  Ends(raw, Len(raw) + 1)
<1>1. Len(raw) + 1 \in Nat \ {0} /\ Len(raw) + 1 .. Len(raw) = {}
  OBVIOUS
<1>2. FindEq(raw, Len(raw) + 1) = 0
  BY <1>1, FindsEqWithin
<1> QED
  BY <1>2 DEF Ends

\* fields holds, for every tag from pos on, the value after its last mention.
Mentioned(raw, pos, tag)  == \E j \in pos .. Len(raw) : raw[j] = Tag(tag)
LastAt(raw, pos, tag, j)  == /\ j \in pos .. Len(raw) /\ raw[j] = Tag(tag)
                             /\ \A l \in j + 1 .. Len(raw) : raw[l] # Tag(tag)
Reads(fields, raw, pos) ==
    /\ \A tag : tag \in DOMAIN fields <=> Mentioned(raw, pos, tag)
    /\ \A tag, j : LastAt(raw, pos, tag, j) => fields[tag] = <<raw[j + 1]>>

\* A field in front of what was read.
LEMMA ReadsOneMore ==
    ASSUME NEW T, NEW raw \in Seq(T), NEW pos \in 1 .. Len(raw), pos + 2 <= Len(raw), FieldAt(raw, pos),
           NEW later, Reads(later, raw, pos + 3), NEW entry,
           entry = [tag \in {raw[pos][2]} |-> <<raw[pos + 1]>>]
    PROVE  Reads(Overwrite(later, entry), raw, pos)
<1> DEFINE t == raw[pos][2]
           F == Overwrite(later, entry)
<1>1. Len(raw) \in Nat /\ pos \in Nat
  OBVIOUS
<1>2. /\ raw[pos] = Tag(t)
      /\ \A tag : raw[pos + 1] # Tag(tag) /\ raw[pos + 2] # Tag(tag)
      /\ \A tag : Tag(tag) = Tag(t) => tag = t
  <2>1. \A tag : raw[pos + 1] # Tag(tag)
    BY ValueIs DEF FieldAt
  <2>2. \A tag : raw[pos + 2] # Tag(tag)
    BY DEF FieldAt, SOH, Tag
  <2>3. \A tag : Tag(tag) = Tag(t) => tag = t
    BY DEF Tag
  <2> QED
    BY <2>1, <2>2, <2>3 DEF FieldAt
<1>3. /\ DOMAIN F = DOMAIN later \cup {t}
      /\ \A tag \in DOMAIN later : F[tag] = later[tag]
      /\ t \notin DOMAIN later => F[t] = <<raw[pos + 1]>>
  <2>1. DOMAIN entry = {t} /\ entry[t] = <<raw[pos + 1]>>
    OBVIOUS
  <2> QED
    BY <2>1 DEF Overwrite
<1> HIDE DEF F, t
<1>4. \A j \in pos .. Len(raw) : j = pos \/ j = pos + 1 \/ j = pos + 2 \/ j \in pos + 3 .. Len(raw)
  BY <1>1
<1>5. pos \in pos .. Len(raw) /\ pos + 3 .. Len(raw) \subseteq pos .. Len(raw)
  BY <1>1
<1>6. ASSUME NEW tag PROVE tag \in DOMAIN F <=> Mentioned(raw, pos, tag)
  <2>1. tag \in DOMAIN F <=> tag = t \/ Mentioned(raw, pos + 3, tag)
    BY <1>3 DEF Reads
  <2>2. Mentioned(raw, pos, tag) <=> tag = t \/ Mentioned(raw, pos + 3, tag)
    BY <1>2, <1>4, <1>5 DEF Mentioned
  <2> QED
    BY <2>1, <2>2
<1>7. ASSUME NEW tag, NEW j, LastAt(raw, pos, tag, j) PROVE F[tag] = <<raw[j + 1]>>
  <2>1. j \in pos .. Len(raw) /\ raw[j] = Tag(tag) /\ \A l \in j + 1 .. Len(raw) : raw[l] # Tag(tag)
    BY <1>7 DEF LastAt
  <2>2. CASE j = pos
    <3>1. tag = t
      BY <1>2, <2>1, <2>2
    <3>2. ~Mentioned(raw, pos + 3, tag)
      BY <1>1, <2>1, <2>2 DEF Mentioned
    <3> QED
      BY <1>3, <2>2, <3>1, <3>2 DEF Reads
  <2>3. CASE j \in pos + 3 .. Len(raw)
    <3>1. LastAt(raw, pos + 3, tag, j) /\ Mentioned(raw, pos + 3, tag)
      BY <2>1, <2>3 DEF LastAt, Mentioned
    <3> QED
      BY <1>3, <3>1 DEF Reads
  <2> QED
    BY <1>2, <1>4, <2>1, <2>2, <2>3
<1>8. Reads(F, raw, pos)
  BY <1>6, <1>7, Zenon DEF Reads
<1> QED
  BY <1>8 DEF F

\* splitFields() of a list of fields is that map.
LEMMA SplitReads ==
    ASSUME NEW T, NEW raw \in Seq(T), NEW N \in Nat, Len(raw) = 3 * N,
           \A i \in 1 .. N : FieldAt(raw, 3 * i - 2)
    PROVE  Reads(SplitFields(raw), raw, 1)
<1>1. PICK f : IsSplit(f, raw) /\ SplitFields(raw) = f[1]
  <2>1. \E f : IsSplit(f, raw)
    BY SplitExists
  <2> QED
    BY <2>1, SplitUnfolds
<1>2. \A pos \in 1 .. Len(raw) + 1 : f[pos] = Turn(f, raw, pos)
  BY <1>1 DEF IsSplit
<1> DEFINE Good == {n \in Nat : n <= N => Reads(f[3 * (N - n) + 1], raw, 3 * (N - n) + 1)}
<1>3. 0 \in Good
  <2>1. PICK pos \in 1 .. Len(raw) + 1 : pos = Len(raw) + 1 /\ pos = 3 * (N - 0) + 1
    OBVIOUS
  <2>2. f[pos] = << >>
    BY <1>2, <2>1, LastTurn DEF Turn
  <2>3. DOMAIN f[pos] = {} /\ pos .. Len(raw) = {}
    BY <2>1, <2>2
  <2>4. Reads(f[pos], raw, pos)
    BY <2>3 DEF Reads, Mentioned, LastAt
  <2> QED
    BY <2>1, <2>4
<1>4. ASSUME NEW n \in Nat, n \in Good PROVE n + 1 \in Good
  <2> SUFFICES ASSUME n + 1 <= N
               PROVE  Reads(f[3 * (N - (n + 1)) + 1], raw, 3 * (N - (n + 1)) + 1)
    OBVIOUS
  <2>1. PICK pos \in 1 .. Len(raw) : /\ pos = 3 * (N - (n + 1)) + 1 /\ pos + 2 <= Len(raw)
                                     /\ pos + 3 = 3 * (N - n) + 1
    OBVIOUS
  <2>2. FieldAt(raw, pos)
    <3>1. PICK i \in 1 .. N : pos = 3 * i - 2
      <4>1. N - n \in 1 .. N /\ pos = 3 * (N - n) - 2
        BY <2>1
      <4> QED
        BY <4>1
    <3> QED
      BY <3>1
  <2>3. Reads(f[pos + 3], raw, pos + 3)
    <3>1. n <= N
      OBVIOUS
    <3> QED
      BY <1>4, <2>1, <3>1
  <2>4. PICK entry : entry = Entry(raw, pos)
    OBVIOUS
  <2>5. ~Ends(raw, pos) /\ After(raw, pos) = pos + 3 /\ entry = [tag \in {raw[pos][2]} |-> <<raw[pos + 1]>>]
    BY <2>1, <2>2, <2>4, FieldTurn, ZenonT(30)
  <2>6. f[pos] = Overwrite(f[pos + 3], entry)
    <3>1. f[pos] = Turn(f, raw, pos)
      BY <1>2
    <3> QED
      BY <2>4, <2>5, <3>1 DEF Turn
  <2>7. Reads(Overwrite(f[pos + 3], entry), raw, pos)
    BY <2>1, <2>2, <2>3, <2>5, ReadsOneMore
  <2>8. Reads(f[pos], raw, pos)
    BY <2>6, <2>7
  <2> QED
    BY <2>1, <2>8
<1>5. Nat \subseteq Good
  <2> HIDE DEF Good
  <2> QED
    BY <1>3, <1>4, NatInduct
<1>6. 3 * (N - N) + 1 = 1 /\ N \in Good
  BY <1>5
<1>7. Reads(f[1], raw, 1)
  BY <1>6
<1> QED
  BY <1>1, <1>7

\* A position in a list of fields is that of a tag, a value or a separator.
LEMMA InAField ==
    ASSUME NEW N \in Nat, NEW x \in 1 .. 3 * N
    PROVE  \E i \in 1 .. N : x = 3 * i - 2 \/ x = 3 * i - 1 \/ x = 3 * i
<1>1. PICK i : i = (x + 2) \div 3
  OBVIOUS
<1>2. i \in Int /\ x + 2 >= 3 * i /\ x + 2 <= 3 * i + 2
  BY <1>1
<1>3. i \in 1 .. N /\ (x = 3 * i - 2 \/ x = 3 * i - 1 \/ x = 3 * i)
  BY <1>2
<1> QED
  BY <1>3

\* A message ends with its checksum.
LEMMA Trailer ==
    ASSUME TokensWeigh, NEW body \in Seq(Tokens), NEW m, m = BuildMessage(body)
    PROVE  \E c \in 0 .. 255 :
              m[Len(body) + 7] = Tag(10) /\ m[Len(body) + 8] = Num(c) /\ m[Len(body) + 9] = SOH
  BY Built

\* A message with a list of fields as its body is a list of fields.
LEMMA BuiltFields ==
    ASSUME TokensWeigh, NEW body \in Seq(Tokens), NEW m, m = BuildMessage(body),
           NEW n \in Nat, Len(body) = 3 * n, \A i \in 1 .. n : FieldAt(body, 3 * i - 2)
    PROVE  Len(m) = 3 * (n + 3) /\ \A i \in 1 .. n + 3 : FieldAt(m, 3 * i - 2)
<1>1. /\ m \in Seq(Tokens) /\ Len(m) = Len(body) + 9 /\ Starts(m, Len(body)) /\ Carries(m, body)
  BY Built
<1>2. PICK c \in 0 .. 255 :
         m[Len(body) + 7] = Tag(10) /\ m[Len(body) + 8] = Num(c) /\ m[Len(body) + 9] = SOH
  BY Trailer
<1>3. \A v \in Int : IsValue(Num(v))
  BY DEF IsValue, Num
<1>4. IsValue(Txt("FIX.4.2"))
  BY DEF IsValue, Txt
<1>5. \A t : Tag(t) = Tag(Tag(t)[2])
  BY DEF Tag
<1>6. /\ m[1] = Tag(8) /\ m[2] = Txt("FIX.4.2") /\ m[3] = SOH
      /\ m[4] = Tag(9) /\ m[5] = Num(Len(body)) /\ m[6] = SOH
  BY <1>1 DEF Starts, Header
<1>7. FieldAt(m, 1) /\ FieldAt(m, 4)
  BY <1>3, <1>4, <1>5, <1>6 DEF FieldAt
<1>8. FieldAt(m, Len(body) + 7)
  <2>1. PICK p \in Nat : p = Len(body) + 7 /\ p + 1 = Len(body) + 8 /\ p + 2 = Len(body) + 9
    OBVIOUS
  <2>2. FieldAt(m, p)
    BY <1>2, <1>3, <1>5, <2>1 DEF FieldAt
  <2> QED
    BY <2>1, <2>2
<1>9. ASSUME NEW i \in 1 .. n + 3 PROVE FieldAt(m, 3 * i - 2)
  <2>1. CASE i = 1 \/ i = 2 \/ i = n + 3
    <3>1. PICK p : p = 3 * i - 2
      OBVIOUS
    <3>2. p = 1 \/ p = 4 \/ p = Len(body) + 7
      BY <2>1, <3>1
    <3>3. FieldAt(m, p)
      BY <1>7, <1>8, <3>2
    <3> QED
      BY <3>1, <3>3
  <2>2. CASE ~(i = 1 \/ i = 2 \/ i = n + 3)
    <3>1. PICK j \in 1 .. n : j = i - 2
      BY <2>2
    <3>2. PICK p \in Nat : p = 3 * j - 2 /\ 3 * i - 2 = p + 6 /\ p \in 1 .. Len(body)
                           /\ p + 1 \in 1 .. Len(body) /\ p + 2 \in 1 .. Len(body)
      BY <3>1
    <3>3. FieldAt(body, p)
      BY <3>1, <3>2
    <3>4. m[p + 6] = body[p] /\ m[p + 1 + 6] = body[p + 1] /\ m[p + 2 + 6] = body[p + 2]
      BY <1>1, <3>2 DEF Carries
    <3>5. p + 1 + 6 = p + 6 + 1 /\ p + 2 + 6 = p + 6 + 2
      OBVIOUS
    <3>6. FieldAt(m, p + 6)
      BY <3>3, <3>4, <3>5 DEF FieldAt
    <3> QED
      BY <3>2, <3>6
  <2> QED
    BY <2>1, <2>2
<1> QED
  BY <1>1, <1>9

\* Where a message mentions a tag that is not of its header or trailer, its
\* body does.
LEMMA MentionedInBody ==
    ASSUME TokensWeigh, NEW body \in Seq(Tokens), NEW m, m = BuildMessage(body),
           NEW tag \in Nat, tag \notin {8, 9, 10}, NEW j \in 1 .. Len(m), m[j] = Tag(tag)
    PROVE  j - 6 \in 1 .. Len(body) /\ body[j - 6] = Tag(tag)
<1> DEFINE n == Len(body)
<1>1. n \in Nat /\ m \in Seq(Tokens) /\ Len(m) = n + 9 /\ Starts(m, n) /\ Carries(m, body)
  BY Built
<1>2. PICK c \in 0 .. 255 : m[n + 7] = Tag(10) /\ m[n + 8] = Num(c) /\ m[n + 9] = SOH
  BY Trailer
<1>3. /\ m[1] = Tag(8) /\ m[2] = Txt("FIX.4.2") /\ m[3] = SOH
      /\ m[4] = Tag(9) /\ m[5] = Num(n) /\ m[6] = SOH
  BY <1>1 DEF Starts, Header
<1>4. /\ Tag(8) # Tag(tag) /\ Tag(9) # Tag(tag) /\ Tag(10) # Tag(tag) /\ SOH # Tag(tag)
      /\ \A v : Num(v) # Tag(tag) /\ Txt(v) # Tag(tag)
  BY DEF Tag, Num, Txt, SOH
<1> HIDE DEF n
<1>5. j # 1 /\ j # 2 /\ j # 3 /\ j # 4 /\ j # 5 /\ j # 6
  BY <1>3, <1>4
<1>6. j # n + 7 /\ j # n + 8 /\ j # n + 9
  BY <1>2, <1>4
<1>7. PICK i \in 1 .. n : i = j - 6 /\ j = i + 6
  BY <1>1, <1>5, <1>6
<1>8. m[i + 6] = body[i]
  BY <1>1 DEF Carries, n
<1>9. i = j - 6 /\ body[i] = Tag(tag) /\ i \in 1 .. Len(body)
  BY <1>7, <1>8 DEF n
<1> QED
  BY <1>9

\* fields[tag] is what the body says.
Tells(fields, body, tag) ==
    /\ tag \in DOMAIN fields <=> Said(body, tag) # Absent
    /\ tag \in DOMAIN fields => IsValue(Said(body, tag)) /\ fields[tag] = <<Said(body, tag)>>

\* splitFields() of a message built from a list of fields tells what they say.
LEMMA SplitTells ==
    ASSUME TokensWeigh, NEW body \in Seq(Tokens), IsFieldList(body), NEW m, m = BuildMessage(body),
           NEW tag \in Nat, tag \notin {8, 9, 10}
    PROVE  Tells(SplitFields(m), body, tag)
<1>1. PICK n \in Nat : Len(body) = 3 * n /\ \A i \in 1 .. n : FieldAt(body, 3 * i - 2)
  <2>1. PICK n \in 0 .. Len(body) :
           /\ Len(body) = 3 * n
           /\ \A i \in 1 .. n : /\ body[3 * i - 2] = Tag(body[3 * i - 2][2])
                                /\ IsValue(body[3 * i - 1]) /\ body[3 * i] = SOH
    BY DEF IsFieldList
  <2>2. ASSUME NEW i \in 1 .. n PROVE FieldAt(body, 3 * i - 2)
    <3>1. 3 * i - 2 + 1 = 3 * i - 1 /\ 3 * i - 2 + 2 = 3 * i
      OBVIOUS
    <3> QED
      BY <2>1, <3>1 DEF FieldAt
  <2> QED
    BY <2>1, <2>2
<1>2. m \in Seq(Tokens) /\ Len(m) = Len(body) + 9 /\ Carries(m, body)
  BY Built
<1>3. Len(m) = 3 * (n + 3) /\ \A i \in 1 .. n + 3 : FieldAt(m, 3 * i - 2)
  BY <1>1, BuiltFields
<1>4. PICK fields : fields = SplitFields(m)
  OBVIOUS
<1>5. Reads(fields, m, 1)
  <2>1. n + 3 \in Nat
    OBVIOUS
  <2> QED
    BY <1>2, <1>3, <1>4, <2>1, SplitReads
<1>6. Len(body) \in Nat /\ DOMAIN body = 1 .. Len(body)
  OBVIOUS
<1> DEFINE at == {i \in DOMAIN body : body[i] = Tag(tag)}
<1>7. Said(body, tag) = IF at = {} THEN Absent ELSE body[Max(at) + 1]
  BY DEF Said
<1>8. CASE at = {}
  <2>1. ~Mentioned(m, 1, tag)
    <3> SUFFICES ASSUME NEW j \in 1 .. Len(m), m[j] = Tag(tag) PROVE FALSE
      BY DEF Mentioned
    <3>1. PICK i : i = j - 6
      OBVIOUS
    <3>2. i \in 1 .. Len(body) /\ body[i] = Tag(tag)
      BY <3>1, MentionedInBody
    <3> QED
      BY <1>6, <1>8, <3>2
  <2>2. tag \notin DOMAIN fields
    BY <1>5, <2>1 DEF Reads
  <2> QED
    BY <1>4, <1>7, <1>8, <2>2 DEF Tells
<1>9. CASE at # {}
  <2>1. PICK x : x = Max(at)
    OBVIOUS
  <2>2. x \in at /\ \A y \in at : y <= x
    <3>1. at \in SUBSET (1 .. Len(body))
      BY <1>6
    <3> HIDE DEF at
    <3> QED
      BY <1>6, <1>9, <2>1, <3>1, MaxIn
  <2>3. x \in 1 .. Len(body) /\ body[x] = Tag(tag)
    BY <1>6, <2>2
  <2>4. IsValue(body[x + 1]) /\ x + 1 \in 1 .. Len(body)
    <3>1. PICK i \in 1 .. n : x = 3 * i - 2 \/ x = 3 * i - 1 \/ x = 3 * i
      BY <1>1, <2>3, InAField
    <3>2. PICK p \in Nat : p = 3 * i - 2
      OBVIOUS
    <3>3. FieldAt(body, p) /\ (x = p \/ x = p + 1 \/ x = p + 2) /\ p + 1 \in 1 .. Len(body)
      BY <1>1, <3>1, <3>2
    <3>4. body[p + 1] # Tag(tag) /\ body[p + 2] # Tag(tag)
      <4>1. body[p + 1] # Tag(tag)
        BY <3>3, ValueIs DEF FieldAt
      <4>2. body[p + 2] # Tag(tag)
        BY <3>3 DEF FieldAt, SOH, Tag
      <4> QED
        BY <4>1, <4>2
    <3>5. x = p
      BY <2>3, <3>3, <3>4
    <3> QED
      BY <3>3, <3>5 DEF FieldAt
  <2>5. PICK j \in 1 .. Len(m) : j = x + 6 /\ j + 1 = x + 1 + 6
    BY <1>2, <1>6, <2>3
  <2>6. m[j] = Tag(tag) /\ m[j + 1] = body[x + 1]
    BY <1>2, <2>3, <2>4, <2>5 DEF Carries
  <2>7. ASSUME NEW l \in j + 1 .. Len(m) PROVE m[l] # Tag(tag)
    <3> SUFFICES ASSUME m[l] = Tag(tag) PROVE FALSE
      OBVIOUS
    <3>1. PICK i : i = l - 6
      OBVIOUS
    <3>2. l \in 1 .. Len(m)
      BY <1>2, <1>6
    <3>3. i \in 1 .. Len(body) /\ body[i] = Tag(tag)
      BY <3>1, <3>2, MentionedInBody
    <3>4. i <= x
      BY <1>6, <2>2, <3>3
    <3> QED
      BY <2>3, <2>5, <3>1, <3>2, <3>3, <3>4
  <2>8. LastAt(m, 1, tag, j) /\ Mentioned(m, 1, tag)
    BY <2>6, <2>7 DEF LastAt, Mentioned
  <2>9. tag \in DOMAIN fields /\ fields[tag] = <<body[x + 1]>>
    BY <1>5, <2>6, <2>8 DEF Reads
  <2>10. Said(body, tag) = body[x + 1]
    BY <1>7, <1>9, <2>1
  <2>11. body[x + 1] # Absent
    BY <2>4, ValueIs
  <2> QED
    BY <1>4, <2>4, <2>9, <2>10, <2>11 DEF Tells
<1> QED
  BY <1>8, <1>9

-----------------------------------------------------------------------------
(* Orders                                                                  *)

\* A number std::stoul can return.
NumberFits(v) == v[1] = "num" /\ v[2] \in 1 - 2^Width .. 2^Width - 1

\* What a body must say to be an order.
SaysOrder(body) ==
    /\ Said(body, 35) = Txt("D")
    /\ \A tag \in Required : Said(body, tag) # Absent
    /\ \A tag \in {1, 38} : NumberFits(Said(body, tag))
    /\ Said(body, 44)[1] = "num" \/ Said(body, 44) = Txt("nan")

\* The reference expects an order of such a body.
LEMMA ExpectsOrder ==
    ASSUME NEW body
    PROVE  Expected(body) = NoReason <=> SaysOrder(body)
<1>1. "unsupported_msgtype" # NoReason /\ "malformed_message" # NoReason
  BY DEF NoReason
<1>2. CASE Said(body, 35) # Txt("D")
  BY <1>1, <1>2, Zenon DEF Expected, SaysOrder
<1>3. CASE Said(body, 35) = Txt("D")
  BY <1>1, <1>3, Zenon DEF Expected, SaysOrder, NumberFits, NoReason
<1> QED
  BY <1>2, <1>3

\* parseOrder() rejects nothing else.
LEMMA AcceptsOrder ==
    ASSUME NEW raw, NEW fields, fields = SplitFields(raw), VerifyChecksum(raw)
    PROVE  RejectReason(raw) = NoReason <=>
               /\ IsNewOrder(fields) /\ Required \subseteq DOMAIN fields
               /\ Converts(fields[1]) /\ Converts(fields[38]) /\ IsDouble(fields[44])
<1>1. "unsupported_msgtype" # NoReason /\ "malformed_message" # NoReason
  BY DEF NoReason
<1>2. CASE ~IsNewOrder(fields)
  BY <1>1, <1>2, Zenon DEF RejectReason
<1>3. CASE IsNewOrder(fields)
  BY <1>1, <1>3, Zenon DEF RejectReason, NoReason
<1> QED
  BY <1>2, <1>3

\* What the conversions make of a value of one token.
LEMMA OneValue ==
    ASSUME NEW v
    PROVE  /\ Converts(<<v>>) <=> NumberFits(v)
           /\ IsDouble(<<v>>) <=> v[1] = "num" \/ v = Txt("nan")
           /\ \A w : Unsigned(<<v>>, w) = v[2] % 2^w
           /\ Stod(<<v>>) = IF v[1] = "num" THEN v[2] ELSE NaN
<1>1. <<v>> # << >> /\ <<v>>[1] = v
  OBVIOUS
<1> QED
  BY <1>1, Zenon DEF Converts, NumberFits, IsDouble, Unsigned, Stod

\* The fields parseOrder() looks at.
Looked == {35, 55, 54, 38, 44, 1}

\* parseOrder() accepts a message exactly if its fields say an order.
LEMMA AcceptsSaid ==
    ASSUME NEW raw, VerifyChecksum(raw), NEW fields, fields = SplitFields(raw), NEW body,
           \A tag \in Looked : Tells(fields, body, tag)
    PROVE  RejectReason(raw) = NoReason <=> Expected(body) = NoReason
<1>1. \A tag \in Required : tag \in Looked
  BY DEF Required, Looked
<1>2. 35 \in Looked /\ 1 \in Required /\ 38 \in Required /\ 44 \in Required
  BY DEF Required, Looked
<1>3. IsNewOrder(fields) <=> Said(body, 35) = Txt("D")
  <2>1. Txt("D") # Absent
    BY DEF Txt, Absent
  <2>2. Tells(fields, body, 35)
    BY <1>2
  <2>3. \A v : <<v>> = <<Txt("D")>> <=> v = Txt("D")
    OBVIOUS
  <2> QED
    BY <2>1, <2>2, <2>3, Zenon DEF IsNewOrder, Tells
<1>4. Required \subseteq DOMAIN fields <=> \A tag \in Required : Said(body, tag) # Absent
  <2>1. \A tag \in Required : tag \in DOMAIN fields <=> Said(body, tag) # Absent
    BY <1>1, Zenon DEF Tells
  <2> QED
    BY <2>1
<1>5. ASSUME NEW tag \in Required, tag \in DOMAIN fields PROVE fields[tag] = <<Said(body, tag)>>
  BY <1>1, <1>5, Zenon DEF Tells
<1>6. ASSUME Required \subseteq DOMAIN fields
      PROVE  /\ Converts(fields[1]) <=> NumberFits(Said(body, 1))
             /\ Converts(fields[38]) <=> NumberFits(Said(body, 38))
             /\ IsDouble(fields[44]) <=> Said(body, 44)[1] = "num" \/ Said(body, 44) = Txt("nan")
  <2>1. /\ fields[1] = <<Said(body, 1)>> /\ fields[38] = <<Said(body, 38)>>
        /\ fields[44] = <<Said(body, 44)>>
    BY <1>2, <1>5, <1>6
  <2> QED
    BY <2>1, OneValue, Zenon
<1>7. SaysOrder(body) <=>
          /\ Said(body, 35) = Txt("D") /\ \A tag \in Required : Said(body, tag) # Absent
          /\ NumberFits(Said(body, 1)) /\ NumberFits(Said(body, 38))
          /\ Said(body, 44)[1] = "num" \/ Said(body, 44) = Txt("nan")
  BY Zenon DEF SaysOrder
<1> QED
  BY <1>3, <1>4, <1>6, <1>7, AcceptsOrder, ExpectsOrder, Zenon

\* The order has what the client wrote.
AsSaid(order, body) ==
    /\ Said(body, 1)[2] >= 0 => Num(order.accountId) = Said(body, 1)
    /\ order.side = "BUY" <=> Said(body, 54) = Num(1)
    /\ Said(body, 38)[2] \in 0 .. 2^QtyWidth - 1 => Num(order.qty) = Said(body, 38)
    /\ order.price # NaN => Num(order.price) = Said(body, 44)

\* A number in range is its own remainder.
LEMMA SmallRemainder ==
    ASSUME NEW n \in Int, NEW m \in Nat, n >= 0, n <= m - 1
    PROVE  n % m = n
  OBVIOUS

\* So does the order parseOrder() makes.
LEMMA OrderAsSaid ==
    ASSUME NEW raw, NEW fields, fields = SplitFields(raw), NEW body,
           \A tag \in Looked : Tells(fields, body, tag), SaysOrder(body), NEW id
    PROVE  AsSaid(OrderOf(raw, id), body) /\ OrderOf(raw, id) # NoOrder
<1>1. PICK account, side, qty, price :
         /\ account = Said(body, 1) /\ side = Said(body, 54)
         /\ qty = Said(body, 38) /\ price = Said(body, 44)
  OBVIOUS
<1>2. ASSUME NEW tag \in Required PROVE IsValue(Said(body, tag)) /\ fields[tag] = <<Said(body, tag)>>
  <2>1. tag \in Looked /\ Said(body, tag) # Absent
    BY DEF Required, Looked, SaysOrder
  <2> QED
    BY <2>1, Zenon DEF Tells
<1>3. /\ IsValue(account) /\ fields[1] = <<account>> /\ IsValue(side) /\ fields[54] = <<side>>
      /\ IsValue(qty) /\ fields[38] = <<qty>> /\ IsValue(price) /\ fields[44] = <<price>>
  <2>1. 1 \in Required /\ 54 \in Required /\ 38 \in Required /\ 44 \in Required
    BY DEF Required
  <2> QED
    BY <1>1, <1>2, <2>1, Zenon
<1>4. NumberFits(account) /\ NumberFits(qty)
  BY <1>1, Zenon DEF SaysOrder
<1>5. PICK order : order = OrderOf(raw, id)
  OBVIOUS
<1>6. /\ order.accountId = Unsigned(<<account>>, Width)
      /\ order.side = (IF <<side>> = <<Num(1)>> THEN "BUY" ELSE "SELL")
      /\ order.qty = Unsigned(<<qty>>, QtyWidth)
      /\ order.price = Stod(<<price>>)
      /\ order # NoOrder
  <2>1. order = [orderId   |-> id,
                 accountId |-> Unsigned(fields[1], Width),
                 symbol    |-> fields[55],
                 side      |-> IF fields[54] = <<Num(1)>> THEN "BUY" ELSE "SELL",
                 qty       |-> Unsigned(fields[38], QtyWidth),
                 price     |-> Stod(fields[44])]
    BY <1>5, Zenon DEF OrderOf
  <2>2. order # NoOrder
    <3>1. "side" \in DOMAIN order
      BY <2>1
    <3>2. DOMAIN NoOrder = {}
      BY DEF NoOrder
    <3> QED
      BY <3>1, <3>2
  <2>3. /\ order.accountId = Unsigned(fields[1], Width)
        /\ order.side = (IF fields[54] = <<Num(1)>> THEN "BUY" ELSE "SELL")
        /\ order.qty = Unsigned(fields[38], QtyWidth)
        /\ order.price = Stod(fields[44])
    BY <2>1
  <2> QED
    BY <1>3, <2>2, <2>3, Zenon
<1>7. /\ account = Num(account[2]) /\ account[2] \in Int
      /\ qty = Num(qty[2]) /\ qty[2] \in Int
  <2>1. account[1] = "num" /\ qty[1] = "num"
    BY <1>4, Zenon DEF NumberFits
  <2> QED
    BY <1>3, <2>1, ValueIs
<1>8. ASSUME account[2] >= 0 PROVE Num(order.accountId) = account
  <2>1. 2^Width \in Nat /\ account[2] <= 2^Width - 1
    BY <1>4, <1>7, WidthAssumption DEF NumberFits
  <2>2. account[2] % 2^Width = account[2]
    BY <1>7, <1>8, <2>1, SmallRemainder
  <2>3. order.accountId = account[2]
    BY <1>6, <2>2, OneValue, Zenon
  <2> QED
    BY <1>7, <2>3, Zenon
<1>9. order.side = "BUY" <=> side = Num(1)
  <2>1. "BUY" # "SELL" /\ (<<side>> = <<Num(1)>> <=> side = Num(1))
    OBVIOUS
  <2> QED
    BY <1>6, <2>1
<1>10. ASSUME qty[2] \in 0 .. 2^QtyWidth - 1 PROVE Num(order.qty) = qty
  <2>1. 2^QtyWidth \in Nat /\ qty[2] >= 0 /\ qty[2] <= 2^QtyWidth - 1
    BY <1>7, <1>10, WidthAssumption
  <2>2. qty[2] % 2^QtyWidth = qty[2]
    BY <1>7, <2>1, SmallRemainder
  <2>3. order.qty = qty[2]
    BY <1>6, <2>2, OneValue, Zenon
  <2> QED
    BY <1>7, <2>3, Zenon
<1>11. ASSUME order.price # NaN PROVE Num(order.price) = price
  <2>1. order.price = IF price[1] = "num" THEN price[2] ELSE NaN
    BY <1>6, OneValue, Zenon
  <2>2. price[1] = "num" /\ order.price = price[2]
    BY <1>11, <2>1
  <2>3. price = Num(price[2])
    BY <1>3, <2>2, ValueIs
  <2> QED
    BY <2>2, <2>3, Zenon
<1>12. AsSaid(order, body)
  BY <1>1, <1>8, <1>9, <1>10, <1>11, Zenon DEF AsSaid
<1> QED
  BY <1>5, <1>6, <1>12, Zenon

\* Every answer is parseOrder()'s of the message that was dispatched.
Kept ==
    \A k \in DOMAIN answers :
        /\ k \in 1 .. Len(jobs)
        /\ RejectReason(jobs[k]) # NoReason => answers[k].order = NoOrder
        /\ RejectReason(jobs[k]) = NoReason => \E id : answers[k].order = OrderOf(jobs[k], id)

\* A job answered.
LEMMA KeptRespond ==
    ASSUME Typed, Kept, NEW k \in DOMAIN jobs, NEW verdict \in Verdicts, Respond(k, verdict)
    PROVE  Kept'
<1>1. PICK reason, answer :
         /\ reason = RejectReason(jobs[k])
         /\ answer = IF reason # NoReason THEN [order |-> NoOrder, reply |-> Nak(reason)]
                     ELSE [order |-> OrderOf(jobs[k], nextOrderId), reply |-> Report(nextOrderId, verdict)]
  OBVIOUS
<1>2. answers' = [l \in DOMAIN answers \cup {k} |-> IF l = k THEN answer ELSE answers[l]]
  BY <1>1, Zenon DEF Respond, NoReason
<1>3. jobs' = jobs /\ k \in 1 .. Len(jobs) /\ k \notin DOMAIN answers
  <2>1. jobs' = jobs /\ k \notin DOMAIN answers
    BY Zenon DEF Respond, Running, Unanswered
  <2> QED
    BY <2>1 DEF Typed
<1>4. /\ DOMAIN answers' = DOMAIN answers \cup {k} /\ answers'[k] = answer
      /\ \A l \in DOMAIN answers : answers'[l] = answers[l]
  BY <1>2, <1>3
<1>5. /\ reason # NoReason => answer.order = NoOrder
      /\ reason = NoReason => answer.order = OrderOf(jobs[k], nextOrderId)
  BY <1>1
<1>6. /\ RejectReason(jobs[k]) # NoReason => answers'[k].order = NoOrder
      /\ RejectReason(jobs[k]) = NoReason => \E id : answers'[k].order = OrderOf(jobs[k], id)
  BY <1>1, <1>4, <1>5, Zenon
<1> QED
  BY <1>3, <1>4, <1>6, Zenon DEF Kept

\* The jobs handed out stay as they are.
LEMMA KeptOthers ==
    ASSUME TokensWeigh, Framed, Framed', Kept, answers' = answers,
           \/ jobs' = jobs
           \/ \E m : jobs' = Append(jobs, m)
    PROVE  Kept'
<1>1. jobs \in Seq(Seq(Tokens))
  BY DEF Framed, Typed
<1>2. \A k \in 1 .. Len(jobs) : k \in 1 .. Len(jobs') /\ jobs'[k] = jobs[k]
  <2>1. CASE jobs' = jobs
    BY <2>1
  <2>2. ASSUME NEW m, jobs' = Append(jobs, m)
        PROVE  \A k \in 1 .. Len(jobs) : k \in 1 .. Len(jobs') /\ jobs'[k] = jobs[k]
    BY <1>1, <2>2
  <2> QED
    BY <2>1, <2>2
<1> QED
  BY <1>2, Zenon DEF Kept

\* Both hold throughout.
LEMMA FramedAndKept ==
    ASSUME TokensWeigh
    PROVE  FixSpec => [](Framed /\ Kept)
<1>1. FixInit => Framed /\ Kept
  <2> SUFFICES ASSUME FixInit PROVE Framed /\ Kept
    OBVIOUS
  <2>1. DOMAIN answers = {}
    BY DEF FixInit
  <2> QED
    BY <2>1, FramedAtFirst, Zenon DEF Kept
<1>2. Framed /\ Kept /\ [FixNext]_fixVars => Framed' /\ Kept'
  <2> SUFFICES ASSUME Framed, Kept, [FixNext]_fixVars PROVE Framed' /\ Kept'
    OBVIOUS
  <2>1. ASSUME NEW n \in 1 .. Len(wire), Readable(n) PROVE Framed' /\ Kept'
    <3>1. Framed'
      BY <2>1, FramedReadable
    <3>2. answers' = answers /\ jobs' = jobs
      BY <2>1 DEF Readable
    <3> QED
      BY <3>1, <3>2, KeptOthers
  <2>2. CASE Extract
    <3>1. Framed'
      BY <2>2, FramedExtract
    <3>2. answers' = answers /\ \E m : jobs' = Append(jobs, m)
      BY <2>2, Zenon DEF Extract
    <3> QED
      BY <3>1, <3>2, KeptOthers
  <2>3. CASE ExtractNone \/ UNCHANGED fixVars
    <3>1. Framed'
      BY <2>3, FramedOthers
    <3>2. answers' = answers /\ jobs' = jobs
      BY <2>3, Zenon DEF ExtractNone, fixVars
    <3> QED
      BY <3>1, <3>2, KeptOthers
  <2>4. ASSUME NEW k \in DOMAIN jobs, NEW verdict \in Verdicts, Respond(k, verdict)
        PROVE  Framed' /\ Kept'
    <3>1. Framed'
      BY <2>4, FramedOthers, Zenon DEF Verdicts, NoReason
    <3>2. Typed
      BY DEF Framed
    <3> QED
      BY <2>4, <3>1, <3>2, KeptRespond
  <2> QED
    BY <2>1, <2>2, <2>3, <2>4, Zenon DEF FixNext, Verdicts, NoReason
<1> QED
  BY <1>1, <1>2, PTL DEF FixSpec

\* The message a client sent intact is answered for what it says.
LEMMA KeptAsSent ==
    ASSUME TokensWeigh, ClientsSendFields, Framed, Kept
    PROVE  AnsweredAsSent
<1> SUFFICES ASSUME NEW k \in DOMAIN answers, k <= Intact
             PROVE  IF Expected(script[k]) # NoReason THEN answers[k].order = NoOrder
                    ELSE answers[k].order # NoOrder /\ AsSaid(answers[k].order, script[k])
  BY Zenon DEF AnsweredAsSent, AsSaid, NoReason
<1>1. Sound /\ Typed /\ Whole
  BY DEF Framed
<1>2. PICK body, raw : body = script[k] /\ raw = jobs[k]
  OBVIOUS
<1>3. k \in 1 .. Len(jobs) /\ raw = sent[k]
  <2>1. k \in 1 .. Len(jobs) /\ Len(jobs) \in Nat
    BY <1>1 DEF Kept, Typed
  <2>2. /\ Intact \in 0 .. Len(sent) /\ Len(sent) \in Nat /\ Aligned \in Intact .. Len(sent)
        /\ \A l \in 1 .. Intact : Delivered[l] = sent[l]
    BY <1>1, ClientFacts, AlignedFacts
  <2>3. k \in 1 .. Intact /\ k <= Aligned
    BY <2>1, <2>2
  <2> QED
    BY <1>1, <1>2, <2>1, <2>2, <2>3 DEF Whole
<1>4. k \in DOMAIN script
  <2>1. Len(jobs) \in Nat /\ Len(sent) \in Nat /\ Intact \in 0 .. Len(sent) /\ sent \in Seq(Seq(Tokens))
    BY <1>1, ClientFacts DEF Typed
  <2>2. k \in DOMAIN sent
    BY <1>3, <2>1
  <2> QED
    BY <1>1, <2>2 DEF Sound
<1>5. raw = BuildMessage(body)
  BY <1>1, <1>2, <1>3, <1>4 DEF Sound
<1>6. body \in Seq(Tokens) /\ IsFieldList(body)
  <2>1. script \in Scripts
    BY <1>1 DEF Sound
  <2> QED
    BY <1>2, <1>4, <2>1, ScriptTokens DEF ClientsSendFields
<1>7. PICK fields : fields = SplitFields(raw)
  OBVIOUS
<1>8. ASSUME NEW tag \in Looked PROVE Tells(fields, body, tag)
  <2>1. tag \in Nat /\ tag \notin {8, 9, 10}
    BY DEF Looked
  <2> QED
    BY <1>5, <1>6, <1>7, <2>1, SplitTells
<1>9. VerifyChecksum(raw)
  BY <1>5, <1>6, Verifies
<1>10. RejectReason(raw) = NoReason <=> Expected(body) = NoReason
  BY <1>7, <1>8, <1>9, AcceptsSaid
<1>11. CASE Expected(body) # NoReason
  BY <1>2, <1>10, <1>11, Zenon DEF Kept
<1>12. CASE Expected(body) = NoReason
  <2>1. PICK id : answers[k].order = OrderOf(raw, id)
    BY <1>2, <1>10, <1>12, Zenon DEF Kept
  <2>2. SaysOrder(body)
    BY <1>12, ExpectsOrder
  <2>3. AsSaid(OrderOf(raw, id), body) /\ OrderOf(raw, id) # NoOrder
    BY <1>7, <1>8, <2>2, OrderAsSaid
  <2> QED
    BY <1>2, <1>12, <2>1, <2>3, Zenon
<1> QED
  BY <1>11, <1>12

\* parseOrder() answers every message that arrives undamaged for what its
\* fields say, the last mention of a tag counting, however the stream was cut
\* and whichever worker came first: a rejection exactly if a field is missing
\* or does not convert, else an order with the account, side, quantity and
\* price the client wrote.  Bodies are lists of fields of any length, with any
\* tags, in any order.
THEOREM FixAnsweredAsSent ==
    ASSUME TokensWeigh, ClientsSendFields
    PROVE  FixSpec => []AnsweredAsSent
<1>1. FixSpec => [](Framed /\ Kept)
  BY FramedAndKept
<1>2. Framed /\ Kept => AnsweredAsSent
  BY KeptAsSent
<1> QED
  BY <1>1, <1>2, PTL

-----------------------------------------------------------------------------
(* Damage                                                                  *)

\* Of a message with body, buildMessage() leaves n tokens, the checksum c of
\* the head, and no other checksum field in front of it.
IsSummed(m, n, c, head) ==
    /\ n \in Nat /\ c \in 0 .. 255 /\ m \in Seq(Tokens) /\ Len(m) = n + 9
    /\ head \in Seq(Tokens) /\ c = Checksum(head) /\ Len(head) = n + 6
    /\ \A j \in 1 .. n + 6 : m[j] = head[j] /\ m[j] # Tag(10)
    /\ m[n + 7] = Tag(10) /\ m[n + 8] = Num(c) /\ m[n + 9] = SOH

LEMMA BuiltIsSummed ==
    ASSUME TokensWeigh, NEW body \in Seq(Tokens), NEW m, m = BuildMessage(body),
           \A j \in 1 .. Len(body) : body[j] # Tag(10)
    PROVE  \E n, c, head : IsSummed(m, n, c, head)
<1> DEFINE n == Len(body)
<1>1. n \in Nat
  OBVIOUS
<1>2. m \in Seq(Tokens) /\ Len(m) = n + 9 /\ Starts(m, n) /\ Carries(m, body)
  BY Built
<1>3. PICK c \in 0 .. 255, head \in Seq(Tokens) :
         /\ c = Checksum(head) /\ Len(head) = n + 6
         /\ \A i \in 1 .. Len(head) : m[i] = head[i]
         /\ m[n + 7] = Tag(10) /\ m[n + 8] = Num(c) /\ m[n + 9] = SOH
  BY Built, ZenonT(30)
<1> HIDE DEF n
<1>4. ASSUME NEW j \in 1 .. 6 PROVE m[j] # Tag(10)
  <2>1. /\ Tag(8) # Tag(10) /\ Tag(9) # Tag(10) /\ Txt("FIX.4.2") # Tag(10)
        /\ Num(n) # Tag(10) /\ SOH # Tag(10)
    BY DEF Tag, Txt, Num, SOH
  <2>2. m[j] = Header(n)[j]
    BY <1>1, <1>2 DEF Starts
  <2>3. j = 1 \/ j = 2 \/ j = 3 \/ j = 4 \/ j = 5 \/ j = 6
    OBVIOUS
  <2> QED
    BY <2>1, <2>2, <2>3 DEF Header
<1>5. ASSUME NEW j \in 1 .. n + 6, j > 6 PROVE m[j] # Tag(10)
  <2>1. PICK l \in 1 .. Len(body) : j = l + 6
    BY <1>1, <1>5 DEF n
  <2> QED
    BY <1>2, <2>1 DEF Carries
<1>6. \A j \in 1 .. n + 6 : m[j] = head[j] /\ m[j] # Tag(10)
  <2>1. \A j \in 1 .. n + 6 : j \in 1 .. 6 \/ j > 6
    BY <1>1
  <2> QED
    BY <1>1, <1>3, <1>4, <1>5, <2>1
<1>7. IsSummed(m, n, c, head)
  BY <1>1, <1>2, <1>3, <1>6, Zenon DEF IsSummed
<1> QED
  BY <1>7

\* Damage in front of the checksum field: the sum is another one.
LEMMA DamagedHead ==
    ASSUME TokensWeigh, NEW m, NEW n, NEW c, NEW head, IsSummed(m, n, c, head),
           NEW i \in 1 .. n + 6, NEW t \in Tokens, NEW x, DiffersAt(x, m, i, t),
           Weight(t) % 256 # Weight(m[i]) % 256, NEW d, Overlong(d, x)
    PROVE  ~VerifyChecksum(d)
<1>1. /\ n \in Nat /\ c \in 0 .. 255 /\ m \in Seq(Tokens) /\ Len(m) = n + 9
      /\ head \in Seq(Tokens) /\ c = Checksum(head) /\ Len(head) = n + 6
      /\ \A j \in 1 .. n + 6 : m[j] = head[j]
  BY DEF IsSummed
<1>2. /\ d \in Seq(Tokens) /\ Len(d) >= n + 9 /\ Len(d) \in Nat /\ d[i] = t
      /\ \A j \in 1 .. n + 9 : j # i => d[j] = m[j]
      /\ \A j \in 1 .. Len(d) : j > n + 9 => d[j] # Tag(10)
  <2>1. Len(x) = n + 9 /\ x[i] = t /\ \A j \in 1 .. n + 9 : j # i => x[j] = m[j]
    BY <1>1 DEF DiffersAt
  <2>2. d \in Seq(Tokens) /\ Len(d) >= n + 9
    BY <2>1 DEF Overlong
  <2>3. /\ \A j \in 1 .. n + 9 : d[j] = x[j]
        /\ \A j \in 1 .. Len(d) : j > n + 9 => d[j] # Tag(10)
    BY <1>1, <2>1, <2>2 DEF Overlong
  <2> QED
    BY <1>1, <2>1, <2>2, <2>3
<1>3. PICK at \in 1 .. Len(d), mid \in 1 .. Len(d), last \in 1 .. Len(d) :
         at = n + 7 /\ mid = n + 8 /\ last = n + 9
  <2>1. n \in Nat /\ Len(d) \in Nat /\ Len(d) >= n + 9
    BY <1>1, <1>2
  <2>2. n + 7 \in 1 .. Len(d) /\ n + 8 \in 1 .. Len(d) /\ n + 9 \in 1 .. Len(d)
    BY ONLY <2>1
  <2> QED
    BY <2>2, Zenon
<1>4. d[at] = Tag(10) /\ d[mid] = Num(c) /\ d[last] = SOH
  <2>0. n \in Nat /\ i \in 1 .. n + 6
    BY <1>1
  <2>1. /\ at \in 1 .. n + 9 /\ mid \in 1 .. n + 9 /\ last \in 1 .. n + 9
        /\ at # i /\ mid # i /\ last # i
    BY ONLY <2>0, <1>3
  <2>2. d[at] = m[at] /\ d[mid] = m[mid] /\ d[last] = m[last]
    BY <1>2, <2>1, Zenon
  <2>3. m[at] = Tag(10) /\ m[mid] = Num(c) /\ m[last] = SOH
    BY <1>3, Zenon DEF IsSummed
  <2> QED
    BY <2>2, <2>3
<1>5. Num(c) # Tag(10) /\ SOH # Tag(10) /\ Num(c) # SOH
  BY TokensDiffer
<1>6. \A j \in 1 .. Len(d) : j > at => j = mid \/ j = last \/ j > n + 9
  BY <1>1, <1>2, <1>3
<1>7. LastSum(d) = at
  <2>1. \A j \in 1 .. Len(d) : j > at => d[j] # Tag(10)
    BY <1>2, <1>4, <1>5, <1>6
  <2> QED
    BY <1>2, <1>4, <2>1, FindsLast DEF LastSum
<1>8. FindSoh(d, at + 1) = last
  <2>1. PICK from \in Nat \ {0} : from = at + 1 /\ last \in from .. Len(d)
    BY <1>1, <1>2, <1>3
  <2>2. \A j \in from .. last - 1 : j = mid
    BY <1>1, <1>3, <2>1
  <2>3. \A j \in from .. last - 1 : d[j] # SOH
    BY <1>4, <1>5, <2>2
  <2>4. FindSoh(d, from) = last
    BY <1>2, <1>4, <2>1, <2>3, FindsSoh
  <2> QED
    BY <2>1, <2>4
<1>9. SubSeq(d, at + 1, last - 1) = <<Num(c)>>
  <2>1. at + 1 = mid /\ last - 1 = mid
    BY <1>1, <1>3
  <2>2. SubSeq(d, mid, mid) = <<d[mid]>>
    BY <1>2, OneToken
  <2> QED
    BY <1>4, <2>1, <2>2
<1>10. PICK k, p : k \in Nat /\ k = n + 6 /\ at - 1 = k /\ p = SubSeq(d, 1, k)
  <2>1. PICK k \in Nat : k = n + 6 /\ at - 1 = k
    BY <1>1, <1>3
  <2> QED
    BY <2>1, Zenon
<1>11. p \in Seq(Tokens) /\ Len(p) = k /\ \A j \in 1 .. k : p[j] = d[j]
  <2>1. k <= Len(d)
    BY <1>1, <1>2, <1>10
  <2> QED
    BY <1>2, <1>10, <2>1, FirstTokens, SMTT(30)
<1>12. DiffersAt(p, head, i, t)
  <2>1. \A j \in 1 .. k : j \in 1 .. n + 9 /\ j \in 1 .. n + 6
    BY <1>1, <1>10
  <2>2. p[i] = t /\ \A j \in 1 .. k : j # i => p[j] = head[j]
    BY <1>1, <1>2, <1>10, <1>11, <2>1
  <2> QED
    BY <1>1, <1>10, <1>11, <2>2 DEF DiffersAt
<1>13. Checksum(p) # c
  <2>1. i \in 1 .. Len(head) /\ Weight(t) % 256 # Weight(head[i]) % 256
    BY <1>1
  <2> QED
    BY <1>1, <1>12, <2>1, ChecksumSees
<1>14. Checksum(SubSeq(d, 1, at - 1)) # <<Num(c)>>[1][2]
  <2>1. <<Num(c)>>[1][2] = c
    BY DEF Num
  <2> QED
    BY <1>10, <1>13, <2>1
<1>15. VerifyChecksum(d) => Checksum(SubSeq(d, 1, at - 1)) = <<Num(c)>>[1][2]
  BY <1>7, <1>8, <1>9, VerifyUnfolds, Zenon
<1> QED
  BY <1>14, <1>15, Zenon

\* Damage in the checksum field: its tag is gone, ...
LEMMA DamagedSumTag ==
    ASSUME NEW m, NEW n, NEW c, NEW head, IsSummed(m, n, c, head),
           NEW t \in Tokens, NEW d, DiffersAt(d, m, n + 7, t), t # Tag(10)
    PROVE  ~VerifyChecksum(d)
<1>1. /\ n \in Nat /\ Len(m) = n + 9 /\ \A j \in 1 .. n + 6 : m[j] # Tag(10)
      /\ m[n + 8] = Num(c) /\ m[n + 9] = SOH
  BY DEF IsSummed
<1>2. /\ d \in Seq(Tokens) /\ Len(d) = n + 9 /\ d[n + 7] = t
      /\ \A j \in 1 .. n + 9 : j # n + 7 => d[j] = m[j]
  BY <1>1 DEF DiffersAt
<1>3. Num(c) # Tag(10) /\ SOH # Tag(10)
  BY TokensDiffer
<1>4. ASSUME NEW j \in 1 .. Len(d) PROVE d[j] # Tag(10)
  <2>1. j \in 1 .. n + 6 \/ j = n + 7 \/ j = n + 8 \/ j = n + 9
    BY <1>1, <1>2
  <2>2. CASE j = n + 7
    BY <1>2, <2>2
  <2>3. CASE j # n + 7
    <3>1. d[j] = m[j]
      BY <1>2, <2>3
    <3> QED
      BY <1>1, <1>3, <2>1, <2>3, <3>1
  <2> QED
    BY <2>2, <2>3
<1>5. LastSum(d) = 0
  BY <1>4, FindsNoLast
<1> QED
  BY <1>5, VerifyUnfolds, Zenon

\* ... its value is no number or another one, ...
LEMMA DamagedSum ==
    ASSUME NEW m, NEW n, NEW c, NEW head, IsSummed(m, n, c, head),
           NEW t \in Tokens, t = <<t[1], t[2]>>, NEW d, DiffersAt(d, m, n + 8, t), t # Num(c)
    PROVE  ~VerifyChecksum(d)
<1>1. /\ n \in Nat /\ m \in Seq(Tokens) /\ Len(m) = n + 9 /\ m[n + 7] = Tag(10) /\ m[n + 9] = SOH
      /\ head \in Seq(Tokens) /\ c = Checksum(head) /\ Len(head) = n + 6
      /\ \A j \in 1 .. n + 6 : m[j] = head[j]
  BY DEF IsSummed
<1>2. /\ d \in Seq(Tokens) /\ Len(d) = n + 9 /\ d[n + 8] = t
      /\ \A j \in 1 .. n + 9 : j # n + 8 => d[j] = m[j]
  BY <1>1 DEF DiffersAt
<1>0. PICK at \in 1 .. Len(d), mid \in 1 .. Len(d), last \in 1 .. Len(d) :
         at = n + 7 /\ mid = n + 8 /\ last = n + 9
  <2>1. n \in Nat /\ Len(d) = n + 9
    BY <1>1, <1>2
  <2>2. n + 7 \in 1 .. Len(d) /\ n + 8 \in 1 .. Len(d) /\ n + 9 \in 1 .. Len(d)
    BY ONLY <2>1
  <2> QED
    BY <2>2, Zenon
<1>3. /\ at = n + 7 /\ mid = n + 8 /\ last = n + 9
      /\ at + 1 = mid /\ mid + 1 = last /\ last - 1 = mid /\ mid - 1 = at
  <2>1. n \in Nat
    BY <1>1
  <2> QED
    BY ONLY <1>0, <2>1
<1>4. d[at] = Tag(10) /\ d[mid] = t /\ d[last] = SOH
  <2>0. n \in Nat
    BY <1>1
  <2>1. n + 7 \in 1 .. n + 9 /\ n + 9 \in 1 .. n + 9 /\ n + 7 # n + 8 /\ n + 9 # n + 8
    BY ONLY <2>0
  <2>2. d[n + 7] = Tag(10) /\ d[n + 8] = t /\ d[n + 9] = SOH
    BY <1>1, <1>2, <2>1, Zenon
  <2>3. at = n + 7 /\ mid = n + 8 /\ last = n + 9
    BY <1>3
  <2> QED
    BY <2>2, <2>3, Zenon
<1>5. /\ SOH # Tag(10)
      /\ \A j \in 1 .. Len(d) : j > at => j = mid \/ j = last
      /\ \A j \in 1 .. Len(d) : j > mid => j = last
  <2>1. SOH # Tag(10)
    BY DEF SOH, Tag
  <2>2. Len(d) = last /\ at = last - 2 /\ mid = last - 1 /\ last \in Nat
    BY <1>1, <1>2, <1>3
  <2>3. \A j \in Nat : j <= last => (j > at => j = mid \/ j = last) /\ (j > mid => j = last)
    BY <2>2
  <2> QED
    BY <2>1, <2>2, <2>3
<1>6. ~Converts(<< >>)
  BY DEF Converts
<1>7. CASE t = Tag(10)
  <2>1. LastSum(d) = mid
    <3>1. \A j \in 1 .. Len(d) : j > mid => d[j] # Tag(10)
      BY <1>4, <1>5
    <3> QED
      BY <1>2, <1>4, <1>7, <3>1, FindsLast DEF LastSum
  <2>2. FindSoh(d, mid + 1) = last
    <3>1. last \in Nat \ {0} /\ last \in last .. Len(d) /\ \A j \in last .. last - 1 : d[j] # SOH
      BY <1>2
    <3>2. FindSoh(d, last) = last
      BY <1>2, <1>4, <3>1, FindsSoh
    <3> QED
      BY <1>3, <3>2
  <2>3. SubSeq(d, mid + 1, last - 1) = << >>
    <3>1. SubSeq(d, mid + 1, mid) = << >>
      BY <1>2, NoToken
    <3> QED
      BY <1>3, <3>1
  <2> QED
    BY <1>6, <2>1, <2>2, <2>3, VerifyUnfolds, Zenon
<1>8. CASE t # Tag(10)
  <2>1. LastSum(d) = at
    <3>1. \A j \in 1 .. Len(d) : j > at => d[j] # Tag(10)
      BY <1>4, <1>5, <1>8
    <3> QED
      BY <1>2, <1>4, <3>1, FindsLast DEF LastSum
  <2>2. CASE t = SOH
    <3>1. FindSoh(d, at + 1) = mid
      <4>1. mid \in Nat \ {0} /\ mid \in mid .. Len(d) /\ \A j \in mid .. mid - 1 : d[j] # SOH
        BY <1>2
      <4>2. FindSoh(d, mid) = mid
        BY <1>2, <1>4, <2>2, <4>1, FindsSoh
      <4> QED
        BY <1>3, <4>2
    <3>2. SubSeq(d, at + 1, mid - 1) = << >>
      <4>1. SubSeq(d, at + 1, at) = << >>
        BY <1>2, NoToken
      <4> QED
        BY <1>3, <4>1
    <3> QED
      BY <1>6, <2>1, <3>1, <3>2, VerifyUnfolds, Zenon
  <2>3. CASE t # SOH
    <3>1. FindSoh(d, at + 1) = last
      <4>1. mid \in Nat \ {0} /\ last \in mid .. Len(d) /\ \A j \in mid .. last - 1 : j = mid
        BY <1>2, <1>3
      <4>2. \A j \in mid .. last - 1 : d[j] # SOH
        BY <1>4, <2>3, <4>1
      <4>3. FindSoh(d, mid) = last
        BY <1>2, <1>4, <4>1, <4>2, FindsSoh
      <4> QED
        BY <1>3, <4>3
    <3>2. SubSeq(d, at + 1, last - 1) = <<t>>
      <4>1. SubSeq(d, mid, mid) = <<d[mid]>>
        BY <1>2, OneToken
      <4> QED
        BY <1>3, <1>4, <4>1
    <3>3. SubSeq(d, 1, at - 1) = head
      <4>1. PICK k, p : k \in Nat /\ k = at - 1 /\ k = n + 6 /\ k <= Len(d) /\ p = SubSeq(d, 1, k)
        <5>1. PICK k \in Nat : k = at - 1 /\ k = n + 6 /\ k <= Len(d)
          BY <1>1, <1>2, <1>3, SMTT(30)
        <5> QED
          BY <5>1, Zenon
      <4>2. k = n + 6 /\ k <= Len(d)
        BY <4>1
      <4>3. p \in Seq(Tokens) /\ Len(p) = k /\ \A j \in 1 .. k : p[j] = d[j]
        BY <1>2, <4>1, <4>2, FirstTokens
      <4>4. ASSUME NEW j \in 1 .. k PROVE d[j] = head[j]
        <5>1. j \in 1 .. n + 9 /\ j # n + 8 /\ j \in 1 .. n + 6
          BY <1>1, <4>2, SMTT(30)
        <5> QED
          BY <1>1, <1>2, <5>1
      <4>5. Len(p) = Len(head) /\ \A j \in 1 .. Len(p) : p[j] = head[j]
        BY <1>1, <4>2, <4>3, <4>4
      <4>6. p = head
        BY <1>1, <4>3, <4>5, SeqEqual
      <4> QED
        BY <4>1, <4>6
    <3>4. ~(Converts(<<t>>) /\ c = <<t>>[1][2])
      <4>1. <<t>>[1] = t
        OBVIOUS
      <4>2. Converts(<<t>>) => t[1] = "num"
        BY <4>1, Zenon DEF Converts
      <4>3. t[1] = "num" /\ t[2] = c => t = Num(c)
        BY Zenon DEF Num
      <4> QED
        BY <4>1, <4>2, <4>3, Zenon
    <3>5. VerifyChecksum(d) => Converts(<<t>>) /\ Checksum(SubSeq(d, 1, at - 1)) = <<t>>[1][2]
      BY <2>1, <3>1, <3>2, VerifyUnfolds, Zenon
    <3> QED
      BY <1>1, <3>3, <3>4, <3>5, Zenon
  <2> QED
    BY <2>2, <2>3
<1> QED
  BY <1>7, <1>8

\* ... or it does not end.
LEMMA DamagedEnd ==
    ASSUME NEW m, NEW n, NEW c, NEW head, IsSummed(m, n, c, head),
           NEW t \in Tokens, NEW d, DiffersAt(d, m, n + 9, t), t # SOH
    PROVE  ~VerifyChecksum(d)
<1>1. n \in Nat /\ Len(m) = n + 9 /\ m[n + 7] = Tag(10) /\ m[n + 8] = Num(c)
  BY DEF IsSummed
<1>2. /\ d \in Seq(Tokens) /\ Len(d) = n + 9 /\ d[n + 9] = t
      /\ \A j \in 1 .. n + 9 : j # n + 9 => d[j] = m[j]
  BY <1>1 DEF DiffersAt
<1>3. PICK at \in 1 .. Len(d), mid \in 1 .. Len(d), last \in 1 .. Len(d) :
         at = n + 7 /\ mid = n + 8 /\ last = n + 9 /\ last = Len(d)
  BY <1>1, <1>2
<1>4. d[at] = Tag(10) /\ d[mid] = Num(c) /\ d[last] = t
  BY <1>1, <1>2, <1>3
<1>5. Num(c) # Tag(10) /\ Num(c) # SOH
  BY TokensDiffer
<1>6. \A j \in 1 .. Len(d) : j > at => j = mid \/ j = last
  BY <1>1, <1>2, <1>3
<1>7. CASE t = Tag(10)
  <2>1. LastSum(d) = last
    <3>1. \A j \in 1 .. Len(d) : j > last => d[j] # Tag(10)
      BY <1>3
    <3>2. d[last] = Tag(10)
      BY <1>4, <1>7
    <3> QED
      BY <1>2, <3>1, <3>2, FindsLast DEF LastSum
  <2>2. FindSoh(d, last + 1) = 0
    <3>1. \A j \in last + 1 .. Len(d) : d[j] # SOH
      BY <1>2, <1>3
    <3> QED
      BY <3>1, FindsNoSoh
  <2> QED
    BY <2>1, <2>2, VerifyUnfolds, Zenon
<1>8. CASE t # Tag(10)
  <2>1. LastSum(d) = at
    <3>1. \A j \in 1 .. Len(d) : j > at => d[j] # Tag(10)
      BY <1>4, <1>5, <1>6, <1>8
    <3> QED
      BY <1>2, <1>4, <3>1, FindsLast DEF LastSum
  <2>2. FindSoh(d, at + 1) = 0
    <3>1. \A j \in at + 1 .. Len(d) : j = mid \/ j = last
      BY <1>1, <1>2, <1>3
    <3>2. \A j \in at + 1 .. Len(d) : d[j] # SOH
      BY <1>4, <1>5, <3>1
    <3> QED
      BY <3>2, FindsNoSoh
  <2> QED
    BY <2>1, <2>2, VerifyUnfolds, Zenon
<1> QED
  BY <1>7, <1>8

-----------------------------------------------------------------------------
(* No order from damage                                                    *)

\* The damaged message: a body summed, then one token replaced.
LEMMA DamageIs ==
    ASSUME TokensWeigh, BodiesAreInner, NoiseIsTokens, Sound, NEW k, NEW i, NEW t, IsDamage(k, i, t)
    PROVE  /\ t \in Tokens /\ t = <<t[1], t[2]>> /\ Weight(t) % 256 # Weight(sent[k][i]) % 256
           /\ \E n, c, head : IsSummed(sent[k], n, c, head) /\ i \in 1 .. n + 9
           /\ DiffersAt(Delivered[k], sent[k], i, t)
<1>1. /\ k \in 1 .. Len(sent) /\ t \in Tokens /\ t \in Noise(script) /\ i \in 1 .. Len(sent[k])
      /\ Weight(t) % 256 # Weight(sent[k][i]) % 256 /\ Delivered[k] = ReplaceAt(sent[k], i, t)
  BY DEF IsDamage
<1>2. script \in Scripts /\ k \in DOMAIN script /\ script[k] \in Seq(Tokens) /\ sent[k] = BuildMessage(script[k])
  <2>1. script \in Scripts
    BY DEF Sound
  <2>2. k \in DOMAIN script
    BY <1>1, SentMessages, Zenon
  <2>3. script[k] \in Seq(Tokens) /\ sent[k] = BuildMessage(script[k])
    BY <1>1, SentMessages, Zenon
  <2> QED
    BY <2>1, <2>2, <2>3
<1>3. PICK body, m, d : body = script[k] /\ m = sent[k] /\ d = Delivered[k]
  OBVIOUS
<1>4. \A j \in 1 .. Len(body) : body[j] # Tag(10)
  <2>1. body \in Seq(Tokens) /\ Tag(10) \notin Range(body)
    BY <1>2, <1>3 DEF BodiesAreInner
  <2> QED
    BY <2>1 DEF Range
<1>5. PICK n, c, head : IsSummed(m, n, c, head)
  <2>1. body \in Seq(Tokens) /\ m = BuildMessage(body)
    BY <1>2, <1>3
  <2> QED
    BY <1>4, <2>1, BuiltIsSummed, Zenon
<1>6. n \in Nat /\ m \in Seq(Tokens) /\ Len(m) = n + 9
  BY <1>5 DEF IsSummed
<1>7. i \in 1 .. Len(m) /\ i \in 1 .. n + 9
  BY <1>1, <1>3, <1>6
<1>8. DiffersAt(d, m, i, t)
  <2>1. d = ReplaceAt(m, i, t)
    BY <1>1, <1>3
  <2> QED
    BY <1>1, <1>6, <1>7, <2>1, Replaced
<1>9. t = <<t[1], t[2]>>
  BY <1>1, <1>2 DEF NoiseIsTokens
<1> QED
  BY <1>1, <1>3, <1>5, <1>7, <1>8, <1>9, Zenon

\* verifyChecksum() refuses the damaged message.
LEMMA DamageFails ==
    ASSUME TokensWeigh, BodiesAreInner, NoiseIsTokens, Sound, NEW k, NEW i, NEW t, IsDamage(k, i, t)
    PROVE  ~VerifyChecksum(Delivered[k])
<1>1. PICK m, d : m = sent[k] /\ d = Delivered[k]
  OBVIOUS
<1>2. /\ t \in Tokens /\ t = <<t[1], t[2]>> /\ Weight(t) % 256 # Weight(m[i]) % 256 /\ DiffersAt(d, m, i, t)
      /\ \E n, c, head : IsSummed(m, n, c, head) /\ i \in 1 .. n + 9
  BY <1>1, DamageIs
<1>3. PICK n, c, head : IsSummed(m, n, c, head) /\ i \in 1 .. n + 9
  BY <1>2
<1>4. n \in Nat /\ m[n + 7] = Tag(10) /\ m[n + 8] = Num(c) /\ m[n + 9] = SOH
  BY <1>3 DEF IsSummed
<1>5. t # m[i]
  BY <1>2
<1>6. i \in 1 .. n + 6 \/ i = n + 7 \/ i = n + 8 \/ i = n + 9
  BY <1>3, <1>4
<1>7. CASE i \in 1 .. n + 6
  <2>1. Overlong(d, d)
    BY <1>2 DEF DiffersAt, Overlong
  <2>2. ~VerifyChecksum(d)
    BY <1>2, <1>3, <1>7, <2>1, DamagedHead
  <2> QED
    BY <1>1, <2>2
<1>8. CASE i = n + 7
  <2>1. t # Tag(10) /\ DiffersAt(d, m, n + 7, t)
    BY <1>2, <1>4, <1>5, <1>8
  <2>2. ~VerifyChecksum(d)
    BY <1>2, <1>3, <2>1, DamagedSumTag
  <2> QED
    BY <1>1, <2>2
<1>9. CASE i = n + 8
  <2>1. t # Num(c) /\ DiffersAt(d, m, n + 8, t)
    BY <1>2, <1>4, <1>5, <1>9
  <2>2. ~VerifyChecksum(d)
    BY <1>2, <1>3, <2>1, DamagedSum
  <2> QED
    BY <1>1, <2>2
<1>10. CASE i = n + 9
  <2>1. t # SOH /\ DiffersAt(d, m, n + 9, t)
    BY <1>2, <1>4, <1>5, <1>10
  <2>2. ~VerifyChecksum(d)
    BY <1>2, <1>3, <2>1, DamagedEnd
  <2> QED
    BY <1>1, <2>2
<1> QED
  BY <1>6, <1>7, <1>8, <1>9, <1>10

\* Neither does a message that runs over have its checksum.
LEMMA OverrunFails ==
    ASSUME TokensWeigh, BodiesAreInner, NoiseIsTokens, Sound, NEW k, NEW t, IsDamage(k, 6, t),
           NEW raw, Overlong(raw, Delivered[k])
    PROVE  ~VerifyChecksum(raw)
<1>1. PICK i, m, d : i = 6 /\ m = sent[k] /\ d = Delivered[k]
  OBVIOUS
<1>2. /\ t \in Tokens /\ Weight(t) % 256 # Weight(m[i]) % 256 /\ DiffersAt(d, m, i, t)
      /\ \E n, c, head : IsSummed(m, n, c, head)
  BY <1>1, DamageIs
<1>3. PICK n, c, head : IsSummed(m, n, c, head)
  BY <1>2
<1>4. n \in Nat
  BY <1>3 DEF IsSummed
<1>5. i \in 1 .. n + 6
  BY <1>1, <1>4
<1> QED
  BY <1>1, <1>2, <1>3, <1>5, DamagedHead

\* What the first field of a body, or the checksum after an empty one, starts with.
LEMMA AfterHeader ==
    ASSUME TokensWeigh, BodiesAreInner, ClientsSendFields, Sound, NEW k \in 1 .. Len(sent)
    PROVE  /\ sent[k][7] # Tag(9) /\ sent[k][7] # SOH
           /\ sent[k][8] # SOH /\ sent[k][9] = SOH
<1>1. PICK m, body : m = sent[k] /\ body = script[k]
  OBVIOUS
<1>2. script \in Scripts /\ k \in DOMAIN script /\ body \in Seq(Tokens) /\ m = BuildMessage(body)
  <2>1. script \in Scripts
    BY DEF Sound
  <2>2. k \in DOMAIN script /\ body \in Seq(Tokens) /\ m = BuildMessage(body)
    BY <1>1, SentMessages, Zenon
  <2> QED
    BY <2>1, <2>2
<1>3. IsFieldList(body) /\ Tag(9) \notin Range(body)
  BY <1>1, <1>2 DEF ClientsSendFields, BodiesAreInner
<1>4. PICK c \in 0 .. 255 :
         m[Len(body) + 7] = Tag(10) /\ m[Len(body) + 8] = Num(c) /\ m[Len(body) + 9] = SOH
  BY <1>2, Trailer
<1>5. Carries(m, body)
  BY <1>2, Built
<1>6. Tag(10) # SOH /\ Num(c) # SOH /\ Tag(10) # Tag(9)
  BY DEF Tag, Num, SOH
<1>7. CASE Len(body) = 0
  <2>1. Len(body) + 7 = 7 /\ Len(body) + 8 = 8 /\ Len(body) + 9 = 9
    BY <1>7
  <2> QED
    BY <1>1, <1>4, <1>6, <2>1
<1>8. CASE Len(body) # 0
  <2>1. PICK n \in 0 .. Len(body) :
           /\ Len(body) = 3 * n
           /\ \A i \in 1 .. n : /\ body[3 * i - 2] = Tag(body[3 * i - 2][2])
                                 /\ IsValue(body[3 * i - 1])
                                 /\ body[3 * i] = SOH
    BY <1>3, Zenon DEF IsFieldList
  <2>2. Len(body) \in Nat /\ n \in Nat /\ 1 \in 1 .. n /\ Len(body) >= 3
    BY <1>2, <1>8, <2>1
  <2>3. 3 * 1 - 2 = 1 /\ 3 * 1 - 1 = 2 /\ 3 * 1 = 3
    OBVIOUS
  <2>4. body[1] = Tag(body[1][2]) /\ IsValue(body[2]) /\ body[3] = SOH
    BY <2>1, <2>2, <2>3
  <2>5. body[1] # SOH
    BY <2>4, TokensDiffer
  <2>6. body[2] # SOH
    <3>1. \A x : Num(x) # SOH /\ Txt(x) # SOH
      BY DEF Num, Txt, SOH
    <3> QED
      BY <2>4, <3>1, Zenon DEF IsValue
  <2>7. body[1] # Tag(9)
    BY <1>2, <1>3, <2>2 DEF Range
  <2>8. m[1 + 6] = body[1] /\ m[2 + 6] = body[2] /\ m[3 + 6] = body[3]
    BY <1>5, <2>2, SMTT(30) DEF Carries
  <2>9. 1 + 6 = 7 /\ 2 + 6 = 8 /\ 3 + 6 = 9
    OBVIOUS
  <2> QED
    BY <1>1, <2>4, <2>5, <2>6, <2>7, <2>8, <2>9
<1> QED
  BY <1>7, <1>8

\* What parseOrder() made of a job that the client did not send.
LEMMA KeptFromDamage ==
    ASSUME TokensWeigh, BodiesAreInner, ClientsSendFields, NoiseIsTokens, Framed, Kept
    PROVE  NoOrderFromDamage
<1> SUFFICES ASSUME LengthIsKnown, NEW j \in DOMAIN answers, jobs[j] \notin Range(sent)
             PROVE  answers[j].order = NoOrder
  BY Zenon DEF NoOrderFromDamage
<1>1. Sound /\ Typed /\ Whole
  BY DEF Framed
<1>2. /\ j \in 1 .. Len(jobs) /\ Len(jobs) \in Nat
      /\ Len(sent) \in Nat /\ sent \in Seq(Seq(Tokens)) /\ Intact \in 0 .. Len(sent)
      /\ \A l \in 1 .. Len(sent) : l # fault[1] => Delivered[l] = sent[l]
      /\ \A l \in 1 .. Intact : Delivered[l] = sent[l]
  <2>1. j \in 1 .. Len(jobs) /\ Len(jobs) \in Nat
    BY <1>1 DEF Kept, Typed
  <2> QED
    BY <1>1, <2>1, ClientFacts
<1>3. \A l \in 1 .. Len(sent) : sent[l] \in Range(sent)
  BY <1>2 DEF Range
<1>4. SUFFICES ~VerifyChecksum(jobs[j])
  <2>1. ~VerifyChecksum(jobs[j]) => RejectReason(jobs[j]) # NoReason
    BY DEF RejectReason, NoReason
  <2> QED
    BY <2>1, Zenon DEF Kept
<1>5. ~(j <= Aligned /\ Delivered[j] = sent[j])
  <2>1. Aligned \in Intact .. Len(sent)
    BY <1>1, AlignedFacts
  <2>2. j <= Aligned => j \in 1 .. Len(sent) /\ jobs[j] = Delivered[j]
    BY <1>1, <1>2, <2>1 DEF Whole
  <2> QED
    BY <1>3, <2>2
<1>6. CASE Legible
  <2>1. Aligned = Len(sent) /\ Len(jobs) <= Len(sent)
    BY <1>1, <1>6, AlignedFacts DEF Whole
  <2>2. j \in 1 .. Len(sent) /\ j <= Aligned /\ jobs[j] = Delivered[j]
    BY <1>1, <1>2, <2>1 DEF Whole
  <2>3. j = fault[1]
    BY <1>2, <1>5, <2>2
  <2>4. fault # NoFault
    BY <2>2, <2>3 DEF NoFault
  <2>5. PICK k, i, t : IsDamage(k, i, t)
    BY <1>1, <2>4, ClientFacts
  <2>6. k = j
    BY <2>3, <2>5 DEF IsDamage
  <2>7. ~VerifyChecksum(Delivered[k])
    BY <1>1, <2>5, DamageFails
  <2> QED
    BY <2>2, <2>6, <2>7
<1>7. CASE ~Legible
  <2>1. fault # NoFault
    BY <1>7 DEF Legible
  <2>2. PICK k, i, t : IsDamage(k, i, t)
    BY <1>1, <2>1, ClientFacts
  <2>3. /\ fault[1] = k /\ fault[2] = i /\ fault[3] = t /\ k \in 1 .. Len(sent) /\ Intact = k - 1
        /\ i \in Nat \ {0}
    <3>1. /\ fault[1] = k /\ fault[2] = i /\ fault[3] = t /\ k \in 1 .. Len(sent) /\ Intact = k - 1
          /\ i \in 1 .. Len(sent[k])
      BY <2>2 DEF IsDamage
    <3>2. sent[k] \in Seq(Tokens)
      BY <1>2, <3>1
    <3> QED
      BY <3>1, <3>2
  <2>4. /\ sent[k][7] # Tag(9) /\ sent[k][7] # SOH /\ sent[k][8] # SOH /\ sent[k][9] = SOH
    BY <1>1, <2>3, AfterHeader
  <2>5. Stuck \/ Overrun
    BY <1>7, <2>1, <2>3, <2>4 DEF Legible, Stuck, Overrun, LengthIsKnown
  <2>6. Aligned = Intact /\ ~(j <= Intact)
    <3>1. Aligned = Intact
      BY <1>1, <1>7, AlignedFacts
    <3>2. j <= Intact => Delivered[j] = sent[j]
      BY <1>2
    <3> QED
      BY <1>5, <3>1, <3>2
  <2>7. ~Stuck
    <3>1. Stuck => Len(jobs) <= Intact
      BY <1>1 DEF Whole
    <3> QED
      BY <1>2, <2>6, <3>1
  <2>8. Overrun /\ Len(jobs) = Intact + 1 /\ j = Intact + 1 /\ k = Intact + 1
    <3>1. Overrun /\ Len(jobs) <= Intact + 1
      BY <1>1, <2>5, <2>7 DEF Whole, Overran
    <3> QED
      BY <1>2, <2>3, <2>6, <3>1, SMTT(30)
  <2>9. Overlong(jobs[j], Delivered[k])
    BY <1>1, <2>8 DEF Whole, Overran
  <2>10. i = 6
    BY <2>3, <2>8 DEF Overrun
  <2> QED
    BY <1>1, <2>2, <2>9, <2>10, OverrunFails
<1> QED
  BY <1>6, <1>7

\* A message the client did not send never becomes an order: whichever token
\* is damaged, its message is cut off and has the wrong checksum, or runs over
\* into the next one and has the wrong checksum, or is never cut off; whatever
\* the stream holds, and however it is cut into reads.  The one damage left out,
\* by the property itself, is a BodyLength that becomes another number.
THEOREM FixNoOrderFromDamage ==
    ASSUME TokensWeigh, BodiesAreInner, ClientsSendFields, NoiseIsTokens
    PROVE  FixSpec => []NoOrderFromDamage
<1>1. FixSpec => [](Framed /\ Kept)
  BY FramedAndKept
<1>2. Framed /\ Kept => NoOrderFromDamage
  BY KeptFromDamage
<1> QED
  BY <1>1, <1>2, PTL
=============================================================================
