--------------------------- MODULE UsbReportProofs ---------------------------
(***************************************************************************)
(* The variables keep their types, and the report that loop() finds is the *)
(* last one the host sent, whole.                                          *)
(***************************************************************************)
EXTENDS UsbProofs, SequenceTheorems, WellFoundedInduction

USE DEF programVars, endpoint0, endpoint1, addresses

-----------------------------------------------------------------------------
(* The bytes that are not zero.  Induction is over a set of numbers: the   *)
(* least number outside it would not be the successor of one inside.       *)

LEMMA InductionOverASet ==
    ASSUME NEW S, 0 \in S, \A n \in Nat : n \in S => n + 1 \in S
    PROVE  Nat \subseteq S
<1> DEFINE R == OpToRel(<, Nat)
           T == Nat \ S
<1> SUFFICES ASSUME T # {} PROVE FALSE
  OBVIOUS
<1>1. PICK n \in T : \A m \in T : ~(<<m, n>> \in R)
  <2>1. IsWellFoundedOn(R, Nat)
    BY NatLessThanWellFounded
  <2> HIDE DEF R
  <2> QED
    BY <2>1, WFMin
<1>2. n # 0 /\ n - 1 \in Nat /\ n - 1 < n
  OBVIOUS
<1>3. n - 1 \in T
  BY <1>2
<1>4. <<n - 1, n>> \in R
  BY <1>2 DEF OpToRel
<1> QED
  BY <1>1, <1>3, <1>4

\* What is kept of the first i bytes, from what is kept of those before.
KeptNow(s, f, i) ==
    IF i = 0 THEN <<>> ELSE IF s[i] = 0 THEN f[i - 1] ELSE Append(f[i - 1], s[i])

LEMMA KeptExists ==
    ASSUME NEW s
    PROVE  \A n \in Nat : \E f : f = [i \in 0..n |-> KeptNow(s, f, i)]
<1> DEFINE S == {n \in Nat : \E f : f = [i \in 0..n |-> KeptNow(s, f, i)]}
<1>1. 0 \in S
  <2> DEFINE f == [i \in 0..0 |-> <<>>]
  <2>1. f = [i \in 0..0 |-> KeptNow(s, f, i)]
    BY DEF KeptNow
  <2> QED
    BY <2>1
<1>2. ASSUME NEW n \in Nat, n \in S PROVE n + 1 \in S
  <2>1. PICK f : f = [i \in 0..n |-> KeptNow(s, f, i)]
    BY <1>2
  <2> DEFINE g == [i \in 0..(n + 1) |-> IF i = n + 1 THEN KeptNow(s, f, i) ELSE f[i]]
  <2>2. \A i \in 0..(n + 1) : g[i] = KeptNow(s, g, i)
    <3> TAKE i \in 0..(n + 1)
    <3>1. \A j \in 0..n : g[j] = f[j]
      OBVIOUS
    <3>2. i = 0 \/ i - 1 \in 0..n
      OBVIOUS
    <3>3. KeptNow(s, g, i) = KeptNow(s, f, i)
      BY <3>1, <3>2 DEF KeptNow
    <3>4. i = n + 1 \/ i \in 0..n
      OBVIOUS
    <3>5. i \in 0..n => f[i] = KeptNow(s, f, i)
      BY <2>1
    <3> QED
      BY <3>3, <3>4, <3>5
  <2>3. g = [i \in 0..(n + 1) |-> KeptNow(s, g, i)]
    BY <2>2
  <2>4. \E h : h = [i \in 0..(n + 1) |-> KeptNow(s, h, i)]
    <3> HIDE DEF g
    <3> QED
      BY <2>3
  <2> QED
    BY <2>4
<1>3. Nat \subseteq S
  <2> HIDE DEF S
  <2> QED
    BY <1>1, <1>2, InductionOverASet
<1> QED
  BY <1>3

LEMMA KeptValues ==
    ASSUME NEW s \in Seq(Nat)
    PROVE  \A i \in 0..Len(s) : Kept(s)[i] = KeptNow(s, Kept(s), i)
<1>1. Len(s) \in Nat
  OBVIOUS
<1>2. Kept(s) = CHOOSE f : f = [i \in 0..Len(s) |-> KeptNow(s, f, i)]
  BY DEF Kept, KeptNow
<1>3. Kept(s) = [i \in 0..Len(s) |-> KeptNow(s, Kept(s), i)]
  BY <1>1, <1>2, KeptExists
<1> QED
  BY <1>3

LEMMA KeptOfNothing == ASSUME NEW s \in Seq(Nat) PROVE Kept(s)[0] = <<>>
<1>1. 0 \in 0..Len(s)
  OBVIOUS
<1> QED
  BY <1>1, KeptValues DEF KeptNow

Bytes == Seq(Nat \ {0})

LEMMA KeptIsPrefix ==
    ASSUME NEW s \in Seq(Nat)
    PROVE  \A i \in 0..Len(s) : Kept(s)[i] \in Bytes /\ Len(Kept(s)[i]) <= i
<1> DEFINE P(i) == i <= Len(s) => Kept(s)[i] \in Bytes /\ Len(Kept(s)[i]) <= i
           S == {i \in Nat : P(i)}
<1>1. 0 \in S
  <2>1. Kept(s)[0] = <<>>
    BY KeptOfNothing
  <2>2. <<>> \in Bytes /\ Len(<<>>) <= 0
    BY EmptySeq DEF Bytes
  <2> QED
    BY <2>1, <2>2
<1>2. ASSUME NEW i \in Nat, i \in S PROVE i + 1 \in S
  <2> SUFFICES ASSUME i + 1 <= Len(s) PROVE P(i + 1)
    OBVIOUS
  <2> DEFINE k == Kept(s)[i]
  <2>1. /\ Kept(s)[i + 1] = IF s[i + 1] = 0 THEN k ELSE Append(k, s[i + 1])
        /\ s[i + 1] \in Nat
    BY KeptValues DEF KeptNow
  <2>2. k \in Bytes /\ Len(k) <= i
    BY <1>2
  <2> HIDE DEF k
  <2>3. ASSUME NEW b \in Nat \ {0} 
        PROVE  Append(k, b) \in Bytes /\ Len(Append(k, b)) <= i + 1
    BY <2>2 DEF Bytes
  <2> QED
    BY <2>1, <2>2, <2>3
<1>3. Nat \subseteq S
  <2> HIDE DEF S
  <2> QED
    BY <1>1, <1>2, InductionOverASet
<1> QED
  BY <1>3

\* What is kept of a packet are bytes other than zero, no more than it has.
LEMMA WithoutZerosType ==
    ASSUME NEW s \in Seq(Nat)
    PROVE  WithoutZeros(s) \in Bytes /\ Len(WithoutZeros(s)) \in 0..Len(s)
<1>1. Len(s) \in 0..Len(s)
  OBVIOUS
<1>2. WithoutZeros(s) \in Bytes /\ Len(WithoutZeros(s)) <= Len(s)
  BY <1>1, KeptIsPrefix DEF WithoutZeros
<1> QED
  BY <1>2 DEF Bytes

LEMMA WithoutZerosEmpty == WithoutZeros(<<>>) = <<>>
  BY KeptOfNothing, EmptySeq DEF WithoutZeros

\* Of a concatenation, what is kept of one part follows what is of the other.
LEMMA WithoutZerosConcat ==
    ASSUME NEW s \in Seq(Nat), NEW t \in Seq(Nat)
    PROVE  WithoutZeros(s \o t) = WithoutZeros(s) \o WithoutZeros(t)
<1> DEFINE st == s \o t
           P(i) == i <= Len(s) => Kept(st)[i] = Kept(s)[i]
           Q(i) == i <= Len(t) => Kept(st)[Len(s) + i] = WithoutZeros(s) \o Kept(t)[i]
           S == {i \in Nat : P(i)}
           T == {i \in Nat : Q(i)}
<1>1. /\ st \in Seq(Nat) /\ Len(st) = Len(s) + Len(t)
      /\ Len(s) \in Nat /\ Len(t) \in Nat
      /\ \A i \in 1..Len(s) : st[i] = s[i]
      /\ \A i \in 1..Len(t) : st[Len(s) + i] = t[i] /\ t[i] \in Nat
  OBVIOUS
<1> HIDE DEF st
<1>2. Nat \subseteq S
  <2>1. 0 \in S
    BY <1>1, KeptOfNothing
  <2>2. ASSUME NEW i \in Nat, i \in S PROVE i + 1 \in S
    <3> SUFFICES ASSUME i + 1 <= Len(s) PROVE Kept(st)[i + 1] = Kept(s)[i + 1]
      OBVIOUS
    <3>1. i + 1 \in 0..Len(s) /\ i + 1 \in 0..Len(st) /\ i + 1 \in 1..Len(s)
      BY <1>1
    <3>2. /\ Kept(st)[i + 1] = KeptNow(st, Kept(st), i + 1)
          /\ Kept(s)[i + 1] = KeptNow(s, Kept(s), i + 1)
      BY <1>1, <3>1, KeptValues
    <3>3. Kept(st)[i] = Kept(s)[i] /\ st[i + 1] = s[i + 1]
      BY <1>1, <2>2, <3>1
    <3> QED
      BY <3>2, <3>3 DEF KeptNow
  <2> HIDE DEF S
  <2> QED
    BY <2>1, <2>2, InductionOverASet
<1>3. Kept(st)[Len(s)] = WithoutZeros(s)
  BY <1>1, <1>2 DEF WithoutZeros
<1>4. Nat \subseteq T
  <2>1. 0 \in T
    <3>1. Kept(t)[0] = <<>> /\ Len(s) + 0 = Len(s)
      BY <1>1, KeptOfNothing
    <3>2. WithoutZeros(s) \o <<>> = WithoutZeros(s)
      BY WithoutZerosType, ConcatEmptySeq DEF Bytes
    <3> QED
      BY <1>1, <1>3, <3>1, <3>2
  <2>2. ASSUME NEW i \in Nat, i \in T PROVE i + 1 \in T
    <3> SUFFICES ASSUME i + 1 <= Len(t)
                 PROVE  Kept(st)[Len(s) + (i + 1)] = WithoutZeros(s) \o Kept(t)[i + 1]
      OBVIOUS
    <3> DEFINE j == Len(s) + (i + 1)
    <3>1. /\ i + 1 \in 0..Len(t) /\ i + 1 \in 1..Len(t) /\ i \in 0..Len(t)
          /\ j \in 0..Len(st) /\ j # 0 /\ j - 1 = Len(s) + i
      BY <1>1
    <3>2. /\ Kept(st)[j] = KeptNow(st, Kept(st), j)
          /\ Kept(t)[i + 1] = KeptNow(t, Kept(t), i + 1)
      <4> HIDE DEF j
      <4> QED
        BY <1>1, <3>1, KeptValues
    <3>3. Kept(st)[j - 1] = WithoutZeros(s) \o Kept(t)[i]
      BY <1>1, <2>2, <3>1, SMTT(30)
    <3>4. st[j] = t[i + 1] /\ t[i + 1] \in Nat
      BY <1>1, <3>1
    <3> DEFINE k == Kept(t)[i]
    <3>5. /\ Kept(st)[j] = IF t[i + 1] = 0 THEN WithoutZeros(s) \o k
                           ELSE Append(WithoutZeros(s) \o k, t[i + 1])
          /\ Kept(t)[i + 1] = IF t[i + 1] = 0 THEN k ELSE Append(k, t[i + 1])
      <4> HIDE DEF j
      <4> QED
        BY <3>1, <3>2, <3>3, <3>4 DEF KeptNow
    <3>6. k \in Bytes /\ WithoutZeros(s) \in Bytes
      BY <3>1, KeptIsPrefix, WithoutZerosType
    <3> HIDE DEF j, k
    <3>7. ASSUME NEW b \in Nat \ {0}
          PROVE  Append(WithoutZeros(s) \o k, b) = WithoutZeros(s) \o Append(k, b)
      <4>1. <<b>> \in Bytes
        BY DEF Bytes
      <4>2. WithoutZeros(s) \o k \in Bytes
        BY <3>6, ConcatProperties DEF Bytes
      <4>3. /\ Append(WithoutZeros(s) \o k, b) = (WithoutZeros(s) \o k) \o <<b>>
            /\ Append(k, b) = k \o <<b>>
        BY <3>6, <4>2, AppendIsConcat DEF Bytes
      <4>4. (WithoutZeros(s) \o k) \o <<b>> = WithoutZeros(s) \o (k \o <<b>>)
        BY <3>6, <4>1, ConcatAssociative, SMTT(30) DEF Bytes
      <4> QED
        BY <4>3, <4>4
    <3> QED
      BY <3>4, <3>5, <3>7 DEF j
  <2> HIDE DEF T
  <2> QED
    BY <2>1, <2>2, InductionOverASet
<1>5. Kept(st)[Len(s) + Len(t)] = WithoutZeros(s) \o Kept(t)[Len(t)]
  <2>1. Len(t) \in T
    BY <1>1, <1>4
  <2> QED
    BY <1>1, <2>1
<1>6. WithoutZeros(st) = WithoutZeros(s) \o WithoutZeros(t)
  BY <1>1, <1>5 DEF WithoutZeros
<1> QED
  BY <1>6 DEF st
-----------------------------------------------------------------------------
(* What usbFunctionWrite and read() do to the buffer.                      *)

SIZE == HIDSERIAL_INBUFFER_SIZE

\* The variables of USBComm.cpp, and what is in them.
IsHid(h) ==
    /\ h = [received |-> h.received, inBuffer |-> h.inBuffer, reportId |-> h.reportId,
            bytesRemaining |-> h.bytesRemaining, pos |-> h.pos]
    /\ h.inBuffer = [i \in Cells |-> h.inBuffer[i]]
    /\ h.received \in BOOLEAN /\ h.pos \in Nat \ {0} /\ h.bytesRemaining \in Nat

\* The buffer holds the bytes k and nothing else up to pos.
Holds(h, k) == k \in Bytes /\ h.pos = Len(k) + 1 /\ \A i \in 1..Len(k) : h.inBuffer[i] = k[i]

LEMMA LeastOf ==
    ASSUME NEW S, S \subseteq Nat, NEW n \in S, \A m \in S : n <= m
    PROVE  Min(S) = n
<1>1. \E m \in S : \A y \in S : m <= y
  OBVIOUS
<1>2. Min(S) \in S /\ \A y \in S : Min(S) <= y
  BY <1>1 DEF Min
<1>3. n <= Min(S) /\ Min(S) <= n /\ Min(S) \in Nat /\ n \in Nat
  BY <1>2
<1> QED
  BY <1>3

\* read() gives the bytes up to the terminator or to the end of the buffer.
LEMMA ReadableIs ==
    ASSUME NEW h, NEW k \in Bytes, Len(k) <= SIZE,
           \A i \in 1..Len(k) : h.inBuffer[i] = k[i], h.inBuffer[Len(k) + 1] = 0
    PROVE  Readable(h) = k
<1> DEFINE Ends == {i \in Cells : h.inBuffer[i] = 0 \/ i = SIZE + 1}
           n == Len(k) + 1
<1>0. Len(k) \in Nat /\ SIZE \in Nat /\ n \in Nat /\ n <= SIZE + 1
  BY InBufferAssumption DEF SIZE, Bytes
<1>1. (\A i \in 1..Len(k) : k[i] # 0) /\ k = [i \in 1..Len(k) |-> k[i]]
  BY DEF Bytes
<1>2. n \in Ends /\ Ends \subseteq Nat
  <2>1. n \in Cells
    BY <1>0 DEF Cells, SIZE
  <2>2. Cells \subseteq Nat
    BY DEF Cells
  <2> QED
    BY <2>1, <2>2
<1>3. \A m \in Ends : n <= m
  <2> SUFFICES ASSUME NEW m \in Ends, m < n PROVE FALSE
    BY <1>0, <1>2
  <2>1. m \in 1..Len(k)
    BY <1>0, <1>2 DEF Cells
  <2>2. h.inBuffer[m] # 0 /\ m # SIZE + 1
    BY <1>0, <1>1, <2>1
  <2> QED
    BY <2>2
<1>4. Min(Ends) = n
  <2> HIDE DEF Ends, n
  <2> QED
    BY <1>2, <1>3, LeastOf
<1>5. Readable(h) = [i \in 1..(n - 1) |-> h.inBuffer[i]]
  BY <1>4 DEF Readable, SIZE
<1>6. n - 1 = Len(k)
  BY <1>0
<1> QED
  BY <1>1, <1>5, <1>6

\* The bytes stored by a call, and the terminator after the last.
Kept1(h, data) ==
    WithoutZeros(data) \o (IF Len(data) = h.bytesRemaining THEN <<0>> ELSE <<>>)

\* A packet that fits in what is left of the report.
LEMMA WriteIs ==
    ASSUME NEW h, IsHid(h), h.reportId = 0,
           NEW data \in Seq(Nat), Len(data) <= h.bytesRemaining
    PROVE  LET r == FunctionWrite(h, data)
               last == Len(data) = h.bytesRemaining
           IN /\ IsHid(r) /\ r.reportId = 0
              /\ r.bytesRemaining = h.bytesRemaining - Len(data)
              /\ r.received <=> h.received \/ last
              /\ r.pos = h.pos + Len(WithoutZeros(data)) + (IF last THEN 1 ELSE 0)
              /\ r.inBuffer = Stored(h.inBuffer, h.pos, Kept1(h, data))
<1>1. Len(data) \in Nat /\ SubSeq(data, 1, Len(data)) = data
  BY SubSeqFull
<1>2. Min({Len(data), h.bytesRemaining}) = Len(data)
  BY <1>1, MinOfTwo DEF IsHid
<1> DEFINE kept == Kept1(h, data)
           last == Len(data) = h.bytesRemaining
<1>3. Len(kept) = Len(WithoutZeros(data)) + (IF last THEN 1 ELSE 0)
  BY WithoutZerosType DEF Kept1, Bytes
<1>4. FunctionWrite(h, data) =
          [h EXCEPT !.bytesRemaining = @ - Len(data),
                    !.inBuffer = Stored(@, h.pos, kept),
                    !.pos = @ + Len(kept),
                    !.received = @ \/ last]
  BY <1>1, <1>2 DEF FunctionWrite, Kept1, IsHid
<1> DEFINE r == FunctionWrite(h, data)
<1>5. Len(kept) \in Nat
  BY <1>3, WithoutZerosType
<1> HIDE DEF kept, last
<1>6. /\ r = [received |-> r.received, inBuffer |-> r.inBuffer, reportId |-> r.reportId,
              bytesRemaining |-> r.bytesRemaining, pos |-> r.pos]
      /\ r.reportId = h.reportId /\ r.bytesRemaining = h.bytesRemaining - Len(data)
      /\ r.pos = h.pos + Len(kept) /\ r.inBuffer = Stored(h.inBuffer, h.pos, kept)
  BY <1>4 DEF IsHid
<1>7. r.received = (h.received \/ last)
  BY <1>4 DEF IsHid
<1>8. r.inBuffer = [i \in Cells |-> r.inBuffer[i]]
  BY <1>6 DEF Stored
<1> HIDE DEF r
<1>9. IsHid(r)
  BY <1>1, <1>5, <1>6, <1>7, <1>8 DEF IsHid
<1>10. r.pos = h.pos + Len(WithoutZeros(data)) + (IF last THEN 1 ELSE 0)
  BY <1>3, <1>6, WithoutZerosType DEF IsHid
<1> QED
  BY <1>6, <1>7, <1>9, <1>10 DEF r, last, kept

\* A packet continues what the buffer holds, and the last one completes it.
LEMMA WriteContinues ==
    ASSUME NEW h, IsHid(h), h.reportId = 0, h.pos + h.bytesRemaining <= SIZE + 1,
           NEW data \in Seq(Nat), Len(data) <= h.bytesRemaining,
           NEW k, Holds(h, k)
    PROVE  LET r == FunctionWrite(h, data)
               now == k \o WithoutZeros(data)
           IN /\ Len(data) # h.bytesRemaining => Holds(r, now)
              /\ Len(data) = h.bytesRemaining => Readable(r) = now
<1> DEFINE r == FunctionWrite(h, data)
           new == WithoutZeros(data)
           now == k \o new
           kept == Kept1(h, data)
<1>1. /\ r.inBuffer = Stored(h.inBuffer, h.pos, kept)
      /\ r.pos = h.pos + Len(new) + (IF Len(data) = h.bytesRemaining THEN 1 ELSE 0)
  BY WriteIs
<1>2. /\ k \in Bytes /\ Len(k) \in Nat /\ h.pos = Len(k) + 1
      /\ \A i \in 1..Len(k) : h.inBuffer[i] = k[i]
  BY DEF Holds, Bytes
<1>3. new \in Bytes /\ Len(new) \in Nat /\ Len(new) <= Len(data) /\ Len(data) \in Nat
  BY WithoutZerosType
<1>4. /\ now \in Bytes /\ Len(now) = Len(k) + Len(new)
      /\ \A i \in 1..Len(now) : now[i] = IF i <= Len(k) THEN k[i] ELSE new[i - Len(k)]
  <2> HIDE DEF new
  <2> QED
    BY <1>2, <1>3, ConcatProperties DEF Bytes
<1>5. /\ Len(kept) = Len(new) + (IF Len(data) = h.bytesRemaining THEN 1 ELSE 0)
      /\ \A i \in 1..Len(new) : kept[i] = new[i]
      /\ Len(data) = h.bytesRemaining => kept[Len(new) + 1] = 0
  <2>1. new \in Seq(Nat)
    BY <1>3 DEF Bytes
  <2>2. kept = new \o (IF Len(data) = h.bytesRemaining THEN <<0>> ELSE <<>>)
    BY DEF Kept1
  <2> HIDE DEF new, kept
  <2> QED
    BY <1>3, <2>1, <2>2
<1>6. SIZE \in Nat /\ h.bytesRemaining \in Nat /\ Len(k) + h.bytesRemaining <= SIZE
  <2>1. SIZE \in Nat /\ h.bytesRemaining \in Nat
    <3>1. SIZE \in Nat
      BY InBufferAssumption DEF SIZE
    <3>2. h.bytesRemaining \in Nat
      BY DEF IsHid
    <3> QED
      BY <3>1, <3>2
  <2> QED
    BY <1>2, <2>1
<1> HIDE DEF r, new, now, kept
<1>7. \A i \in Cells : r.inBuffer[i] = IF i \in h.pos..(h.pos + Len(kept) - 1)
                                       THEN kept[i - h.pos + 1] ELSE h.inBuffer[i]
  BY <1>1 DEF Stored
<1>8. \A i \in 1..Len(now) : r.inBuffer[i] = now[i]
  <2> TAKE i \in 1..Len(now)
  <2>1. i \in Cells
    BY <1>2, <1>3, <1>4, <1>6 DEF Cells, SIZE
  <2>2. CASE i <= Len(k)
    <3>1. i \in 1..Len(k) /\ i \notin h.pos..(h.pos + Len(kept) - 1)
      BY <1>2, <2>2
    <3>2. r.inBuffer[i] = h.inBuffer[i]
      BY <1>7, <2>1, <3>1
    <3> QED
      BY <1>2, <1>4, <2>2, <3>1, <3>2
  <2>3. CASE i > Len(k)
    <3>1. i - Len(k) \in 1..Len(new) /\ i - h.pos + 1 = i - Len(k)
      BY <1>2, <1>3, <1>4, <2>3
    <3>2. i \in h.pos..(h.pos + Len(kept) - 1)
      <4>1. i <= Len(k) + Len(new) /\ Len(new) <= Len(kept) /\ Len(kept) \in Nat
        BY <1>3, <1>4, <1>5
      <4> QED
        BY <1>2, <1>3, <2>3, <4>1
    <3>3. r.inBuffer[i] = kept[i - Len(k)]
      BY <1>7, <2>1, <3>1, <3>2
    <3> QED
      <4>1. now[i] = new[i - Len(k)]
        BY <1>2, <1>4, <2>3
      <4>2. kept[i - Len(k)] = new[i - Len(k)]
        BY <1>5, <3>1
      <4> QED
        BY <3>3, <4>1, <4>2
  <2> QED
    BY <1>2, <2>2, <2>3
<1>9. CASE Len(data) # h.bytesRemaining
  <2>1. r.pos = Len(now) + 1
    BY <1>1, <1>2, <1>3, <1>4, <1>9
  <2> QED
    BY <1>4, <1>8, <1>9, <2>1 DEF Holds, r, now, new
<1>10. CASE Len(data) = h.bytesRemaining
  <2> DEFINE e == Len(now) + 1
  <2>1. Len(now) <= SIZE
    BY <1>2, <1>3, <1>4, <1>6
  <2>2. e \in Cells /\ e \in h.pos..(h.pos + Len(kept) - 1) /\ e - h.pos + 1 = Len(new) + 1
    BY <1>2, <1>3, <1>4, <1>5, <1>6, <1>10, <2>1 DEF Cells, SIZE
  <2>3. r.inBuffer[e] = 0
    <3> HIDE DEF e
    <3>1. r.inBuffer[e] = kept[e - h.pos + 1]
      BY <1>7, <2>2
    <3> QED
      BY <1>5, <1>10, <2>2, <3>1
  <2>4. Readable(r) = now
    BY <1>4, <1>8, <2>1, <2>3, ReadableIs
  <2> QED
    BY <1>10, <2>4 DEF r, now, new
<1> QED
  BY <1>9, <1>10

-----------------------------------------------------------------------------
(* A report never overruns the buffer.                                     *)

\* A packet of data that waits to be processed, and one that will be stored.
OutWaits == rx.token = "OUT" /\ pc # "release"
Stores == OutWaits /\ msg.user /\ hid.reportId = 0

\* What is left of the report once that packet has been stored.
Left == hid.bytesRemaining - (IF Stores THEN Len(rx.data) ELSE 0)

SendingReport == host.stage = "dataOut" /\ Served

RoomInv ==
    /\ IsHid(hid)
    /\ \/ rx = Free
       \/ rx.token = "SETUP"
       \/ rx.token = "OUT" /\ rx.data \in Seq(Nat) /\ Len(rx.data) \in 1..PacketSize
    /\ hid.pos <= SIZE + 2 /\ hid.bytesRemaining <= SIZE
    /\ hid.bytesRemaining > 0 => hid.pos + hid.bytesRemaining <= SIZE + 1
    /\ Stores => Len(rx.data) <= hid.bytesRemaining
    /\ host.stage = "dataOut" => host.off < Len(host.req.data)
    /\ SendingReport => msg.user /\ hid.reportId = host.req.value
    /\ SendingReport /\ host.req.value = 0 => Left = Len(host.req.data) - host.off

LEMMA LowByte == \A n \in 0..255 : n % 256 = n
  OBVIOUS

\* Requests and their data.
LEMMA RequestFacts ==
    ASSUME ReplyInv
    PROVE  /\ host.req.data \in Seq(Nat) /\ Len(host.req.data) \in Nat /\ host.off \in Nat
           /\ host.req.data # <<>> =>
                 /\ host.req.kind = "HID_SET_REPORT" /\ ~ControlIn(host.req)
                 /\ host.req.length = Len(host.req.data) /\ Len(host.req.data) <= SIZE
<1>1. host.req \in Requests \cup {NoRequest} /\ host.off \in Nat
  BY DEF ReplyInv, ReplyTypes
<1>2. CASE host.req = NoRequest
  BY <1>1, <1>2 DEF NoRequest
<1>3. CASE host.req \in Requests
  <2>1. /\ host.req.data \in Seq(Nat)
        /\ host.req.data # <<>> => host.req.kind = "HID_SET_REPORT"
        /\ host.req.kind = "HID_SET_REPORT" =>
              host.req.length = Len(host.req.data) /\ Len(host.req.data) <= SIZE
    BY <1>3, ReportsAssumption DEF SIZE
  <2>2. Len(host.req.data) \in Nat
    BY <2>1
  <2> QED
    BY <1>1, <2>1, <2>2 DEF ControlIn
<1> QED
  BY <1>1, <1>2, <1>3

\* A SETUP that is served while the host sends data is that of a report.
LEMMA ServesReport ==
    ASSUME ReplyInv, RoomInv, pc = "request"
    PROVE  /\ rx.token = "SETUP" /\ ~OutWaits
           /\ host.stage = "dataOut" =>
                 rx.req = host.req /\ host.off = 0 /\ host.req.data # <<>>
                 /\ rx.req.kind = "HID_SET_REPORT"
<1>1. rx.token = "SETUP"
  BY DEF ReplyInv, Progress
<1>2. CASE host.stage = "dataOut"
  <2>1. rx.req = host.req /\ host.off = 0
    BY <1>1, <1>2 DEF ReplyInv, SetupWaits, Active
  <2>2. host.req.data # <<>>
    BY <1>2, <2>1, RequestFacts, EmptySeq DEF RoomInv
  <2> QED
    BY <1>1, <2>1, <2>2, RequestFacts DEF OutWaits
<1> QED
  BY <1>1, <1>2 DEF OutWaits

\* A step that touches neither the packet that waits nor what it is for.
LEMMA RoomElsewhere ==
    ASSUME RoomInv, UNCHANGED <<rx, hid, hostVars>>, msg'.user = msg.user,
           pc # "release", pc' # "release"
    PROVE  RoomInv'
  BY DEF RoomInv, IsHid, SendingReport, Served, Stores, OutWaits, Left, hostVars

LEMMA RoomByProgram ==
    ASSUME ReplyInv, RoomInv, Program, UNCHANGED hostVars
    PROVE  RoomInv'
<1>0. ret \in {"run", "write"}
  BY DEF ReplyInv, ReplyTypes
<1>1. CASE LoopStart
  <2>1. /\ pc = "loop" /\ pc' = "poll" /\ UNCHANGED <<rx, msg>>
        /\ hid' = hid \/ hid' = Read(hid)
    BY <1>1 DEF LoopStart
  <2>2. CASE hid' = hid
    BY <2>1, <2>2, RoomElsewhere
  <2>3. CASE hid' = Read(hid)
    <3>1. IsHid(hid)
      BY DEF RoomInv
    <3>2. /\ IsHid(hid') /\ hid'.reportId = hid.reportId /\ hid'.pos = hid.pos
          /\ hid'.bytesRemaining = hid.bytesRemaining
      BY <2>3, <3>1 DEF IsHid, Read
    <3> QED
      BY <2>1, <3>2 DEF RoomInv, SendingReport, Served, Stores, OutWaits, Left, hostVars
  <2> QED
    BY <2>1, <2>2, <2>3
<1>2. CASE PollReceived \/ RestartToggle \/ CancelReply \/ PollTransmit \/ ArmReply
  BY <1>2, RoomElsewhere DEF PollReceived, RestartToggle, CancelReply, PollTransmit, ArmReply
<1>3. CASE Sense \/ ForgetNewAddress \/ ForgetAddress \/ RunQuiet \/ RunReceives
  BY <1>0, <1>3, RoomElsewhere
  DEF Sense, ForgetNewAddress, ForgetAddress, RunQuiet, RunReceives
<1>4. CASE Wait \/ ToggleInterrupt \/ CopyInterrupt \/ OfferInterrupt
  BY <1>4, RoomElsewhere DEF Wait, ToggleInterrupt, CopyInterrupt, OfferInterrupt
<1>5. CASE FillReply
  <2>1. msg'.user = msg.user
    BY <1>5 DEF FillReply, ReplyInv, ReplyTypes, IsMessage
  <2> QED
    BY <1>5, <2>1, RoomElsewhere DEF FillReply
<1>6. CASE SetAddress \/ SetInterface \/ Acknowledge \/ GetDescriptor \/ GetStatus
  <2>1. /\ pc = "request" /\ pc' = "release" /\ UNCHANGED <<rx, hid>>
        /\ rx.req.kind # "HID_SET_REPORT"
    BY <1>6 DEF SetAddress, SetInterface, Acknowledge, GetDescriptor, GetStatus, Serves,
                StatusLength
  <2>2. host.stage # "dataOut" /\ ~OutWaits
    BY <2>1, ServesReport
  <2> QED
    BY <2>1, <2>2 DEF RoomInv, IsHid, SendingReport, Stores, OutWaits, hostVars
<1>7. CASE ClassRequest
  <2>1. /\ pc = "request" /\ pc' = "release" /\ UNCHANGED rx
        /\ rx.req.kind \in {"HID_GET_REPORT", "HID_SET_REPORT", "HID_SET_IDLE"}
        /\ hid' = FunctionSetup(hid, rx.req)
        /\ rx.req.kind = "HID_SET_REPORT" => msg'.user
    BY <1>7 DEF ClassRequest, Serves, FunctionSetupReturns, USB_NO_MSG
  <2>2. rx.token = "SETUP" /\ rx.req \in Requests
    BY <2>1, ServesReport DEF ReplyInv, ReplyTypes
  <2>3. IsHid(hid)
    BY DEF RoomInv
  <2>4. CASE rx.req.kind # "HID_SET_REPORT"
    <3>1. /\ IsHid(hid') /\ hid'.pos = hid.pos /\ hid'.bytesRemaining = hid.bytesRemaining
      BY <2>1, <2>3, <2>4 DEF FunctionSetup, IsHid
    <3>2. host.stage # "dataOut" /\ ~OutWaits
      BY <2>1, <2>4, ServesReport
    <3> QED
      BY <2>1, <2>2, <3>1, <3>2 DEF RoomInv, SendingReport, Stores, OutWaits, hostVars
  <2>5. CASE rx.req.kind = "HID_SET_REPORT"
    <3> DEFINE left == Min({rx.req.length % 256, SIZE})
    <3>0. rx.req.length = Len(rx.req.data) /\ rx.req.length <= SIZE /\ rx.req.data \in Seq(Nat)
      BY <2>2, <2>5, ReportsAssumption DEF SIZE
    <3>1. /\ rx.req.length \in Nat /\ rx.req.length \in 0..255
          /\ SIZE \in Nat /\ rx.req.length <= SIZE
      <4>1. SIZE \in Nat /\ SIZE <= 255
        BY InBufferAssumption DEF SIZE
      <4>2. rx.req.length \in Nat /\ rx.req.length <= SIZE
        BY <3>0
      <4> QED
        BY <4>1, <4>2
    <3>2. left = rx.req.length
      <4>1. rx.req.length % 256 = rx.req.length
        BY <3>1, LowByte
      <4>2. Min({rx.req.length, SIZE}) = rx.req.length
        BY <3>1, MinOfTwo
      <4> QED
        BY <4>1, <4>2
    <3>3. hid' = [hid EXCEPT !.reportId = rx.req.value, !.pos = 1, !.bytesRemaining = left]
      BY <2>1, <2>3, <2>5 DEF FunctionSetup, SIZE, IsHid
    <3> HIDE DEF left
    <3>4. /\ IsHid(hid') /\ hid'.pos = 1 /\ hid'.bytesRemaining = rx.req.length
          /\ hid'.reportId = rx.req.value
      <4>1. /\ hid' = [received |-> hid'.received, inBuffer |-> hid'.inBuffer,
                       reportId |-> hid'.reportId, bytesRemaining |-> hid'.bytesRemaining,
                       pos |-> hid'.pos]
            /\ hid'.received = hid.received /\ hid'.inBuffer = hid.inBuffer
            /\ hid'.pos = 1 /\ hid'.bytesRemaining = left /\ hid'.reportId = rx.req.value
        BY <2>3, <3>3 DEF IsHid
      <4> QED
        BY <2>3, <3>1, <3>2, <4>1 DEF IsHid
    <3>5. ~Stores' /\ Left' = hid'.bytesRemaining
      BY <2>1, <2>2, <3>1, <3>4 DEF Stores, OutWaits, Left
    <3>6. host.stage = "dataOut" =>
              /\ Left' = Len(host.req.data) - host.off
              /\ hid'.reportId = host.req.value
      BY <2>1, <3>0, <3>1, <3>4, <3>5, ServesReport
    <3> QED
      BY <2>1, <2>2, <2>5, <3>1, <3>4, <3>5, <3>6 DEF RoomInv, SendingReport, hostVars
  <2> QED
    BY <2>4, <2>5
<1>8. CASE ReportData
  <2>1. /\ pc = "data" /\ pc' = "release" /\ UNCHANGED rx
        /\ msg.user => hid' = FunctionWrite(hid, rx.data)
        /\ ~msg.user => hid' = hid
        /\ msg' = msg \/ msg' = [msg EXCEPT !.len = 0]
    BY <1>8 DEF ReportData
  <2>2. /\ rx.token = "OUT" /\ rx.data \in Seq(Nat) /\ Len(rx.data) \in 1..PacketSize
        /\ msg'.user = msg.user /\ IsHid(hid) /\ OutWaits /\ ~Stores'
    BY <2>1 DEF ReplyInv, ReplyTypes, IsMessage, Progress, Processing, Busy, RoomInv, OutWaits,
                Stores
  <2>3. CASE ~Stores
    <3>1. hid' = hid
      BY <2>1, <2>2, <2>3 DEF Stores, FunctionWrite
    <3>2. IsHid(hid') /\ Left' = Left
      BY <2>2, <2>3, <3>1 DEF IsHid, Left
    <3> QED
      BY <2>1, <2>2, <3>1, <3>2 DEF RoomInv, SendingReport, Served, hostVars
  <2>4. CASE Stores
    <3>1. /\ hid.reportId = 0 /\ hid' = FunctionWrite(hid, rx.data)
          /\ Len(rx.data) <= hid.bytesRemaining
      BY <2>1, <2>4 DEF Stores, RoomInv
    <3>2. /\ IsHid(hid') /\ hid'.reportId = 0
          /\ hid'.bytesRemaining = hid.bytesRemaining - Len(rx.data)
          /\ hid'.pos = hid.pos + Len(WithoutZeros(rx.data))
                        + (IF Len(rx.data) = hid.bytesRemaining THEN 1 ELSE 0)
      BY <2>2, <3>1, WriteIs
    <3>3. Len(WithoutZeros(rx.data)) \in Nat /\ Len(WithoutZeros(rx.data)) <= Len(rx.data)
      BY <2>2, WithoutZerosType
    <3>4. /\ hid.pos \in Nat /\ hid.bytesRemaining \in Nat /\ Len(rx.data) \in Nat
          /\ hid.pos + hid.bytesRemaining <= SIZE + 1 /\ hid.bytesRemaining <= SIZE
          /\ SIZE \in Nat
      <4>1. hid.pos \in Nat /\ hid.bytesRemaining \in Nat
        BY <2>2 DEF IsHid
      <4>2. Len(rx.data) \in Nat /\ hid.bytesRemaining > 0
        BY <2>2, <3>1, <4>1
      <4> QED
        BY <4>1, <4>2, InBufferAssumption DEF RoomInv, SIZE
    <3>5. /\ hid'.pos <= SIZE + 2 /\ hid'.bytesRemaining <= SIZE
          /\ hid'.bytesRemaining > 0 => hid'.pos + hid'.bytesRemaining <= SIZE + 1
      BY <3>1, <3>2, <3>3, <3>4
    <3>6. Left' = Left
      BY <2>2, <2>4, <3>2, <3>4 DEF Left
    <3> QED
      BY <2>1, <2>2, <3>1, <3>2, <3>5, <3>6 DEF RoomInv, SendingReport, Served, hostVars
  <2> QED
    BY <2>3, <2>4
<1>9. CASE Release
  BY <1>9 DEF Release, RoomInv, IsHid, SendingReport, Served, Stores, OutWaits, Left, Free,
              hostVars
<1> QED
  BY <1>1, <1>2, <1>3, <1>4, <1>5, <1>6, <1>7, <1>8, <1>9 DEF Program, Poll

\* A step of the host that brings no packet and asks for nothing.
LEMMA RoomUnasked ==
    ASSUME RoomInv, UNCHANGED <<pc, rx, hid, msg>>, host' = host \/ host'.stage # "dataOut"
    PROVE  RoomInv'
  BY DEF RoomInv, IsHid, SendingReport, Served, Stores, OutWaits, Left

\* The packet that the host sends now fits in what is left of the report.
LEMMA NextDataIs ==
    ASSUME ReplyInv, host.off < Len(host.req.data)
    PROVE  LET n == Len(host.req.data)
           IN /\ NextData \in Seq(Nat) /\ Len(NextData) \in 1..PacketSize
              /\ Len(NextData) <= n - host.off
              /\ Len(NextData) = n - host.off <=> host.off + PacketSize >= n
              /\ Len(NextData) # n - host.off => Len(NextData) = PacketSize
<1> DEFINE n == Len(host.req.data)
           end == Min({host.off + PacketSize, n})
<1>1. /\ host.req.data \in Seq(Nat) /\ n \in Nat /\ host.off \in Nat
      /\ PacketSize \in Nat /\ PacketSize > 0
  BY RequestFacts, PacketAssumption
<1>2. host.off + PacketSize \in Nat
  BY <1>1
<1>3. end = IF host.off + PacketSize <= n THEN host.off + PacketSize ELSE n
  BY <1>1, <1>2, MinOfTwo
<1> HIDE DEF end
<1>4. NextData = SubSeq(host.req.data, host.off + 1, end)
  BY DEF NextData, end
<1>5. end \in Nat /\ end <= n /\ host.off + 1 <= end
  BY <1>1, <1>3
<1>6. \A i \in (host.off + 1)..end : host.req.data[i] \in Nat
  BY <1>1, <1>5, SMTT(30)
<1>7. NextData \in Seq(Nat) /\ Len(NextData) = end - host.off
  <2>1. host.off + 1 \in Int /\ end \in Int
    BY <1>1, <1>5
  <2>2. /\ NextData \in Seq(Nat)
        /\ Len(NextData) = IF host.off + 1 <= end THEN end - (host.off + 1) + 1 ELSE 0
    BY <1>4, <1>6, <2>1, SubSeqProperties
  <2> QED
    BY <1>1, <1>5, <2>2
<1> DEFINE len == Len(NextData)
<1>8. n \in Nat /\ host.off \in Nat /\ PacketSize \in Nat /\ host.off < n /\ PacketSize > 0
  BY <1>1
<1> HIDE DEF n, len
<1>9. CASE host.off + PacketSize <= n
  <2>1. len = PacketSize
    BY <1>3, <1>7, <1>8, <1>9 DEF len
  <2>2. /\ len \in 1..PacketSize /\ len <= n - host.off
        /\ len = n - host.off <=> host.off + PacketSize >= n
    BY <1>8, <1>9, <2>1
  <2> QED
    BY <1>7, <2>1, <2>2 DEF n, len
<1>10. CASE ~(host.off + PacketSize <= n)
  <2>1. len = n - host.off
    BY <1>3, <1>7, <1>8, <1>10 DEF len
  <2>2. len \in 1..PacketSize /\ host.off + PacketSize >= n
    BY <1>8, <1>10, <2>1
  <2> QED
    BY <1>7, <1>8, <2>1, <2>2 DEF n, len
<1> QED
  BY <1>9, <1>10

LEMMA RoomByHost ==
    ASSUME ReplyInv, RoomInv, HostStep
    PROVE  RoomInv'
<1>0. IsHost(host) /\ (pc \in Processing => rx # Free)
  BY DEF ReplyInv, ReplyTypes, Progress, Busy
<1>1. CASE Begin \/ GiveUp \/ ResetBus \/ EndReset
  <2>1. host'.stage # "dataOut" /\ UNCHANGED <<pc, rx, hid, msg>>
    BY <1>0, <1>1 DEF IsHost, Begin, GiveUp, ResetBus, EndReset, Ended, driverVars
  <2> QED
    BY <2>1, RoomUnasked
<1>2. CASE ReadData \/ ReadStatus \/ SendStatus
  <2>1. host'.stage # "dataOut"
    BY <1>0, <1>2 DEF IsHost, ReadData, ReadStatus, SendStatus, Ended
  <2>2. UNCHANGED <<pc, rx, hid, msg>>
    BY <1>2 DEF ReadData, ReadStatus, SendStatus, SendReply, AcceptEmpty, driverVars
  <2> QED
    BY <2>1, <2>2, RoomUnasked
<1>3. CASE PollInterrupt \/ Refused
  BY <1>3, RoomUnasked
  DEF PollInterrupt, SendInterrupt, Refused, Refuse, driverVars, hostVars
<1>4. CASE SendSetup
  <2>1. /\ host.stage = "setup" /\ rx = Free /\ rx' = [token |-> "SETUP", req |-> host.req]
        /\ UNCHANGED <<pc, hid, msg>>
    BY <1>4 DEF SendSetup, Accept, Busy
  <2>2. /\ host'.off = host.off /\ host'.req = host.req
        /\ host'.stage = "dataOut" => host.req.data # <<>>
    BY <1>0, <1>4 DEF SendSetup, IsHost
  <2>3. host.off = 0
    BY <2>1 DEF ReplyInv, StageFits
  <2>4. host'.stage = "dataOut" => host'.off < Len(host'.req.data)
    BY <2>2, <2>3, RequestFacts, EmptySeq
  <2>5. pc # "release" /\ ~SendingReport'
    BY <1>0, <2>1 DEF SendingReport, Served, Processing
  <2> QED
    BY <2>1, <2>4, <2>5 DEF RoomInv, IsHid, Stores, OutWaits
<1>5. CASE SendData
  <2> DEFINE n == Len(host.req.data)
  <2>1. /\ host.stage = "dataOut" /\ rx = Free /\ rx' = [token |-> "OUT", data |-> NextData]
        /\ UNCHANGED <<pc, hid, msg>>
    BY <1>5 DEF SendData, Accept, Busy
  <2>2. /\ host'.off = host.off + PacketSize /\ host'.req = host.req
        /\ host'.stage = IF host.off + PacketSize >= n THEN "statusIn" ELSE "dataOut"
    BY <1>0, <1>5, <2>1 DEF SendData, IsHost
  <2>3. /\ NextData \in Seq(Nat) /\ Len(NextData) \in 1..PacketSize
        /\ Len(NextData) <= n - host.off
        /\ Len(NextData) = n - host.off <=> host.off + PacketSize >= n
        /\ Len(NextData) # n - host.off => Len(NextData) = PacketSize
    BY <2>1, NextDataIs DEF RoomInv
  <2>4. n \in Nat /\ host.off \in Nat /\ PacketSize \in Nat
    BY RequestFacts, PacketAssumption
  <2>5. host'.stage = "dataOut" => host'.off < Len(host'.req.data)
    BY <2>2, <2>4
  <2>6. /\ SendingReport /\ Left = hid.bytesRemaining
        /\ msg.user /\ hid.reportId = host.req.value
        /\ host.req.value = 0 => hid.bytesRemaining = n - host.off
    <3>1. SendingReport
      BY <2>1 DEF SendingReport, Served, Free
    <3>2. Left = hid.bytesRemaining
      BY <2>1 DEF Left, Stores, OutWaits, Free, RoomInv, IsHid
    <3> QED
      BY <3>1, <3>2 DEF RoomInv
  <2>7. Stores' <=> hid.reportId = 0
    <3>1. pc # "release"
      BY <1>0, <2>1 DEF Processing
    <3> QED
      BY <2>1, <2>6, <3>1 DEF Stores, OutWaits
  <2>8. Stores' => Len(rx'.data) <= hid'.bytesRemaining
    BY <2>1, <2>3, <2>6, <2>7
  <2>9. host'.stage = "dataOut" /\ host.req.value = 0 => Left' = n - host'.off
    <3> SUFFICES ASSUME host'.stage = "dataOut", host.req.value = 0
                 PROVE  Left' = n - host'.off
      OBVIOUS
    <3>1. Left' = hid.bytesRemaining - Len(NextData)
      BY <2>1, <2>6, <2>7 DEF Left
    <3>2. Len(NextData) = PacketSize
      BY <2>2, <2>3
    <3>3. host'.off = host.off + PacketSize
      BY <2>2
    <3> QED
      BY <2>4, <2>6, <3>1, <3>2, <3>3
  <2>10. /\ rx'.token = "OUT" /\ rx'.data \in Seq(Nat) /\ Len(rx'.data) \in 1..PacketSize
         /\ UNCHANGED hid
    BY <2>1, <2>3
  <2> QED
    BY <2>1, <2>2, <2>5, <2>6, <2>8, <2>9, <2>10 DEF RoomInv, IsHid, SendingReport
<1> QED
  BY <1>1, <1>2, <1>3, <1>4, <1>5 DEF HostStep, ControlTransfer

\* RoomInv is an invariant.
LEMMA RoomIsKept == Spec => []RoomInv
<1>1. Init => RoomInv
  BY InBufferAssumption
  DEF Init, Setup, Variables, HidInit, RoomInv, IsHid, SIZE, Cells, SendingReport, Stores,
      OutWaits, Free
<1>2. ReplyInv /\ RoomInv /\ [Next]_vars => RoomInv'
  <2> SUFFICES ASSUME ReplyInv, RoomInv, [Next]_vars PROVE RoomInv'
    OBVIOUS
  <2>1. CASE Program /\ UNCHANGED hostVars
    BY <2>1, RoomByProgram
  <2>2. CASE HostStep
    BY <2>2, RoomByHost
  <2>3. CASE UNCHANGED vars
    BY <2>3, RoomUnasked DEF vars, driverVars, hostVars
  <2> QED
    BY <2>1, <2>2, <2>3, Steps
<1> QED
  BY <1>1, <1>2, RepliesStayFresh, PTL DEF Spec

-----------------------------------------------------------------------------
(* Types.                                                                  *)

\* HIDSerial::write runs while it has pieces to send, and usbPoll returns to
\* it only then.
WriterInv ==
    /\ pc \in Processing \cup
             {"loop", "poll", "transmit", "fill", "arm", "sense", "forget", "forgetOld",
              "run", "write", "toggle", "copy", "offer"}
    /\ ret \in {"run", "write"} /\ toWrite \in Nat
    /\ pc \in {"write", "toggle", "copy", "offer"} => toWrite > 0
    /\ ret = "write" /\ pc # "loop" => toWrite > 0
    /\ offered \in Chunk /\ tx1Data \in Chunk
    /\ tx1Len \in {"NAK", "DATA"} /\ tx1Pid \in Toggles
    /\ host.stage \in Transferring \cup {"idle", "off"} /\ reset \in ResetStates

\* A packet of a reply has no more bytes than it has room for.
SizesInv ==
    /\ txBuf.pid \in {"none", "DATA0", "DATA1"} /\ txBuf.len <= PacketSize
    /\ msg.len <= USB_NO_MSG /\ msg.user \in BOOLEAN

LEMMA PiecesType == \A n \in FrameSizes : Pieces(n) \in Nat /\ Pieces(n) > 0
<1>1. \A n, p \in Nat : p > 0 => n \div p \in Nat
  OBVIOUS
<1> QED
  BY <1>1, FrameSizesAssumption, PacketAssumption DEF Pieces

LEMMA WriterElsewhere ==
    ASSUME WriterInv, UNCHANGED <<ret, toWrite, offered, tx1Len, tx1Data, hostVars>>,
           tx1Pid' \in Toggles, reset' \in ResetStates,
           pc' \in Processing \cup {"transmit", "fill", "arm", "sense", "forget", "forgetOld"},
           pc # "loop"
    PROVE  WriterInv'
  BY DEF WriterInv, hostVars, Processing

LEMMA WriterByProgram ==
    ASSUME WriterInv, Program, UNCHANGED hostVars
    PROVE  WriterInv'
<1>0. \A c \in Chunk : (c + 1) % Chunks \in Chunk
  BY ChunkSuccessor
<1> USE DEF Processing, Toggles, ResetStates
<1>1. CASE PollReceived \/ RestartToggle \/ CancelReply
  BY <1>1, WriterElsewhere DEF PollReceived, RestartToggle, CancelReply, WriterInv
<1>2. CASE SetAddress \/ SetInterface \/ Acknowledge \/ GetDescriptor \/ GetStatus
             \/ ClassRequest
  BY <1>2, WriterElsewhere
  DEF SetAddress, SetInterface, Acknowledge, GetDescriptor, GetStatus, ClassRequest, Serves,
      WriterInv
<1>3. CASE ReportData \/ Release \/ PollTransmit \/ FillReply \/ ArmReply \/ ForgetNewAddress
  BY <1>3, WriterElsewhere
  DEF ReportData, Release, PollTransmit, FillReply, ArmReply, ForgetNewAddress, WriterInv
<1> USE DEF WriterInv, hostVars
<1>4. CASE LoopStart
  BY <1>4 DEF LoopStart
<1>5. CASE Sense \/ ForgetAddress
  BY <1>5 DEF Sense, ForgetAddress
<1>6. CASE RunQuiet
  BY <1>6 DEF RunQuiet
<1>7. CASE RunReceives
  BY <1>7, PiecesType DEF RunReceives
<1>8. CASE Wait
  BY <1>8 DEF Wait
<1>9. CASE ToggleInterrupt
  BY <1>9 DEF ToggleInterrupt, Toggled
<1>10. CASE CopyInterrupt
  BY <1>0, <1>10 DEF CopyInterrupt, NextChunk
<1>11. CASE OfferInterrupt
  BY <1>0, <1>11 DEF OfferInterrupt, NextChunk
<1> QED
  BY <1>1, <1>2, <1>3, <1>4, <1>5, <1>6, <1>7, <1>8, <1>9, <1>10, <1>11 DEF Program, Poll

LEMMA WriterByHost ==
    ASSUME ReplyInv, WriterInv, HostStep
    PROVE  WriterInv'
<1>0. IsHost(host)
  BY DEF ReplyInv, ReplyTypes
<1>1. UNCHANGED <<pc, ret, toWrite, offered, tx1Pid, tx1Data>>
      /\ (tx1Len' = tx1Len \/ tx1Len' = "NAK")
  BY HostReceives
<1>2. host'.stage \in Transferring \cup {"idle", "off"} /\ reset' \in ResetStates
  <2> USE DEF IsHost, Ended, Transferring, ResetStates, WriterInv, driverVars, hostVars
  <2>1. CASE Begin \/ SendSetup \/ SendData
    BY <1>0, <2>1 DEF Begin, SendSetup, SendData, Accept
  <2>2. CASE ReadData \/ ReadStatus \/ SendStatus
    BY <1>0, <2>2 DEF ReadData, ReadStatus, SendStatus, SendReply, AcceptEmpty
  <2>3. CASE PollInterrupt \/ Refused
    BY <1>0, <2>3 DEF PollInterrupt, SendInterrupt, Refused, Refuse
  <2>4. CASE GiveUp \/ ResetBus \/ EndReset
    BY <1>0, <2>4 DEF GiveUp, ResetBus, EndReset
  <2> QED
    BY <2>1, <2>2, <2>3, <2>4 DEF HostStep, ControlTransfer
<1> QED
  BY <1>1, <1>2 DEF WriterInv

\* A reply has no more bytes than a descriptor or the host asks for.
LEMMA ReplySize ==
    ASSUME NEW len \in 0..(USB_NO_MSG - 1), NEW req \in Requests, Reply(len, req)
    PROVE  msg'.len \in Nat /\ msg'.len <= USB_NO_MSG /\ msg'.user \in BOOLEAN
<1>1. req.length \in Nat
  BY RequestsAssumption
<1>2. Limited(len, req) \in Nat /\ Limited(len, req) <= USB_NO_MSG
  BY <1>1 DEF Limited, USB_NO_MSG
<1> QED
  BY <1>2 DEF Reply

LEMMA SizesByProgram ==
    ASSUME ReplyInv, SizesInv, Program
    PROVE  SizesInv'
<1>0. /\ IsMessage(msg) /\ IsPacket(txBuf) /\ PacketSize \in Nat
      /\ msg.len \in Nat /\ txBuf.len \in Nat
  BY PacketAssumption DEF ReplyInv, ReplyTypes
<1>1. CASE SetAddress \/ SetInterface \/ Acknowledge \/ GetDescriptor \/ GetStatus
             \/ ClassRequest
  <2>1. pc = "request" /\ txBuf' = txBuf
    BY <1>1
    DEF SetAddress, SetInterface, Acknowledge, GetDescriptor, GetStatus, ClassRequest, Serves
  <2>2. rx.req \in Requests /\ rx.req.length \in Nat
    BY <2>1, RequestsAssumption DEF ReplyInv, ReplyTypes, Progress
  <2>3. CASE SetAddress \/ SetInterface \/ Acknowledge
    BY <2>1, <2>2, <2>3, ReplySize
    DEF SetAddress, SetInterface, Acknowledge, SizesInv, USB_NO_MSG
  <2>4. CASE GetDescriptor
    <3>1. PICK n \in 0..(USB_NO_MSG - 1) : Reply(n, rx.req)
      BY <2>4, DescriptorAssumption DEF GetDescriptor, USB_NO_MSG
    <3> QED
      BY <2>1, <2>2, <3>1, ReplySize DEF SizesInv
  <2>5. CASE GetStatus
    <3>1. PICK n \in {1, 2} : Reply(n, rx.req)
      BY <2>5 DEF GetStatus, Serves, StatusLength
    <3>2. n \in 0..(USB_NO_MSG - 1)
      BY DEF USB_NO_MSG
    <3> QED
      BY <2>1, <2>2, <3>1, <3>2, ReplySize DEF SizesInv
  <2>6. CASE ClassRequest
    <3>1. CASE Reply(0, rx.req)
      BY <2>1, <2>2, <3>1, ReplySize DEF SizesInv, USB_NO_MSG
    <3>2. CASE msg' = [len |-> IF rx.req.kind = "HID_GET_REPORT"
                               THEN rx.req.length % 256 ELSE USB_NO_MSG,
                       req |-> rx.req, off |-> 0, user |-> TRUE]
      <4>1. rx.req.length % 256 \in 0..255
        BY <2>2
      <4>2. /\ msg'.len = rx.req.length % 256 \/ msg'.len = USB_NO_MSG
            /\ msg'.user \in BOOLEAN
        BY <3>2
      <4> QED
        BY <2>1, <4>1, <4>2 DEF SizesInv, USB_NO_MSG
    <3> QED
      BY <2>6, <3>1, <3>2 DEF ClassRequest, FunctionSetupReturns, USB_NO_MSG
  <2> QED
    BY <1>1, <2>3, <2>4, <2>5, <2>6
<1>2. CASE RestartToggle
  BY <1>0, <1>2 DEF RestartToggle, IsPacket, SizesInv
<1>3. CASE ReportData
  BY <1>0, <1>3 DEF ReportData, IsMessage, SizesInv, USB_NO_MSG
<1>4. CASE FillReply
  <2> DEFINE want == Min({msg.len, PacketSize})
             len == DeviceRead(want)
  <2>1. want \in Nat /\ want <= msg.len /\ want <= PacketSize
    BY <1>0, MinOfTwo
  <2>2. len \in Nat /\ len <= PacketSize
    BY <1>0, <2>1 DEF DeviceRead, FunctionRead
  <2>3. /\ txBuf' = [pid |-> Toggled(txBuf.pid), req |-> msg.req, off |-> msg.off, len |-> len]
        /\ \/ msg' = [len |-> USB_NO_MSG, req |-> NoRequest, off |-> 0, user |-> msg.user]
           \/ msg' = [msg EXCEPT !.len = @ - want, !.off = @ + len]
    BY <1>4 DEF FillReply
  <2> HIDE DEF want, len
  <2>4. txBuf'.pid \in Toggles /\ txBuf'.len <= PacketSize
    BY <2>2, <2>3 DEF Toggled, Toggles
  <2>5. msg'.user = msg.user /\ (msg'.len = USB_NO_MSG \/ msg'.len = msg.len - want)
    <3>1. CASE msg' = [len |-> USB_NO_MSG, req |-> NoRequest, off |-> 0, user |-> msg.user]
      BY <3>1
    <3>2. CASE msg' = [msg EXCEPT !.len = @ - want, !.off = @ + len]
      BY <1>0, <3>2 DEF IsMessage
    <3> QED
      BY <2>3, <3>1, <3>2
  <2> QED
    BY <1>0, <2>1, <2>4, <2>5 DEF SizesInv, USB_NO_MSG, Toggles
<1>5. CASE UNCHANGED <<txBuf, msg>>
  BY <1>5 DEF SizesInv
<1> QED
  BY <1>1, <1>2, <1>3, <1>4, <1>5
  DEF Program, Poll, LoopStart, PollReceived, CancelReply, Release, PollTransmit, ArmReply,
      Sense, ForgetNewAddress, ForgetAddress, RunQuiet, RunReceives, Wait, ToggleInterrupt,
      CopyInterrupt, OfferInterrupt

LEMMA SizesByHost ==
    ASSUME ReplyInv, SizesInv, HostStep
    PROVE  SizesInv'
<1>1. msg' = msg
  BY HostReceives
<1>2. txBuf' = txBuf \/ txBuf' = Sent(txBuf)
  BY DEF HostStep, ControlTransfer, Begin, SendSetup, SendData, Accept, ReadData, ReadStatus,
         SendReply, SendStatus, AcceptEmpty, PollInterrupt, SendInterrupt, Refused, Refuse,
         GiveUp, ResetBus, EndReset, driverVars
<1>3. IsPacket(txBuf) /\ PacketSize \in Nat
  BY PacketAssumption DEF ReplyInv, ReplyTypes
<1>4. txBuf'.pid = txBuf.pid /\ (txBuf'.len = txBuf.len \/ txBuf'.len = 0)
  BY <1>2, <1>3 DEF Sent, IsPacket
<1> QED
  BY <1>1, <1>3, <1>4 DEF SizesInv

\* The variables of the driver, of the HID serial port and of the host keep the
\* values they can have in the code: no reply is longer than a packet or a
\* message, and no report, whatever transfers were given up before it, runs
\* past its buffer and the byte that follows.
THEOREM UsbTypeCorrect == Spec => []TypeOK
<1> DEFINE TypeInv == WriterInv /\ SizesInv
<1>1. Init => TypeInv
  BY ChunksAssumption, PacketAssumption
  DEF Init, Setup, Variables, UsbInit, WriterInv, SizesInv, Chunk, Toggles, ResetStates,
      Transferring, Processing, USB_NO_MSG
<1>2. ReplyInv /\ TypeInv /\ [Next]_vars => TypeInv'
  <2> SUFFICES ASSUME ReplyInv, TypeInv, [Next]_vars PROVE TypeInv'
    OBVIOUS
  <2>1. CASE Program /\ UNCHANGED hostVars
    BY <2>1, WriterByProgram, SizesByProgram
  <2>2. CASE HostStep
    BY <2>2, WriterByHost, SizesByHost
  <2>3. CASE UNCHANGED vars
    BY <2>3 DEF vars, driverVars, hostVars, WriterInv, SizesInv
  <2> QED
    BY <2>1, <2>2, <2>3, Steps
<1>3. ReplyInv /\ RoomInv /\ TypeInv => TypeOK
  <2> SUFFICES ASSUME ReplyInv, RoomInv, TypeInv PROVE TypeOK
    OBVIOUS
  <2>1. /\ rx = Free \/ (rx.token = "SETUP" /\ rx.req \in Requests)
                     \/ (rx.token = "OUT" /\ Len(rx.data) \in 1..PacketSize)
        /\ txLen \in {"NAK", "DATA"} /\ txBuf.off \in Nat /\ msg.off \in Nat
    BY DEF ReplyInv, ReplyTypes, RoomInv
  <2>2. txBuf.len \in 0..PacketSize /\ msg.len \in 0..USB_NO_MSG
    BY PacketAssumption DEF ReplyInv, ReplyTypes, SizesInv, USB_NO_MSG
  <2>3. /\ hid.received \in BOOLEAN /\ hid.pos \in 1..(HIDSERIAL_INBUFFER_SIZE + 2)
        /\ hid.bytesRemaining \in 0..HIDSERIAL_INBUFFER_SIZE
    BY InBufferAssumption DEF RoomInv, IsHid, SIZE
  <2> QED
    BY <2>1, <2>2, <2>3 DEF TypeOK, WriterInv, SizesInv, Chunk, Toggles
<1> QED
  BY <1>1, <1>2, <1>3, RepliesStayFresh, RoomIsKept, PTL DEF Spec

-----------------------------------------------------------------------------
(* The report that waits for loop() is whole.                              *)

\* The port once the packet that waits has been stored.
Coming == IF Stores THEN FunctionWrite(hid, rx.data) ELSE hid

\* The bytes that the host has sent of its report.
SentBytes == WithoutZeros(SubSeq(host.req.data, 1, host.off))

\* What read() would take, now and after the packet that waits, is the last
\* report sent; before that, what the buffer holds of it is what was sent.
ContentInv ==
    /\ host.stage = "setup" /\ host.req.kind = "HID_SET_REPORT" => ~hid.received /\ rx = Free
    /\ host.stage = "dataOut" => ~Coming.received
    /\ Stores => ~hid.received
    /\ hid.received => Readable(hid) = WithoutZeros(hostReport.data)
    /\ Coming.received => Readable(Coming) = WithoutZeros(hostReport.data)
    /\ SendingReport /\ host.req.value = 0 => Holds(Coming, SentBytes)

\* A step that touches neither the port nor the packet that waits.
LEMMA ContentElsewhere ==
    ASSUME ContentInv, UNCHANGED <<rx, hid, hostVars>>, msg'.user = msg.user,
           pc # "release", pc' # "release"
    PROVE  ContentInv'
<1>1. UNCHANGED <<Stores, Coming, SendingReport, SentBytes>>
  BY DEF Stores, OutWaits, Coming, SendingReport, Served, SentBytes, hostVars
<1> QED
  BY <1>1 DEF ContentInv, Holds, hostVars

LEMMA SubSeqNone == ASSUME NEW s PROVE SubSeq(s, 1, 0) = <<>>
  BY SubSeqEmpty

LEMMA ContentByProgram ==
    ASSUME ReplyInv, RoomInv, ContentInv, Program, UNCHANGED hostVars
    PROVE  ContentInv'
<1>0. ret \in {"run", "write"} /\ IsHid(hid)
  BY DEF ReplyInv, ReplyTypes, RoomInv
<1>1. CASE LoopStart
  <2>1. /\ pc = "loop" /\ pc' = "poll" /\ UNCHANGED <<rx, msg>>
        /\ hid' = IF hid.received THEN Read(hid) ELSE hid
    BY <1>1 DEF LoopStart
  <2>2. CASE ~hid.received
    BY <2>1, <2>2, ContentElsewhere
  <2>3. CASE hid.received
    <3>1. ~hid'.received /\ hid'.reportId = hid.reportId
      BY <1>0, <2>1, <2>3 DEF IsHid, Read
    <3>2. ~Stores /\ Coming = hid
      BY <2>3 DEF ContentInv, Coming
    <3>3. ~Stores' /\ Coming' = hid'
      BY <2>1, <3>1, <3>2 DEF Stores, OutWaits, Coming
    <3>4. host.stage # "dataOut"
      BY <2>3, <3>2 DEF ContentInv
    <3> QED
      BY <2>1, <3>1, <3>3, <3>4 DEF ContentInv, SendingReport, hostVars
  <2> QED
    BY <2>2, <2>3
<1>2. CASE PollReceived \/ RestartToggle \/ CancelReply \/ PollTransmit \/ ArmReply
  BY <1>2, ContentElsewhere
  DEF PollReceived, RestartToggle, CancelReply, PollTransmit, ArmReply
<1>3. CASE Sense \/ ForgetNewAddress \/ ForgetAddress \/ RunQuiet \/ RunReceives
  BY <1>0, <1>3, ContentElsewhere
  DEF Sense, ForgetNewAddress, ForgetAddress, RunQuiet, RunReceives
<1>4. CASE Wait \/ ToggleInterrupt \/ CopyInterrupt \/ OfferInterrupt
  BY <1>4, ContentElsewhere DEF Wait, ToggleInterrupt, CopyInterrupt, OfferInterrupt
<1>5. CASE FillReply
  <2>1. msg'.user = msg.user
    BY <1>5 DEF FillReply, ReplyInv, ReplyTypes, IsMessage
  <2> QED
    BY <1>5, <2>1, ContentElsewhere DEF FillReply
<1>6. CASE SetAddress \/ SetInterface \/ Acknowledge \/ GetDescriptor \/ GetStatus
  <2>1. /\ pc = "request" /\ pc' = "release" /\ UNCHANGED <<rx, hid>>
        /\ rx.req.kind # "HID_SET_REPORT"
    BY <1>6 DEF SetAddress, SetInterface, Acknowledge, GetDescriptor, GetStatus, Serves,
                StatusLength
  <2>2. host.stage # "dataOut" /\ ~OutWaits
    BY <2>1, ServesReport
  <2>3. Coming = hid /\ Coming' = hid' /\ ~Stores'
    BY <2>1, <2>2 DEF Coming, Stores, OutWaits
  <2> QED
    BY <2>1, <2>2, <2>3 DEF ContentInv, SendingReport, hostVars
<1>7. CASE ClassRequest
  <2>1. /\ pc = "request" /\ pc' = "release" /\ UNCHANGED rx
        /\ hid' = FunctionSetup(hid, rx.req)
    BY <1>7 DEF ClassRequest, Serves
  <2>2. rx.token = "SETUP" /\ ~OutWaits
    BY <2>1, ServesReport
  <2>3. Coming = hid /\ Coming' = hid' /\ ~Stores /\ ~Stores'
    BY <2>1, <2>2 DEF Coming, Stores, OutWaits
  <2>4. /\ (hid'.received <=> hid.received) /\ hid'.inBuffer = hid.inBuffer
        /\ rx.req.kind = "HID_SET_REPORT" => hid'.pos = 1
    BY <1>0, <2>1 DEF IsHid, FunctionSetup
  <2>5. Readable(hid') = Readable(hid)
    BY <2>4 DEF Readable
  <2>6. host.stage = "dataOut" => Holds(hid', SentBytes)
    <3> SUFFICES ASSUME host.stage = "dataOut" PROVE Holds(hid', SentBytes)
      OBVIOUS
    <3>1. hid'.pos = 1 /\ host.off = 0
      BY <2>1, <2>4, ServesReport
    <3>2. SentBytes = <<>>
      BY <3>1, SubSeqNone, WithoutZerosEmpty DEF SentBytes
    <3>3. <<>> \in Bytes /\ Len(<<>>) = 0
      BY EmptySeq DEF Bytes
    <3> QED
      BY <3>1, <3>2, <3>3 DEF Holds
  <2>7. UNCHANGED SentBytes
    BY DEF SentBytes, hostVars
  <2> QED
    BY <2>1, <2>2, <2>3, <2>4, <2>5, <2>6, <2>7 DEF ContentInv, SendingReport, hostVars, Free
<1>8. CASE ReportData
  <2>1. /\ pc = "data" /\ pc' = "release" /\ UNCHANGED rx
        /\ msg.user => hid' = FunctionWrite(hid, rx.data)
        /\ ~msg.user => hid' = hid
    BY <1>8 DEF ReportData
  <2>2. OutWaits /\ ~Stores'
    BY <2>1
    DEF ReplyInv, ReplyTypes, Progress, Processing, Busy, RoomInv, OutWaits, Stores
  <2>3. hid' = Coming /\ Coming' = Coming
    BY <2>1, <2>2 DEF Coming, Stores, FunctionWrite
  <2>4. /\ UNCHANGED <<SentBytes, host, hostReport>> /\ (SendingReport' => SendingReport)
        /\ rx # Free
    BY <2>1, <2>2 DEF SentBytes, SendingReport, Served, OutWaits, hostVars, Free
  <2>5. Holds(Coming, SentBytes) => Holds(Coming', SentBytes')
    BY <2>3, <2>4
  <2> QED
    BY <2>1, <2>2, <2>3, <2>4, <2>5 DEF ContentInv
<1>9. CASE Release
  <2>1. pc = "release" /\ pc' = "transmit" /\ rx' = Free /\ UNCHANGED <<hid, msg>>
    BY <1>9 DEF Release
  <2>2. ~Stores /\ ~Stores' /\ Coming = hid /\ Coming' = hid
    BY <2>1 DEF Stores, OutWaits, Coming, Free
  <2>3. UNCHANGED <<SentBytes, host, hostReport>> /\ (SendingReport' => SendingReport)
    BY <2>1 DEF SentBytes, SendingReport, Served, hostVars
  <2> QED
    BY <2>1, <2>2, <2>3 DEF ContentInv
<1> QED
  BY <1>1, <1>2, <1>3, <1>4, <1>5, <1>6, <1>7, <1>8, <1>9 DEF Program, Poll

\* A step of the host that brings no packet and asks for nothing.
LEMMA ContentUnasked ==
    ASSUME ContentInv, UNCHANGED <<pc, rx, hid, msg, hostReport>>,
           \/ host' = host
           \/ host'.stage \notin {"setup", "dataOut"}
           \/ /\ host'.stage = "setup"
              /\ host'.req.kind = "HID_SET_REPORT" => ~hid.received /\ rx = Free
    PROVE  ContentInv'
<1>1. UNCHANGED <<Stores, Coming>>
  BY DEF Stores, OutWaits, Coming
<1>2. CASE host' = host
  BY <1>1, <1>2 DEF ContentInv, SendingReport, Served, SentBytes
<1>3. CASE host' # host
  BY <1>1, <1>3 DEF ContentInv, SendingReport
<1> QED
  BY <1>2, <1>3

LEMMA ContentByHost ==
    ASSUME HostPaced, ReplyInv, RoomInv, ContentInv, HostStep
    PROVE  ContentInv'
<1>0. IsHost(host) /\ (pc \in Processing => rx # Free)
  BY DEF ReplyInv, ReplyTypes, Progress, Busy
<1>1. CASE Begin
  <2>1. PICK req \in Requests :
           /\ req.kind = "HID_SET_REPORT" => ~hid.received /\ ~Busy
           /\ host' = [host EXCEPT !.stage = "setup", !.req = req]
    BY <1>1 DEF Begin
  <2>2. host'.stage = "setup" /\ host'.req = req
    BY <1>0, <2>1 DEF IsHost
  <2>3. UNCHANGED <<pc, rx, hid, msg, hostReport>>
    BY <1>1 DEF Begin, driverVars
  <2> QED
    BY <2>1, <2>2, <2>3, ContentUnasked DEF Busy
<1>2. CASE GiveUp \/ ResetBus \/ EndReset
  <2>1. host'.stage \in {"idle", "off"}
    BY <1>0, <1>2 DEF IsHost, GiveUp, ResetBus, EndReset, Ended
  <2>2. UNCHANGED <<pc, rx, hid, msg, hostReport>>
    BY <1>2 DEF GiveUp, ResetBus, EndReset, driverVars
  <2> QED
    BY <2>1, <2>2, ContentUnasked
<1>3. CASE ReadData \/ ReadStatus \/ SendStatus
  <2>1. host'.stage \notin {"setup", "dataOut"}
    BY <1>0, <1>3 DEF IsHost, ReadData, ReadStatus, SendStatus, Ended
  <2>2. UNCHANGED <<pc, rx, hid, msg, hostReport>>
    BY <1>3 DEF ReadData, ReadStatus, SendStatus, SendReply, AcceptEmpty, driverVars
  <2> QED
    BY <2>1, <2>2, ContentUnasked
<1>4. CASE PollInterrupt \/ Refused
  BY <1>4, ContentUnasked
  DEF PollInterrupt, SendInterrupt, Refused, Refuse, driverVars, hostVars
<1>5. CASE SendSetup
  <2>1. /\ host.stage = "setup" /\ rx = Free /\ rx' = [token |-> "SETUP", req |-> host.req]
        /\ UNCHANGED <<pc, hid, msg, hostReport>>
    BY <1>5 DEF SendSetup, Accept, Busy
  <2>2. /\ host'.stage # "setup" /\ host'.req = host.req
        /\ host'.stage = "dataOut" => host.req.data # <<>>
    BY <1>0, <1>5 DEF SendSetup, IsHost
  <2>3. host'.stage = "dataOut" => ~hid.received
    BY <2>1, <2>2, RequestFacts DEF ContentInv
  <2>4. pc # "release" /\ ~SendingReport' /\ ~Stores' /\ Coming = hid /\ Coming' = hid
    BY <1>0, <2>1 DEF SendingReport, Served, Processing, Stores, OutWaits, Coming, Free
  <2> QED
    BY <2>1, <2>2, <2>3, <2>4 DEF ContentInv
<1>6. CASE SendData
  <2> DEFINE D == host.req.data
             n == Len(D)
             last == host.off + PacketSize >= n
  <2>1. /\ host.stage = "dataOut" /\ rx = Free /\ rx' = [token |-> "OUT", data |-> NextData]
        /\ UNCHANGED <<pc, hid, msg>>
        /\ hostReport' = IF last /\ host.req.value = 0 THEN host.req ELSE hostReport
    BY <1>6 DEF SendData, Accept, Busy
  <2>2. /\ host'.off = host.off + PacketSize /\ host'.req = host.req
        /\ host'.stage = IF last THEN "statusIn" ELSE "dataOut"
    BY <1>0, <1>6, <2>1 DEF SendData, IsHost
  <2>3. pc # "release" /\ ~Stores /\ Coming = hid /\ SendingReport /\ ~hid.received
    <3>1. pc # "release" /\ ~Stores /\ Coming = hid /\ SendingReport
      BY <1>0, <2>1 DEF Processing, Stores, OutWaits, Coming, SendingReport, Served, Free
    <3> QED
      BY <2>1, <3>1 DEF ContentInv
  <2>4. hid.reportId = host.req.value /\ (Stores' <=> hid.reportId = 0)
    BY <2>1, <2>3 DEF RoomInv, Stores, OutWaits
  <2>5. CASE host.req.value # 0
    <3>1. Coming' = hid
      BY <2>1, <2>4, <2>5 DEF Coming
    <3> QED
      BY <2>1, <2>2, <2>3, <2>4, <2>5, <3>1 DEF ContentInv
  <2>6. CASE host.req.value = 0
    <3>1. /\ NextData \in Seq(Nat) /\ Len(NextData) \in 1..PacketSize
          /\ Len(NextData) <= n - host.off
          /\ Len(NextData) = n - host.off <=> last
          /\ Len(NextData) # n - host.off => Len(NextData) = PacketSize
      BY <2>1, NextDataIs DEF RoomInv
    <3>2. hid.bytesRemaining = n - host.off
      BY <2>3, <2>6 DEF RoomInv, Left, IsHid
    <3>3. /\ IsHid(hid) /\ hid.reportId = 0 /\ Holds(hid, SentBytes)
          /\ hid.pos + hid.bytesRemaining <= SIZE + 1
      BY <2>3, <2>4, <2>6, <3>1, <3>2, RequestFacts DEF ContentInv, RoomInv, IsHid
    <3> DEFINE r == FunctionWrite(hid, NextData)
               now == SentBytes \o WithoutZeros(NextData)
    <3>4. Coming' = r
      BY <2>1, <2>4, <2>6 DEF Coming
    <3>5. r.received <=> last
      BY <2>3, <3>1, <3>2, <3>3, WriteIs
    <3>6. (~last => Holds(r, now)) /\ (last => Readable(r) = now)
      BY <3>1, <3>2, <3>3, WriteContinues
    <3>7. now = WithoutZeros(SubSeq(D, 1, host.off + Len(NextData)))
      <4>1. /\ D \in Seq(Nat) /\ n \in Nat /\ host.off \in Nat /\ Len(NextData) \in Nat
            /\ host.off + Len(NextData) <= n
        BY <3>1, RequestFacts
      <4> DEFINE end == host.off + Len(NextData)
      <4>2. NextData = SubSeq(D, host.off + 1, end)
        <5>1. end = Min({host.off + PacketSize, n})
          <6>1. PacketSize \in Nat
            BY PacketAssumption
          <6>2. host.off + PacketSize \in Nat
            BY <4>1, <6>1
          <6>3. Min({host.off + PacketSize, n})
                  = IF host.off + PacketSize <= n THEN host.off + PacketSize ELSE n
            BY <4>1, <6>2, MinOfTwo
          <6> QED
            BY <3>1, <4>1, <6>1, <6>3, SMTT(30)
        <5> QED
          BY <5>1 DEF NextData
      <4>3. SubSeq(D, 1, host.off) \o SubSeq(D, host.off + 1, end) = SubSeq(D, 1, end)
        <5>1. 1 \in 1..(n + 1) /\ host.off \in (1 - 1)..n /\ end \in host.off..n
          BY <4>1
        <5> HIDE DEF end
        <5> QED
          BY <4>1, <5>1, ConcatAdjacentSubSeq
      <4>4. SubSeq(D, 1, host.off) \in Seq(Nat)
        BY <4>1, SMTT(30)
      <4> QED
        BY <3>1, <4>2, <4>3, <4>4, WithoutZerosConcat DEF SentBytes
    <3> HIDE DEF r, now
    <3>8. CASE last
      <4>1. host.off + Len(NextData) = n
        BY <3>1, <3>8, RequestFacts
      <4>2. SubSeq(D, 1, n) = D
        BY RequestFacts, SubSeqFull
      <4>3. hostReport'.data = D /\ now = WithoutZeros(D)
        BY <2>1, <2>6, <3>7, <3>8, <4>1, <4>2
      <4>4. host'.stage = "statusIn" /\ hid' = hid
        BY <2>1, <2>2, <3>8
      <4> QED
        BY <2>3, <3>4, <3>6, <3>8, <4>3, <4>4 DEF ContentInv, SendingReport
    <3>9. CASE ~last
      <4>1. /\ host'.off = host.off + Len(NextData) /\ host'.req = host.req
            /\ host'.stage = "dataOut"
        BY <2>2, <3>1, <3>9
      <4>2. SentBytes' = now
        BY <3>7, <4>1 DEF SentBytes
      <4>3. ~r.received /\ Holds(r, now)
        BY <3>5, <3>6, <3>9
      <4>4. hid' = hid
        BY <2>1
      <4> HIDE DEF last
      <4> QED
        BY <2>3, <3>4, <4>1, <4>2, <4>3, <4>4 DEF ContentInv
    <3> QED
      BY <3>8, <3>9
  <2> QED
    BY <2>5, <2>6
<1> QED
  BY <1>1, <1>2, <1>3, <1>4, <1>5, <1>6 DEF HostStep, ControlTransfer

\* With a host that sends a report only when the last one has been read, the
\* report that waits for loop() is the last one sent, whole and with nothing of
\* another, also after transfers that were given up half way.
THEOREM ReportsAreWhole ==
    ASSUME HostPaced
    PROVE  Spec => []ReportIsWhole
<1>1. Init => ContentInv
  BY DEF Init, Setup, Variables, HidInit, ContentInv, Coming, Stores, OutWaits, SendingReport,
         Free
<1>2. ReplyInv /\ RoomInv /\ ContentInv /\ [Next]_vars => ContentInv'
  <2> SUFFICES ASSUME ReplyInv, RoomInv, ContentInv, [Next]_vars PROVE ContentInv'
    OBVIOUS
  <2>1. CASE Program /\ UNCHANGED hostVars
    BY <2>1, ContentByProgram
  <2>2. CASE HostStep
    BY <2>2, ContentByHost
  <2>3. CASE UNCHANGED vars
    BY <2>3, ContentUnasked DEF vars, driverVars, hostVars
  <2> QED
    BY <2>1, <2>2, <2>3, Steps
<1>3. ContentInv => ReportIsWhole
  BY DEF ContentInv, ReportIsWhole
<1> QED
  BY <1>1, <1>2, <1>3, RepliesStayFresh, RoomIsKept, PTL DEF Spec
=============================================================================
