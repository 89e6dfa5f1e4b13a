-------------------------- MODULE DeviceLinkProofs --------------------------
(***************************************************************************)
(* Proofs about DeviceLink.                                                *)
(*                                                                         *)
(* What is in a stream is described by the place of every frame: p[k] is   *)
(* where frame k begins, counted from the next byte that is read (and so   *)
(* not above zero for the frames that were read).                          *)
(***************************************************************************)
EXTENDS DeviceLink, FiniteSets, SequenceTheorems, FiniteSetTheorems, TLAPS

-----------------------------------------------------------------------------
(* Lengths and bytes. *)

\* A byte that says it is half of a length is below Base.
SmallBytes == {b \in Bytes : b.is = "nibble" => b.value < Base}

\* The bytes of a body before its text.
Header(s) == IF s = "up" THEN 2 ELSE 1

Bodies(s) == {b \in Seq(SmallBytes) : Len(b) >= Header(s) /\ Len(b) - Header(s) < Base * Base}

Size(b) == PreambleLength + 2 + Len(b)

LEMMA SizeIsNat == \A b \in Seq(SmallBytes) : Size(b) \in Nat /\ PreambleLength + 2 + Len(b) = Size(b)
BY FramingAssumption DEF Size

\* The i-th byte of the frame with this body, as both sides send it.
FrameByte(s, b, i) ==
    IF i <= PreambleLength THEN Byte("preamble", i)
    ELSE IF i = PreambleLength + 1 THEN Byte("nibble", Low(Len(b) - Header(s)))
    ELSE IF i = PreambleLength + 2 THEN Byte("nibble", High(Len(b) - Header(s)))
    ELSE b[i - PreambleLength - 2]

\* A length below Base * Base survives being sent as two halves: what get_msg makes
\* of them is what send_msg has split (thread_server.c:846, tcp_client_v4.c:309).
THEOREM LengthSurvives ==
    ASSUME NEW n \in Nat, n < Base * Base
    PROVE  /\ Low(n) \in 0..(Base - 1) /\ High(n) \in 0..(Base - 1)
           /\ LengthOf(Low(n), High(n)) = n
<1> USE FramingAssumption
<1>1. Base \in Nat \ {0, 1}
  OBVIOUS
<1>2. n % Base \in 0..(Base - 1)
  BY <1>1
<1>3. n \div Base \in Nat /\ (n \div Base) * Base + (n % Base) = n
  BY <1>1
<1>4. n \div Base < Base
  BY <1>1
<1>5. (n \div Base) % Base = n \div Base
  BY <1>1, <1>3, <1>4
<1>6. n \div Base \in 0..(Base - 1)
  BY <1>1, <1>3, <1>4
<1> QED
  BY <1>2, <1>3, <1>5, <1>6 DEF Low, High, LengthOf

\* What two halves make is below Base * Base.
LEMMA LengthBounded ==
    ASSUME NEW lo \in Nat, NEW hi \in Nat, lo < Base, hi < Base
    PROVE  LengthOf(lo, hi) \in 0..(Base * Base - 1)
<1>1. Base \in Nat \ {0, 1}
  BY FramingAssumption
<1>2. hi * Base \in Nat /\ hi * Base + lo < Base * Base /\ Base * Base \in Nat
  BY <1>1
<1> QED
  BY <1>2 DEF LengthOf

LEMMA ByteType ==
    /\ \A k \in Kinds, v \in Nat : Byte(k, v).is = k /\ Byte(k, v).value = v
    /\ \A k \in Kinds, v \in Nat : (k # "nibble" \/ v < Base) => Byte(k, v) \in SmallBytes
BY DEF Byte, SmallBytes, Bytes

LEMMA FrameByteType ==
    ASSUME NEW s \in Streams, NEW b \in Bodies(s), NEW i \in 1..Size(b)
    PROVE  FrameByte(s, b, i) \in SmallBytes
<1>1. PreambleLength \in Nat /\ Len(b) \in Nat /\ Base \in Nat
  BY FramingAssumption DEF Bodies
<1>2. Len(b) - Header(s) \in Nat /\ Len(b) - Header(s) < Base * Base
  BY <1>1 DEF Bodies, Header
<1>3. Low(Len(b) - Header(s)) \in Nat /\ Low(Len(b) - Header(s)) < Base
  BY <1>1, <1>2, LengthSurvives
<1>4. High(Len(b) - Header(s)) \in Nat /\ High(Len(b) - Header(s)) < Base
  BY <1>1, <1>2, LengthSurvives
<1>5. CASE i <= PreambleLength
  BY <1>5, <1>1, ByteType DEF FrameByte, Kinds
<1>6. CASE i = PreambleLength + 1
  BY <1>6, <1>1, <1>3, ByteType DEF FrameByte, Kinds
<1>7. CASE i = PreambleLength + 2
  BY <1>7, <1>1, <1>4, ByteType DEF FrameByte, Kinds
<1>8. CASE i > PreambleLength + 2
  <2>1. i - PreambleLength - 2 \in 1..Len(b) /\ b \in Seq(SmallBytes)
    BY <1>8, <1>1 DEF Size, Bodies
  <2> QED
    BY <2>1, <1>8, <1>1 DEF FrameByte
<1> QED
  BY <1>1, <1>5, <1>6, <1>7, <1>8

-----------------------------------------------------------------------------
(* Where the frames lie in a stream. *)

\* The frames with the bodies bs lie one after the other, and st is the part of
\* them from the place 1 on that was sent.
Laid(s, bs, p, st) ==
    /\ p \in [1..(Len(bs) + 1) -> Int]
    /\ \A k \in 1..Len(bs) : p[k + 1] = p[k] + Size(bs[k])
    /\ \A j \in 1..(Len(bs) + 1), k \in 1..(Len(bs) + 1) : j <= k => p[j] <= p[k]
    /\ Len(st) <= p[Len(bs) + 1]
    /\ \A k \in 1..Len(bs), i \in 1..Len(st) :
          p[k] < i /\ i <= p[k + 1] => st[i] = FrameByte(s, bs[k], i - p[k])

Shifted(p, n) == [k \in DOMAIN p |-> p[k] - n]

\* Reading n bytes moves every frame by n places.
LEMMA LaidAfterReading ==
    ASSUME NEW s, NEW bs \in Seq(Seq(SmallBytes)), NEW p, NEW st \in Seq(SmallBytes), Laid(s, bs, p, st),
           NEW n \in 0..Len(st)
    PROVE  Laid(s, bs, Shifted(p, n), SubSeq(st, n + 1, Len(st)))
<1> DEFINE q == Shifted(p, n)
           su == SubSeq(st, n + 1, Len(st))
<1> USE DEF Laid
<1>1. Len(bs) \in Nat /\ Len(st) \in Nat /\ PreambleLength \in Nat /\ n \in Nat
  BY FramingAssumption
<1>2. Len(su) = Len(st) - n /\ \A i \in 1..Len(su) : su[i] = st[i + n]
  <2>1. \A i \in (n + 1)..Len(st) : st[i] \in SmallBytes
    BY <1>1
  <2>2. /\ Len(su) = IF n + 1 <= Len(st) THEN Len(st) - (n + 1) + 1 ELSE 0
        /\ \A i \in 1..(Len(st) - (n + 1) + 1) : su[i] = st[(n + 1) + i - 1]
    BY <2>1, <1>1, SubSeqProperties
  <2>3. Len(su) = Len(st) - n
    BY <2>2, <1>1
  <2> QED
    BY <2>2, <2>3, <1>1
<1>3. \A k \in 1..(Len(bs) + 1) : p[k] \in Int
  OBVIOUS
<1>4. q \in [1..(Len(bs) + 1) -> Int] /\ \A k \in 1..(Len(bs) + 1) : q[k] = p[k] - n
  BY <1>1 DEF Shifted
<1> HIDE DEF q, su
<1>5. ASSUME NEW k \in 1..Len(bs)
      PROVE  q[k + 1] = q[k] + Size(bs[k])
  <2>1. Size(bs[k]) \in Int /\ k + 1 \in 1..(Len(bs) + 1) /\ k \in 1..(Len(bs) + 1)
    BY <1>1 DEF Size
  <2>2. p[k] \in Int /\ q[k + 1] = p[k + 1] - n /\ q[k] = p[k] - n
    BY <2>1, <1>3, <1>4
  <2> QED
    BY <2>1, <2>2, <1>1
<1>6. ASSUME NEW j \in 1..(Len(bs) + 1), NEW k \in 1..(Len(bs) + 1), j <= k
      PROVE  q[j] <= q[k]
  <2>1. p[j] \in Int /\ p[k] \in Int /\ q[j] = p[j] - n /\ q[k] = p[k] - n
    BY <1>3, <1>4
  <2> QED
    BY <2>1, <1>1, <1>6
<1>7. Len(su) <= q[Len(bs) + 1]
  <2>1. Len(bs) + 1 \in 1..(Len(bs) + 1)
    BY <1>1
  <2>2. p[Len(bs) + 1] \in Int /\ q[Len(bs) + 1] = p[Len(bs) + 1] - n
    BY <2>1, <1>3, <1>4
  <2> QED
    BY <2>2, <1>1, <1>2
<1>8. ASSUME NEW k \in 1..Len(bs), NEW i \in 1..Len(su), q[k] < i, i <= q[k + 1]
      PROVE  su[i] = FrameByte(s, bs[k], i - q[k])
  <2>1. k \in 1..(Len(bs) + 1) /\ k + 1 \in 1..(Len(bs) + 1) /\ i + n \in 1..Len(st) /\ i \in Int
    BY <1>1, <1>2
  <2>2. /\ p[k] \in Int /\ p[k + 1] \in Int
        /\ q[k + 1] = p[k + 1] - n /\ q[k] = p[k] - n
    BY <2>1, <1>3, <1>4
  <2>3. p[k] < i + n /\ i + n <= p[k + 1] /\ (i + n) - p[k] = i - q[k]
    BY <2>1, <2>2, <1>1, <1>8
  <2>4. st[i + n] = FrameByte(s, bs[k], (i + n) - p[k])
    BY <2>1, <2>3
  <2> QED
    BY <2>3, <2>4, <1>2
<1>9. Laid(s, bs, q, su)
  BY <1>4, <1>5, <1>6, <1>7, <1>8 DEF Laid
<1> QED
  BY <1>9 DEF q, su


\* The next bytes of the last frame may be sent.
LEMMA LaidAfterSending ==
    ASSUME NEW s, NEW bs \in Seq(Seq(SmallBytes)), NEW p, NEW st \in Seq(SmallBytes), Laid(s, bs, p, st),
           NEW c \in Seq(SmallBytes),
           bs # <<>>, p[Len(bs)] <= Len(st), Len(st) + Len(c) <= p[Len(bs) + 1],
           \A j \in 1..Len(c) : c[j] = FrameByte(s, bs[Len(bs)], Len(st) - p[Len(bs)] + j)
    PROVE  Laid(s, bs, p, st \o c)
<1> DEFINE su == st \o c
           last == Len(bs)
<1> USE DEF Laid
<1>1. last \in Nat \ {0} /\ Len(st) \in Nat /\ Len(c) \in Nat
  OBVIOUS
<1>2. \A k \in 1..(last + 1) : p[k] \in Int
  OBVIOUS
<1>3. /\ Len(su) = Len(st) + Len(c)
      /\ \A i \in 1..(Len(st) + Len(c)) : su[i] = IF i <= Len(st) THEN st[i] ELSE c[i - Len(st)]
  BY ConcatProperties
<1> HIDE DEF su
<1>4. ASSUME NEW k \in 1..last, NEW i \in 1..Len(su), p[k] < i, i <= p[k + 1]
      PROVE  su[i] = FrameByte(s, bs[k], i - p[k])
  <2>1. k \in 1..(last + 1) /\ k + 1 \in 1..(last + 1) /\ last \in 1..(last + 1) /\ i \in Int
    BY <1>1, <1>3
  <2>2. p[k] \in Int /\ p[k + 1] \in Int /\ p[last] \in Int
    BY <2>1, <1>2
  <2>3. CASE i <= Len(st)
    <3>1. i \in 1..Len(st) /\ i \in 1..(Len(st) + Len(c))
      BY <2>3, <1>1, <1>3
    <3>2. st[i] = FrameByte(s, bs[k], i - p[k])
      BY <3>1, <1>4
    <3> QED
      BY <3>1, <3>2, <2>3, <1>3
  <2>4. CASE i > Len(st)
    <3>1. k = last
      <4>1. ~(k + 1 <= last)
        <5>1. ~(p[k + 1] <= p[last])
          BY <2>2, <2>4, <1>1, <1>4, <2>1
        <5> QED
          BY <5>1, <2>1
      <4> QED
        BY <4>1, <1>1, <2>1
    <3>2. i - Len(st) \in 1..Len(c) /\ Len(st) - p[last] + (i - Len(st)) = i - p[last]
      BY <2>1, <2>2, <2>4, <1>1, <1>3
    <3>3. c[i - Len(st)] = FrameByte(s, bs[last], i - p[last])
      BY <3>2
    <3>4. su[i] = c[i - Len(st)]
      BY <2>1, <2>4, <1>1, <1>3
    <3> QED
      BY <3>1, <3>3, <3>4
  <2> QED
    BY <2>1, <2>3, <2>4, <1>1
<1>5. Len(su) <= p[last + 1]
  BY <1>3
<1>6. Laid(s, bs, p, su)
  BY <1>4, <1>5 DEF Laid
<1> QED
  BY <1>6 DEF su

\* p with one frame more, of the size z.
WithNext(p, n, z) == [k \in 1..(n + 2) |-> IF k = n + 2 THEN p[n + 1] + z ELSE p[k]]

\* When everything was sent the next frame begins at the end.
LEMMA LaidAfterBegin ==
    ASSUME NEW s, NEW bs \in Seq(Seq(SmallBytes)), NEW p, NEW st \in Seq(SmallBytes), Laid(s, bs, p, st),
           Len(st) = p[Len(bs) + 1], NEW b \in Seq(SmallBytes)
    PROVE  Laid(s, Append(bs, b), WithNext(p, Len(bs), Size(b)), st)
<1> DEFINE n == Len(bs)
           q == WithNext(p, n, Size(b))
           cs == Append(bs, b)
<1> USE DEF Laid
<1>1. n \in Nat /\ Len(st) \in Nat /\ Size(b) \in Nat \ {0}
  BY FramingAssumption DEF Size
<1>2. \A k \in 1..(n + 1) : p[k] \in Int
  OBVIOUS
<1>3. Len(cs) = n + 1 /\ cs[n + 1] = b /\ \A k \in 1..n : cs[k] = bs[k]
  BY AppendProperties
<1>4. /\ q \in [1..(n + 2) -> Int]
      /\ q[n + 2] = p[n + 1] + Size(b)
      /\ \A k \in 1..(n + 1) : q[k] = p[k]
  <2>1. \A k \in 1..(n + 1) : k \in 1..(n + 2) /\ k # n + 2
    BY <1>1
  <2>2. n + 2 \in 1..(n + 2) /\ n + 1 \in 1..(n + 1)
    BY <1>1
  <2>3. p[n + 1] + Size(b) \in Int
    BY <1>1, <1>2, <2>2
  <2>4. \A k \in 1..(n + 2) : k # n + 2 => k \in 1..(n + 1)
    BY <1>1
  <2>5. q \in [1..(n + 2) -> Int]
    BY <2>3, <2>4, <1>2 DEF WithNext
  <2> QED
    BY <2>1, <2>2, <2>5 DEF WithNext
<1> HIDE DEF q, cs
<1>5. ASSUME NEW k \in 1..Len(cs)
      PROVE  q[k + 1] = q[k] + Size(cs[k])
  <2>1. CASE k = n + 1
    BY <2>1, <1>1, <1>3, <1>4
  <2>2. CASE k # n + 1
    <3>1. k \in 1..n /\ k \in 1..(n + 1) /\ k + 1 \in 1..(n + 1)
      BY <2>2, <1>1, <1>3
    <3> QED
      BY <3>1, <1>3, <1>4
  <2> QED
    BY <2>1, <2>2
<1>6. ASSUME NEW j \in 1..(Len(cs) + 1), NEW k \in 1..(Len(cs) + 1), j <= k
      PROVE  q[j] <= q[k]
  <2>1. Len(cs) + 1 = n + 2 /\ n + 1 \in 1..(n + 1)
    BY <1>1, <1>3
  <2>2. CASE j = n + 2
    <3>1. k = n + 2 /\ q[k] \in Int
      BY <2>1, <2>2, <1>1, <1>4, <1>6
    <3> QED
      BY <3>1, <2>2
  <2>3. CASE j # n + 2 /\ k = n + 2
    <3>1. j \in 1..(n + 1) /\ j <= n + 1
      BY <2>1, <2>3, <1>1
    <3>2. p[j] <= p[n + 1] /\ p[j] \in Int /\ p[n + 1] \in Int
      BY <3>1, <2>1, <1>2
    <3> QED
      BY <3>1, <3>2, <2>3, <1>1, <1>4
  <2>4. CASE j # n + 2 /\ k # n + 2
    <3>1. j \in 1..(n + 1) /\ k \in 1..(n + 1)
      BY <2>1, <2>4, <1>1
    <3> QED
      BY <3>1, <1>4, <1>6
  <2> QED
    BY <2>2, <2>3, <2>4
<1>7. Len(st) <= q[Len(cs) + 1]
  <2>1. n + 1 \in 1..(n + 1) /\ Len(cs) + 1 = n + 2
    BY <1>1, <1>3
  <2>2. p[n + 1] \in Int /\ q[n + 2] = p[n + 1] + Size(b)
    BY <2>1, <1>2, <1>4
  <2> QED
    BY <2>1, <2>2, <1>1
<1>8. ASSUME NEW k \in 1..Len(cs), NEW i \in 1..Len(st), q[k] < i, i <= q[k + 1]
      PROVE  st[i] = FrameByte(s, cs[k], i - q[k])
  <2>1. CASE k = n + 1
    <3>1. n + 1 \in 1..(n + 1)
      BY <1>1
    <3>2. q[k] = p[n + 1] /\ p[n + 1] \in Int /\ i \in Int /\ i <= Len(st)
      BY <3>1, <2>1, <1>1, <1>2, <1>4
    <3> QED
      BY <3>2, <1>1, <1>8
  <2>2. CASE k # n + 1
    <3>1. k \in 1..n /\ k \in 1..(n + 1) /\ k + 1 \in 1..(n + 1)
      BY <2>2, <1>1, <1>3
    <3>2. q[k] = p[k] /\ q[k + 1] = p[k + 1] /\ cs[k] = bs[k]
      BY <3>1, <1>3, <1>4
    <3> QED
      BY <3>1, <3>2, <1>8
  <2> QED
    BY <2>1, <2>2
<1>9. q \in [1..(Len(cs) + 1) -> Int]
  BY <1>1, <1>3, <1>4
<1>10. Laid(s, cs, q, st)
  BY <1>5, <1>6, <1>7, <1>8, <1>9 DEF Laid
<1> QED
  BY <1>10 DEF q, cs

-----------------------------------------------------------------------------
(* The calls of send that are left of a frame. *)

\* c is what follows the first o bytes of the frame.
Chunk(s, c, b, o) ==
    /\ o + Len(c) <= Size(b)
    /\ \A j \in 1..Len(c) : c[j] = FrameByte(s, b, o + j)

\* After o bytes the calls r send the rest one by one.
Singles(s, r, b, o) ==
    /\ Len(r) = Size(b) - o
    /\ \A j \in 1..Len(r) : r[j] = <<FrameByte(s, b, o + j)>>

\* After o bytes the calls r send the rest, from the second on one by one.
Left(s, r, b, o) ==
    /\ r # <<>> /\ Chunk(s, Head(r), b, o)
    /\ Singles(s, Tail(r), b, o + Len(Head(r)))

LEMMA SingleByte == \A x : Len(<<x>>) = 1 /\ <<x>>[1] = x
OBVIOUS

\* Taking two elements from the front.
TwoThen(x, y, z) == <<x, y>> \o z
StartsWith(w, x, y, z) ==
    /\ w \in Seq(Seq(SmallBytes)) /\ w # <<>> /\ Head(w) = x
    /\ Tail(w) # <<>> /\ Head(Tail(w)) = y /\ Tail(Tail(w)) = z

LEMMA TwoAhead ==
    ASSUME NEW x \in Seq(SmallBytes), NEW y \in Seq(SmallBytes), NEW z \in Seq(Seq(SmallBytes))
    PROVE  StartsWith(TwoThen(x, y, z), x, y, z)
<1> DEFINE S == Seq(SmallBytes)
           w == TwoThen(x, y, z)
<1>w. w = <<x, y>> \o z
  BY DEF TwoThen
<1> HIDE DEF w
<1> HIDE DEF S
<1>0. x \in S /\ y \in S /\ z \in Seq(S)
  BY DEF S
<1>1. <<x, y>> \in Seq(S) /\ Len(<<x, y>>) = 2 /\ <<x, y>>[1] = x /\ <<x, y>>[2] = y
  BY <1>0
<1>2. /\ w \in Seq(S) /\ Len(w) = Len(<<x, y>>) + Len(z)
      /\ \A i \in 1..(Len(<<x, y>>) + Len(z)) :
            w[i] = IF i <= Len(<<x, y>>) THEN <<x, y>>[i] ELSE z[i - Len(<<x, y>>)]
  BY <1>w, <1>0, <1>1, ConcatProperties
<1>3. /\ Len(z) \in Nat /\ Len(w) = 2 + Len(z) /\ w[1] = x /\ w[2] = y
      /\ \A i \in 1..Len(z) : w[i + 2] = z[i]
  BY <1>0, <1>1, <1>2
<1>4. w # <<>> /\ Head(w) = x
  BY <1>2, <1>3
<1>5. /\ Tail(w) \in Seq(S) /\ Len(Tail(w)) = 1 + Len(z)
      /\ \A i \in 1..(1 + Len(z)) : Tail(w)[i] = w[i + 1]
  BY <1>2, <1>3, <1>4, HeadTailProperties
<1>6. Tail(w) # <<>> /\ Head(Tail(w)) = y
  <2>1. 1 + Len(z) \in Nat /\ 1 \in 1..(1 + Len(z)) /\ 1 + 1 = 2
    BY ONLY <1>3
  <2>2. Tail(w)[1] = y /\ Len(Tail(w)) # 0
    BY ONLY <1>3, <1>5, <2>1
  <2>3. Tail(w) # <<>>
    <3>1. Len(<<>>) = 0
      BY ONLY TRUE
    <3> QED
      BY ONLY <2>2, <3>1
  <2>4. \A R : \A q \in Seq(R) : q # <<>> => Head(q) = q[1]
    OBVIOUS
  <2>5. Head(Tail(w)) = Tail(w)[1]
    BY ONLY <2>3, <2>4, <1>5
  <2> QED
    BY ONLY <2>2, <2>3, <2>5
<1>7. /\ Tail(Tail(w)) \in Seq(S) /\ Len(Tail(Tail(w))) = Len(z)
      /\ \A i \in 1..Len(z) : Tail(Tail(w))[i] = Tail(w)[i + 1]
  BY <1>3, <1>5, <1>6, HeadTailProperties
<1>8. \A i \in 1..Len(z) : Tail(Tail(w))[i] = z[i]
  BY <1>3, <1>5, <1>7
<1>9. Tail(Tail(w)) = z
  BY <1>0, <1>7, <1>8, SeqEqual
<1> QED
  BY <1>2, <1>4, <1>6, <1>9 DEF S, StartsWith, w

LEMMA SinglesAreLeft ==
    ASSUME NEW s, NEW r \in Seq(Seq(SmallBytes)), NEW b \in Seq(SmallBytes), NEW o \in Nat,
           Singles(s, r, b, o), r # <<>>
    PROVE  Left(s, r, b, o)
<1>1. Len(r) \in Nat \ {0} /\ Size(b) \in Nat
  BY FramingAssumption DEF Size
<1>2. Head(r) = r[1] /\ 1 \in 1..Len(r)
  BY <1>1
<1>3. r[1] = <<FrameByte(s, b, o + 1)>>
  BY <1>2 DEF Singles
<1>4. Len(Head(r)) = 1 /\ Head(r)[1] = FrameByte(s, b, o + 1)
  BY <1>2, <1>3, SingleByte
<1>5. Chunk(s, Head(r), b, o)
  BY <1>1, <1>4 DEF Chunk, Singles
<1>6. Len(Tail(r)) = Len(r) - 1 /\ \A j \in 1..Len(Tail(r)) : Tail(r)[j] = r[j + 1]
  BY HeadTailProperties
<1>7. ASSUME NEW j \in 1..Len(Tail(r))
      PROVE  Tail(r)[j] = <<FrameByte(s, b, (o + 1) + j)>>
  <2>1. j + 1 \in 1..Len(r) /\ o + (j + 1) = (o + 1) + j
    BY <1>1, <1>6
  <2>2. r[j + 1] = <<FrameByte(s, b, o + (j + 1))>>
    BY <2>1 DEF Singles
  <2> QED
    BY <2>1, <2>2, <1>6
<1>8. Len(Tail(r)) = Size(b) - (o + 1)
  BY <1>1, <1>6 DEF Singles
<1>9. Singles(s, Tail(r), b, o + Len(Head(r)))
  BY <1>4, <1>7, <1>8 DEF Singles
<1> QED
  BY <1>5, <1>9 DEF Left

LEMMA PreambleType ==
    /\ Preamble \in Seq(SmallBytes) /\ Len(Preamble) = PreambleLength
    /\ \A s, b : \A j \in 1..PreambleLength : Preamble[j] = FrameByte(s, b, j)
<1>1. PreambleLength \in Nat
  BY FramingAssumption
<1>2. \A j \in 1..PreambleLength : Byte("preamble", j) \in SmallBytes
  BY <1>1, ByteType DEF Kinds
<1> QED
  BY <1>1, <1>2 DEF Preamble, FrameByte

LEMMA LengthBytesType ==
    ASSUME NEW s \in Streams, NEW b \in Bodies(s)
    PROVE  LET n == Len(b) - Header(s)
           IN  /\ n \in Nat /\ n < Base * Base
               /\ LengthBytes(n) \in Seq(SmallBytes) /\ Len(LengthBytes(n)) = 2
               /\ LengthBytes(n)[1] = FrameByte(s, b, PreambleLength + 1)
               /\ LengthBytes(n)[2] = FrameByte(s, b, PreambleLength + 2)
<1> DEFINE n == Len(b) - Header(s)
<1>1. PreambleLength \in Nat /\ Len(b) \in Nat
  BY FramingAssumption DEF Bodies
<1>2. n \in Nat /\ n < Base * Base
  BY <1>1 DEF Bodies, Header
<1>3. PreambleLength + 1 \in 1..Size(b) /\ PreambleLength + 2 \in 1..Size(b)
  BY <1>1 DEF Size
<1>4. /\ FrameByte(s, b, PreambleLength + 1) = Byte("nibble", Low(n))
      /\ FrameByte(s, b, PreambleLength + 2) = Byte("nibble", High(n))
  BY <1>1 DEF FrameByte
<1>5. Byte("nibble", Low(n)) \in SmallBytes /\ Byte("nibble", High(n)) \in SmallBytes
  BY <1>3, <1>4, FrameByteType
<1> HIDE DEF n
<1>6. /\ n \in Nat /\ n < Base * Base
      /\ LengthBytes(n) \in Seq(SmallBytes) /\ Len(LengthBytes(n)) = 2
      /\ LengthBytes(n)[1] = FrameByte(s, b, PreambleLength + 1)
      /\ LengthBytes(n)[2] = FrameByte(s, b, PreambleLength + 2)
  BY <1>2, <1>4, <1>5 DEF LengthBytes
<1> QED
  BY <1>6 DEF n

\* Bytes sent one by one.
LEMMA OneByOneType ==
    ASSUME NEW c \in Seq(SmallBytes)
    PROVE  /\ OneByOne(c) \in Seq(Seq(SmallBytes)) /\ Len(OneByOne(c)) = Len(c)
           /\ \A j \in 1..Len(c) : OneByOne(c)[j] = <<c[j]>>
<1>1. \A j \in 1..Len(c) : <<c[j]>> \in Seq(SmallBytes)
  OBVIOUS
<1> QED
  BY <1>1 DEF OneByOne

\* What any task or thread sends of a frame: the preamble, and then the rest.
CallsOf(t, b) == Calls(t, Len(b) - Header(StreamOf(t)), b)

\* The server sends a frame whose preamble is out byte by byte.
LEMMA ServerCalls ==
    ASSUME NEW t \in ServerThreads, NEW b \in Bodies("down")
    PROVE  /\ CallsOf(t, b) \in Seq(Seq(SmallBytes)) /\ CallsOf(t, b) # <<>>
           /\ Head(CallsOf(t, b)) = Preamble
           /\ Left("down", Tail(CallsOf(t, b)), b, PreambleLength)
<1> DEFINE n == Len(b) - Header("down")
           bytes == LengthBytes(n) \o b
           calls == <<Preamble>> \o OneByOne(bytes)
<1>1. t \notin DeviceTasks /\ StreamOf(t) = "down" /\ "down" \in Streams
  BY FramingAssumption DEF ServerThreads, DeviceTasks, StreamOf, Streams
<1>2. CallsOf(t, b) = calls
  BY <1>1 DEF CallsOf, Calls
<1>3. PreambleLength \in Nat /\ b \in Seq(SmallBytes) /\ Len(b) \in Nat
  BY FramingAssumption DEF Bodies
<1>4. /\ LengthBytes(n) \in Seq(SmallBytes) /\ Len(LengthBytes(n)) = 2
      /\ LengthBytes(n)[1] = FrameByte("down", b, PreambleLength + 1)
      /\ LengthBytes(n)[2] = FrameByte("down", b, PreambleLength + 2)
  BY <1>1, LengthBytesType
<1>5. /\ bytes \in Seq(SmallBytes) /\ Len(bytes) = 2 + Len(b)
      /\ \A j \in 1..(2 + Len(b)) :
            bytes[j] = IF j <= 2 THEN LengthBytes(n)[j] ELSE b[j - 2]
  <2>1. /\ bytes \in Seq(SmallBytes) /\ Len(bytes) = Len(LengthBytes(n)) + Len(b)
        /\ \A j \in 1..(Len(LengthBytes(n)) + Len(b)) :
              bytes[j] = IF j <= Len(LengthBytes(n)) THEN LengthBytes(n)[j]
                         ELSE b[j - Len(LengthBytes(n))]
    BY <1>3, <1>4, ConcatProperties
  <2> QED
    BY <2>1, <1>4
<1>6. ASSUME NEW j \in 1..Len(bytes)
      PROVE  bytes[j] = FrameByte("down", b, PreambleLength + j)
  <2>1. CASE j = 1
    BY <2>1, <1>3, <1>4, <1>5
  <2>2. CASE j = 2
    BY <2>2, <1>3, <1>4, <1>5
  <2>3. CASE j > 2
    <3>1. bytes[j] = b[j - 2]
      BY <2>3, <1>5
    <3>2. (PreambleLength + j) - PreambleLength - 2 = j - 2
      BY <1>3, <1>5
    <3>3. PreambleLength + j > PreambleLength + 2 /\ PreambleLength + j \in Int
      BY <2>3, <1>3, <1>5
    <3> QED
      BY <3>1, <3>2, <3>3, <1>3 DEF FrameByte
  <2> QED
    BY <2>1, <2>2, <2>3, <1>3, <1>5
<1> HIDE DEF bytes
<1>7. /\ OneByOne(bytes) \in Seq(Seq(SmallBytes)) /\ Len(OneByOne(bytes)) = Len(bytes)
      /\ \A j \in 1..Len(bytes) : OneByOne(bytes)[j] = <<bytes[j]>>
  BY <1>5, OneByOneType
<1>8. /\ calls \in Seq(Seq(SmallBytes)) /\ calls # <<>> /\ Head(calls) = Preamble
      /\ Tail(calls) = OneByOne(bytes)
  BY <1>7, PreambleType
<1>9. Singles("down", OneByOne(bytes), b, PreambleLength)
  <2>1. Len(OneByOne(bytes)) = Size(b) - PreambleLength
    BY <1>3, <1>5, <1>7 DEF Size
  <2> QED
    BY <2>1, <1>6, <1>7 DEF Singles
<1>10. OneByOne(bytes) # <<>>
  BY <1>3, <1>5, <1>7
<1> HIDE DEF calls
<1> QED
  BY <1>2, <1>3, <1>7, <1>8, <1>9, <1>10, SinglesAreLeft

\* The device sends four bytes behind the preamble at once, then byte by byte.
LEMMA DeviceCalls ==
    ASSUME NEW t \in DeviceTasks, NEW b \in Bodies("up")
    PROVE  /\ CallsOf(t, b) \in Seq(Seq(SmallBytes)) /\ CallsOf(t, b) # <<>>
           /\ Head(CallsOf(t, b)) = Preamble
           /\ Left("up", Tail(CallsOf(t, b)), b, PreambleLength)
<1> DEFINE n == Len(b) - Header("up")
           four == LengthBytes(n) \o SubSeq(b, 1, 2)
           text == SubSeq(b, 3, Len(b))
           calls == <<Preamble, four>> \o OneByOne(text)
<1>1. StreamOf(t) = "up" /\ "up" \in Streams
  BY DEF StreamOf, Streams
<1>2. CallsOf(t, b) = calls
  BY <1>1 DEF CallsOf, Calls
<1>3. PreambleLength \in Nat /\ b \in Seq(SmallBytes) /\ Len(b) \in Nat /\ Len(b) >= 2
  BY FramingAssumption DEF Bodies, Header
<1>4. /\ LengthBytes(n) \in Seq(SmallBytes) /\ Len(LengthBytes(n)) = 2
      /\ LengthBytes(n)[1] = FrameByte("up", b, PreambleLength + 1)
      /\ LengthBytes(n)[2] = FrameByte("up", b, PreambleLength + 2)
  BY <1>1, LengthBytesType
<1>5. /\ SubSeq(b, 1, 2) \in Seq(SmallBytes) /\ Len(SubSeq(b, 1, 2)) = 2
      /\ SubSeq(b, 1, 2)[1] = b[1] /\ SubSeq(b, 1, 2)[2] = b[2]
  <2>1. \A i \in 1..2 : b[i] \in SmallBytes
    BY <1>3
  <2>2. /\ SubSeq(b, 1, 2) \in Seq(SmallBytes)
        /\ Len(SubSeq(b, 1, 2)) = IF 1 <= 2 THEN 2 - 1 + 1 ELSE 0
        /\ \A i \in 1..(2 - 1 + 1) : SubSeq(b, 1, 2)[i] = b[1 + i - 1]
    BY <2>1, SubSeqProperties
  <2> QED
    BY <2>2
<1>6. /\ text \in Seq(SmallBytes) /\ Len(text) = Len(b) - 2
      /\ \A i \in 1..Len(text) : text[i] = b[i + 2]
  <2>1. \A i \in 3..Len(b) : b[i] \in SmallBytes
    BY <1>3
  <2>2. /\ text \in Seq(SmallBytes)
        /\ Len(text) = IF 3 <= Len(b) THEN Len(b) - 3 + 1 ELSE 0
        /\ \A i \in 1..(Len(b) - 3 + 1) : text[i] = b[3 + i - 1]
    BY <2>1, <1>3, SubSeqProperties
  <2> HIDE DEF text
  <2>3. Len(text) = Len(b) - 2
    <3>1. CASE 3 <= Len(b)
      BY <3>1, <2>2, <1>3
    <3>2. CASE ~(3 <= Len(b))
      <4> HIDE DEF four, calls, n
      <4>0. \A m \in Nat : m >= 2 /\ ~(3 <= m) => m = 2
        OBVIOUS
      <4>1. Len(b) = 2
        BY <3>2, <1>3, <4>0
      <4>2. Len(text) = 0
        BY <3>2, <2>2
      <4> QED
        BY <4>1, <4>2
    <3> QED
      BY <3>1, <3>2
  <2>4. ASSUME NEW i \in 1..Len(text)
        PROVE  text[i] = b[i + 2]
    <3>1. i \in 1..(Len(b) - 3 + 1) /\ 3 + i - 1 = i + 2
      BY <2>3, <1>3
    <3> QED
      BY <3>1, <2>2
  <2> QED
    BY <2>2, <2>3, <2>4
<1>7. /\ four \in Seq(SmallBytes) /\ Len(four) = 4
      /\ \A j \in 1..4 : four[j] = IF j <= 2 THEN LengthBytes(n)[j] ELSE SubSeq(b, 1, 2)[j - 2]
  BY <1>4, <1>5, ConcatProperties
<1>8. \A k \in 1..Len(b) : FrameByte("up", b, PreambleLength + 2 + k) = b[k]
  BY <1>3 DEF FrameByte
<1>9. Chunk("up", four, b, PreambleLength)
  <2>1. PreambleLength + 4 <= Size(b)
    BY <1>3 DEF Size
  <2>2. four[1] = FrameByte("up", b, PreambleLength + 1) /\ four[2] = FrameByte("up", b, PreambleLength + 2)
    BY <1>4, <1>7
  <2>3. four[3] = b[1] /\ four[4] = b[2]
    BY <1>5, <1>7
  <2>4. /\ PreambleLength + 2 + 1 = PreambleLength + 3 /\ PreambleLength + 2 + 2 = PreambleLength + 4
        /\ 1 \in 1..Len(b) /\ 2 \in 1..Len(b)
    BY <1>3
  <2>5. four[3] = FrameByte("up", b, PreambleLength + 3) /\ four[4] = FrameByte("up", b, PreambleLength + 4)
    BY <2>3, <2>4, <1>8
  <2>6. \A j \in 1..4 : j = 1 \/ j = 2 \/ j = 3 \/ j = 4
    OBVIOUS
  <2> QED
    BY <2>1, <2>2, <2>5, <2>6, <1>7 DEF Chunk
<1> HIDE DEF four, text
<1>10. /\ OneByOne(text) \in Seq(Seq(SmallBytes)) /\ Len(OneByOne(text)) = Len(text)
       /\ \A j \in 1..Len(text) : OneByOne(text)[j] = <<text[j]>>
  BY <1>6, OneByOneType
<1>11. Singles("up", OneByOne(text), b, PreambleLength + 4)
  <2>1. Len(OneByOne(text)) = Size(b) - (PreambleLength + 4)
    BY <1>3, <1>6, <1>10 DEF Size
  <2>2. ASSUME NEW j \in 1..Len(OneByOne(text))
        PROVE  OneByOne(text)[j] = <<FrameByte("up", b, (PreambleLength + 4) + j)>>
    <3>1. j \in 1..Len(text) /\ j + 2 \in 1..Len(b)
      BY <1>3, <1>6, <1>10
    <3>2. (PreambleLength + 4) + j = PreambleLength + 2 + (j + 2)
      BY <1>3, <3>1
    <3>3. text[j] = FrameByte("up", b, (PreambleLength + 4) + j)
      BY <3>1, <3>2, <1>6, <1>8
    <3> QED
      BY <3>1, <3>3, <1>10
  <2> QED
    BY <2>1, <2>2 DEF Singles
<1>12. /\ calls \in Seq(Seq(SmallBytes)) /\ calls # <<>> /\ Head(calls) = Preamble
       /\ Tail(calls) # <<>> /\ Head(Tail(calls)) = four /\ Tail(Tail(calls)) = OneByOne(text)
  <2> DEFINE z == OneByOne(text)
  <2>1. four \in Seq(SmallBytes) /\ Preamble \in Seq(SmallBytes) /\ z \in Seq(Seq(SmallBytes))
    BY <1>7, <1>10, PreambleType
  <2>2. calls = <<Preamble, four>> \o z
    OBVIOUS
  <2> HIDE DEF z, calls
  <2>3. /\ calls \in Seq(Seq(SmallBytes)) /\ calls # <<>> /\ Head(calls) = Preamble
        /\ Tail(calls) # <<>> /\ Head(Tail(calls)) = four /\ Tail(Tail(calls)) = z
    <3>1. StartsWith(TwoThen(Preamble, four, z), Preamble, four, z)
      BY ONLY <2>1, TwoAhead
    <3>2. calls = TwoThen(Preamble, four, z)
      BY ONLY <2>2 DEF TwoThen
    <3> QED
      BY ONLY <3>1, <3>2 DEF StartsWith
  <2> QED
    BY <2>3 DEF z
<1> HIDE DEF calls
<1> QED
  BY <1>2, <1>7, <1>9, <1>11, <1>12 DEF Left

-----------------------------------------------------------------------------
(* The inductive invariant. *)

Tasks == DeviceTasks \union ServerThreads

\* Types, with the bytes that say they are half of a length below Base.
Typed ==
    /\ TypeOK
    /\ stream \in [Streams -> Seq(SmallBytes)]
    /\ rest \in [Tasks -> Seq(Seq(SmallBytes))]
    /\ begun \in [Streams -> Seq(Seq(SmallBytes))]
    /\ \A s \in Streams : \A k \in 1..Len(begun[s]) : begun[s][k] \in Bodies(s)

\* Where the reader of a stream is in the frame that it reads.
Reads(s, p) ==
    LET next == Len(got[s]) + 1
    IN  /\ pc[s] = "preamble" => p[next] = 0
        /\ pc[s] = "length" => next <= Len(begun[s]) /\ p[next] = -PreambleLength
        /\ pc[s] = "body" => /\ next <= Len(begun[s]) /\ p[next] = -(PreambleLength + 2)
                             /\ want[s] = Len(begun[s][next])

\* Nothing is missing from the stream, or the rest of the last frame, which one
\* thread has.
Writes(s, p) ==
    LET last == Len(begun[s])
    IN  /\ (\A t \in Senders(s) : rest[t] = <<>>) => Len(stream[s]) = p[last + 1]
        /\ \A t \in Senders(s) : rest[t] # <<>> =>
              /\ \A o \in Senders(s) : o # t => rest[o] = <<>>
              /\ begun[s] # <<>> /\ p[last] <= Len(stream[s])
              /\ Left(s, rest[t], begun[s][last], Len(stream[s]) - p[last])

\* While nobody tears a stream its reader has read the first frames, and the
\* others lie in it from where the reader is.
WasRead(s) ==
    /\ Len(got[s]) <= Len(begun[s])
    /\ \A k \in 1..Len(got[s]) : got[s][k] = begun[s][k]
    /\ pc[s] # "lost"
    /\ pc[s] = "ended" => link = "closed"
ToRead(s) ==
    pc[s] # "ended" => \E p : /\ Laid(s, begun[s], p, stream[s])
                              /\ Reads(s, p)
                              /\ link # "closed" => Writes(s, p)
InStep(s) == ~torn[s] => WasRead(s) /\ ToRead(s)

IInv == Typed /\ \A s \in Streams : InStep(s)

-----------------------------------------------------------------------------
(* Types. *)

\* Every body that is sent fits.
LEMMA BodyFits ==
    ASSUME NEW t \in Tasks, NEW cmd \in Nat, NEW n \in 0..(Base * Base - 1), NEW k \in Nat
    PROVE  LET b == Body(t, cmd, n, k)
           IN  b \in Bodies(StreamOf(t)) /\ Len(b) - Header(StreamOf(t)) = n
<1> DEFINE head == IF t \in DeviceTasks THEN <<Byte("type", cmd), Byte("dest", 5)>>
                   ELSE <<Byte("type", cmd)>>
           b == Body(t, cmd, n, k)
<1>0. Base * Base \in Nat /\ n \in Nat
  BY FramingAssumption
<1>1. Text(n, k) \in Seq(SmallBytes) /\ Len(Text(n, k)) = n
  <2>1. Byte("text", k) \in SmallBytes
    BY ByteType DEF Kinds
  <2> QED
    BY <2>1, <1>0 DEF Text
<1>2. head \in Seq(SmallBytes) /\ Len(head) = Header(StreamOf(t))
  <2>1. Byte("type", cmd) \in SmallBytes /\ Byte("dest", 5) \in SmallBytes
    BY ByteType DEF Kinds
  <2> QED
    BY <2>1 DEF Header, StreamOf
<1>3. b = head \o Text(n, k)
  BY DEF Body, DeviceBody, ServerBody
<1> HIDE DEF head, b
<1>4. b \in Seq(SmallBytes) /\ Len(b) = Header(StreamOf(t)) + n
  BY <1>1, <1>2, <1>3, ConcatProperties
<1>5. Header(StreamOf(t)) \in Nat
  BY DEF Header
<1>6. b \in Bodies(StreamOf(t)) /\ Len(b) - Header(StreamOf(t)) = n
  BY <1>0, <1>4, <1>5 DEF Bodies
<1> QED
  BY <1>6 DEF b

LEMMA StreamsOfTasks ==
    ASSUME NEW t \in Tasks
    PROVE  StreamOf(t) \in Streams /\ t \in Senders(StreamOf(t)) /\ Senders(StreamOf(t)) \subseteq Tasks
BY DEF StreamOf, Streams, Senders, Tasks

\* The calls of a task or a thread for a body that fits.
LEMMA CallsType ==
    ASSUME NEW t \in Tasks, NEW b \in Bodies(StreamOf(t))
    PROVE  /\ CallsOf(t, b) \in Seq(Seq(SmallBytes)) /\ CallsOf(t, b) # <<>>
           /\ Head(CallsOf(t, b)) = Preamble
           /\ Left(StreamOf(t), Tail(CallsOf(t, b)), b, PreambleLength)
<1>1. CASE t \in DeviceTasks
  BY <1>1, DeviceCalls DEF StreamOf
<1>2. CASE t \notin DeviceTasks
  BY <1>2, ServerCalls DEF StreamOf, Tasks
<1> QED
  BY <1>1, <1>2

LEMMA SmallAreBytes ==
    /\ Seq(SmallBytes) \subseteq Seq(Bytes) /\ Seq(Seq(SmallBytes)) \subseteq Seq(Seq(Bytes))
<1>1. SmallBytes \subseteq Bytes
  BY DEF SmallBytes
<1>2. Seq(SmallBytes) \subseteq Seq(Bytes)
  BY <1>1, SeqMonotonic
<1> QED
  BY <1>2, SeqMonotonic

\* What the first call of a frame does, for a body that fits.
LEMMA BeginTyped ==
    ASSUME Typed, NEW t \in Tasks, NEW cmd \in Nat, NEW n \in 0..(Base * Base - 1), Begin(t, cmd, n),
           link' = link, pc' = pc, want' = want, answer' \in BOOLEAN, got' = got
    PROVE  Typed'
<1> DEFINE s == StreamOf(t)
           b == Body(t, cmd, n, Len(begun[s]) + 1)
<1> USE StreamsOfTasks
<1>1. s \in Streams /\ begun[s] \in Seq(Seq(SmallBytes)) /\ stream[s] \in Seq(SmallBytes)
  BY DEF Typed
<1>2. b \in Bodies(s) /\ Len(b) - Header(s) = n
  BY <1>1, BodyFits
<1>3. b \in Seq(SmallBytes)
  BY <1>2 DEF Bodies
<1>4. Calls(t, n, b) = CallsOf(t, b)
  BY <1>2 DEF CallsOf
<1> HIDE DEF b, s
<1>5. /\ CallsOf(t, b) \in Seq(Seq(SmallBytes)) /\ CallsOf(t, b) # <<>>
      /\ Head(CallsOf(t, b)) \in Seq(SmallBytes) /\ Tail(CallsOf(t, b)) \in Seq(Seq(SmallBytes))
  BY <1>2, CallsType DEF s
<1>6. /\ frames[t] < Bound(t)
      /\ stream' = [stream EXCEPT ![s] = @ \o Head(CallsOf(t, b))]
      /\ rest' = [rest EXCEPT ![t] = Tail(CallsOf(t, b))]
      /\ frames' = [frames EXCEPT ![t] = @ + 1]
      /\ begun' = [begun EXCEPT ![s] = Append(@, b)]
      /\ torn' = [torn EXCEPT ![s] = @ \/ \E o \in Senders(s) : rest[o] # <<>>]
  BY <1>4 DEF Begin, s, b
<1>7. stream' \in [Streams -> Seq(SmallBytes)]
  BY <1>1, <1>5, <1>6 DEF Typed
<1>8. rest' \in [Tasks -> Seq(Seq(SmallBytes))]
  BY <1>5, <1>6 DEF Typed
<1>9. begun' \in [Streams -> Seq(Seq(SmallBytes))]
  BY <1>1, <1>3, <1>6 DEF Typed
<1>10. ASSUME NEW r \in Streams, NEW k \in 1..Len(begun'[r])
       PROVE  begun'[r][k] \in Bodies(r)
  <2>1. CASE r # s
    BY <2>1, <1>1, <1>6 DEF Typed
  <2>2. CASE r = s
    <3>1. begun'[r] = Append(begun[s], b)
      BY <2>2, <1>1, <1>6 DEF Typed
    <3>2. k \in 1..Len(begun[s]) \/ k = Len(begun[s]) + 1
      BY <3>1, <1>1, <1>3
    <3>3. begun'[r][k] = IF k = Len(begun[s]) + 1 THEN b ELSE begun[s][k]
      BY <3>1, <3>2, <1>1, <1>3, AppendProperties
    <3> QED
      BY <2>2, <3>2, <3>3, <1>1, <1>2 DEF Typed
  <2> QED
    BY <2>1, <2>2
<1>11. /\ frames' \in [Tasks -> Nat]
       /\ \A u \in DOMAIN frames' : frames'[u] <= Bound(u)
  <2>1. frames \in [Tasks -> Nat] /\ \A u \in Tasks : frames[u] <= Bound(u)
    BY DEF Typed, TypeOK, Tasks
  <2>2. Bound(t) \in Nat
    BY FramingAssumption DEF Bound
  <2> QED
    BY <2>1, <2>2, <1>6
<1>12. torn' \in [Streams -> BOOLEAN]
  <2>1. torn \in [Streams -> BOOLEAN]
    BY DEF Typed, TypeOK
  <2>2. (torn[s] \/ \E o \in Senders(s) : rest[o] # <<>>) \in BOOLEAN
    OBVIOUS
  <2> QED
    BY <2>1, <2>2, <1>1, <1>6
<1>13. TypeOK'
  <2>1. stream' \in [Streams -> Seq(Bytes)] /\ begun' \in [Streams -> Seq(Seq(Bytes))]
    BY <1>7, <1>9, SmallAreBytes
  <2>2. rest' \in [DeviceTasks \union ServerThreads -> Seq(Seq(Bytes))]
    BY <1>8, SmallAreBytes DEF Tasks
  <2> QED
    BY <2>1, <2>2, <1>11, <1>12 DEF Typed, TypeOK, Tasks, Bound
<1> QED
  BY <1>7, <1>8, <1>9, <1>10, <1>13 DEF Typed

LEMMA SendCallTyped ==
    ASSUME Typed, NEW t \in Tasks, SendCall(t)
    PROVE  Typed'
<1> DEFINE s == StreamOf(t)
<1>1. s \in Streams /\ stream[s] \in Seq(SmallBytes) /\ rest[t] \in Seq(Seq(SmallBytes)) /\ rest[t] # <<>>
  BY StreamsOfTasks DEF Typed, SendCall
<1>2. Head(rest[t]) \in Seq(SmallBytes) /\ Tail(rest[t]) \in Seq(Seq(SmallBytes))
  BY <1>1
<1>3. /\ stream' = [stream EXCEPT ![s] = @ \o Head(rest[t])]
      /\ rest' = [rest EXCEPT ![t] = Tail(@)]
      /\ UNCHANGED <<link, pc, want, answer, frames, begun, got, torn>>
  BY DEF SendCall
<1> HIDE DEF s
<1>4. stream' \in [Streams -> Seq(SmallBytes)]
  BY <1>1, <1>2, <1>3 DEF Typed
<1>5. rest' \in [Tasks -> Seq(Seq(SmallBytes))]
  BY <1>2, <1>3 DEF Typed
<1>6. stream' \in [Streams -> Seq(Bytes)] /\ rest' \in [DeviceTasks \union ServerThreads -> Seq(Seq(Bytes))]
  BY <1>4, <1>5, SmallAreBytes DEF Tasks
<1> QED
  BY <1>3, <1>4, <1>5, <1>6 DEF Typed, TypeOK, Bound

\* What is left of a stream after a read.
LEMMA TookType ==
    ASSUME Typed, NEW s \in Streams, NEW n \in 0..Len(stream[s]), Took(s, n)
    PROVE  /\ stream' \in [Streams -> Seq(SmallBytes)] /\ stream' \in [Streams -> Seq(Bytes)]
           /\ Len(stream'[s]) = Len(stream[s]) - n
           /\ stream'[s] = SubSeq(stream[s], n + 1, Len(stream[s]))
           /\ \A r \in Streams : r # s => stream'[r] = stream[r]
<1> DEFINE st == stream[s]
           su == SubSeq(st, n + 1, Len(st))
<1>1. st \in Seq(SmallBytes) /\ Len(st) \in Nat /\ n \in Nat
  BY DEF Typed
<1>2. \A i \in (n + 1)..Len(st) : st[i] \in SmallBytes
  BY <1>1
<1>3. su \in Seq(SmallBytes) /\ Len(su) = IF n + 1 <= Len(st) THEN Len(st) - (n + 1) + 1 ELSE 0
  BY <1>1, <1>2, SubSeqProperties
<1>4. Len(su) = Len(st) - n
  BY <1>1, <1>3
<1>5. stream' = [stream EXCEPT ![s] = su]
  BY DEF Took
<1> HIDE DEF su
<1>6. stream' \in [Streams -> Seq(SmallBytes)]
  BY <1>3, <1>5 DEF Typed
<1>7. stream'[s] = su /\ \A r \in Streams : r # s => stream'[r] = stream[r]
  BY <1>5 DEF Typed
<1> QED
  BY <1>4, <1>6, <1>7, SmallAreBytes DEF su

LEMMA GetPreambleTyped ==
    ASSUME Typed, NEW s \in Streams, GetPreamble(s)
    PROVE  Typed'
<1>1. PreambleLength \in 0..Len(stream[s])
  BY FramingAssumption DEF GetPreamble, Waits, Typed
<1>2. stream' \in [Streams -> Seq(SmallBytes)] /\ stream' \in [Streams -> Seq(Bytes)]
  BY <1>1, TookType DEF GetPreamble
<1>3. UNCHANGED <<link, rest, want, answer, frames, begun, got, torn>>
  BY DEF GetPreamble, BadPreamble
<1>4. pc' \in [Streams -> {"preamble", "length", "body", "lost", "ended"}]
  BY DEF GetPreamble, BadPreamble, Goto, Typed, TypeOK
<1> QED
  BY <1>2, <1>3, <1>4 DEF Typed, TypeOK, Bound

LEMMA GetLengthTyped ==
    ASSUME Typed, NEW s \in Streams, GetLength(s)
    PROVE  Typed'
<1> DEFINE low == stream[s][1]
           high == stream[s][2]
<1>1. 2 \in 0..Len(stream[s]) /\ stream[s] \in Seq(SmallBytes) /\ Len(stream[s]) >= 2
  BY DEF GetLength, Waits, Typed
<1>2. stream' \in [Streams -> Seq(SmallBytes)] /\ stream' \in [Streams -> Seq(Bytes)]
  BY <1>1, TookType DEF GetLength
<1>3. UNCHANGED <<link, rest, answer, frames, begun, got, torn>>
  BY DEF GetLength
<1>4. pc' \in [Streams -> {"preamble", "length", "body", "lost", "ended"}]
  BY DEF GetLength, Goto, Typed, TypeOK
<1>5. want' \in [Streams -> 0..(Base * Base + 1)]
  <2>1. low \in SmallBytes /\ high \in SmallBytes
    BY <1>1
  <2>2. CASE low.is = "nibble" /\ high.is = "nibble"
    <3>1. /\ low.value \in Nat /\ low.value < Base /\ high.value \in Nat /\ high.value < Base
      BY <2>1, <2>2 DEF SmallBytes, Bytes
    <3>2. LengthOf(low.value, high.value) \in 0..(Base * Base - 1)
      BY <3>1, LengthBounded
    <3>3. Base * Base \in Nat
      BY FramingAssumption
    <3>4. BodyLength(s, LengthOf(low.value, high.value)) \in 0..(Base * Base + 1)
      BY <3>2, <3>3 DEF BodyLength
    <3>5. want' = [want EXCEPT ![s] = BodyLength(s, LengthOf(low.value, high.value))]
      BY <2>2 DEF GetLength
    <3> QED
      BY <3>4, <3>5 DEF Typed, TypeOK
  <2>3. CASE ~(low.is = "nibble" /\ high.is = "nibble")
    BY <2>3 DEF GetLength, Typed, TypeOK
  <2> QED
    BY <2>2, <2>3
<1> QED
  BY <1>2, <1>3, <1>4, <1>5 DEF Typed, TypeOK, Bound

LEMMA GetBodyTyped ==
    ASSUME Typed, NEW s \in Streams, GetBody(s)
    PROVE  Typed'
<1> DEFINE body == SubSeq(stream[s], 1, want[s])
<1>0. Base * Base \in Nat
  BY FramingAssumption
<1>1. want[s] \in 0..Len(stream[s]) /\ stream[s] \in Seq(SmallBytes)
  BY <1>0 DEF GetBody, Waits, Typed, TypeOK
<1>2. stream' \in [Streams -> Seq(SmallBytes)] /\ stream' \in [Streams -> Seq(Bytes)]
  BY <1>1, TookType DEF GetBody
<1>3. UNCHANGED <<link, rest, want, frames, begun, torn>>
  BY DEF GetBody
<1>4. pc' \in [Streams -> {"preamble", "length", "body", "lost", "ended"}]
  BY DEF GetBody, Goto, Typed, TypeOK
<1>5. body \in Seq(Bytes)
  <2>1. \A i \in 1..want[s] : stream[s][i] \in SmallBytes
    BY <1>1
  <2> HIDE DEF body
  <2>2. body \in Seq(SmallBytes)
    BY <2>1, <1>1, SubSeqProperties DEF body
  <2> QED
    BY <2>2, SmallAreBytes
<1>6. /\ got' = [got EXCEPT ![s] = Append(@, body)]
      /\ answer' = IF s = "up" THEN answer ELSE body[1].is = "type" /\ body[1].value = SEND_STATUS
  BY DEF GetBody
<1> HIDE DEF body
<1>7. got' \in [Streams -> Seq(Seq(Bytes))]
  BY <1>5, <1>6 DEF Typed, TypeOK
<1>8. answer' \in BOOLEAN
  BY <1>6 DEF Typed, TypeOK
<1> QED
  BY <1>2, <1>3, <1>4, <1>7, <1>8 DEF Typed, TypeOK, Bound

LEMMA EndsTyped ==
    ASSUME Typed, \/ Connect \/ ConnectFails \/ ServerCloses \/ Eof
                  \/ \E t \in Tasks : SendFails(t)
    PROVE  Typed'
<1>1. /\ UNCHANGED <<stream, want, frames, begun, got, torn>>
      /\ link' \in {"connecting", "up", "failed", "closed"}
  BY DEF Typed, TypeOK, Connect, ConnectFails, ServerCloses, Eof, SendFails
<1>2. pc' \in [Streams -> {"preamble", "length", "body", "lost", "ended"}]
  BY DEF Typed, TypeOK, Connect, ConnectFails, ServerCloses, Eof, SendFails, Goto
<1>3. answer' \in BOOLEAN
  BY DEF Typed, TypeOK, Connect, ConnectFails, ServerCloses, Eof, SendFails
<1>4. rest' \in [Tasks -> Seq(Seq(SmallBytes))]
  <2>1. <<>> \in Seq(Seq(SmallBytes)) /\ rest \in [Tasks -> Seq(Seq(SmallBytes))]
    BY DEF Typed
  <2>2. CASE ServerCloses
    BY <2>1, <2>2 DEF ServerCloses
  <2>3. ASSUME NEW t \in Tasks, SendFails(t)
        PROVE  rest' \in [Tasks -> Seq(Seq(SmallBytes))]
    BY <2>1, <2>3 DEF SendFails
  <2>4. CASE Connect \/ ConnectFails \/ Eof
    BY <2>1, <2>4 DEF Connect, ConnectFails, Eof
  <2> QED
    BY <2>2, <2>3, <2>4
<1>5. rest' \in [DeviceTasks \union ServerThreads -> Seq(Seq(Bytes))]
  BY <1>4, SmallAreBytes DEF Tasks
<1> QED
  BY <1>1, <1>2, <1>3, <1>4, <1>5 DEF Typed, TypeOK, Bound

\* The lengths that are sent fit.
LEMMA LengthsFit ==
    /\ NameLength \in 0..(Base * Base - 1) /\ TimerLength \in 0..(Base * Base - 1)
    /\ ForwardLengths \subseteq 0..(Base * Base - 1)
    /\ SEND_STATUS \in Nat /\ UPDATE_STATUS \in Nat /\ SET_CLIENT_NAME \in Nat
    /\ SEND_IOT_VALUES \in Nat /\ Other \in Nat
BY FramingAssumption DEF SEND_STATUS, UPDATE_STATUS, SET_CLIENT_NAME, SEND_IOT_VALUES, Other

\* Every send of a frame begins with a command and a length that fit.
LEMMA BeginsOfNext ==
    ASSUME Typed, MainSends \/ TimerSends \/ ReaderAnswers \/ \E t \in Forwarders : ForwarderSends(t)
    PROVE  /\ \E t \in Tasks, cmd \in Nat, n \in 0..(Base * Base - 1) : Begin(t, cmd, n)
           /\ link' = link /\ pc' = pc /\ want' = want /\ got' = got /\ answer' \in BOOLEAN
<1>1. "main" \in Tasks /\ "reader" \in Tasks /\ "timer" \in Tasks /\ Forwarders \subseteq Tasks
  BY DEF Tasks, DeviceTasks, ServerThreads
<1>2. answer \in BOOLEAN
  BY DEF Typed, TypeOK
<1>3. CASE MainSends
  <2> DEFINE cmd == IF frames["main"] = 0 THEN SET_CLIENT_NAME ELSE SEND_IOT_VALUES
  <2>1. cmd \in Nat
    BY LengthsFit
  <2>2. Begin("main", cmd, NameLength)
    BY <1>3 DEF MainSends
  <2> HIDE DEF cmd
  <2>3. \E t \in Tasks, c \in Nat, n \in 0..(Base * Base - 1) : Begin(t, c, n)
    BY <2>1, <2>2, <1>1, LengthsFit
  <2> QED
    BY <2>3, <1>2, <1>3 DEF MainSends
<1>4. CASE TimerSends
  BY <1>1, <1>2, <1>4, LengthsFit DEF TimerSends
<1>5. CASE ReaderAnswers
  BY <1>1, <1>2, <1>5, LengthsFit DEF ReaderAnswers
<1>6. ASSUME NEW t \in Forwarders, ForwarderSends(t)
      PROVE  /\ \E u \in Tasks, cmd \in Nat, n \in 0..(Base * Base - 1) : Begin(u, cmd, n)
             /\ link' = link /\ pc' = pc /\ want' = want /\ got' = got /\ answer' \in BOOLEAN
  BY <1>1, <1>2, <1>6, LengthsFit DEF ForwarderSends
<1> QED
  BY <1>3, <1>4, <1>5, <1>6

LEMMA InitTyped == Init => Typed
<1> SUFFICES ASSUME Init PROVE Typed
  OBVIOUS
<1>1. /\ <<>> \in Seq(SmallBytes) /\ <<>> \in Seq(Bytes) /\ <<>> \in Seq(Seq(SmallBytes))
      /\ <<>> \in Seq(Seq(Bytes)) /\ Len(<<>>) = 0
  OBVIOUS
<1>2. \A t \in Tasks : Bound(t) \in Nat
  BY FramingAssumption DEF Bound
<1>3. Base * Base \in Nat
  BY FramingAssumption
<1>4. TypeOK
  <2>1. want \in [Streams -> 0..(Base * Base + 1)]
    <3>1. 0 \in 0..(Base * Base + 1)
      BY <1>3
    <3> QED
      BY <3>1 DEF Init
  <2>2. /\ frames \in [DeviceTasks \union ServerThreads -> Nat]
        /\ \A t \in DOMAIN frames : frames[t] <= Bound(t)
    BY <1>2 DEF Init, Tasks
  <2>3. /\ stream \in [Streams -> Seq(Bytes)] /\ begun \in [Streams -> Seq(Seq(Bytes))]
        /\ got \in [Streams -> Seq(Seq(Bytes))]
        /\ rest \in [DeviceTasks \union ServerThreads -> Seq(Seq(Bytes))]
    BY <1>1 DEF Init
  <2>4. /\ link \in {"connecting", "up", "failed", "closed"} /\ answer \in BOOLEAN
        /\ pc \in [Streams -> {"preamble", "length", "body", "lost", "ended"}]
        /\ torn \in [Streams -> BOOLEAN]
    BY DEF Init
  <2> QED
    BY <2>1, <2>2, <2>3, <2>4 DEF TypeOK
<1> QED
  BY <1>1, <1>4 DEF Init, Typed, Tasks

LEMMA NextTyped ==
    ASSUME Typed, Next
    PROVE  Typed'
<1>1. CASE MainSends \/ TimerSends \/ ReaderAnswers \/ \E t \in Forwarders : ForwarderSends(t)
  BY <1>1, BeginsOfNext, BeginTyped
<1>2. CASE \E t \in Tasks : SendCall(t)
  BY <1>2, SendCallTyped
<1>3. CASE \E s \in Streams : Read(s)
  BY <1>3, GetPreambleTyped, GetLengthTyped, GetBodyTyped DEF Read
<1>4. CASE \/ Connect \/ ConnectFails \/ ServerCloses \/ Eof
           \/ \E t \in Tasks : SendFails(t)
  BY <1>4, EndsTyped
<1> QED
  BY <1>1, <1>2, <1>3, <1>4 DEF Next, Tasks

-----------------------------------------------------------------------------
(* Steps that leave a stream as it is. *)

\* A step that leaves a stream alone, or loses the connection, leaves it in step.
LEMMA NotTouched ==
    ASSUME Typed, NEW s \in Streams, InStep(s),
           stream'[s] = stream[s], begun'[s] = begun[s], got'[s] = got[s], want'[s] = want[s],
           torn'[s] = torn[s],
           pc'[s] = pc[s] \/ (pc'[s] = "ended" /\ link' = "closed"),
           link = "closed" => link' = "closed",
           link' # "closed" => \A t \in Senders(s) : rest'[t] = rest[t]
    PROVE  InStep(s)'
<1> SUFFICES ASSUME ~torn'[s]
             PROVE  WasRead(s)' /\ ToRead(s)'
  BY DEF InStep
<1>1. WasRead(s) /\ ToRead(s)
  BY DEF InStep
<1>2. WasRead(s)'
  BY <1>1 DEF WasRead
<1>3. ASSUME pc'[s] # "ended"
      PROVE  \E p : /\ Laid(s, begun'[s], p, stream'[s])
                    /\ Reads(s, p)'
                    /\ link' # "closed" => Writes(s, p)'
  <2>1. pc[s] # "ended" /\ pc'[s] = pc[s]
    BY <1>1, <1>3 DEF WasRead
  <2>2. PICK p : /\ Laid(s, begun[s], p, stream[s])
                 /\ Reads(s, p)
                 /\ link # "closed" => Writes(s, p)
    BY <1>1, <2>1 DEF ToRead
  <2>3. Reads(s, p)'
    BY <2>1, <2>2 DEF Reads
  <2>4. ASSUME link' # "closed"
        PROVE  Writes(s, p)'
    <3>1. Writes(s, p) /\ \A t \in Senders(s) : rest'[t] = rest[t]
      BY <2>2, <2>4
    <3> QED
      BY <3>1 DEF Writes
  <2> QED
    BY <2>2, <2>3, <2>4
<1>4. ToRead(s)'
  BY <1>3 DEF ToRead
<1> QED
  BY <1>2, <1>4

\* Of the two streams a task or a thread touches its own.
LEMMA OtherSenders ==
    ASSUME NEW t \in Tasks, NEW s \in Streams, s # StreamOf(t)
    PROVE  t \notin Senders(s)
BY FramingAssumption DEF Tasks, Streams, StreamOf, Senders, DeviceTasks, ServerThreads

-----------------------------------------------------------------------------
(* Sending. *)

\* A send that begins tears the stream, or lays its frame behind the others.
LEMMA BeginInStep ==
    ASSUME Typed, \A s \in Streams : InStep(s),
           NEW t \in Tasks, NEW cmd \in Nat, NEW n \in 0..(Base * Base - 1), Begin(t, cmd, n),
           link' = link, pc' = pc, want' = want, got' = got
    PROVE  \A s \in Streams : InStep(s)'
<1> DEFINE s == StreamOf(t)
           last == Len(begun[s])
           b == Body(t, cmd, n, last + 1)
           st == stream[s]
           calls == CallsOf(t, b)
<1> USE StreamsOfTasks
<1>1. s \in Streams /\ begun[s] \in Seq(Seq(SmallBytes)) /\ st \in Seq(SmallBytes)
  BY DEF Typed
<1>2. b \in Bodies(s) /\ Len(b) - Header(s) = n
  BY <1>1, BodyFits
<1>3. b \in Seq(SmallBytes) /\ last \in Nat
  BY <1>1, <1>2 DEF Bodies
<1>4. Calls(t, n, b) = calls
  BY <1>2 DEF CallsOf
<1> HIDE DEF b, calls
<1>5. /\ calls \in Seq(Seq(SmallBytes)) /\ Head(calls) = Preamble
      /\ Left(s, Tail(calls), b, PreambleLength)
  BY <1>2, CallsType DEF calls
<1>6. /\ link = "up" /\ rest[t] = <<>>
      /\ stream' = [stream EXCEPT ![s] = @ \o Preamble]
      /\ rest' = [rest EXCEPT ![t] = Tail(calls)]
      /\ begun' = [begun EXCEPT ![s] = Append(@, b)]
      /\ torn' = [torn EXCEPT ![s] = @ \/ \E o \in Senders(s) : rest[o] # <<>>]
  BY <1>4, <1>5 DEF Begin, b
<1>7. ASSUME NEW r \in Streams, r # s
      PROVE  InStep(r)'
  <2>1. t \notin Senders(r) /\ Senders(r) \subseteq Tasks
    BY <1>7, OtherSenders DEF Senders, Tasks
  <2>2. \A u \in Senders(r) : rest'[u] = rest[u]
    BY <2>1, <1>6 DEF Typed
  <2>3. stream'[r] = stream[r] /\ begun'[r] = begun[r] /\ torn'[r] = torn[r]
    BY <1>6, <1>7 DEF Typed, TypeOK
  <2> QED
    BY <2>2, <2>3, NotTouched
<1>8. ASSUME ~torn'[s]
      PROVE  WasRead(s)' /\ ToRead(s)'
  <2>1. ~torn[s] /\ \A o \in Senders(s) : rest[o] = <<>>
    BY <1>1, <1>6, <1>8 DEF Typed, TypeOK
  <2>2. WasRead(s) /\ ToRead(s)
    BY <2>1, <1>1 DEF InStep
  <2>3. pc[s] # "ended"
    BY <2>2, <1>6 DEF WasRead
  <2>4. PICK p : Laid(s, begun[s], p, st) /\ Reads(s, p) /\ Writes(s, p)
    BY <2>2, <2>3, <1>6 DEF ToRead
  <2>5. Len(st) = p[last + 1]
    BY <2>1, <2>4 DEF Writes
  <2> DEFINE cs == Append(begun[s], b)
  <2>0. PICK q : q = WithNext(p, last, Size(b))
    OBVIOUS
  <2>6. Laid(s, cs, q, st)
    BY <2>0, <2>4, <2>5, <1>1, <1>3, LaidAfterBegin
  <2>7. /\ cs \in Seq(Seq(SmallBytes)) /\ cs # <<>> /\ Len(cs) = last + 1 /\ cs[last + 1] = b
        /\ \A k \in 1..last : cs[k] = begun[s][k]
    <3>1. b \in Seq(SmallBytes) /\ begun[s] \in Seq(Seq(SmallBytes))
      BY <1>1, <1>3
    <3> QED
      BY ONLY <3>1, AppendProperties
  <2>8. q[last + 2] = Len(st) + Size(b) /\ \A k \in 1..(last + 1) : q[k] = p[k]
    BY <2>0, <2>5, <1>3 DEF WithNext
  <2> HIDE DEF cs
  <2>9. /\ PreambleLength \in Nat \ {0} /\ Len(b) \in Nat /\ Len(st) \in Nat
        /\ PreambleLength <= Size(b) /\ Size(b) \in Nat
    BY <1>1, <1>3, FramingAssumption DEF Size
  <2>10. Laid(s, cs, q, st \o Preamble)
    <3>1. q[last + 1] = Len(st)
      BY <2>5, <2>8, <1>3
    <3>2. q[Len(cs)] <= Len(st) /\ Len(st) + Len(Preamble) <= q[Len(cs) + 1]
      <4>1. q[Len(cs)] = Len(st)
        BY <3>1, <2>7
      <4>2. Len(cs) + 1 = last + 2
        BY <2>7, <1>3
      <4>3. q[Len(cs) + 1] = Len(st) + Size(b)
        BY <4>2, <2>8
      <4> QED
        BY <4>1, <4>3, <2>9, PreambleType
    <3>3. \A j \in 1..Len(Preamble) : Preamble[j] = FrameByte(s, cs[Len(cs)], Len(st) - q[Len(cs)] + j)
      BY <3>1, <2>7, <2>9, <1>3, PreambleType
    <3> QED
      BY <3>2, <3>3, <2>6, <2>7, <1>1, PreambleType, LaidAfterSending
  <2>11. /\ stream'[s] = st \o Preamble /\ begun'[s] = cs /\ rest'[t] = Tail(calls)
         /\ \A o \in Senders(s) : o # t => rest'[o] = <<>>
    BY <2>1, <1>1, <1>6 DEF Typed, cs
  <2>12. WasRead(s)'
    <3>1. Len(got[s]) \in Nat
      BY <1>1 DEF Typed, TypeOK
    <3>2. Len(got[s]) <= last /\ \A k \in 1..Len(got[s]) : got[s][k] = begun[s][k]
      BY <2>2 DEF WasRead
    <3>3. Len(got[s]) <= Len(cs) /\ \A k \in 1..Len(got[s]) : got[s][k] = cs[k]
      BY ONLY <3>1, <3>2, <2>7, <1>3
    <3> QED
      BY <3>3, <2>2, <2>11, <1>6 DEF WasRead
  <2>13. Reads(s, q)'
    <3>1. Len(got[s]) \in Nat /\ Len(got[s]) <= last
      BY <2>2, <1>1 DEF Typed, TypeOK, WasRead
    <3>2. Len(got[s]) + 1 \in 1..(last + 1)
      BY <3>1, <1>3
    <3>3. q[Len(got[s]) + 1] = p[Len(got[s]) + 1]
      BY <3>2, <2>8
    <3>4. Len(got[s]) + 1 <= last => begun'[s][Len(got[s]) + 1] = begun[s][Len(got[s]) + 1]
      BY <3>2, <2>7, <2>11, <1>3
    <3>5. /\ pc[s] = "preamble" => p[Len(got[s]) + 1] = 0
          /\ pc[s] = "length" => Len(got[s]) + 1 <= last /\ p[Len(got[s]) + 1] = -PreambleLength
          /\ pc[s] = "body" => /\ Len(got[s]) + 1 <= last
                               /\ p[Len(got[s]) + 1] = -(PreambleLength + 2)
                               /\ want[s] = Len(begun[s][Len(got[s]) + 1])
      BY <2>4 DEF Reads
    <3>6. Len(begun'[s]) = last + 1 /\ got'[s] = got[s] /\ pc'[s] = pc[s] /\ want'[s] = want[s]
      BY <2>7, <2>11
    <3>7. Len(got[s]) + 1 <= last => Len(got[s]) + 1 <= last + 1
      BY <3>1, <1>3
    <3> QED
      BY <3>3, <3>4, <3>5, <3>6, <3>7 DEF Reads
  <2>14. Writes(s, q)'
    <3>1. t \in Senders(s) /\ Tail(calls) # <<>>
      BY <1>5 DEF Left
    <3>2. /\ Len(begun'[s]) = last + 1 /\ begun'[s] # <<>> /\ begun'[s][last + 1] = b
          /\ q[last + 1] = Len(st)
      <4>1. last + 1 \in 1..(last + 1)
        BY <1>3
      <4>2. q[last + 1] = Len(st)
        BY <4>1, <2>5, <2>8
      <4> QED
        BY <4>2, <2>7, <2>11
    <3>3. Len(stream'[s]) = Len(st) + PreambleLength
      BY <2>11, <1>1, PreambleType, ConcatProperties
    <3>4. q[last + 1] <= Len(stream'[s]) /\ Len(stream'[s]) - q[last + 1] = PreambleLength
      BY <3>2, <3>3, <2>9
    <3>5. Left(s, rest'[t], begun'[s][last + 1], Len(stream'[s]) - q[last + 1])
      BY <3>2, <3>4, <2>11, <1>5
    <3> QED
      BY <3>1, <3>2, <3>4, <3>5, <2>11 DEF Writes
  <2>15. ToRead(s)'
    BY <2>10, <2>11, <2>13, <2>14 DEF ToRead
  <2> QED
    BY <2>12, <2>15
<1>9. InStep(s)'
  BY <1>8 DEF InStep
<1> QED
  BY <1>7, <1>9

\* Every further call of send continues the last frame.
LEMMA SendCallInStep ==
    ASSUME Typed, \A s \in Streams : InStep(s), NEW t \in Tasks, SendCall(t)
    PROVE  \A s \in Streams : InStep(s)'
<1> DEFINE s == StreamOf(t)
           last == Len(begun[s])
           st == stream[s]
           c == Head(rest[t])
<1> USE StreamsOfTasks
<1>1. /\ s \in Streams /\ begun[s] \in Seq(Seq(SmallBytes)) /\ st \in Seq(SmallBytes)
      /\ rest[t] \in Seq(Seq(SmallBytes)) /\ last \in Nat /\ Len(st) \in Nat
  BY DEF Typed
<1>2. /\ link = "up" /\ rest[t] # <<>>
      /\ stream' = [stream EXCEPT ![s] = @ \o c]
      /\ rest' = [rest EXCEPT ![t] = Tail(@)]
      /\ UNCHANGED <<link, pc, want, answer, frames, begun, got, torn>>
  BY DEF SendCall
<1>3. c \in Seq(SmallBytes) /\ Tail(rest[t]) \in Seq(Seq(SmallBytes)) /\ Len(c) \in Nat
  BY <1>1, <1>2
<1> HIDE DEF c
<1>4. ASSUME NEW r \in Streams, r # s
      PROVE  InStep(r)'
  <2>1. t \notin Senders(r) /\ Senders(r) \subseteq Tasks
    BY <1>4, OtherSenders DEF Senders, Tasks
  <2>2. \A u \in Senders(r) : rest'[u] = rest[u]
    BY <2>1, <1>2 DEF Typed
  <2>3. stream'[r] = stream[r]
    BY <1>2, <1>4 DEF Typed
  <2> QED
    BY <2>2, <2>3, <1>2, NotTouched
<1>5. ASSUME ~torn[s]
      PROVE  WasRead(s)' /\ ToRead(s)'
  <2>1. WasRead(s) /\ ToRead(s)
    BY <1>1, <1>5 DEF InStep
  <2>2. pc[s] # "ended"
    BY <2>1, <1>2 DEF WasRead
  <2>3. PICK p : Laid(s, begun[s], p, st) /\ Reads(s, p) /\ Writes(s, p)
    BY <2>1, <2>2, <1>2 DEF ToRead
  <2> DEFINE b == begun[s][last]
             o == Len(st) - p[last]
  <2>4. /\ \A u \in Senders(s) : u # t => rest[u] = <<>>
        /\ begun[s] # <<>> /\ p[last] <= Len(st) /\ Left(s, rest[t], b, o)
    BY <2>3, <1>2 DEF Writes
  <2>5. last \in 1..(last + 1) /\ last \in 1..last /\ last + 1 \in 1..(last + 1)
    BY <2>4, <1>1
  <2>6. p[last] \in Int /\ p[last + 1] = p[last] + Size(b)
    BY <2>3, <2>5 DEF Laid
  <2>7. b \in Seq(SmallBytes) /\ Size(b) \in Nat
    BY <2>5, <1>1, SizeIsNat
  <2>8. o \in Nat /\ p[last] + o = Len(st)
    BY <2>4, <2>6, <1>1
  <2> HIDE DEF o, b
  <2>9. o + Len(c) <= Size(b) /\ \A j \in 1..Len(c) : c[j] = FrameByte(s, b, o + j)
    BY <2>4 DEF Left, Chunk, c
  <2>10. Laid(s, begun[s], p, st \o c)
    <3>1. Len(st) + Len(c) <= p[last + 1]
      <4>1. /\ o + Len(c) <= Size(b) /\ p[last + 1] = p[last] + Size(b) /\ p[last] + o = Len(st)
            /\ p[last] \in Int /\ Size(b) \in Nat /\ o \in Nat /\ Len(c) \in Nat
        BY ONLY <2>6, <2>7, <2>8, <2>9, <1>3
      <4>2. ASSUME NEW x \in Int, NEW y \in Nat, NEW m \in Nat, m <= y - o, o \in Nat
            PROVE  (x + o) + m <= x + y
        BY ONLY <4>2
      <4>3. Len(c) <= Size(b) - o
        BY ONLY <4>1
      <4>4. (p[last] + o) + Len(c) <= p[last] + Size(b)
        BY ONLY <4>1, <4>2, <4>3
      <4> QED
        BY ONLY <4>1, <4>4
    <3>2. \A j \in 1..Len(c) : c[j] = FrameByte(s, begun[s][last], Len(st) - p[last] + j)
      BY <2>9 DEF o, b
    <3> QED
      BY <3>1, <3>2, <2>3, <2>4, <1>1, <1>3, LaidAfterSending
  <2>11. /\ stream'[s] = st \o c /\ rest'[t] = Tail(rest[t])
         /\ \A u \in Senders(s) : u # t => rest'[u] = <<>>
    BY <2>4, <1>1, <1>2 DEF Typed
  <2>12. /\ Len(stream'[s]) = Len(st) + Len(c)
         /\ o + Len(c) \in Nat /\ Len(stream'[s]) = p[last] + (o + Len(c))
    <3>1. Len(stream'[s]) = Len(st) + Len(c)
      BY <2>11, <1>1, <1>3, ConcatProperties
    <3>2. /\ Len(c) \in Nat /\ o \in Nat /\ p[last] \in Int /\ Len(st) \in Nat
          /\ p[last] + o = Len(st)
      BY ONLY <2>6, <2>8, <1>1, <1>3
    <3>3. \A x \in Int, y \in Nat, z \in Nat : y + z \in Nat /\ (x + y) + z = x + (y + z)
      OBVIOUS
    <3>4. o + Len(c) \in Nat /\ (p[last] + o) + Len(c) = p[last] + (o + Len(c))
      BY ONLY <3>2, <3>3
    <3> QED
      BY ONLY <3>1, <3>2, <3>4
  <2>13. Singles(s, Tail(rest[t]), b, o + Len(c))
    BY <2>4 DEF Left, c
  <2>14. Reads(s, p)'
    BY <2>3, <1>2 DEF Reads
  <2>15. Writes(s, p)'
    <3>1. CASE Tail(rest[t]) = <<>>
      <4>1. Size(b) - (o + Len(c)) = 0
        BY <3>1, <2>13 DEF Singles
      <4>2. Size(b) = o + Len(c)
        BY <4>1, <2>7, <2>12
      <4>3. Len(stream'[s]) = p[last + 1]
        BY <4>2, <2>6, <2>12
      <4>4. \A u \in Senders(s) : rest'[u] = <<>>
        BY <3>1, <2>11
      <4> QED
        BY <4>3, <4>4, <1>2 DEF Writes
    <3>2. CASE Tail(rest[t]) # <<>>
      <4>1. Left(s, Tail(rest[t]), b, o + Len(c))
        BY <3>2, <2>7, <2>12, <2>13, <1>3, SinglesAreLeft
      <4>2. p[last] <= Len(stream'[s]) /\ Len(stream'[s]) - p[last] = o + Len(c)
        BY <2>6, <2>12
      <4>3. Left(s, rest'[t], begun'[s][last], Len(stream'[s]) - p[last])
        BY <4>1, <4>2, <2>11, <1>2 DEF b
      <4>4. t \in Senders(s) /\ rest'[t] # <<>> /\ begun'[s] # <<>> /\ Len(begun'[s]) = last
        BY <3>2, <2>4, <2>11, <1>2
      <4> QED
        BY <4>2, <4>3, <4>4, <2>11 DEF Writes
    <3> QED
      BY <3>1, <3>2
  <2>16. WasRead(s)'
    BY <2>1, <1>2 DEF WasRead
  <2>17. ToRead(s)'
    BY <2>10, <2>11, <2>14, <2>15, <1>2 DEF ToRead
  <2> QED
    BY <2>16, <2>17
<1>6. InStep(s)'
  BY <1>2, <1>5 DEF InStep
<1> QED
  BY <1>4, <1>6

-----------------------------------------------------------------------------
(* Reading. *)

\* The reader is o bytes into frame k, whose body is b, and m bytes more of it have
\* arrived; and what it reads then.
Within(bs, p, st, k, b, o, m) ==
    /\ k \in 1..Len(bs) /\ b = bs[k] /\ p[k] + o = 0
    /\ m <= Len(st) /\ o + m <= Size(b)
NextAre(s, b, st, o, m) == \A i \in 1..m : st[i] = FrameByte(s, b, o + i)

\* Behind the preamble and the length a frame is its body.
LEMMA BodyByte ==
    ASSUME NEW s, NEW b, NEW i \in Nat \ {0}
    PROVE  FrameByte(s, b, (PreambleLength + 2) + i) = b[i]
<1> DEFINE j == (PreambleLength + 2) + i
<1>1. PreambleLength \in Nat
  BY FramingAssumption
<1>2. j \in Nat /\ ~(j <= PreambleLength) /\ j # PreambleLength + 1 /\ j # PreambleLength + 2
  BY <1>1
<1>3. j - PreambleLength - 2 = i
  BY <1>1
<1> HIDE DEF j
<1>4. FrameByte(s, b, j) = b[i]
  BY <1>2, <1>3 DEF FrameByte
<1> QED
  BY <1>4 DEF j

\* What the reader reads next are bytes of the frame that it is in.
LEMMA NextBytes ==
    ASSUME NEW s, NEW bs \in Seq(Seq(SmallBytes)), NEW p, NEW st \in Seq(SmallBytes), Laid(s, bs, p, st),
           NEW k, NEW b, NEW o \in Nat, NEW m \in Nat, Within(bs, p, st, k, b, o, m)
    PROVE  NextAre(s, b, st, o, m)
<1>1. /\ k \in 1..Len(bs) /\ b = bs[k] /\ p[k] + o = 0
      /\ m <= Len(st) /\ o + m <= Size(b)
  BY DEF Within
<1>2. Len(bs) \in Nat /\ Len(st) \in Nat /\ b \in Seq(SmallBytes)
  BY <1>1
<1>3. Size(b) \in Nat
  BY <1>2, SizeIsNat
<1>4. p[k + 1] = p[k] + Size(b)
  BY <1>1 DEF Laid
<1>5. p[k] \in Int
  <2>1. k \in 1..(Len(bs) + 1)
    BY <1>1, <1>2
  <2> QED
    BY <2>1 DEF Laid
<1>7. p[k + 1] \in Int
  BY <1>3, <1>4, <1>5
<1> SUFFICES ASSUME NEW i \in 1..m
             PROVE  st[i] = FrameByte(s, b, o + i)
  BY DEF NextAre
<1>8. p[k] < i /\ i <= p[k + 1] /\ i - p[k] = o + i
  <2>1. p[k] + o = 0 /\ o + m <= Size(b)
    BY ONLY <1>1
  <2>2. PICK x \in Int, y \in Int, z \in Nat : x = p[k] /\ y = p[k + 1] /\ z = Size(b)
    BY ONLY <1>3, <1>5, <1>7
  <2>3. x + o = 0 /\ y = x + z /\ o + m <= z
    BY ONLY <2>1, <2>2, <1>4
  <2>4. x < i /\ i <= y /\ i - x = o + i
    BY ONLY <2>3, o \in Nat, m \in Nat, i \in 1..m, x \in Int, y \in Int, z \in Nat
  <2> QED
    BY ONLY <2>2, <2>4
<1>9. i \in 1..Len(st)
  BY <1>1, <1>2
<1> QED
  BY <1>1, <1>8, <1>9 DEF Laid

\* A stream with bytes in it has the frame that the reader waits for.
LEMMA NextIsThere ==
    ASSUME NEW s, NEW bs \in Seq(Seq(SmallBytes)), NEW p, NEW st \in Seq(SmallBytes), Laid(s, bs, p, st),
           st # <<>>, NEW k \in 1..(Len(bs) + 1), p[k] = 0
    PROVE  k \in 1..Len(bs)
<1>1. Len(st) \in Nat \ {0} /\ Len(bs) \in Nat
  OBVIOUS
<1>2. k # Len(bs) + 1
  BY <1>1 DEF Laid
<1> QED
  BY <1>1, <1>2

\* What a read leaves behind of the description of its stream, and what it does
\* not touch.
LEMMA Taken ==
    ASSUME Typed, NEW s \in Streams, NEW p, Laid(s, begun[s], p, stream[s]),
           NEW n \in 0..Len(stream[s]), Took(s, n), UNCHANGED <<link, rest, begun>>
    PROVE  /\ Laid(s, begun'[s], Shifted(p, n), stream'[s])
           /\ Writes(s, p) => Writes(s, Shifted(p, n))'
           /\ \A k \in 1..(Len(begun[s]) + 1) : Shifted(p, n)[k] = p[k] - n /\ p[k] \in Int
<1> DEFINE last == Len(begun[s])
           q == Shifted(p, n)
<1>1. /\ begun[s] \in Seq(Seq(SmallBytes)) /\ stream[s] \in Seq(SmallBytes)
      /\ last \in Nat /\ Len(stream[s]) \in Nat /\ n \in Nat
  BY DEF Typed
<1>2. /\ stream'[s] = SubSeq(stream[s], n + 1, Len(stream[s]))
      /\ Len(stream'[s]) = Len(stream[s]) - n
  BY TookType
<1>3. Laid(s, begun'[s], q, stream'[s])
  BY <1>1, <1>2, LaidAfterReading
<1>4. \A k \in 1..(last + 1) : q[k] = p[k] - n /\ p[k] \in Int
  BY <1>1 DEF Laid, Shifted
<1>5. ASSUME Writes(s, p)
      PROVE  Writes(s, q)'
  <2>1. last + 1 \in 1..(last + 1)
    BY <1>1
  <2>2. Len(stream[s]) = p[last + 1] => Len(stream'[s]) = q[last + 1]
    BY <2>1, <1>1, <1>2, <1>4
  <2>3. begun[s] # <<>> /\ p[last] <= Len(stream[s])
          => /\ q[last] <= Len(stream'[s])
             /\ Len(stream'[s]) - q[last] = Len(stream[s]) - p[last]
    <3> HAVE begun[s] # <<>> /\ p[last] <= Len(stream[s])
    <3>1. last \in 1..(last + 1)
      BY <1>1
    <3>2. q[last] = p[last] - n /\ p[last] \in Int
      BY <3>1, <1>4
    <3> QED
      BY <3>2, <1>1, <1>2
  <2> HIDE DEF q
  <2>4. \A t \in Senders(s) : rest'[t] = rest[t]
    OBVIOUS
  <2>5. Len(begun'[s]) = last /\ begun'[s] = begun[s]
    OBVIOUS
  <2> QED
    BY <2>2, <2>3, <2>4, <2>5, <1>5 DEF Writes, q
<1> QED
  BY <1>3, <1>4, <1>5

\* What a reader may take for granted before its step.
LEMMA ReaderSees ==
    ASSUME Typed, NEW s \in Streams, InStep(s), ~torn[s], pc[s] # "ended"
    PROVE  /\ WasRead(s)
           /\ \E p : /\ Laid(s, begun[s], p, stream[s]) /\ Reads(s, p)
                     /\ link # "closed" => Writes(s, p)
           /\ begun[s] \in Seq(Seq(SmallBytes)) /\ stream[s] \in Seq(SmallBytes)
           /\ Len(got[s]) + 1 \in 1..(Len(begun[s]) + 1)
           /\ Len(got[s]) \in Nat /\ got[s] \in Seq(Seq(Bytes))
<1>1. WasRead(s) /\ ToRead(s)
  BY DEF InStep
<1>2. begun[s] \in Seq(Seq(SmallBytes)) /\ stream[s] \in Seq(SmallBytes) /\ got[s] \in Seq(Seq(Bytes))
  BY DEF Typed, TypeOK
<1> QED
  BY <1>1, <1>2 DEF ToRead, WasRead

\* The first bytes of a frame that has arrived are the preamble.
LEMMA PreambleArrives ==
    ASSUME Typed, NEW s \in Streams, InStep(s), ~torn[s], pc[s] = "preamble",
           Len(stream[s]) >= PreambleLength
    PROVE  /\ SubSeq(stream[s], 1, PreambleLength) = Preamble
           /\ Len(got[s]) + 1 \in 1..Len(begun[s])
<1> DEFINE st == stream[s]
           next == Len(got[s]) + 1
           pre == SubSeq(st, 1, PreambleLength)
<1>1. PICK p : Laid(s, begun[s], p, st) /\ Reads(s, p)
  BY ReaderSees
<1>2. /\ begun[s] \in Seq(Seq(SmallBytes)) /\ st \in Seq(SmallBytes)
      /\ next \in 1..(Len(begun[s]) + 1) /\ PreambleLength \in Nat \ {0}
      /\ Len(st) \in Nat /\ Len(begun[s]) \in Nat
  BY ReaderSees, FramingAssumption
<1>3. p[next] = 0
  BY <1>1 DEF Reads
<1>4. next \in 1..Len(begun[s])
  <2>1. st # <<>>
    BY <1>2
  <2> QED
    BY <2>1, <1>1, <1>2, <1>3, NextIsThere
<1>5. PICK b \in Seq(SmallBytes) : b = begun[s][next]
  BY <1>2, <1>4
<1>6. \A i \in 1..PreambleLength : st[i] = FrameByte(s, b, i)
  <2> HIDE DEF next, st
  <2>1. 0 + PreambleLength <= Size(b)
    <3>1. Size(b) \in Nat /\ PreambleLength + 2 + Len(b) = Size(b) /\ Len(b) \in Nat
      BY SizeIsNat
    <3> QED
      BY <3>1, <1>2
  <2>2. PreambleLength <= Len(st) /\ p[next] + 0 = 0
    BY <1>2, <1>3 DEF st
  <2>3. Within(begun[s], p, st, next, b, 0, PreambleLength)
    BY <2>1, <2>2, <1>4, <1>5 DEF Within
  <2>4. NextAre(s, b, st, 0, PreambleLength)
    BY <2>3, <1>1, <1>2, NextBytes
  <2>5. \A i \in 1..PreambleLength : 0 + i = i
    BY <1>2
  <2> QED
    BY <2>4, <2>5 DEF NextAre
<1>7. pre \in Seq(SmallBytes) /\ Len(pre) = PreambleLength /\ \A i \in 1..PreambleLength : pre[i] = st[i]
  <2>1. \A i \in 1..PreambleLength : st[i] \in SmallBytes
    BY <1>2
  <2>2. /\ pre \in Seq(SmallBytes)
        /\ Len(pre) = IF 1 <= PreambleLength THEN PreambleLength - 1 + 1 ELSE 0
        /\ \A i \in 1..(PreambleLength - 1 + 1) : pre[i] = st[1 + i - 1]
    BY <2>1, <1>2, SubSeqProperties
  <2> QED
    BY <2>2, <1>2
<1> HIDE DEF pre
<1>8. \A i \in 1..PreambleLength : pre[i] = Preamble[i]
  BY <1>6, <1>7, PreambleType
<1>9. pre = Preamble
  BY <1>7, <1>8, PreambleType, SeqEqual
<1> QED
  BY <1>4, <1>9 DEF pre

\* A step of a stream's reader does not touch the other stream.
LEMMA ReadsOne ==
    ASSUME Typed, NEW s \in Streams, Read(s), \A r \in Streams : InStep(r)
    PROVE  \A r \in Streams : r # s => InStep(r)'
<1> SUFFICES ASSUME NEW r \in Streams, r # s
             PROVE  InStep(r)'
  OBVIOUS
<1>1. /\ stream \in [Streams -> Seq(SmallBytes)] /\ pc \in [Streams -> {"preamble", "length", "body", "lost", "ended"}]
      /\ want \in [Streams -> 0..(Base * Base + 1)] /\ got \in [Streams -> Seq(Seq(Bytes))]
  BY DEF Typed, TypeOK
<1>2. UNCHANGED <<link, rest, begun, torn>>
  BY DEF Read, GetPreamble, GetLength, GetBody
<1>3. /\ stream'[r] = stream[r] /\ pc'[r] = pc[r] /\ want'[r] = want[r] /\ got'[r] = got[r]
  <2>1. CASE GetPreamble(s)
    BY <2>1, <1>1 DEF GetPreamble, BadPreamble, Took, Goto
  <2>2. CASE GetLength(s)
    BY <2>2, <1>1 DEF GetLength, Took, Goto
  <2>3. CASE GetBody(s)
    BY <2>3, <1>1 DEF GetBody, Took, Goto
  <2> QED
    BY <2>1, <2>2, <2>3 DEF Read
<1> QED
  BY <1>2, <1>3, NotTouched

\* get_msg finds the preamble, and the length lies next.
LEMMA GetPreambleInStep ==
    ASSUME Typed, NEW s \in Streams, InStep(s), GetPreamble(s)
    PROVE  InStep(s)'
<1> DEFINE next == Len(got[s]) + 1
<1>1. /\ pc[s] = "preamble" /\ Len(stream[s]) >= PreambleLength /\ Took(s, PreambleLength)
      /\ UNCHANGED <<link, rest, want, got, frames, begun, torn>>
  BY DEF GetPreamble, Waits, BadPreamble
<1> SUFFICES ASSUME ~torn[s]
             PROVE  WasRead(s)' /\ ToRead(s)'
  BY <1>1 DEF InStep
<1>2. SubSeq(stream[s], 1, PreambleLength) = Preamble /\ next \in 1..Len(begun[s])
  BY <1>1, PreambleArrives
<1>3. pc'[s] = "length"
  BY <1>2 DEF GetPreamble, Goto, Typed, TypeOK
<1>4. WasRead(s) /\ Len(begun[s]) \in Nat /\ PreambleLength \in Nat /\ PreambleLength \in 0..Len(stream[s])
  BY <1>1, ReaderSees, FramingAssumption
<1>5. PICK p : /\ Laid(s, begun[s], p, stream[s]) /\ Reads(s, p)
               /\ link # "closed" => Writes(s, p)
  BY <1>1, ReaderSees
<1>6. PICK q : q = Shifted(p, PreambleLength)
  OBVIOUS
<1>7. /\ Laid(s, begun'[s], q, stream'[s])
      /\ Writes(s, p) => Writes(s, q)'
      /\ \A k \in 1..(Len(begun[s]) + 1) : q[k] = p[k] - PreambleLength /\ p[k] \in Int
  BY <1>1, <1>4, <1>5, <1>6, Taken
<1>8. q[next] = -PreambleLength /\ next <= Len(begun[s])
  <2>1. p[next] = 0
    BY <1>1, <1>5 DEF Reads
  <2>2. next \in 1..(Len(begun[s]) + 1) /\ next <= Len(begun[s])
    BY <1>2, <1>4
  <2> QED
    BY <2>1, <2>2, <1>4, <1>7
<1>9. Reads(s, q)'
  BY <1>1, <1>3, <1>8 DEF Reads
<1>10. WasRead(s)'
  BY <1>1, <1>3, <1>4 DEF WasRead
<1>11. ToRead(s)'
  BY <1>1, <1>5, <1>7, <1>9 DEF ToRead
<1> QED
  BY <1>10, <1>11

\* The two halves make the length of the body that lies next.
LEMMA GetLengthInStep ==
    ASSUME Typed, NEW s \in Streams, InStep(s), GetLength(s)
    PROVE  InStep(s)'
<1> DEFINE next == Len(got[s]) + 1
           b == begun[s][next]
           n == Len(b) - Header(s)
<1>1. /\ pc[s] = "length" /\ Len(stream[s]) >= 2 /\ Took(s, 2)
      /\ UNCHANGED <<link, rest, got, frames, begun, torn>>
  BY DEF GetLength, Waits
<1> SUFFICES ASSUME ~torn[s]
             PROVE  WasRead(s)' /\ ToRead(s)'
  BY <1>1 DEF InStep
<1>2. PICK p : /\ Laid(s, begun[s], p, stream[s]) /\ Reads(s, p)
               /\ link # "closed" => Writes(s, p)
  BY <1>1, ReaderSees
<1>3. /\ WasRead(s) /\ Len(begun[s]) \in Nat /\ PreambleLength \in Nat /\ 2 \in 0..Len(stream[s])
      /\ begun[s] \in Seq(Seq(SmallBytes)) /\ stream[s] \in Seq(SmallBytes)
      /\ next \in 1..(Len(begun[s]) + 1)
  BY <1>1, ReaderSees, FramingAssumption
<1>4. next <= Len(begun[s]) /\ p[next] = -PreambleLength
  BY <1>1, <1>2 DEF Reads
<1>5. next \in 1..Len(begun[s])
  BY <1>3, <1>4
<1>6. b \in Bodies(s) /\ b \in Seq(SmallBytes)
  BY <1>3, <1>5 DEF Typed
<1> HIDE DEF b
<1>7. n \in Nat /\ n < Base * Base /\ Len(b) \in Nat /\ Len(b) = n + Header(s)
  BY <1>6 DEF Bodies, Header
<1>8. stream[s][1] = Byte("nibble", Low(n)) /\ stream[s][2] = Byte("nibble", High(n))
  <2> HIDE DEF next
  <2>1. PreambleLength + 2 <= Size(b)
    <3>1. Size(b) \in Nat /\ PreambleLength + 2 + Len(b) = Size(b) /\ Len(b) \in Nat
      BY <1>6, SizeIsNat
    <3> QED
      BY <3>1, <1>3
  <2>2. p[next] + PreambleLength = 0 /\ 2 <= Len(stream[s]) /\ b = begun[s][next]
    BY <1>1, <1>3, <1>4 DEF b
  <2>3. Within(begun[s], p, stream[s], next, b, PreambleLength, 2)
    BY <2>1, <2>2, <1>5 DEF Within
  <2>4. NextAre(s, b, stream[s], PreambleLength, 2)
    BY <2>3, <1>2, <1>3, NextBytes
  <2>5. stream[s][1] = FrameByte(s, b, PreambleLength + 1) /\ stream[s][2] = FrameByte(s, b, PreambleLength + 2)
    BY <2>4 DEF NextAre
  <2>6. /\ ~(PreambleLength + 1 <= PreambleLength) /\ ~(PreambleLength + 2 <= PreambleLength)
        /\ PreambleLength + 2 # PreambleLength + 1
    BY <1>3
  <2> QED
    BY <2>5, <2>6 DEF FrameByte
<1> HIDE DEF n
<1>9. /\ Low(n) \in Nat /\ High(n) \in Nat /\ Low(n) < Base /\ High(n) < Base
      /\ LengthOf(Low(n), High(n)) = n
  BY <1>7, LengthSurvives, FramingAssumption
<1>10. /\ stream[s][1].is = "nibble" /\ stream[s][1].value = Low(n)
       /\ stream[s][2].is = "nibble" /\ stream[s][2].value = High(n)
  BY <1>8, <1>9, ByteType DEF Kinds
<1>11. pc'[s] = "body" /\ want'[s] = BodyLength(s, n)
  BY <1>9, <1>10 DEF GetLength, Goto, Typed, TypeOK
<1>12. BodyLength(s, n) = Len(b)
  BY <1>7 DEF BodyLength, Header
<1>13. PICK q : q = Shifted(p, 2)
  OBVIOUS
<1>14. /\ Laid(s, begun'[s], q, stream'[s])
       /\ Writes(s, p) => Writes(s, q)'
       /\ \A k \in 1..(Len(begun[s]) + 1) : q[k] = p[k] - 2 /\ p[k] \in Int
  BY <1>1, <1>2, <1>3, <1>13, Taken
<1>15. q[next] = -(PreambleLength + 2)
  BY <1>3, <1>4, <1>14
<1>16. Reads(s, q)'
  BY <1>1, <1>4, <1>11, <1>12, <1>15 DEF Reads, b
<1>17. WasRead(s)'
  BY <1>1, <1>3, <1>11 DEF WasRead
<1>18. ToRead(s)'
  BY <1>1, <1>2, <1>14, <1>16 DEF ToRead
<1> QED
  BY <1>17, <1>18

\* What is read is the body of the next frame, and a preamble lies next.
LEMMA GetBodyInStep ==
    ASSUME Typed, NEW s \in Streams, InStep(s), GetBody(s)
    PROVE  InStep(s)'
<1> DEFINE next == Len(got[s]) + 1
           b == begun[s][next]
           m == Len(b)
           body == SubSeq(stream[s], 1, want[s])
<1>1. /\ pc[s] = "body" /\ Len(stream[s]) >= want[s] /\ Took(s, want[s])
      /\ got' = [got EXCEPT ![s] = Append(@, body)]
      /\ UNCHANGED <<link, rest, want, frames, begun, torn>>
  BY DEF GetBody, Waits
<1> SUFFICES ASSUME ~torn[s]
             PROVE  WasRead(s)' /\ ToRead(s)'
  BY <1>1 DEF InStep
<1>2. PICK p : /\ Laid(s, begun[s], p, stream[s]) /\ Reads(s, p)
               /\ link # "closed" => Writes(s, p)
  BY <1>1, ReaderSees
<1>3. /\ WasRead(s) /\ Len(begun[s]) \in Nat /\ PreambleLength \in Nat
      /\ begun[s] \in Seq(Seq(SmallBytes)) /\ stream[s] \in Seq(SmallBytes)
      /\ next \in 1..(Len(begun[s]) + 1) /\ Len(got[s]) \in Nat /\ got[s] \in Seq(Seq(Bytes))
  BY <1>1, ReaderSees, FramingAssumption
<1>4. next <= Len(begun[s]) /\ p[next] = -(PreambleLength + 2) /\ want[s] = m
  BY <1>1, <1>2 DEF Reads
<1>5. next \in 1..Len(begun[s])
  BY <1>3, <1>4
<1>6. b \in Seq(SmallBytes) /\ m \in Nat /\ m \in 0..Len(stream[s])
  <2>1. b \in Seq(SmallBytes)
    BY <1>3, <1>5
  <2> HIDE DEF b
  <2>2. m \in Nat /\ Len(stream[s]) \in Nat
    BY ONLY <2>1, <1>3
  <2>3. m <= Len(stream[s])
    BY ONLY <1>1, <1>4, <2>2
  <2> QED
    BY ONLY <2>1, <2>2, <2>3
<1>7. \A i \in 1..m : stream[s][i] = b[i]
  <2> HIDE DEF b, next
  <2>1. (PreambleLength + 2) + m <= Size(b) /\ PreambleLength + 2 \in Nat
    BY <1>3, <1>6, SizeIsNat
  <2>2. p[next] + (PreambleLength + 2) = 0 /\ b = begun[s][next] /\ m <= Len(stream[s])
    BY <1>3, <1>4, <1>6 DEF b
  <2>3. Within(begun[s], p, stream[s], next, b, PreambleLength + 2, m)
    BY <2>1, <2>2, <1>5 DEF Within
  <2>4. NextAre(s, b, stream[s], PreambleLength + 2, m)
    BY <2>1, <2>3, <1>2, <1>3, <1>6, NextBytes
  <2>5. ASSUME NEW i \in 1..m
        PROVE  FrameByte(s, b, (PreambleLength + 2) + i) = b[i]
    <3>1. i \in Nat \ {0}
      BY <1>6
    <3> QED
      BY <3>1, BodyByte
  <2> QED
    BY <2>4, <2>5 DEF NextAre
<1>8. body = b
  <2>1. \A i \in 1..m : stream[s][i] \in SmallBytes
    BY <1>3, <1>6
  <2>2. /\ body \in Seq(SmallBytes)
        /\ Len(body) = IF 1 <= m THEN m - 1 + 1 ELSE 0
        /\ \A i \in 1..(m - 1 + 1) : body[i] = stream[s][1 + i - 1]
    BY <2>1, <1>4, <1>6, SubSeqProperties
  <2> HIDE DEF body, b
  <2>3. Len(body) = m /\ \A i \in 1..m : body[i] = b[i]
    BY <2>2, <1>6, <1>7
  <2> QED
    BY <2>2, <2>3, <1>6, SeqEqual
<1> HIDE DEF body
<1>9. got'[s] = Append(got[s], b) /\ pc'[s] = "preamble"
  BY <1>1, <1>8 DEF GetBody, Goto, Typed, TypeOK
<1>10. b \in Seq(Bytes)
  BY <1>6, SmallAreBytes
<1>11. /\ Len(got'[s]) = next /\ got'[s][next] = b
       /\ \A k \in 1..Len(got[s]) : got'[s][k] = got[s][k]
  BY <1>3, <1>9, <1>10, AppendProperties
<1>12. PICK q : q = Shifted(p, m)
  OBVIOUS
<1>13. /\ Laid(s, begun'[s], q, stream'[s])
       /\ Writes(s, p) => Writes(s, q)'
       /\ \A k \in 1..(Len(begun[s]) + 1) : q[k] = p[k] - m /\ p[k] \in Int
  BY <1>1, <1>2, <1>4, <1>6, <1>12, Taken
<1>14. q[next + 1] = 0
  <2>1. p[next + 1] = p[next] + Size(b)
    BY <1>2, <1>5 DEF Laid
  <2>2. p[next + 1] = m
    <3> HIDE DEF b, next
    <3>1. Size(b) = PreambleLength + 2 + m
      BY <1>6, SizeIsNat
    <3> QED
      BY <2>1, <3>1, <1>3, <1>4, <1>6
  <2>3. next + 1 \in 1..(Len(begun[s]) + 1)
    BY <1>3, <1>5
  <2> QED
    BY <2>2, <2>3, <1>6, <1>13
<1>15. Reads(s, q)'
  BY <1>9, <1>11, <1>14 DEF Reads
<1>16. WasRead(s)'
  <2>1. Len(got'[s]) <= Len(begun'[s])
    BY <1>1, <1>4, <1>11
  <2>2. ASSUME NEW k \in 1..Len(got'[s])
        PROVE  got'[s][k] = begun'[s][k]
    <3>1. k = next \/ k \in 1..Len(got[s])
      BY <1>3, <1>11
    <3> QED
      BY <3>1, <1>1, <1>3, <1>11 DEF WasRead
  <2> QED
    BY <2>1, <2>2, <1>9 DEF WasRead
<1>17. ToRead(s)'
  BY <1>1, <1>2, <1>13, <1>15 DEF ToRead
<1> QED
  BY <1>16, <1>17

-----------------------------------------------------------------------------
(* The invariant. *)

\* Connecting, losing the connection and giving up do not touch what was sent.
LEMMA EndsInStep ==
    ASSUME Typed, \A s \in Streams : InStep(s),
           \/ Connect \/ ConnectFails \/ ServerCloses \/ Eof
           \/ \E t \in Tasks : SendFails(t)
    PROVE  \A s \in Streams : InStep(s)'
<1> SUFFICES ASSUME NEW s \in Streams
             PROVE  InStep(s)'
  OBVIOUS
<1>1. pc \in [Streams -> {"preamble", "length", "body", "lost", "ended"}]
  BY DEF Typed, TypeOK
<1>2. UNCHANGED <<stream, want, begun, got, torn>> /\ (link = "closed" => link' = "closed")
  BY DEF Connect, ConnectFails, ServerCloses, Eof, SendFails
<1>3. pc'[s] = pc[s] \/ (pc'[s] = "ended" /\ link' = "closed")
  BY <1>1 DEF Connect, ConnectFails, ServerCloses, Eof, SendFails, Goto, Streams
<1>4. link' # "closed" => rest' = rest
  BY DEF Connect, ConnectFails, ServerCloses, Eof, SendFails
<1> QED
  BY <1>2, <1>3, <1>4, NotTouched

\* Before anything is sent the first frame is the next one.
LEMMA InitInStep == Init => \A s \in Streams : InStep(s)
<1> SUFFICES ASSUME Init, NEW s \in Streams
             PROVE  InStep(s)
  OBVIOUS
<1> DEFINE none == <<>>
           p == [k \in {1} |-> 0]
<1>1. /\ stream[s] = none /\ begun[s] = none /\ got[s] = none /\ pc[s] = "preamble"
      /\ link # "closed" /\ Len(none) = 0
  BY DEF Init
<1>2. \A t \in Senders(s) : rest[t] = <<>>
  BY DEF Init, Senders
<1>3. p[1] = 0 /\ p \in [1..(0 + 1) -> Int]
  BY DEF p
<1> HIDE DEF none, p
<1>4. Laid(s, none, p, none)
  BY <1>1, <1>3 DEF Laid
<1>5. Reads(s, p)
  BY <1>1, <1>3 DEF Reads
<1>6. Writes(s, p)
  BY <1>1, <1>2, <1>3 DEF Writes
<1>7. WasRead(s)
  BY <1>1 DEF WasRead
<1>8. ToRead(s)
  BY <1>1, <1>4, <1>5, <1>6 DEF ToRead
<1> QED
  BY <1>7, <1>8 DEF InStep

\* A step of either side leaves the streams that nobody tore in step.
LEMMA NextInStep ==
    ASSUME Typed, \A s \in Streams : InStep(s), Next
    PROVE  \A s \in Streams : InStep(s)'
<1>1. CASE MainSends \/ TimerSends \/ ReaderAnswers \/ \E t \in Forwarders : ForwarderSends(t)
  <2>1. PICK t \in Tasks, cmd \in Nat, n \in 0..(Base * Base - 1) : Begin(t, cmd, n)
    BY <1>1, BeginsOfNext
  <2>2. link' = link /\ pc' = pc /\ want' = want /\ got' = got
    BY <1>1, BeginsOfNext
  <2> QED
    BY <2>1, <2>2, BeginInStep
<1>2. CASE \E t \in Tasks : SendCall(t)
  BY <1>2, SendCallInStep
<1>3. CASE \E s \in Streams : Read(s)
  <2>1. PICK s \in Streams : Read(s)
    BY <1>3
  <2>2. InStep(s)'
    BY <2>1, GetPreambleInStep, GetLengthInStep, GetBodyInStep DEF Read
  <2> QED
    BY <2>1, <2>2, ReadsOne
<1>4. CASE \/ Connect \/ ConnectFails \/ ServerCloses \/ Eof
           \/ \E t \in Tasks : SendFails(t)
  BY <1>4, EndsInStep
<1> QED
  BY <1>1, <1>2, <1>3, <1>4 DEF Next, Tasks

\* Types, and what a stream that nobody tore holds, as an invariant.
THEOREM Invariance == Spec => []IInv
<1>1. Init => IInv
  BY InitTyped, InitInStep DEF IInv
<1>2. IInv /\ [Next]_vars => IInv'
  <2> SUFFICES ASSUME IInv, [Next]_vars
               PROVE  IInv'
    OBVIOUS
  <2>1. CASE Next
    BY <2>1, NextTyped, NextInStep DEF IInv
  <2>2. CASE UNCHANGED vars
    <3>1. Typed'
      BY <2>2 DEF IInv, Typed, TypeOK, vars, Bound
    <3>2. ASSUME NEW s \in Streams
          PROVE  InStep(s)'
      BY <2>2, NotTouched DEF IInv, vars
    <3> QED
      BY <3>1, <3>2 DEF IInv
  <2> QED
    BY <2>1, <2>2
<1> QED
  BY <1>1, <1>2, PTL DEF Spec

-----------------------------------------------------------------------------
(* The theorems. *)

\* The variables of both ends keep their types: a reader never wants more bytes
\* than the largest frame has, and no thread begins more frames than it may.
THEOREM TypeCorrect == Spec => []TypeOK
<1>1. IInv => TypeOK
  BY DEF IInv, Typed
<1> QED
  BY <1>1, Invariance, PTL

\* Whatever the lengths and however many threads send, a stream on which no two
\* sends have overlapped delivers what get_msg reads whole and in the order the
\* sends began.
THEOREM FramesArriveWholeHolds == Spec => []FramesArriveWhole
<1>1. ASSUME IInv, NEW s \in Streams, ~torn[s]
      PROVE  IsPrefix(got[s], begun[s])
  <2> DEFINE g == got[s]
             b == begun[s]
  <2>1. g \in Seq(Seq(Bytes)) /\ b \in Seq(Seq(Bytes))
    BY <1>1 DEF IInv, Typed, TypeOK
  <2>2. Len(g) <= Len(b) /\ \A k \in 1..Len(g) : g[k] = b[k]
    BY <1>1 DEF IInv, InStep, WasRead
  <2> HIDE DEF g, b
  <2>3. Len(g) \in Nat /\ Len(b) \in Nat
    BY <2>1
  <2>4. g = SubSeq(b, 1, Len(g))
    <3>1. \A i \in 1..Len(g) : b[i] \in Seq(Bytes)
      BY <2>1, <2>2, <2>3
    <3>2. /\ SubSeq(b, 1, Len(g)) \in Seq(Seq(Bytes))
          /\ Len(SubSeq(b, 1, Len(g))) = IF 1 <= Len(g) THEN Len(g) - 1 + 1 ELSE 0
          /\ \A i \in 1..(Len(g) - 1 + 1) : SubSeq(b, 1, Len(g))[i] = b[1 + i - 1]
      BY <3>1, <2>3, SubSeqProperties
    <3>3. Len(SubSeq(b, 1, Len(g))) = Len(g) /\ \A i \in 1..Len(g) : SubSeq(b, 1, Len(g))[i] = b[i]
      BY <3>2, <2>3
    <3> QED
      BY <3>2, <3>3, <2>1, <2>2, SeqEqual
  <2> QED
    BY <2>2, <2>3, <2>4 DEF IsPrefix, g, b
<1>2. IInv => FramesArriveWhole
  BY <1>1 DEF FramesArriveWhole
<1> QED
  BY <1>2, Invariance, PTL

\* As long as no two sends overlap, a reader finds a preamble where it looks for
\* one and never loses its place, and the device's task ends with the connection
\* only.
THEOREM StaysInStepHolds == Spec => []StaysInStep
<1>1. ASSUME IInv, NEW s \in Streams, ~torn[s]
      PROVE  /\ pc[s] # "lost"
             /\ pc[s] = "ended" => link = "closed"
             /\ pc[s] = "preamble" /\ Len(stream[s]) >= PreambleLength
                   => SubSeq(stream[s], 1, PreambleLength) = Preamble
  <2>1. Typed /\ InStep(s)
    BY <1>1 DEF IInv
  <2>2. WasRead(s)
    BY <2>1, <1>1 DEF InStep
  <2> QED
    BY <2>1, <2>2, <1>1, PreambleArrives DEF WasRead
<1>2. IInv => StaysInStep
  BY <1>1 DEF StaysInStep
<1> QED
  BY <1>2, Invariance, PTL

-----------------------------------------------------------------------------
(* Requests and answers.  These are counted whether or not sends overlap:   *)
(* what read_sock_task takes for SEND_STATUS it answers.                    *)

Commanded(cmd, f) == {k \in 1..Len(f) : f[k][1] = Byte("type", cmd)}
HowMany(cmd, f) == Cardinality(Commanded(cmd, f))

Due == IF answer THEN 1 ELSE 0

\* read_sock_task answers each SEND_STATUS that it reads once, and the answer that
\* is due is the only one that it has not begun.
AnswersDue ==
    /\ frames["reader"] + Due <= HowMany(SEND_STATUS, got["down"])
    /\ link # "closed" => frames["reader"] + Due = HowMany(SEND_STATUS, got["down"])

Counted ==
    /\ HowMany(UPDATE_STATUS, begun["up"]) = frames["reader"]
    /\ HowMany(SEND_STATUS, begun["down"]) = frames["timer"]
    /\ pc["down"] = "body" => want["down"] > 0
    /\ AnswersDue

LEMMA CommandedFinite ==
    ASSUME NEW S, NEW f \in Seq(S), NEW cmd
    PROVE  IsFiniteSet(Commanded(cmd, f)) /\ HowMany(cmd, f) \in Nat
<1>1. IsFiniteSet(1..Len(f))
  BY FS_Interval
<1>2. IsFiniteSet(Commanded(cmd, f))
  BY <1>1, FS_Subset DEF Commanded
<1> QED
  BY <1>2, FS_CardinalityType DEF HowMany

\* One frame more.
LEMMA OneMore ==
    ASSUME NEW S, NEW f \in Seq(S), NEW b \in S, NEW cmd
    PROVE  HowMany(cmd, Append(f, b))
               = HowMany(cmd, f) + (IF b[1] = Byte("type", cmd) THEN 1 ELSE 0)
<1> DEFINE g == Append(f, b)
           n == Len(f) + 1
<1>1. /\ Len(f) \in Nat /\ Len(g) = n /\ g[n] = b /\ n \in 1..n /\ n \notin 1..Len(f)
      /\ \A k \in 1..Len(f) : g[k] = f[k] /\ k \in 1..n
      /\ \A k \in 1..n : k \in 1..Len(f) \/ k = n
  BY AppendProperties
<1> HIDE DEF g, n
<1>2. IsFiniteSet(Commanded(cmd, f)) /\ HowMany(cmd, f) \in Nat
  BY CommandedFinite
<1>3. n \notin Commanded(cmd, f)
  BY <1>1 DEF Commanded
<1>4. CASE b[1] = Byte("type", cmd)
  <2>1. Commanded(cmd, g) = Commanded(cmd, f) \cup {n}
    BY <1>1, <1>4 DEF Commanded
  <2> QED
    BY <1>2, <1>3, <1>4, <2>1, FS_AddElement DEF HowMany, g
<1>5. CASE b[1] # Byte("type", cmd)
  <2>1. Commanded(cmd, g) = Commanded(cmd, f)
    BY <1>1, <1>5 DEF Commanded
  <2> QED
    BY <1>2, <1>5, <2>1 DEF HowMany, g
<1> QED
  BY <1>4, <1>5

\* The first frames only.
LEMMA NoMoreThan ==
    ASSUME NEW S, NEW f \in Seq(S), NEW g \in Seq(S), NEW cmd,
           Len(g) <= Len(f), \A k \in 1..Len(g) : g[k] = f[k]
    PROVE  HowMany(cmd, g) <= HowMany(cmd, f)
<1>1. Commanded(cmd, g) \subseteq Commanded(cmd, f)
  <2>1. Len(g) \in Nat /\ Len(f) \in Nat
    OBVIOUS
  <2>2. \A k \in 1..Len(g) : k \in 1..Len(f)
    BY <2>1
  <2> QED
    BY <2>2 DEF Commanded
<1> QED
  BY <1>1, CommandedFinite, FS_Subset DEF HowMany

LEMMA TypeFirst ==
    ASSUME NEW t, NEW cmd \in Nat, NEW n \in Nat, NEW k
    PROVE  Body(t, cmd, n, k)[1] = Byte("type", cmd)
<1> DEFINE x == Byte("type", cmd)
           y == Byte("dest", 5)
           S == {x, y, Byte("text", k)}
           tx == Text(n, k)
<1>1. tx \in Seq(S)
  BY DEF Text
<1>2. x \in S /\ y \in S
  OBVIOUS
<1>3. Body(t, cmd, n, k) = IF t \in DeviceTasks THEN <<x, y>> \o tx ELSE <<x>> \o tx
  BY DEF Body, DeviceBody, ServerBody
<1> HIDE DEF x, y, S, tx
<1>4. /\ <<x>> \in Seq(S) /\ Len(<<x>>) = 1 /\ <<x>>[1] = x
      /\ <<x, y>> \in Seq(S) /\ Len(<<x, y>>) = 2 /\ <<x, y>>[1] = x
  BY ONLY <1>2
<1>5. ASSUME NEW h \in Seq(S), Len(h) > 0, h[1] = x
      PROVE  (h \o tx)[1] = x
  BY ONLY <1>1, <1>5, h \in Seq(S), ConcatProperties
<1>6. (<<x, y>> \o tx)[1] = x /\ (<<x>> \o tx)[1] = x
  BY <1>4, <1>5
<1> QED
  BY <1>3, <1>6 DEF x

LEMMA DifferentTypes ==
    \A c, d \in Nat : Byte("type", c) = Byte("type", d) => c = d
BY DEF Byte

\* What the beginning of a frame does to the counts.
LEMMA BeginCounts ==
    ASSUME Typed, NEW t \in Tasks, NEW cmd \in Nat, NEW n \in 0..(Base * Base - 1), Begin(t, cmd, n)
    PROVE  /\ \A c \in Nat : HowMany(c, begun'[StreamOf(t)]) =
                  HowMany(c, begun[StreamOf(t)]) + (IF c = cmd THEN 1 ELSE 0)
           /\ \A s \in Streams : s # StreamOf(t) => begun'[s] = begun[s]
           /\ frames'[t] = frames[t] + 1 /\ \A u \in Tasks : u # t => frames'[u] = frames[u]
<1> DEFINE s == StreamOf(t)
           b == Body(t, cmd, n, Len(begun[s]) + 1)
<1>0. n \in Nat
  BY FramingAssumption
<1>1. s \in Streams /\ begun[s] \in Seq(Seq(SmallBytes)) /\ frames \in [Tasks -> Nat]
      /\ begun \in [Streams -> Seq(Seq(SmallBytes))]
  BY StreamsOfTasks DEF Typed, TypeOK, Tasks
<1>2. b \in Seq(SmallBytes)
  BY <1>1, BodyFits DEF Bodies
<1>3. b[1] = Byte("type", cmd)
  BY <1>0, TypeFirst
<1>4. begun' = [begun EXCEPT ![s] = Append(@, b)] /\ frames' = [frames EXCEPT ![t] = @ + 1]
  BY DEF Begin
<1> HIDE DEF b, s
<1>5. begun'[s] = Append(begun[s], b) /\ \A r \in Streams : r # s => begun'[r] = begun[r]
  BY <1>1, <1>4
<1>6. ASSUME NEW c \in Nat
      PROVE  HowMany(c, begun'[s]) = HowMany(c, begun[s]) + (IF c = cmd THEN 1 ELSE 0)
  <2>1. HowMany(c, Append(begun[s], b))
            = HowMany(c, begun[s]) + (IF b[1] = Byte("type", c) THEN 1 ELSE 0)
    BY <1>1, <1>2, OneMore
  <2>2. b[1] = Byte("type", c) <=> c = cmd
    BY <1>3, DifferentTypes
  <2> QED
    BY <1>5, <2>1, <2>2
<1> QED
  BY <1>1, <1>4, <1>5, <1>6 DEF s

LEMMA CountsTyped ==
    ASSUME Typed
    PROVE  /\ {"main", "reader", "timer"} \subseteq Tasks /\ Forwarders \subseteq Tasks
           /\ frames \in [Tasks -> Nat]
           /\ \A c : /\ HowMany(c, begun["up"]) \in Nat /\ HowMany(c, begun["down"]) \in Nat
                     /\ HowMany(c, got["up"]) \in Nat /\ HowMany(c, got["down"]) \in Nat
<1>1. \A s \in Streams : begun[s] \in Seq(Seq(Bytes)) /\ got[s] \in Seq(Seq(Bytes))
  BY DEF Typed, TypeOK
<1>2. \A c : \A s \in Streams : HowMany(c, begun[s]) \in Nat /\ HowMany(c, got[s]) \in Nat
  BY <1>1, CommandedFinite
<1> QED
  BY <1>2 DEF Typed, TypeOK, Tasks, DeviceTasks, ServerThreads, Streams

\* A send by another thread than the reader and the timer, or of another command.
LEMMA OtherSendCounted ==
    ASSUME Typed, Counted, MainSends \/ \E t \in Forwarders : ForwarderSends(t)
    PROVE  Counted'
<1>1. UNCHANGED <<link, pc, want, answer, got>>
  BY DEF MainSends, ForwarderSends
<1>2. /\ HowMany(UPDATE_STATUS, begun'["up"]) = HowMany(UPDATE_STATUS, begun["up"])
      /\ HowMany(SEND_STATUS, begun'["down"]) = HowMany(SEND_STATUS, begun["down"])
      /\ frames'["reader"] = frames["reader"] /\ frames'["timer"] = frames["timer"]
  <2>1. CASE MainSends
    <3>1. PICK cmd \in {SET_CLIENT_NAME, SEND_IOT_VALUES} : Begin("main", cmd, NameLength)
      BY <2>1 DEF MainSends
    <3>2. cmd \in Nat /\ cmd # UPDATE_STATUS /\ StreamOf("main") = "up" /\ UPDATE_STATUS \in Nat
      BY DEF SET_CLIENT_NAME, SEND_IOT_VALUES, UPDATE_STATUS, StreamOf, DeviceTasks
    <3>3. /\ HowMany(UPDATE_STATUS, begun'["up"])
                = HowMany(UPDATE_STATUS, begun["up"]) + (IF UPDATE_STATUS = cmd THEN 1 ELSE 0)
          /\ begun'["down"] = begun["down"]
          /\ frames'["reader"] = frames["reader"] /\ frames'["timer"] = frames["timer"]
      BY <3>1, <3>2, CountsTyped, LengthsFit, BeginCounts DEF Streams
    <3> QED
      BY <3>2, <3>3, CountsTyped
  <2>2. ASSUME NEW t \in Forwarders, ForwarderSends(t)
        PROVE  /\ HowMany(UPDATE_STATUS, begun'["up"]) = HowMany(UPDATE_STATUS, begun["up"])
               /\ HowMany(SEND_STATUS, begun'["down"]) = HowMany(SEND_STATUS, begun["down"])
               /\ frames'["reader"] = frames["reader"] /\ frames'["timer"] = frames["timer"]
    <3>1. PICK n \in 0..(Base * Base - 1) : Begin(t, Other, n)
      BY <2>2, LengthsFit DEF ForwarderSends
    <3>2. /\ Other \in Nat /\ SEND_STATUS \in Nat /\ Other # SEND_STATUS
          /\ StreamOf(t) = "down" /\ t # "reader" /\ t # "timer"
      BY FramingAssumption DEF Other, SEND_STATUS, StreamOf, DeviceTasks
    <3>3. /\ HowMany(SEND_STATUS, begun'["down"])
                = HowMany(SEND_STATUS, begun["down"]) + (IF SEND_STATUS = Other THEN 1 ELSE 0)
          /\ begun'["up"] = begun["up"]
          /\ frames'["reader"] = frames["reader"] /\ frames'["timer"] = frames["timer"]
      BY <3>1, <3>2, CountsTyped, BeginCounts DEF Streams
    <3> QED
      BY <3>2, <3>3, CountsTyped
  <2> QED
    BY <2>1, <2>2
<1> QED
  BY <1>1, <1>2 DEF Counted, AnswersDue, Due

LEMMA TimerCounted ==
    ASSUME Typed, Counted, TimerSends
    PROVE  Counted'
<1>1. Begin("timer", SEND_STATUS, TimerLength) /\ UNCHANGED <<link, pc, want, answer, got>>
  BY DEF TimerSends
<1>2. StreamOf("timer") = "down"
  BY DEF StreamOf, DeviceTasks
<1>3. /\ HowMany(SEND_STATUS, begun'["down"]) = HowMany(SEND_STATUS, begun["down"]) + 1
      /\ begun'["up"] = begun["up"]
      /\ frames'["timer"] = frames["timer"] + 1 /\ frames'["reader"] = frames["reader"]
  BY <1>1, <1>2, CountsTyped, LengthsFit, BeginCounts DEF Streams
<1> QED
  BY <1>1, <1>3 DEF Counted, AnswersDue, Due

LEMMA AnswerCounted ==
    ASSUME Typed, Counted, ReaderAnswers
    PROVE  Counted'
<1>1. /\ answer /\ ~answer' /\ Begin("reader", UPDATE_STATUS, NameLength)
      /\ UNCHANGED <<link, pc, want, got>>
  BY DEF ReaderAnswers
<1>2. StreamOf("reader") = "up"
  BY DEF StreamOf, DeviceTasks
<1>3. /\ HowMany(UPDATE_STATUS, begun'["up"]) = HowMany(UPDATE_STATUS, begun["up"]) + 1
      /\ begun'["down"] = begun["down"]
      /\ frames'["reader"] = frames["reader"] + 1 /\ frames'["timer"] = frames["timer"]
  BY <1>1, <1>2, CountsTyped, LengthsFit, BeginCounts DEF Streams
<1>4. frames["reader"] \in Nat
  BY CountsTyped
<1> QED
  BY <1>1, <1>3, <1>4 DEF Counted, AnswersDue, Due

\* A SEND_STATUS that is read makes an answer due, and nothing else does.
LEMMA BodyCounted ==
    ASSUME Typed, Counted, NEW s \in Streams, GetBody(s)
    PROVE  Counted'
<1> DEFINE body == SubSeq(stream[s], 1, want[s])
<1>1. /\ pc[s] = "body" /\ Reading(s) /\ Len(stream[s]) >= want[s]
      /\ got' = [got EXCEPT ![s] = Append(@, body)] /\ pc' = [pc EXCEPT ![s] = "preamble"]
      /\ answer' = IF s = "up" THEN answer ELSE body[1].is = "type" /\ body[1].value = SEND_STATUS
      /\ UNCHANGED <<link, want, frames, begun>>
  BY DEF GetBody, Waits, Goto
<1>2. pc'["down"] = "body" => pc["down"] = "body"
  BY <1>1 DEF Typed, TypeOK, Streams
<1>3. CASE s = "up"
  <2>1. got'["down"] = got["down"] /\ answer' = answer
    BY <1>1, <1>3 DEF Typed, TypeOK, Streams
  <2>2. Due' = Due
    BY <2>1 DEF Due
  <2> HIDE DEF body
  <2>3. AnswersDue'
    BY <1>1, <2>1, <2>2 DEF Counted, AnswersDue
  <2> QED
    BY <1>1, <1>2, <2>3 DEF Counted
<1>4. CASE s = "down"
  <2>1. stream[s] \in Seq(Bytes) /\ want[s] \in Nat /\ want[s] > 0
    BY <1>1, <1>4, FramingAssumption DEF Typed, TypeOK, Counted
  <2>2. body \in Seq(Bytes) /\ body[1] \in Bytes
    <3>1. \A i \in 1..want[s] : stream[s][i] \in Bytes
      BY <1>1, <2>1
    <3>2. /\ body \in Seq(Bytes) /\ Len(body) = want[s]
          /\ \A i \in 1..want[s] : body[i] = stream[s][i]
      BY <2>1, <3>1, SubSeqProperties
    <3> QED
      BY <2>1, <3>1, <3>2
  <2> HIDE DEF body
  <2>3. got["down"] \in Seq(Seq(Bytes)) /\ got'["down"] = Append(got["down"], body)
    BY <1>1, <1>4 DEF Typed, TypeOK
  <2>4. body[1] = Byte("type", SEND_STATUS) <=> answer'
    <3>1. \A y \in Bytes : y = Byte("type", SEND_STATUS) <=> y.is = "type" /\ y.value = SEND_STATUS
      BY DEF Bytes, Byte
    <3> QED
      BY <1>1, <1>4, <2>2, <3>1
  <2>5. HowMany(SEND_STATUS, got'["down"])
            = HowMany(SEND_STATUS, got["down"]) + (IF answer' THEN 1 ELSE 0)
    BY <2>2, <2>3, <2>4, OneMore
  <2>6. ~answer /\ frames["reader"] \in Nat /\ HowMany(SEND_STATUS, got["down"]) \in Nat
    BY <1>1, <1>4, CountsTyped DEF Reading
  <2>7. AnswersDue'
    BY <1>1, <2>5, <2>6 DEF Counted, AnswersDue, Due
  <2> QED
    BY <1>1, <1>2, <2>7 DEF Counted
<1> QED
  BY <1>3, <1>4 DEF Streams

LEMMA LengthCounted ==
    ASSUME Typed, Counted, NEW s \in Streams, GetLength(s)
    PROVE  Counted'
<1> DEFINE low == stream[s][1]
           high == stream[s][2]
<1>1. UNCHANGED <<link, answer, frames, begun, got>>
  BY DEF GetLength
<1>2. CASE s = "up" \/ ~(low.is = "nibble" /\ high.is = "nibble")
  <2>1. pc'["down"] = "body" => pc["down"] = "body" /\ want'["down"] = want["down"]
    BY <1>2 DEF GetLength, Goto, Typed, TypeOK, Streams
  <2> QED
    BY <1>1, <2>1 DEF Counted, AnswersDue, Due
<1>3. CASE s = "down" /\ low.is = "nibble" /\ high.is = "nibble"
  <2>1. low \in SmallBytes /\ high \in SmallBytes
    BY DEF GetLength, Waits, Typed
  <2>2. /\ low.value \in Nat /\ low.value < Base /\ high.value \in Nat /\ high.value < Base
    BY <1>3, <2>1 DEF SmallBytes, Bytes
  <2>3. LengthOf(low.value, high.value) \in Nat
    BY <2>2, LengthBounded, FramingAssumption
  <2>4. want'["down"] = LengthOf(low.value, high.value) + 1
    BY <1>3 DEF GetLength, BodyLength, Typed, TypeOK, Streams
  <2>5. want'["down"] > 0
    BY <2>3, <2>4
  <2> QED
    BY <1>1, <2>5 DEF Counted, AnswersDue, Due
<1> QED
  BY <1>2, <1>3 DEF Streams

LEMMA EndsCounted ==
    ASSUME Typed, Counted, \/ Connect \/ ConnectFails \/ ServerCloses \/ Eof
                           \/ \E t \in Tasks : SendCall(t) \/ SendFails(t)
                           \/ \E s \in Streams : GetPreamble(s)
    PROVE  Counted'
<1>1. UNCHANGED <<want, frames, begun, got>>
  BY DEF Connect, ConnectFails, ServerCloses, Eof, SendCall, SendFails, GetPreamble, BadPreamble
<1>2. pc'["down"] = "body" => pc["down"] = "body"
  BY DEF Connect, ConnectFails, ServerCloses, Eof, SendCall, SendFails, GetPreamble, BadPreamble,
         Goto, Typed, TypeOK, Streams
<1>3. /\ answer' \in BOOLEAN /\ answer' => answer
      /\ link' # "closed" => link # "closed" /\ answer' = answer
  BY DEF Connect, ConnectFails, ServerCloses, Eof, SendCall, SendFails, GetPreamble, BadPreamble,
         Typed, TypeOK
<1>4. frames["reader"] \in Nat /\ HowMany(SEND_STATUS, got["down"]) \in Nat
  BY CountsTyped
<1>5. Due \in {0, 1} /\ Due' \in {0, 1} /\ Due' <= Due
  <2>1. Due \in {0, 1} /\ Due' \in {0, 1}
    BY DEF Due
  <2>2. CASE answer'
    BY <1>3, <2>1, <2>2 DEF Due
  <2>3. CASE ~answer'
    BY <2>1, <2>3 DEF Due
  <2> QED
    BY <2>1, <2>2, <2>3
<1>6. link' # "closed" => link # "closed" /\ Due' = Due
  BY <1>3 DEF Due
<1>7. /\ frames["reader"] + Due <= HowMany(SEND_STATUS, got["down"])
      /\ link # "closed" => frames["reader"] + Due = HowMany(SEND_STATUS, got["down"])
  BY DEF Counted, AnswersDue
<1>8. /\ frames["reader"] + Due' <= HowMany(SEND_STATUS, got["down"])
      /\ link' # "closed" => frames["reader"] + Due' = HowMany(SEND_STATUS, got["down"])
  BY ONLY <1>4, <1>5, <1>6, <1>7
<1>9. AnswersDue'
  BY <1>1, <1>8 DEF AnswersDue
<1> QED
  BY <1>1, <1>2, <1>9 DEF Counted

LEMMA InitCounted == Init => Counted
<1> SUFFICES ASSUME Init PROVE Counted
  OBVIOUS
<1>1. \A c : HowMany(c, <<>>) = 0
  <2>1. \A c : Commanded(c, <<>>) = {}
    BY DEF Commanded
  <2> QED
    BY <2>1, FS_EmptySet DEF HowMany
<1> QED
  BY <1>1 DEF Init, Counted, AnswersDue, Due, Streams, DeviceTasks, ServerThreads

LEMMA CountedInvariance == Spec => []Counted
<1>1. IInv /\ Counted /\ [Next]_vars => Counted'
  <2> SUFFICES ASSUME Typed, Counted, [Next]_vars PROVE Counted'
    BY DEF IInv
  <2>1. CASE MainSends \/ \E t \in Forwarders : ForwarderSends(t)
    BY <2>1, OtherSendCounted
  <2>2. CASE TimerSends
    BY <2>2, TimerCounted
  <2>3. CASE ReaderAnswers
    BY <2>3, AnswerCounted
  <2>4. ASSUME NEW s \in Streams, GetBody(s) PROVE Counted'
    BY <2>4, BodyCounted
  <2>5. ASSUME NEW s \in Streams, GetLength(s) PROVE Counted'
    BY <2>5, LengthCounted
  <2>6. CASE \/ Connect \/ ConnectFails \/ ServerCloses \/ Eof
             \/ \E t \in Tasks : SendCall(t) \/ SendFails(t)
             \/ \E s \in Streams : GetPreamble(s)
    BY <2>6, EndsCounted
  <2>7. CASE UNCHANGED vars
    BY <2>7 DEF vars, Counted, AnswersDue, Due
  <2> QED
    BY <2>1, <2>2, <2>3, <2>4, <2>5, <2>6, <2>7 DEF Next, Read, Tasks
<1> QED
  BY <1>1, InitCounted, Invariance, PTL DEF Spec

\* The device begins one answer for each SEND_STATUS that it reads, and reads no
\* other before: no request is answered twice, and until the server closes the
\* connection none is forgotten, however the sends of others mix with them.
THEOREM AnswersCounted == Spec => []AnswersDue
<1>1. Counted => AnswersDue
  BY DEF Counted
<1> QED
  BY <1>1, CountedInvariance, PTL

NothingUnasked ==
    ~torn["up"] /\ ~torn["down"] => HowMany(UPDATE_STATUS, got["up"]) <= frames["timer"]

\* Of a connection on which no sends overlapped the server reads no more answers
\* than timer_thread has sent requests: each UPDATE_STATUS that listen_thread
\* stamps the client for is the answer to a SEND_STATUS.
THEOREM NothingUnaskedHolds == Spec => []NothingUnasked
<1>1. IInv /\ Counted => NothingUnasked
  <2> SUFFICES ASSUME IInv, Counted, ~torn["up"], ~torn["down"]
               PROVE  HowMany(UPDATE_STATUS, got["up"]) <= frames["timer"]
    BY DEF NothingUnasked
  <2>1. ASSUME NEW s \in Streams, ~torn[s], NEW c
        PROVE  HowMany(c, got[s]) <= HowMany(c, begun[s])
    <3>1. got[s] \in Seq(Seq(Bytes)) /\ begun[s] \in Seq(Seq(Bytes))
      BY DEF IInv, Typed, TypeOK
    <3>2. Len(got[s]) <= Len(begun[s]) /\ \A k \in 1..Len(got[s]) : got[s][k] = begun[s][k]
      BY <2>1 DEF IInv, InStep, WasRead
    <3> QED
      BY <3>1, <3>2, NoMoreThan
  <2>2. /\ HowMany(UPDATE_STATUS, got["up"]) <= frames["reader"]
        /\ HowMany(SEND_STATUS, got["down"]) <= frames["timer"]
    BY <2>1 DEF Counted, Streams
  <2>3. frames["reader"] <= HowMany(SEND_STATUS, got["down"])
    BY CountsTyped DEF IInv, Counted, AnswersDue, Due
  <2>4. /\ frames["reader"] \in Nat /\ frames["timer"] \in Nat
        /\ HowMany(SEND_STATUS, got["down"]) \in Nat /\ HowMany(UPDATE_STATUS, got["up"]) \in Nat
    BY CountsTyped DEF IInv
  <2> QED
    BY <2>2, <2>3, <2>4
<1> QED
  BY <1>1, Invariance, CountedInvariance, PTL

=============================================================================
