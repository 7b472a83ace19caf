---------------------------- MODULE UartBufProofs ----------------------------
(***************************************************************************)
(* Proofs about UartBuf, for every size of the buffer that holds a frame's *)
(* data, every set of well-formed frames, every way to cut the stream into *)
(* reads and any number of faults of the line.                             *)
(***************************************************************************)
EXTENDS UartBuf, SequenceTheorems, TLAPS

-----------------------------------------------------------------------------
(* Arithmetic of the circular buffer *)

LEMMA Sizes ==
    /\ Size \in Nat /\ Size >= 1 /\ bufSize = Size + 1 /\ bufSize \in Nat
    /\ Index = 0 .. Size
    /\ \A b \in Byte : b \in Nat /\ b + 1 <= Size
    /\ SOF \in Byte /\ 0 \in Byte /\ SOF # 0
    /\ ReadMax \in Nat /\ ReadMax >= 1 /\ MaxNoise \in Nat
<1>1. /\ Size \in Nat \ {0} /\ Byte \subseteq Nat /\ SOF \in Byte /\ 0 \in Byte
      /\ SOF # 0 /\ (\A b \in Byte : b + 1 <= Size)
      /\ ReadMax \in Nat \ {0} /\ MaxNoise \in Nat
  BY SizeAssumption
<1>2. Size \in Nat /\ Size >= 1 /\ ReadMax \in Nat /\ ReadMax >= 1
  BY <1>1
<1>3. bufSize = Size + 1 /\ bufSize \in Nat /\ Index = 0 .. Size
  BY <1>2 DEF bufSize, Index
<1> QED BY <1>1, <1>2, <1>3

\* How many bytes there are between head and tail.
Stored(h, t) == IF t - h < 0 THEN t - h + bufSize ELSE t - h

\* The index k places after the head.
At(h, k) == IF h + k < bufSize THEN h + k ELSE h + k - bufSize

\* What the buffer holds, oldest first.
Ring(b, h, t) == [i \in 1 .. Stored(h, t) |-> b[At(h, i - 1)]]

RingOK == bufHead \in Index /\ bufTail \in Index /\ pBuffer \in [Index -> Byte]

LEMMA StoredIs ==
    ASSUME NEW h \in Index, NEW t \in Index
    PROVE  /\ Stored(h, t) \in 0 .. Size
           /\ \A k \in 0 .. Size : At(h, k) \in Index
BY Sizes DEF Stored, At

LEMMA TailAdvances ==
    ASSUME NEW h \in Index, NEW t \in Index, NEW k \in Nat, Stored(h, t) + k <= Size
    PROVE  Stored(h, At(t, k)) = Stored(h, t) + k
<1>1. /\ Size \in Nat /\ bufSize = Size + 1 /\ h \in 0 .. Size /\ t \in 0 .. Size
  BY Sizes
<1>2. CASE t + k < bufSize
  BY <1>1, <1>2 DEF Stored, At
<1>3. CASE ~(t + k < bufSize)
  BY <1>1, <1>3 DEF Stored, At
<1> QED BY <1>2, <1>3

LEMMA ModuloIs ==
    ASSUME NEW h \in Index, NEW k \in 0 .. Size
    PROVE  (h + k) % bufSize = At(h, k)
<1> DEFINE n == bufSize
           x == h + k
<1>1. n \in Nat /\ n > 0 /\ x \in Nat /\ x < 2 * n
  BY Sizes
<1>2. At(h, k) = IF x < n THEN x ELSE x - n
  BY Sizes DEF At
<1> HIDE DEF n, x
<1>3. x % n = IF x < n THEN x ELSE x - n
  BY <1>1, Z3
<1> QED BY <1>2, <1>3 DEF n, x

LEMMA ContentIs ==
    ASSUME RingOK
    PROVE  /\ getBufferedSize = Stored(bufHead, bufTail)
           /\ Content = Ring(pBuffer, bufHead, bufTail)
           /\ Content \in Seq(Byte)
           /\ Len(Content) = Stored(bufHead, bufTail)
           /\ Len(Content) \in 0 .. Size
<1>1. getBufferedSize = Stored(bufHead, bufTail)
  BY DEF getBufferedSize, Stored
<1>2. Stored(bufHead, bufTail) \in 0 .. Size
  BY StoredIs DEF RingOK
<1>3. ASSUME NEW i \in 1 .. Stored(bufHead, bufTail)
      PROVE  /\ (bufHead + i - 1) % bufSize = At(bufHead, i - 1)
             /\ At(bufHead, i - 1) \in Index
  <2>1. i - 1 \in 0 .. Size /\ bufHead + i - 1 = bufHead + (i - 1)
    BY <1>2, Sizes DEF RingOK
  <2>2. (bufHead + (i - 1)) % bufSize = At(bufHead, i - 1)
    BY <2>1, ModuloIs DEF RingOK
  <2> QED BY <2>1, <2>2, StoredIs DEF RingOK
<1>4. Content = Ring(pBuffer, bufHead, bufTail)
  BY <1>1, <1>3 DEF Content, Ring
<1>5. Ring(pBuffer, bufHead, bufTail) \in [1 .. Stored(bufHead, bufTail) -> Byte]
  BY <1>3 DEF Ring, RingOK
<1>6. Stored(bufHead, bufTail) \in Nat
  BY <1>2, Sizes
<1> QED BY <1>1, <1>2, <1>4, <1>5, <1>6

LEMMA ContentIsNext ==
    ASSUME RingOK'
    PROVE  /\ getBufferedSize' = Stored(bufHead', bufTail')
           /\ Content' = Ring(pBuffer', bufHead', bufTail')
           /\ Content' \in Seq(Byte)
           /\ Len(Content') = Stored(bufHead', bufTail')
           /\ Len(Content') \in 0 .. Size
<1>1. getBufferedSize' = Stored(bufHead', bufTail')
  BY DEF getBufferedSize, Stored
<1>2. Stored(bufHead', bufTail') \in 0 .. Size
  BY StoredIs DEF RingOK
<1>3. ASSUME NEW i \in 1 .. Stored(bufHead', bufTail')
      PROVE  /\ (bufHead' + i - 1) % bufSize = At(bufHead', i - 1)
             /\ At(bufHead', i - 1) \in Index
  <2>1. i - 1 \in 0 .. Size /\ bufHead' + i - 1 = bufHead' + (i - 1)
    BY <1>2, Sizes DEF RingOK
  <2>2. (bufHead' + (i - 1)) % bufSize = At(bufHead', i - 1)
    BY <2>1, ModuloIs DEF RingOK
  <2> QED BY <2>1, <2>2, StoredIs DEF RingOK
<1>4. Content' = Ring(pBuffer', bufHead', bufTail')
  BY <1>1, <1>3 DEF Content, Ring
<1>5. Ring(pBuffer', bufHead', bufTail') \in [1 .. Stored(bufHead', bufTail') -> Byte]
  BY <1>3 DEF Ring, RingOK
<1>6. Stored(bufHead', bufTail') \in Nat
  BY <1>2, Sizes
<1> QED BY <1>1, <1>2, <1>4, <1>5, <1>6

\* Two sequences of bytes that agree everywhere.
LEMMA SameBytes ==
    ASSUME NEW s \in Seq(Byte), NEW t \in Seq(Byte), Len(s) = Len(t),
           \A i \in 1 .. Len(s) : s[i] = t[i]
    PROVE  s = t
BY SeqEqual

\* put appends its block, whether or not it has to cut it in two.
LEMMA PutAppends ==
    ASSUME RingOK, NEW block \in Seq(Byte), Len(block) >= 1, Fits(Len(block)), put(block)
    PROVE  /\ RingOK'
           /\ Content' = Content \o block
<1> DEFINE len == Len(block)
           h == bufHead
           t == bufTail
           l == bufSize - t
           n == Stored(h, t)
<1>0. /\ h \in 0 .. Size /\ t \in 0 .. Size /\ Size \in Nat /\ bufSize = Size + 1
      /\ len \in Nat /\ len >= 1 /\ Index = 0 .. Size /\ pBuffer \in [Index -> Byte]
  <2>1. Size \in Nat /\ bufSize = Size + 1 /\ Index = 0 .. Size
    BY Sizes
  <2>2. len \in Nat /\ len >= 1
    OBVIOUS
  <2> QED BY <2>1, <2>2 DEF RingOK
<1>1. /\ n \in 0 .. Size /\ getBufferedSize = n
      /\ Content = Ring(pBuffer, h, t) /\ Content \in Seq(Byte) /\ Len(Content) = n
  BY ContentIs
<1>2. /\ n = IF t - h < 0 THEN t - h + bufSize ELSE t - h
      /\ n + len <= Size
  BY <1>0, <1>1 DEF Fits, Stored
<1>3. \A i \in 1 .. len : block[i] \in Byte
  OBVIOUS
<1>4. bufHead' = h
  BY DEF put
\* Where the bytes go: the j-th one n + j - 1 places after the head.
<1>5. /\ bufTail' = At(t, len) /\ bufTail' \in 0 .. Size
      /\ pBuffer' \in [Index -> Byte]
      /\ \A i \in Index : (\A j \in 1 .. len : i # At(t, j - 1)) => pBuffer'[i] = pBuffer[i]
      /\ \A j \in 1 .. len : pBuffer'[At(t, j - 1)] = block[j]
  <2>1. CASE h > t \/ l >= len
    <3>1. /\ pBuffer' = [i \in Index |-> IF i \in t .. (t + len - 1)
                                         THEN block[i - t + 1] ELSE pBuffer[i]]
          /\ bufTail' = IF t + len = bufSize THEN 0 ELSE t + len
      BY <2>1 DEF put
    <3>2. t + len <= bufSize
      BY <1>0, <1>2, <2>1
    <3>3. bufTail' = At(t, len) /\ bufTail' \in 0 .. Size
      BY <1>0, <3>1, <3>2 DEF At
    <3>4. \A j \in 1 .. len : At(t, j - 1) = t + j - 1 /\ t + j - 1 \in Index
      BY <1>0, <3>2 DEF At
    <3>5. ASSUME NEW i \in Index
          PROVE  /\ i \in t .. (t + len - 1) => /\ i - t + 1 \in 1 .. len
                                                /\ At(t, (i - t + 1) - 1) = i
      BY <1>0, <3>2 DEF At
    <3>6. pBuffer' \in [Index -> Byte]
      BY <1>0, <1>3, <3>1, <3>5
    <3>7. ASSUME NEW i \in Index, \A j \in 1 .. len : i # At(t, j - 1)
          PROVE  pBuffer'[i] = pBuffer[i]
      BY <3>1, <3>5, <3>7
    <3>8. ASSUME NEW j \in 1 .. len PROVE pBuffer'[At(t, j - 1)] = block[j]
      <4>1. /\ t + j - 1 \in Index /\ t + j - 1 \in t .. (t + len - 1)
            /\ (t + j - 1) - t + 1 = j
        BY <1>0, <3>4
      <4> QED BY <3>1, <3>4, <4>1
    <3> QED BY <3>3, <3>6, <3>7, <3>8
  <2>2. CASE ~(h > t \/ l >= len)
    <3>1. /\ pBuffer' = [i \in Index |-> IF i >= t THEN block[i - t + 1]
                                         ELSE IF i < len - l THEN block[l + i + 1]
                                         ELSE pBuffer[i]]
          /\ bufTail' = len - l
      BY <2>2 DEF put
    <3>2. /\ h <= t /\ l < len /\ l \in Nat /\ l >= 1 /\ len - l \in Nat
          /\ len - l <= t /\ t + l = bufSize
      BY <1>0, <1>2, <2>2
    <3>3. bufTail' = At(t, len) /\ bufTail' \in 0 .. Size
      BY <1>0, <3>1, <3>2 DEF At
    <3>4. ASSUME NEW i \in Index
          PROVE  /\ i >= t => /\ i - t + 1 \in 1 .. len
                              /\ At(t, (i - t + 1) - 1) = i
                 /\ ~(i >= t) /\ i < len - l => /\ l + i + 1 \in 1 .. len
                                                /\ At(t, (l + i + 1) - 1) = i
      BY <1>0, <3>2 DEF At
    <3>5. pBuffer' \in [Index -> Byte]
      <4>1. ASSUME NEW i \in Index
            PROVE  (IF i >= t THEN block[i - t + 1]
                    ELSE IF i < len - l THEN block[l + i + 1] ELSE pBuffer[i]) \in Byte
        <5>1. CASE i >= t
          BY <1>3, <3>4, <5>1
        <5>2. CASE ~(i >= t) /\ i < len - l
          BY <1>3, <3>4, <5>2
        <5>3. CASE ~(i >= t) /\ ~(i < len - l)
          BY <1>0, <5>3
        <5> QED BY <5>1, <5>2, <5>3
      <4> QED BY <3>1, <4>1
    <3>6. ASSUME NEW i \in Index, \A j \in 1 .. len : i # At(t, j - 1)
          PROVE  pBuffer'[i] = pBuffer[i]
      <4>1. ~(i >= t) /\ ~(i < len - l)
        BY <3>4, <3>6
      <4> QED BY <3>1, <4>1
    <3>7. ASSUME NEW j \in 1 .. len PROVE pBuffer'[At(t, j - 1)] = block[j]
      <4>1. CASE t + (j - 1) < bufSize
        <5>1. /\ At(t, j - 1) = t + j - 1 /\ t + j - 1 \in Index /\ t + j - 1 >= t
              /\ (t + j - 1) - t + 1 = j
          BY <1>0, <4>1 DEF At
        <5> QED BY <3>1, <5>1
      <4>2. CASE ~(t + (j - 1) < bufSize)
        <5>1. /\ At(t, j - 1) = t + j - 1 - bufSize /\ t + j - 1 - bufSize \in Index
              /\ ~(t + j - 1 - bufSize >= t) /\ t + j - 1 - bufSize < len - l
              /\ l + (t + j - 1 - bufSize) + 1 = j
          BY <1>0, <3>2, <4>2 DEF At
        <5> QED BY <3>1, <5>1
      <4> QED BY <4>1, <4>2
    <3> QED BY <3>3, <3>5, <3>6, <3>7
  <2> QED BY <2>1, <2>2
<1>6. RingOK'
  BY <1>0, <1>4, <1>5 DEF RingOK
<1>7. /\ Content' = Ring(pBuffer', bufHead', bufTail')
      /\ Content' \in Seq(Byte) /\ Len(Content') = Stored(bufHead', bufTail')
  BY <1>6, ContentIsNext
<1>8. Stored(bufHead', bufTail') = n + len
  <2>1. Stored(h, At(t, len)) = n + len
    <3> HIDE DEF len
    <3> QED BY <1>0, <1>2, TailAdvances
  <2> QED BY <1>4, <1>5, <2>1
<1>9. ASSUME NEW i \in 1 .. n PROVE Content'[i] = Content[i]
  <2>1. At(h, i - 1) \in Index
    <3>1. i - 1 \in 0 .. Size
      BY <1>0, <1>1
    <3> QED BY <1>0, <3>1 DEF At
  <2>2. \A j \in 1 .. len : At(h, i - 1) # At(t, j - 1)
    BY <1>0, <1>2 DEF At
  <2>3. i \in 1 .. n + len
    BY <1>0, <1>1
  <2>4. Content[i] = pBuffer[At(h, i - 1)] /\ Content'[i] = pBuffer'[At(h, i - 1)]
    BY <1>1, <1>4, <1>7, <1>8, <2>3 DEF Ring
  <2> QED BY <1>5, <2>1, <2>2, <2>4
<1>10. ASSUME NEW i \in 1 .. n + len, ~(i <= n) PROVE Content'[i] = block[i - n]
  <2>1. i - n \in 1 .. len /\ At(h, i - 1) = At(t, (i - n) - 1)
    BY <1>0, <1>1, <1>2, <1>10 DEF At
  <2>2. Content'[i] = pBuffer'[At(h, i - 1)]
    BY <1>4, <1>7, <1>8 DEF Ring
  <2> QED BY <1>5, <2>1, <2>2
<1>11. /\ Content \o block \in Seq(Byte) /\ Len(Content \o block) = n + len
       /\ \A i \in 1 .. n + len :
            (Content \o block)[i] = IF i <= n THEN Content[i] ELSE block[i - n]
  BY <1>1, ConcatProperties
<1>12. ASSUME NEW i \in 1 .. n + len PROVE Content'[i] = (Content \o block)[i]
  <2>1. CASE i <= n
    <3>1. i \in 1 .. n
      BY <1>0, <1>1, <2>1
    <3> QED BY <1>9, <1>11, <2>1, <3>1
  <2>2. CASE ~(i <= n)
    BY <1>10, <1>11, <2>2
  <2> QED BY <2>1, <2>2
<1>13. Content' = Content \o block
  <2> HIDE DEF len, h, t, l, n
  <2> QED BY <1>7, <1>8, <1>11, <1>12, SameBytes
<1> QED BY <1>6, <1>13

\* get takes the oldest bytes, whether or not they are at both ends.
LEMMA GetRemoves ==
    ASSUME RingOK, NEW n \in Nat, n >= 1, n <= getBufferedSize, get(n)
    PROVE  /\ RingOK'
           /\ copyOut(n) \in Seq(Byte) /\ Len(copyOut(n)) = n
           /\ copyOut(n) = SubSeq(Content, 1, n)
           /\ Content' = SubSeq(Content, n + 1, Len(Content))
           /\ n <= Len(Content) /\ Len(Content) <= Size
<1> DEFINE h == bufHead
           t == bufTail
           l == bufSize - h
           m == Stored(h, t)
<1>0. /\ h \in 0 .. Size /\ t \in 0 .. Size /\ Size \in Nat /\ bufSize = Size + 1
      /\ Index = 0 .. Size /\ pBuffer \in [Index -> Byte]
  BY Sizes DEF RingOK
<1>1. /\ m \in 0 .. Size /\ n <= m
      /\ Content = Ring(pBuffer, h, t) /\ Content \in Seq(Byte) /\ Len(Content) = m
  BY ContentIs
<1>2. m = IF t - h < 0 THEN t - h + bufSize ELSE t - h
  BY DEF Stored
<1>3. bufTail' = t /\ pBuffer' = pBuffer
  BY DEF get
<1>4. bufHead' = At(h, n) /\ At(h, n) \in 0 .. Size
  BY <1>0, <1>1, <1>2 DEF get, headAfter, At
<1>5. RingOK'
  BY <1>0, <1>3, <1>4 DEF RingOK
<1>6. /\ Content' = Ring(pBuffer', bufHead', bufTail')
      /\ Content' \in Seq(Byte) /\ Len(Content') = Stored(bufHead', bufTail')
  BY <1>5, ContentIsNext
<1>7. Stored(bufHead', bufTail') = m - n
  BY <1>0, <1>1, <1>2, <1>3, <1>4 DEF Stored, At
<1>8. ASSUME NEW i \in 1 .. n PROVE copyOut(n)[i] = Content[i] /\ Content[i] \in Byte
  <2>1. i \in 1 .. m
    BY <1>0, <1>1
  <2>2. Content[i] = pBuffer[At(h, i - 1)] /\ Content[i] \in Byte
    BY <1>1, <2>1 DEF Ring
  <2>3. copyOut(n)[i] = IF t > h \/ l >= n \/ i <= l
                        THEN pBuffer[h + i - 1] ELSE pBuffer[i - l - 1]
    BY DEF copyOut
  <2>4. IF t > h \/ l >= n \/ i <= l THEN At(h, i - 1) = h + i - 1
                                    ELSE At(h, i - 1) = i - l - 1
    BY <1>0, <1>1, <1>2, <2>1 DEF At
  <2> QED BY <2>2, <2>3, <2>4
<1>9. copyOut(n) \in [1 .. n -> Byte]
  BY <1>8 DEF copyOut
<1>10. copyOut(n) \in Seq(Byte) /\ Len(copyOut(n)) = n
  BY <1>9
<1>11. /\ SubSeq(Content, 1, n) \in Seq(Byte) /\ Len(SubSeq(Content, 1, n)) = n
       /\ \A i \in 1 .. n : SubSeq(Content, 1, n)[i] = Content[i]
  BY <1>0, <1>1
<1>12. copyOut(n) = SubSeq(Content, 1, n)
  <2>1. \A i \in 1 .. Len(copyOut(n)) : copyOut(n)[i] = SubSeq(Content, 1, n)[i]
    BY <1>8, <1>10, <1>11
  <2> QED BY <1>10, <1>11, <2>1, SameBytes
<1>13. /\ SubSeq(Content, n + 1, Len(Content)) \in Seq(Byte)
       /\ Len(SubSeq(Content, n + 1, Len(Content))) = m - n
       /\ \A i \in 1 .. m - n : SubSeq(Content, n + 1, Len(Content))[i] = Content[n + i]
  BY <1>0, <1>1
<1>14. ASSUME NEW i \in 1 .. m - n PROVE Content'[i] = Content[n + i]
  <2>1. n + i \in 1 .. m /\ At(At(h, n), i - 1) = At(h, (n + i) - 1)
    BY <1>0, <1>1 DEF At
  <2>2. Content[n + i] = pBuffer[At(h, (n + i) - 1)]
    BY <1>1, <2>1 DEF Ring
  <2>3. Content'[i] = pBuffer[At(At(h, n), i - 1)]
    BY <1>3, <1>4, <1>6, <1>7 DEF Ring
  <2> QED BY <2>1, <2>2, <2>3
<1>15. Content' = SubSeq(Content, n + 1, Len(Content))
  <2> HIDE DEF h, t, l, m
  <2> QED BY <1>6, <1>7, <1>13, <1>14, SameBytes
<1> QED BY <1>0, <1>1, <1>5, <1>10, <1>12, <1>15

-----------------------------------------------------------------------------
(* Sequences of bytes *)

LEMMA JoinAssociative ==
    \A s \in Seq(Byte), t \in Seq(Byte), u \in Seq(Byte) : (s \o t) \o u = s \o (t \o u)
BY ConcatAssociative

\* Concatenation, under a name that the provers do not expand.
Join(s, t) == s \o t

\* Bytes that move from the front of one sequence to the end of another.
LEMMA Regroup ==
    \A d \in Seq(Byte), p \in Seq(Byte), x \in Seq(Byte), u \in Seq(Byte) :
        Join(Join(d, Join(p, x)), u) = Join(Join(d, p), Join(x, u))
<1> TAKE d \in Seq(Byte), p \in Seq(Byte), x \in Seq(Byte), u \in Seq(Byte)
<1> DEFINE q == d \o p
<1>1. q \in Seq(Byte) /\ q \o x = d \o (p \o x)
  BY ConcatProperties, JoinAssociative
<1> HIDE DEF q
<1>2. (q \o x) \o u = q \o (x \o u)
  BY <1>1, JoinAssociative
<1>3. (d \o (p \o x)) \o u = q \o (x \o u)
  BY <1>1, <1>2
<1> QED BY <1>3 DEF q, Join

LEMMA OneByteMore ==
    \A a \in Byte, b \in Byte, x \in Byte :
        /\ <<a>> \o <<x>> = <<a, x>>
        /\ <<a, b>> \o <<x>> = <<a, b, x>>
<1> TAKE a \in Byte, b \in Byte, x \in Byte
<1>1. <<a>> \o <<x>> = <<a, x>>
  <2> DEFINE s == <<a>> \o <<x>>
             t == <<a, x>>
  <2>1. s \in Seq(Byte) /\ t \in Seq(Byte) /\ Len(s) = 2 /\ Len(t) = 2
    OBVIOUS
  <2>2. s[1] = t[1] /\ s[2] = t[2]
    OBVIOUS
  <2> HIDE DEF s, t
  <2>3. s = t
    BY <2>1, <2>2, SameBytes
  <2> QED BY <2>3 DEF s, t
<1>2. <<a, b>> \o <<x>> = <<a, b, x>>
  <2> DEFINE s == <<a, b>> \o <<x>>
             t == <<a, b, x>>
  <2>1. s \in Seq(Byte) /\ t \in Seq(Byte) /\ Len(s) = 3 /\ Len(t) = 3
    OBVIOUS
  <2>2. s[1] = t[1] /\ s[2] = t[2] /\ s[3] = t[3]
    OBVIOUS
  <2> HIDE DEF s, t
  <2>3. s = t
    BY <2>1, <2>2, SameBytes
  <2> QED BY <2>3 DEF s, t
<1> QED BY <1>1, <1>2

LEMMA CutInTwo ==
    ASSUME NEW s \in Seq(Byte), NEW n \in 0 .. Len(s)
    PROVE  /\ SubSeq(s, 1, n) \in Seq(Byte) /\ Len(SubSeq(s, 1, n)) = n
           /\ SubSeq(s, n + 1, Len(s)) \in Seq(Byte)
           /\ SubSeq(s, 1, n) \o SubSeq(s, n + 1, Len(s)) = s
<1>1. SubSeq(s, 1, n) \in Seq(Byte) /\ Len(SubSeq(s, 1, n)) = n
  OBVIOUS
<1>2. SubSeq(s, n + 1, Len(s)) \in Seq(Byte)
  OBVIOUS
<1>3. 1 \in 1 .. Len(s) + 1 /\ n \in 1 - 1 .. Len(s) /\ Len(s) \in n .. Len(s)
  OBVIOUS
<1>4. SubSeq(s, 1, n) \o SubSeq(s, n + 1, Len(s)) = SubSeq(s, 1, Len(s))
  BY <1>3, ConcatAdjacentSubSeq
<1> QED BY <1>1, <1>2, <1>4, SubSeqFull

LEMMA PrefixOfConcat ==
    ASSUME NEW a \in Seq(Byte), NEW b \in Seq(Byte)
    PROVE  SubSeq(a \o b, 1, Len(a)) = a
<1>1. /\ a \o b \in Seq(Byte) /\ Len(a \o b) = Len(a) + Len(b)
      /\ \A i \in 1 .. Len(a) : (a \o b)[i] = a[i]
  BY ConcatProperties
<1>2. Len(a) \in 0 .. Len(a \o b)
  BY <1>1
<1> DEFINE c == SubSeq(a \o b, 1, Len(a))
<1>3. c \in Seq(Byte) /\ Len(c) = Len(a)
  BY <1>1, <1>2, CutInTwo
<1>4. \A i \in 1 .. Len(a) : c[i] = a[i]
  BY <1>1, <1>2
<1> HIDE DEF c
<1>5. c = a
  BY <1>3, <1>4, SameBytes
<1> QED BY <1>5 DEF c

\* Where the bytes of four joined sequences are.
Joined(s, d, p, c, w) ==
    /\ Len(s) = Len(d) + Len(p) + Len(c) + Len(w)
    /\ \A k \in 1 .. Len(p) : s[Len(d) + k] = p[k]
    /\ \A k \in 1 .. Len(c) : s[Len(d) + Len(p) + k] = c[k]

\* They are where d \o p \o c \o w has them.
LEMMA Positions ==
    ASSUME NEW d \in Seq(Byte), NEW p \in Seq(Byte), NEW c \in Seq(Byte), NEW w \in Seq(Byte)
    PROVE  Joined(d \o p \o c \o w, d, p, c, w)
<1> DEFINE x == d \o p
           y == x \o c
           z == y \o w
<1>1. /\ x \in Seq(Byte) /\ Len(x) = Len(d) + Len(p)
      /\ \A i \in 1 .. Len(d) + Len(p) : x[i] = IF i <= Len(d) THEN d[i] ELSE p[i - Len(d)]
  BY ConcatProperties
<1>2. /\ y \in Seq(Byte) /\ Len(y) = Len(x) + Len(c)
      /\ \A i \in 1 .. Len(x) + Len(c) : y[i] = IF i <= Len(x) THEN x[i] ELSE c[i - Len(x)]
  <2>1. x \in Seq(Byte)
    BY <1>1
  <2> HIDE DEF x
  <2> QED BY <2>1, ConcatProperties
<1>3. /\ Len(z) = Len(y) + Len(w)
      /\ \A i \in 1 .. Len(y) + Len(w) : z[i] = IF i <= Len(y) THEN y[i] ELSE w[i - Len(y)]
  <2>1. y \in Seq(Byte)
    BY <1>2
  <2> HIDE DEF y
  <2> QED BY <2>1, ConcatProperties
<1>4. Len(d) \in Nat /\ Len(p) \in Nat /\ Len(c) \in Nat /\ Len(w) \in Nat
  OBVIOUS
<1> HIDE DEF x, y, z
<1>5. ASSUME NEW k \in 1 .. Len(p) PROVE z[Len(d) + k] = p[k]
  <2>1. /\ Len(d) + k \in 1 .. Len(y) + Len(w) /\ Len(d) + k <= Len(y)
        /\ Len(d) + k \in 1 .. Len(x) + Len(c) /\ Len(d) + k <= Len(x)
        /\ Len(d) + k \in 1 .. Len(d) + Len(p) /\ ~(Len(d) + k <= Len(d))
        /\ (Len(d) + k) - Len(d) = k
    BY <1>1, <1>2, <1>4
  <2> QED BY <1>1, <1>2, <1>3, <2>1
<1>6. ASSUME NEW k \in 1 .. Len(c) PROVE z[Len(d) + Len(p) + k] = c[k]
  <2>1. /\ Len(d) + Len(p) + k \in 1 .. Len(y) + Len(w) /\ Len(d) + Len(p) + k <= Len(y)
        /\ Len(d) + Len(p) + k \in 1 .. Len(x) + Len(c) /\ ~(Len(d) + Len(p) + k <= Len(x))
        /\ (Len(d) + Len(p) + k) - Len(x) = k
    BY <1>1, <1>2, <1>4
  <2> QED BY <1>2, <1>3, <2>1
<1>7. Len(z) = Len(d) + Len(p) + Len(c) + Len(w)
  BY <1>1, <1>2, <1>3
<1>8. Joined(z, d, p, c, w)
  BY ONLY <1>5, <1>6, <1>7 DEF Joined
<1> QED BY ONLY <1>8 DEF x, y, z

-----------------------------------------------------------------------------
(* What the actions do to the buffer *)

LEMMA RingStays ==
    ASSUME UNCHANGED ring
    PROVE  Content' = Content /\ getBufferedSize' = getBufferedSize /\ (RingOK => RingOK')
BY DEF ring, Content, getBufferedSize, RingOK

\* A get, in terms of sequences.
LEMMA GetTakes ==
    ASSUME TypeOK, NEW n \in Nat, n >= 1, n <= getBufferedSize, get(n)
    PROVE  /\ RingOK' /\ taken' \in Seq(Byte)
           /\ Content \in Seq(Byte) /\ Content' \in Seq(Byte)
           /\ copyOut(n) \in Seq(Byte) /\ Len(copyOut(n)) = n
           /\ Content = copyOut(n) \o Content'
           /\ Fifo!Remove(n) /\ n \in 1 .. Size
<1>1. RingOK
  BY DEF TypeOK, RingOK
<1>2. /\ RingOK' /\ copyOut(n) \in Seq(Byte) /\ Len(copyOut(n)) = n
      /\ copyOut(n) = SubSeq(Content, 1, n)
      /\ Content' = SubSeq(Content, n + 1, Len(Content))
      /\ n <= Len(Content) /\ Len(Content) <= Size
  BY <1>1, GetRemoves
<1>3. Content \in Seq(Byte)
  BY <1>1, ContentIs
<1>4. n \in 0 .. Len(Content) /\ n \in 1 .. Size
  BY <1>2, <1>3, Sizes
<1>5. Content = copyOut(n) \o Content' /\ Content' \in Seq(Byte)
  BY <1>2, <1>3, <1>4, CutInTwo
<1>6. taken' = taken \o copyOut(n)
  BY DEF get
<1>7. taken' \in Seq(Byte)
  BY <1>2, <1>6, ConcatProperties DEF TypeOK
<1>8. Fifo!Remove(n)
  BY <1>2, <1>6 DEF Fifo!Remove
<1> QED BY <1>2, <1>3, <1>4, <1>5, <1>7, <1>8

\* One turn of the parser's loop takes the oldest byte.
LEMMA TurnTakes ==
    ASSUME TypeOK, NEW s, Turn(s)
    PROVE  /\ RingOK' /\ taken' \in Seq(Byte)
           /\ Content \in Seq(Byte) /\ Content' \in Seq(Byte)
           /\ copyOut(1)[1] \in Byte
           /\ Content = <<copyOut(1)[1]>> \o Content'
           /\ Len(Content) >= 1 /\ Content[1] = copyOut(1)[1]
           /\ Fifo!Remove(1) /\ 1 \in 1 .. Size
<1>1. get(1) /\ getBufferedSize > 0
  BY DEF Turn
<1>2. getBufferedSize \in Nat
  <2>1. getBufferedSize \in 0 .. Size
    BY ContentIs DEF TypeOK, RingOK
  <2> QED BY <2>1
<1>3. 1 \in Nat /\ 1 >= 1 /\ 1 <= getBufferedSize
  BY <1>1, <1>2
<1>4. /\ RingOK' /\ taken' \in Seq(Byte)
      /\ Content \in Seq(Byte) /\ Content' \in Seq(Byte)
      /\ copyOut(1) \in Seq(Byte) /\ Len(copyOut(1)) = 1
      /\ Content = copyOut(1) \o Content'
      /\ Fifo!Remove(1) /\ 1 \in 1 .. Size
  BY <1>1, <1>3, GetTakes
<1>5. copyOut(1)[1] \in Byte
  BY <1>4
<1>6. <<copyOut(1)[1]>> \in Seq(Byte) /\ Len(<<copyOut(1)[1]>>) = 1
  BY <1>5
<1>7. copyOut(1) = <<copyOut(1)[1]>>
  BY <1>4, <1>6, SameBytes
<1>8. Len(Content) >= 1 /\ Content[1] = copyOut(1)[1]
  <2> DEFINE a == copyOut(1)
             b == Content'
  <2>1. a \in Seq(Byte) /\ b \in Seq(Byte) /\ Len(a) = 1 /\ Content = a \o b
    BY <1>4
  <2> HIDE DEF a, b
  <2>2. /\ Len(Content) = Len(a) + Len(b)
        /\ \A i \in 1 .. Len(a) + Len(b) : Content[i] = IF i <= Len(a) THEN a[i] ELSE b[i - Len(a)]
    BY <2>1, ConcatProperties
  <2>3. Len(b) \in Nat
    BY <2>1
  <2>4. Len(Content) >= 1 /\ Content[1] = a[1]
    BY <2>1, <2>2, <2>3
  <2> QED BY <2>4 DEF a
<1> QED BY <1>4, <1>5, <1>7, <1>8

\* A block that fits, put.
LEMMA PutStores ==
    ASSUME TypeOK, NEW block \in Seq(Byte), Len(block) >= 1, Fits(Len(block)), put(block)
    PROVE  /\ RingOK'
           /\ Content \in Seq(Byte) /\ Content' = Content \o block
           /\ taken' = taken => Fifo!Store
<1>1. RingOK
  BY DEF TypeOK, RingOK
<1>2. RingOK' /\ Content' = Content \o block
  BY <1>1, PutAppends
<1>3. Content \in Seq(Byte) /\ Len(Content) \in 0 .. Size
  BY <1>1, ContentIs
<1>4. Content' \in Seq(Byte) /\ Len(Content') \in 0 .. Size
  BY <1>2, ContentIsNext
<1>5. Len(Content') = Len(Content) + Len(block)
  BY <1>2, <1>3, ConcatProperties
<1>6. Len(Content) < Len(Content') /\ Len(Content') <= Size
  BY <1>3, <1>4, <1>5
<1>7. SubSeq(Content', 1, Len(Content)) = Content
  BY <1>2, <1>3, PrefixOfConcat
<1>8. taken' = taken => Fifo!Store
  BY <1>4, <1>6, <1>7 DEF Fifo!Store
<1> QED BY <1>2, <1>3, <1>8

-----------------------------------------------------------------------------
(* Types, and the abstract buffer *)

LEMMA InitTypes == Init => TypeOK
<1> SUFFICES ASSUME Init PROVE TypeOK
  OBVIOUS
<1>1. (CHOOSE b \in Byte : b # SOF) \in Byte
  BY Sizes
<1>2. pBuffer \in [Index -> Byte]
  BY <1>1 DEF Init
<1>3. 0 \in Index /\ 0 \in 0 .. MaxNoise
  BY Sizes
<1>4. <<>> \in Seq(Byte) /\ {} \subseteq 1 .. Len(<<>>)
  OBVIOUS
<1> QED BY <1>2, <1>3, <1>4, Sizes DEF Init, TypeOK

LEMMA EndsGrow ==
    ASSUME NEW E, NEW m \in Nat, NEW k \in Nat, E \subseteq 1 .. m, k >= m, k >= 1
    PROVE  E \cup {k} \subseteq 1 .. k
OBVIOUS

\* What the dongle, the line and the clock do to the types.
LEMMA OutsideTypes ==
    ASSUME TypeOK,
           \/ \E f \in Frames : DongleSends(f)
           \/ LineLoses \/ (\E b \in Byte : LineInvents(b))
           \/ FiveSecondsPass
    PROVE  TypeOK' /\ UNCHANGED <<ring, taken>>
<1>1. ASSUME NEW f \in Frames, DongleSends(f) PROVE TypeOK' /\ UNCHANGED <<ring, taken>>
  <2>1. f \in Seq(Byte) /\ Len(f) \in Nat /\ Len(f) >= 5
    BY FramesAssumption
  <2>2. sent' = sent \o f /\ sentEnds' = sentEnds \cup {Len(sent')} /\ wire' = wire \o f
    BY <1>1 DEF DongleSends
  <2>3. sent \in Seq(Byte) /\ wire \in Seq(Byte) /\ sentEnds \subseteq 1 .. Len(sent)
    BY DEF TypeOK
  <2>4. sent' \in Seq(Byte) /\ Len(sent') = Len(sent) + Len(f) /\ wire' \in Seq(Byte)
    BY <2>1, <2>2, <2>3, ConcatProperties
  <2>5. sentEnds' \subseteq 1 .. Len(sent')
    <3>1. Len(sent) \in Nat /\ Len(sent') \in Nat /\ Len(sent') >= Len(sent) /\ Len(sent') >= 1
      BY <2>1, <2>3, <2>4
    <3> QED BY <2>2, <2>3, <3>1, EndsGrow
  <2> QED BY <1>1, <2>4, <2>5 DEF DongleSends, TypeOK, ring, parser, result
<1>2. ASSUME LineLoses PROVE TypeOK' /\ UNCHANGED <<ring, taken>>
  <2>1. wire' \in Seq(Byte)
    BY <1>2 DEF LineLoses, TypeOK
  <2>2. noise' \in 0 .. MaxNoise
    BY <1>2, Sizes DEF LineLoses, TypeOK
  <2> QED BY <1>2, <2>1, <2>2 DEF LineLoses, TypeOK, ring, parser, result, dongle
<1>3. ASSUME NEW b \in Byte, LineInvents(b) PROVE TypeOK' /\ UNCHANGED <<ring, taken>>
  <2>1. wire' \in Seq(Byte)
    BY <1>3, ConcatProperties DEF LineInvents, TypeOK
  <2>2. noise' \in 0 .. MaxNoise
    BY <1>3, Sizes DEF LineInvents, TypeOK
  <2> QED BY <1>3, <2>1, <2>2 DEF LineInvents, TypeOK, ring, parser, result, dongle
<1>4. ASSUME FiveSecondsPass PROVE TypeOK' /\ UNCHANGED <<ring, taken>>
  BY <1>4 DEF FiveSecondsPass, TypeOK, ring, parser, result, dongle
<1> QED BY <1>1, <1>2, <1>3, <1>4

LEMMA ReadTtyTypes ==
    ASSUME TypeOK, NEW n, ReadTty(n)
    PROVE  TypeOK' /\ (Fifo!Store \/ UNCHANGED <<ring, taken>>)
<1>1. /\ n \in 1 .. ReadMax /\ n <= Len(wire) /\ wire \in Seq(Byte)
      /\ wire' = SubSeq(wire, n + 1, Len(wire))
  BY DEF ReadTty, TypeOK
<1>2. n \in 0 .. Len(wire) /\ n >= 1
  BY <1>1, Sizes
<1>3. /\ SubSeq(wire, 1, n) \in Seq(Byte) /\ Len(SubSeq(wire, 1, n)) = n
      /\ wire' \in Seq(Byte)
  BY <1>1, <1>2, CutInTwo
<1>4. taken' = taken
  BY DEF ReadTty
<1>5. CASE Fits(n)
  <2>1. put(SubSeq(wire, 1, n)) /\ UNCHANGED clean
    BY <1>5 DEF ReadTty
  <2>2. RingOK' /\ Fifo!Store
    BY <1>2, <1>3, <1>4, <1>5, <2>1, PutStores
  <2> QED BY <1>3, <2>1, <2>2 DEF ReadTty, TypeOK, RingOK, parser, result, dongle
<1>6. CASE ~Fits(n)
  BY <1>3, <1>6 DEF ReadTty, TypeOK, ring, parser, result, dongle
<1> QED BY <1>5, <1>6

LEMMA ReadFailsTypes ==
    ASSUME TypeOK, ReadFails
    PROVE  TypeOK' /\ (Fifo!Store \/ UNCHANGED <<ring, taken>>)
<1> DEFINE zeros == [i \in 1 .. ReadMax |-> 0]
<1>1. zeros \in Seq(Byte) /\ Len(zeros) = ReadMax /\ Len(zeros) >= 1
  BY Sizes
<1>2. noise' \in 0 .. MaxNoise
  BY Sizes DEF ReadFails, TypeOK
<1>3. taken' = taken
  BY DEF ReadFails
<1>4. CASE Fits(ReadMax)
  <2>1. put(zeros)
    BY <1>4 DEF ReadFails
  <2>2. RingOK' /\ Fifo!Store
    <3> HIDE DEF zeros
    <3> QED BY <1>1, <1>3, <1>4, <2>1, PutStores
  <2> QED BY <1>2, <2>2 DEF ReadFails, TypeOK, RingOK, parser, result, dongle
<1>5. CASE ~Fits(ReadMax)
  BY <1>2, <1>5 DEF ReadFails, TypeOK, ring, parser, result, dongle
<1> QED BY <1>4, <1>5

LEMMA TurnTypes ==
    ASSUME TypeOK, WaitingSop \/ WaitingLen \/ WaitingCmd0 \/ WaitingCmd1
    PROVE  TypeOK' /\ Fifo!Remove(1) /\ 1 \in 1 .. Size
<1>1. \E s : Turn(s)
  BY DEF WaitingSop, WaitingLen, WaitingCmd0, WaitingCmd1
<1>2. PICK s : Turn(s)
  BY <1>1
<1>3. /\ RingOK' /\ taken' \in Seq(Byte) /\ copyOut(1)[1] \in Byte
      /\ Fifo!Remove(1) /\ 1 \in 1 .. Size
  BY <1>2, TurnTakes
<1>4. UNCHANGED <<rxBusy, wire, noise, dongle, result, clean>>
  BY <1>2 DEF Turn
<1>5. /\ statePending' \in {"ST_WAITING_SOP", "ST_WAITING_LEN", "ST_WAITING_CMD0",
                            "ST_WAITING_CMD1", "ST_WAITING_DATA_AND_FCS"}
      /\ lenPending' \in Byte /\ cmd0Pending' \in Byte /\ cmd1Pending' \in Byte
      /\ expired' \in BOOLEAN
  <2>1. CASE WaitingSop
    BY <2>1 DEF WaitingSop, TypeOK
  <2>2. CASE WaitingLen
    BY <1>3, <2>2 DEF WaitingLen, TypeOK
  <2>3. CASE WaitingCmd0
    BY <1>3, <2>3 DEF WaitingCmd0, TypeOK
  <2>4. CASE WaitingCmd1
    BY <1>3, <2>4 DEF WaitingCmd1, TypeOK
  <2> QED BY <2>1, <2>2, <2>3, <2>4
<1>6. TypeOK'
  BY <1>3, <1>4, <1>5 DEF TypeOK, RingOK, dongle, result
<1> QED BY <1>3, <1>6

\* A message returned: what it takes and what it adds.
LEMMA MessageTypes ==
    ASSUME TypeOK, WaitingDataAndFcs, getBufferedSize >= lenPending + 1
    PROVE  /\ TypeOK' /\ Fifo!Remove(lenPending + 1) /\ lenPending + 1 \in 1 .. Size
           /\ Header \in Seq(Byte) /\ Len(Header) = 4
           /\ copyOut(lenPending + 1) \in Seq(Byte)
           /\ Len(copyOut(lenPending + 1)) = lenPending + 1
           /\ Content \in Seq(Byte) /\ Content' \in Seq(Byte)
           /\ Content = copyOut(lenPending + 1) \o Content'
           /\ delivered' = (delivered \o Header) \o copyOut(lenPending + 1)
           /\ deliveredEnds' = deliveredEnds \cup {Len(delivered')}
           /\ Len(delivered') = Len(delivered) + 5 + lenPending
<1> DEFINE n == lenPending + 1
<1>1. n \in Nat /\ n >= 1 /\ n <= getBufferedSize /\ lenPending \in Nat
  <2>1. lenPending \in Nat
    BY Sizes DEF TypeOK
  <2> QED BY <2>1
<1>2. /\ get(n) /\ delivered' = (delivered \o Header) \o copyOut(n)
      /\ deliveredEnds' = deliveredEnds \cup {Len(delivered')}
      /\ statePending' = "ST_WAITING_SOP"
  BY DEF WaitingDataAndFcs
<1>3. /\ RingOK' /\ taken' \in Seq(Byte)
      /\ Content \in Seq(Byte) /\ Content' \in Seq(Byte)
      /\ copyOut(n) \in Seq(Byte) /\ Len(copyOut(n)) = n
      /\ Content = copyOut(n) \o Content'
      /\ Fifo!Remove(n) /\ n \in 1 .. Size
  <2> HIDE DEF n
  <2> QED BY <1>1, <1>2, GetTakes
<1>4. Header \in Seq(Byte) /\ Len(Header) = 4
  BY Sizes DEF Header, TypeOK
<1>5. delivered \in Seq(Byte) /\ deliveredEnds \subseteq 1 .. Len(delivered)
  BY DEF TypeOK
<1>6. delivered \o Header \in Seq(Byte) /\ Len(delivered \o Header) = Len(delivered) + 4
  <2> DEFINE hd == Header
  <2>1. hd \in Seq(Byte) /\ Len(hd) = 4
    BY <1>4
  <2> HIDE DEF hd
  <2>2. delivered \o hd \in Seq(Byte) /\ Len(delivered \o hd) = Len(delivered) + Len(hd)
    BY <1>5, <2>1, ConcatProperties
  <2> QED BY <2>1, <2>2 DEF hd
<1>7. /\ delivered' \in Seq(Byte)
      /\ Len(delivered') = Len(delivered \o Header) + Len(copyOut(n))
  <2> DEFINE a == delivered \o Header
             b == copyOut(n)
  <2>1. a \in Seq(Byte) /\ b \in Seq(Byte) /\ delivered' = a \o b
    BY <1>2, <1>3, <1>6
  <2> HIDE DEF a, b
  <2>2. delivered' \in Seq(Byte) /\ Len(delivered') = Len(a) + Len(b)
    BY <2>1, ConcatProperties
  <2> QED BY <2>2 DEF a, b
<1>8. Len(delivered') = Len(delivered) + 5 + lenPending /\ Len(delivered) \in Nat
  <2>1. Len(delivered') = (Len(delivered) + 4) + (lenPending + 1)
    BY <1>3, <1>6, <1>7
  <2>2. Len(delivered) \in Nat
    BY <1>5
  <2> QED BY <1>1, <2>1, <2>2
<1>9. deliveredEnds' \subseteq 1 .. Len(delivered')
  <2>1. Len(delivered') \in Nat /\ Len(delivered') >= Len(delivered) /\ Len(delivered') >= 1
    BY <1>1, <1>8
  <2> QED BY <1>2, <1>5, <1>8, <2>1, EndsGrow
<1>10. TypeOK'
  BY <1>2, <1>3, <1>7, <1>9 DEF WaitingDataAndFcs, TypeOK, RingOK, dongle
<1> QED BY <1>2, <1>3, <1>4, <1>8, <1>10

\* The parser's other steps leave the buffer alone.
LEMMA CallTypes ==
    ASSUME TypeOK,
           \/ Enter \/ LeaveEmpty
           \/ WaitingDataAndFcs /\ ~(getBufferedSize >= lenPending + 1)
    PROVE  TypeOK' /\ UNCHANGED <<ring, taken>>
<1>1. CASE Enter
  BY <1>1 DEF Enter, TypeOK, ring, parser, dongle, result
<1>2. CASE LeaveEmpty
  BY <1>2 DEF LeaveEmpty, TypeOK, ring, parser, dongle, result
<1>3. CASE WaitingDataAndFcs /\ ~(getBufferedSize >= lenPending + 1)
  BY <1>3 DEF WaitingDataAndFcs, TypeOK, ring, parser, dongle, result
<1> QED BY <1>1, <1>2, <1>3

\* Every step keeps the types and is a step of the abstract buffer, or leaves
\* it as it is.
LEMMA StepBuffer ==
    ASSUME TypeOK, [Next]_vars
    PROVE  TypeOK' /\ (Fifo!Next \/ UNCHANGED <<ring, taken>>)
<1>1. CASE \/ \E f \in Frames : DongleSends(f)
           \/ LineLoses \/ (\E b \in Byte : LineInvents(b))
           \/ FiveSecondsPass
  BY <1>1, OutsideTypes
<1>2. CASE ReadSome
  <2>1. PICK n \in 1 .. ReadMax : ReadTty(n)
    BY <1>2 DEF ReadSome
  <2> QED BY <2>1, ReadTtyTypes DEF Fifo!Next
<1>3. CASE ReadFails
  BY <1>3, ReadFailsTypes DEF Fifo!Next
<1>4. CASE WaitingSop \/ WaitingLen \/ WaitingCmd0 \/ WaitingCmd1
  BY <1>4, TurnTypes DEF Fifo!Next
<1>5. CASE WaitingDataAndFcs /\ getBufferedSize >= lenPending + 1
  BY <1>5, MessageTypes DEF Fifo!Next
<1>6. CASE \/ Enter \/ LeaveEmpty
           \/ WaitingDataAndFcs /\ ~(getBufferedSize >= lenPending + 1)
  BY <1>6, CallTypes
<1>7. CASE UNCHANGED vars
  BY <1>7 DEF vars, TypeOK, ring, parser, dongle, result
<1> QED
  BY <1>1, <1>2, <1>3, <1>4, <1>5, <1>6, <1>7 DEF Next, getNextZNPMsg

\* Head and tail stay inside the array and every stored byte is a byte,
\* whatever is read, lost or invented.
THEOREM TypeCorrect == Spec => []TypeOK
<1>1. Init => TypeOK
  BY InitTypes
<1>2. TypeOK /\ [Next]_vars => TypeOK'
  BY StepBuffer
<1> QED BY <1>1, <1>2, PTL DEF Spec

\* put and get (uart_buf_control.c) implement a bounded first-in first-out
\* store of bytes, at every size and for every way the data wraps.
THEOREM BufferImplementsFifo == Spec => BufferIsFifo
<1>1. Init => Fifo!Init
  <2> SUFFICES ASSUME Init PROVE Fifo!Init
    OBVIOUS
  <2>1. TypeOK /\ taken = <<>>
    BY InitTypes DEF Init
  <2>2. RingOK /\ bufHead = 0 /\ bufTail = 0
    BY <2>1 DEF TypeOK, RingOK, Init
  <2>3. Content \in Seq(Byte) /\ Len(Content) = Stored(0, 0)
    BY <2>2, ContentIs
  <2>4. Content = <<>>
    BY <2>3 DEF Stored
  <2> QED BY <2>1, <2>4 DEF Fifo!Init
<1>2. TypeOK /\ [Next]_vars => [Fifo!Next]_Fifo!vars
  <2> SUFFICES ASSUME TypeOK, [Next]_vars PROVE [Fifo!Next]_Fifo!vars
    OBVIOUS
  <2>1. CASE Fifo!Next
    BY <2>1
  <2>2. CASE UNCHANGED <<ring, taken>>
    BY <2>2, RingStays DEF Fifo!vars
  <2> QED BY <2>1, <2>2, StepBuffer
<1> QED BY <1>1, <1>2, TypeCorrect, PTL DEF Spec, BufferIsFifo, Fifo!Spec

-----------------------------------------------------------------------------
(* The frames in the stream *)

\* The positions in sent where a frame may begin: after the end of another.
Starts == {0} \cup sentEnds

\* A whole frame begins after position p, and no other one ends inside it.
FrameAt(p) ==
    /\ p + 5 <= Len(sent)
    /\ sent[p + 1] = SOF
    /\ p + 5 + sent[p + 2] \in sentEnds
    /\ \A e \in sentEnds : e <= p \/ p + 5 + sent[p + 2] <= e

\* sent is cut into frames by sentEnds.
FrameInv ==
    /\ Len(sent) \in Starts
    /\ \A p \in Starts : p = Len(sent) \/ FrameAt(p)

\* The parser is in step with the stream: what was returned ends where a
\* frame ends.
SyncInv == clean => Len(delivered) \in Starts

IInv == TypeOK /\ FrameInv /\ SyncInv /\ NothingLost

LEMMA FramesSent ==
    ASSUME TypeOK, FrameInv, NEW f \in Frames, DongleSends(f)
    PROVE  /\ FrameInv'
           /\ sent' = sent \o f /\ wire' = wire \o f /\ f \in Seq(Byte)
           /\ Len(sent') > Len(sent) /\ sentEnds' = sentEnds \cup {Len(sent')}
<1>1. /\ f \in Seq(Byte) /\ Len(f) \in Nat /\ Len(f) >= 5 /\ f[1] = SOF
      /\ Len(f) = f[2] + 5 /\ f[2] \in Nat
  <2>1. f \in Seq(Byte) /\ Len(f) >= 5 /\ f[1] = SOF /\ Len(f) = f[2] + 5
    BY FramesAssumption
  <2>2. Len(f) \in Nat
    BY <2>1
  <2>3. 2 \in 1 .. Len(f)
    BY <2>1, <2>2
  <2>4. f[2] \in Byte
    BY <2>1, <2>3, ElementOfSeq
  <2> QED BY <2>1, <2>2, <2>4, Sizes
<1>2. sent' = sent \o f /\ sentEnds' = sentEnds \cup {Len(sent')} /\ wire' = wire \o f
  BY DEF DongleSends
<1>3. sent \in Seq(Byte) /\ Len(sent) \in Nat /\ sentEnds \subseteq 1 .. Len(sent)
  BY DEF TypeOK
<1>4. /\ Len(sent') = Len(sent) + Len(f)
      /\ \A i \in 1 .. Len(sent) + Len(f) :
            sent'[i] = IF i <= Len(sent) THEN sent[i] ELSE f[i - Len(sent)]
  BY <1>1, <1>2, <1>3, ConcatProperties
<1>5. /\ Len(sent') \in Nat /\ Len(sent') > Len(sent)
      /\ \A i \in 1 .. Len(sent) : sent'[i] = sent[i]
      /\ sent'[Len(sent) + 1] = SOF /\ sent'[Len(sent) + 2] = f[2]
  <2>1. Len(sent') \in Nat /\ Len(sent') > Len(sent)
    BY <1>1, <1>3, <1>4
  <2>2. ASSUME NEW i \in 1 .. Len(sent) PROVE sent'[i] = sent[i]
    <3>1. i \in 1 .. Len(sent) + Len(f) /\ i <= Len(sent)
      BY <1>1, <1>3
    <3> QED BY <1>4, <3>1
  <2>3. /\ Len(sent) + 1 \in 1 .. Len(sent) + Len(f) /\ ~(Len(sent) + 1 <= Len(sent))
        /\ Len(sent) + 2 \in 1 .. Len(sent) + Len(f) /\ ~(Len(sent) + 2 <= Len(sent))
        /\ (Len(sent) + 1) - Len(sent) = 1 /\ (Len(sent) + 2) - Len(sent) = 2
    BY <1>1, <1>3
  <2> QED BY <1>1, <1>4, <2>1, <2>2, <2>3
<1>6. ASSUME NEW p \in Starts PROVE FrameAt(p)'
  <2>1. p \in Nat /\ p <= Len(sent)
    BY <1>3 DEF Starts
  <2>2. CASE p = Len(sent)
    <3>1. p + 5 + sent'[p + 2] = Len(sent')
      <4>1. sent'[p + 2] = f[2]
        BY <1>5, <2>2
      <4>2. Len(sent') = p + (f[2] + 5)
        BY <1>1, <1>4, <2>2
      <4> QED BY <1>1, <2>1, <4>1, <4>2
    <3>2. ASSUME NEW e \in sentEnds' PROVE e <= p \/ Len(sent') <= e
      <4>1. e \in sentEnds \/ e = Len(sent')
        BY ONLY <1>2, <3>2
      <4>2. e \in sentEnds => e <= Len(sent)
        BY ONLY <1>3
      <4> QED BY ONLY <1>5, <2>2, <4>1, <4>2
    <3>3. p + 5 <= Len(sent') /\ sent'[p + 1] = SOF
      BY <1>1, <1>3, <1>4, <1>5, <2>2
    <3> QED BY <1>2, <3>1, <3>2, <3>3 DEF FrameAt
  <2>3. CASE p # Len(sent)
    <3>1. FrameAt(p)
      BY <2>3 DEF FrameInv
    <3>2. /\ p + 5 <= Len(sent) /\ sent[p + 1] = SOF
          /\ p + 5 + sent[p + 2] \in sentEnds
          /\ \A e \in sentEnds : e <= p \/ p + 5 + sent[p + 2] <= e
      BY <3>1 DEF FrameAt
    <3>3. p + 1 \in 1 .. Len(sent) /\ p + 2 \in 1 .. Len(sent)
      BY <1>3, <2>1, <3>2
    <3>4. sent'[p + 1] = sent[p + 1] /\ sent'[p + 2] = sent[p + 2]
      BY <1>5, <3>3
    <3>5. p + 5 + sent[p + 2] \in 1 .. Len(sent)
      BY <1>3, <3>2
    <3>6. p + 5 + sent[p + 2] <= Len(sent') /\ p + 5 <= Len(sent')
      BY <1>3, <1>5, <2>1, <3>2, <3>5
    <3>7. \A e \in sentEnds' : e <= p \/ p + 5 + sent[p + 2] <= e
      BY <1>2, <3>2, <3>6
    <3> QED BY <1>2, <3>2, <3>4, <3>6, <3>7 DEF FrameAt
  <2> QED BY <2>2, <2>3
<1>7. Starts' = Starts \cup {Len(sent')}
  BY <1>2 DEF Starts
<1>8. FrameInv'
  BY <1>6, <1>7 DEF FrameInv
<1> QED BY <1>1, <1>2, <1>5, <1>8

LEMMA FramesStay ==
    ASSUME FrameInv, UNCHANGED dongle
    PROVE  FrameInv' /\ Starts' = Starts
BY DEF FrameInv, FrameAt, Starts, dongle

LEMMA PartialIs ==
    ASSUME TypeOK
    PROVE  /\ Partial \in Seq(Byte)
           /\ statePending = "ST_WAITING_SOP"  => Partial = <<>>
           /\ statePending = "ST_WAITING_LEN"  => Partial = <<SOF>>
           /\ statePending = "ST_WAITING_CMD0" => Partial = <<SOF, lenPending>>
           /\ statePending = "ST_WAITING_CMD1" => Partial = <<SOF, lenPending, cmd0Pending>>
           /\ statePending = "ST_WAITING_DATA_AND_FCS" => Partial = Header
<1>1. /\ statePending = "ST_WAITING_SOP"  => Partial = <<>>
      /\ statePending = "ST_WAITING_LEN"  => Partial = <<SOF>>
      /\ statePending = "ST_WAITING_CMD0" => Partial = <<SOF, lenPending>>
      /\ statePending = "ST_WAITING_CMD1" => Partial = <<SOF, lenPending, cmd0Pending>>
      /\ statePending = "ST_WAITING_DATA_AND_FCS" => Partial = Header
  BY DEF Partial
<1>2. SOF \in Byte /\ lenPending \in Byte /\ cmd0Pending \in Byte /\ cmd1Pending \in Byte
  BY Sizes DEF TypeOK
<1>3. /\ <<>> \in Seq(Byte) /\ <<SOF>> \in Seq(Byte) /\ <<SOF, lenPending>> \in Seq(Byte)
      /\ <<SOF, lenPending, cmd0Pending>> \in Seq(Byte)
  BY <1>2
<1>4. Header \in Seq(Byte)
  BY <1>2 DEF Header
<1>5. statePending \in {"ST_WAITING_SOP", "ST_WAITING_LEN", "ST_WAITING_CMD0",
                        "ST_WAITING_CMD1", "ST_WAITING_DATA_AND_FCS"}
  BY DEF TypeOK
<1>6. Partial \in Seq(Byte)
  BY <1>1, <1>3, <1>4, <1>5
<1> QED BY <1>1, <1>6

\* While nothing went wrong, the parser reads a start of frame where it
\* expects one, and the length it has read is the one of the frame sent.
LEMMA InStep ==
    ASSUME IInv, clean
    PROVE  /\ Len(sent) \in Nat /\ Len(delivered) \in Nat /\ Len(delivered) <= Len(sent)
           /\ (statePending = "ST_WAITING_SOP" /\ Len(Content) >= 1) => Content[1] = SOF
           /\ statePending = "ST_WAITING_DATA_AND_FCS" =>
                /\ Len(delivered) + 5 + lenPending \in sentEnds
                /\ \A e \in sentEnds : \/ e <= Len(delivered)
                                       \/ Len(delivered) + 5 + lenPending <= e
<1> DEFINE d == delivered
           p == Partial
           c == Content
           w == wire
<1>1. d \in Seq(Byte) /\ p \in Seq(Byte) /\ c \in Seq(Byte) /\ w \in Seq(Byte) /\ sent \in Seq(Byte)
  BY PartialIs, ContentIs DEF IInv, TypeOK, RingOK
<1>2. sent = d \o p \o c \o w
  BY DEF IInv, NothingLost
<1>3. /\ Len(sent) = Len(d) + Len(p) + Len(c) + Len(w)
      /\ \A k \in 1 .. Len(p) : sent[Len(d) + k] = p[k]
      /\ \A k \in 1 .. Len(c) : sent[Len(d) + Len(p) + k] = c[k]
  <2>1. d \in Seq(Byte) /\ p \in Seq(Byte) /\ c \in Seq(Byte) /\ w \in Seq(Byte)
    BY <1>1
  <2> HIDE DEF d, p, c, w
  <2>2. Joined(d \o p \o c \o w, d, p, c, w)
    BY ONLY <2>1, Positions, Zenon
  <2>3. Joined(sent, d, p, c, w)
    BY ONLY <1>2, <2>2, Zenon
  <2> QED BY ONLY <2>3, Zenon DEF Joined
<1>4. Len(d) \in Nat /\ Len(p) \in Nat /\ Len(c) \in Nat /\ Len(w) \in Nat /\ Len(sent) \in Nat
  BY <1>1
<1>5. Len(d) \in Starts /\ (Len(d) # Len(sent) => FrameAt(Len(d)))
  BY DEF IInv, SyncInv, FrameInv
<1>6. ASSUME statePending = "ST_WAITING_SOP", Len(c) >= 1 PROVE c[1] = SOF
  <2>1. p = <<>>
    BY <1>6, PartialIs DEF IInv
  <2>2. Len(p) = 0
    BY <2>1
  <2> HIDE DEF d, p, c, w
  <2>3. Len(d) # Len(sent) /\ 1 \in 1 .. Len(c) /\ Len(d) + Len(p) + 1 = Len(d) + 1
    BY <1>3, <1>4, <1>6, <2>2
  <2>4. sent[Len(d) + 1] = SOF
    BY <1>5, <2>3 DEF FrameAt
  <2> QED BY <1>3, <2>3, <2>4
<1>7. ASSUME statePending = "ST_WAITING_DATA_AND_FCS"
      PROVE  /\ Len(d) + 5 + lenPending \in sentEnds
             /\ \A e \in sentEnds : e <= Len(d) \/ Len(d) + 5 + lenPending <= e
  <2>1. p = Header
    BY <1>7, PartialIs DEF IInv
  <2>2. Len(p) = 4 /\ p[2] = lenPending
    BY <2>1 DEF Header
  <2> HIDE DEF d, p, c, w
  <2>3. Len(d) # Len(sent) /\ 2 \in 1 .. Len(p)
    BY <1>3, <1>4, <2>2
  <2>4. sent[Len(d) + 2] = lenPending
    BY <1>3, <2>2, <2>3
  <2> QED BY <1>5, <2>3, <2>4 DEF FrameAt
<1>8. Len(d) <= Len(sent)
  <2> HIDE DEF d, p, c, w
  <2> QED BY <1>3, <1>4
<1> QED BY <1>4, <1>6, <1>7, <1>8

\* The invariant without the types, which StepBuffer has.
LossInv == FrameInv /\ SyncInv /\ NothingLost

LEMMA InitLoss == Init => LossInv
<1> SUFFICES ASSUME Init PROVE LossInv
  OBVIOUS
<1>1. TypeOK
  BY InitTypes
<1>2. /\ sent = <<>> /\ sentEnds = {} /\ wire = <<>> /\ delivered = <<>> /\ deliveredEnds = {}
      /\ statePending = "ST_WAITING_SOP" /\ bufHead = 0 /\ bufTail = 0
  BY DEF Init
<1>3. Content = <<>>
  <2>1. RingOK
    BY <1>1 DEF TypeOK, RingOK
  <2>2. Content \in Seq(Byte) /\ Len(Content) = Stored(0, 0)
    BY <1>2, <2>1, ContentIs
  <2> QED BY <2>2 DEF Stored
<1>4. Partial = <<>>
  BY <1>1, <1>2, PartialIs
<1>5. NothingLost
  <2>1. delivered \o Partial \o Content \o wire = sent
    BY <1>2, <1>3, <1>4
  <2> QED BY <1>2, <2>1 DEF NothingLost
<1>6. FrameInv /\ SyncInv
  BY <1>2 DEF FrameInv, SyncInv, Starts
<1> QED BY <1>5, <1>6 DEF LossInv

\* Steps that touch neither the stream nor the messages returned.
LEMMA LossStays ==
    ASSUME LossInv, UNCHANGED <<ring, parser, wire, dongle, result>>, clean' => clean
    PROVE  LossInv'
<1>1. Content' = Content
  BY RingStays
<1>2. Partial' = Partial
  BY DEF Partial, Header, parser
<1>3. FrameInv' /\ Starts' = Starts
  BY FramesStay DEF LossInv
<1>4. UNCHANGED <<wire, sent, sentEnds, delivered, deliveredEnds>>
  BY DEF dongle, result
<1>5. NothingLost'
  BY <1>1, <1>2, <1>4 DEF LossInv, NothingLost
<1>6. SyncInv'
  BY <1>3, <1>4 DEF LossInv, SyncInv
<1> QED BY <1>3, <1>5, <1>6 DEF LossInv

\* After a fault only the dongle's frames matter.
LEMMA LossFault ==
    ASSUME LossInv, UNCHANGED dongle, ~clean'
    PROVE  LossInv'
BY FramesStay DEF LossInv, SyncInv, NothingLost

LEMMA LossDongle ==
    ASSUME TypeOK, LossInv, NEW f \in Frames, DongleSends(f)
    PROVE  LossInv'
<1>1. /\ FrameInv' /\ sent' = sent \o f /\ wire' = wire \o f /\ f \in Seq(Byte)
      /\ Len(sent') > Len(sent) /\ sentEnds' = sentEnds \cup {Len(sent')}
  BY FramesSent DEF LossInv
<1>2. UNCHANGED <<ring, statePending, lenPending, cmd0Pending, cmd1Pending,
                  delivered, deliveredEnds, clean>>
  BY DEF DongleSends, parser, result
<1>3. SyncInv'
  BY <1>1, <1>2 DEF LossInv, SyncInv, Starts
<1>4. ASSUME clean' PROVE delivered' \o Partial' \o Content' \o wire' = sent'
  <2> DEFINE a == delivered \o Partial \o Content
  <2>1. Content' = Content
    BY <1>2, RingStays
  <2>2. Partial' = Partial
    BY <1>2 DEF Partial, Header
  <2>3. a \in Seq(Byte) /\ wire \in Seq(Byte)
    BY PartialIs, ContentIs, ConcatProperties DEF TypeOK, RingOK
  <2>4. a \o wire = sent
    BY <1>2, <1>4 DEF LossInv, NothingLost
  <2>5. delivered' \o Partial' \o Content' \o wire' = a \o (wire \o f)
    BY <1>1, <1>2, <2>1, <2>2
  <2> HIDE DEF a
  <2>6. a \o (wire \o f) = (a \o wire) \o f
    BY <1>1, <2>3, JoinAssociative
  <2> QED BY <1>1, <2>4, <2>5, <2>6
<1>5. ASSUME clean' PROVE deliveredEnds' = {e \in sentEnds' : e <= Len(delivered')}
  <2>1. deliveredEnds = {e \in sentEnds : e <= Len(delivered)}
    BY <1>2, <1>5 DEF LossInv, NothingLost
  <2>2. Len(sent) \in Nat /\ Len(delivered) \in Nat /\ Len(delivered) <= Len(sent)
    BY <1>2, <1>5, InStep DEF LossInv, IInv
  <2>3. Len(sent') \in Nat
    BY <1>1, ConcatProperties DEF TypeOK
  <2>4. ~(Len(sent') <= Len(delivered))
    BY <1>1, <2>2, <2>3
  <2> QED BY <1>1, <1>2, <2>1, <2>4
<1> QED BY <1>1, <1>3, <1>4, <1>5 DEF LossInv, NothingLost

\* A read moves bytes from the TTY to the buffer.
LEMMA LossRead ==
    ASSUME TypeOK, LossInv, NEW n, ReadTty(n)
    PROVE  LossInv'
<1>1. CASE ~Fits(n)
  <2>1. ~clean' /\ UNCHANGED dongle
    BY <1>1 DEF ReadTty
  <2> QED BY <2>1, LossFault
<1>2. CASE Fits(n)
  <2>1. /\ n \in 1 .. ReadMax /\ n <= Len(wire) /\ wire \in Seq(Byte)
        /\ wire' = SubSeq(wire, n + 1, Len(wire))
        /\ put(SubSeq(wire, 1, n)) /\ clean' = clean
        /\ UNCHANGED <<parser, dongle, result>>
    BY <1>2 DEF ReadTty, TypeOK
  <2>2. n \in 0 .. Len(wire) /\ n >= 1
    BY <2>1, Sizes
  <2> DEFINE x == SubSeq(wire, 1, n)
  <2>3. x \in Seq(Byte) /\ Len(x) = n /\ wire' \in Seq(Byte) /\ x \o wire' = wire
    BY <2>1, <2>2, CutInTwo
  <2>4. Content \in Seq(Byte) /\ Content' = Content \o x
    <3>1. put(x)
      BY <2>1
    <3> HIDE DEF x
    <3> QED BY <1>2, <2>2, <2>3, <3>1, PutStores
  <2>5. Partial' = Partial /\ Partial \in Seq(Byte)
    BY <2>1, PartialIs DEF Partial, Header, parser
  <2>6. FrameInv' /\ Starts' = Starts
    BY <2>1, FramesStay DEF LossInv
  <2>7. UNCHANGED <<sent, sentEnds, delivered, deliveredEnds>>
    BY <2>1 DEF dongle, result
  <2>8. SyncInv'
    BY <2>1, <2>6, <2>7 DEF LossInv, SyncInv
  <2>9. ASSUME clean PROVE delivered' \o Partial' \o Content' \o wire' = sent'
    <3> DEFINE q == delivered \o Partial
               c == Content
    <3>0. PICK u, m : u = wire' /\ m = Content'
      OBVIOUS
    <3>1. q \in Seq(Byte) /\ u \in Seq(Byte) /\ c \in Seq(Byte) /\ x \in Seq(Byte)
      BY <2>3, <2>4, <2>5, <3>0, ConcatProperties DEF TypeOK
    <3>2. Join(Join(q, c), wire) = sent
      BY <2>9 DEF LossInv, NothingLost, Join
    <3>3. m = Join(c, x) /\ wire = Join(x, u)
      BY <2>3, <2>4, <3>0 DEF Join
    <3>4. delivered' \o Partial' \o Content' \o wire' = Join(Join(q, m), u)
      BY <2>5, <2>7, <3>0 DEF Join
    <3> HIDE DEF q, c, x
    <3>5. Join(Join(q, m), u) = Join(Join(q, c), wire)
      BY <3>1, <3>3, Regroup
    <3> QED BY <2>7, <3>2, <3>4, <3>5
  <2>10. NothingLost'
    BY <2>1, <2>7, <2>9 DEF LossInv, NothingLost
  <2> QED BY <2>6, <2>8, <2>10 DEF LossInv
<1> QED BY <1>1, <1>2

\* A turn of the loop moves a byte from the buffer to the frame being parsed.
LEMMA LossTurn ==
    ASSUME TypeOK, TypeOK', LossInv, NEW s, Turn(s),
           clean => Partial' = Partial \o <<copyOut(1)[1]>>
    PROVE  LossInv'
<1> DEFINE x == <<copyOut(1)[1]>>
<1>1. UNCHANGED <<wire, dongle, result, clean>>
  BY DEF Turn
<1>2. /\ Content \in Seq(Byte) /\ Content' \in Seq(Byte)
      /\ copyOut(1)[1] \in Byte /\ Content = x \o Content'
  BY TurnTakes
<1>3. x \in Seq(Byte)
  BY <1>2
<1>4. Partial \in Seq(Byte) /\ delivered \in Seq(Byte)
  BY PartialIs DEF TypeOK
<1>5. FrameInv' /\ Starts' = Starts
  BY <1>1, FramesStay DEF LossInv
<1>6. UNCHANGED <<sent, sentEnds, delivered, deliveredEnds>>
  BY <1>1 DEF dongle, result
<1>7. SyncInv'
  BY <1>1, <1>5, <1>6 DEF LossInv, SyncInv
<1>8. ASSUME clean PROVE delivered' \o Partial' \o Content' \o wire' = sent'
  <2> DEFINE d == delivered
             p == Partial
  <2>0. PICK u, m : u = Content' /\ m = Partial'
    OBVIOUS
  <2>1. d \in Seq(Byte) /\ p \in Seq(Byte) /\ u \in Seq(Byte) /\ x \in Seq(Byte)
    BY <1>2, <1>3, <1>4, <2>0
  <2>2. Join(Join(Join(d, p), Content), wire) = sent
    BY <1>8 DEF LossInv, NothingLost, Join
  <2>3. m = Join(p, x) /\ Content = Join(x, u)
    BY <1>2, <1>8, <2>0 DEF Join
  <2>4. delivered' \o Partial' \o Content' \o wire' = Join(Join(Join(d, m), u), wire)
    BY <1>1, <1>6, <2>0 DEF Join
  <2> HIDE DEF d, p, x
  <2>5. Join(Join(d, m), u) = Join(Join(d, p), Content)
    BY <2>1, <2>3, Regroup
  <2> QED BY <1>6, <2>2, <2>4, <2>5
<1>9. NothingLost'
  BY <1>1, <1>6, <1>8 DEF LossInv, NothingLost
<1> QED BY <1>5, <1>7, <1>9 DEF LossInv

\* What each turn adds to the frame being parsed.
LEMMA LossTurns ==
    ASSUME TypeOK, TypeOK', LossInv, WaitingSop \/ WaitingLen \/ WaitingCmd0 \/ WaitingCmd1
    PROVE  LossInv'
<1> DEFINE x == copyOut(1)[1]
<1>1. CASE WaitingSop
  <2>1. Turn("ST_WAITING_SOP") /\ statePending = "ST_WAITING_SOP"
    BY <1>1 DEF WaitingSop, Turn
  <2>2. ASSUME clean PROVE Partial' = Partial \o <<x>>
    <3>1. Len(Content) >= 1 /\ Content[1] = x
      BY <2>1, TurnTakes
    <3>2. x = SOF
      BY <2>1, <2>2, <3>1, InStep DEF LossInv, IInv
    <3>3. statePending' = "ST_WAITING_LEN"
      BY <1>1, <3>2 DEF WaitingSop
    <3>4. Partial = <<>> /\ Partial' = <<SOF>>
      BY <2>1, <3>3 DEF Partial
    <3> HIDE DEF x
    <3>5. <<>> \o <<x>> = <<x>>
      OBVIOUS
    <3> QED BY <3>2, <3>4, <3>5
  <2> QED BY <2>1, <2>2, LossTurn
<1>2. CASE WaitingLen
  <2>1. /\ Turn("ST_WAITING_LEN") /\ statePending = "ST_WAITING_LEN"
        /\ statePending' = "ST_WAITING_CMD0" /\ lenPending' = x
    BY <1>2 DEF WaitingLen, Turn
  <2>2. Partial' = Partial \o <<x>>
    <3>1. Partial = <<SOF>> /\ Partial' = <<SOF, x>>
      BY <2>1 DEF Partial
    <3>2. <<SOF>> \o <<x>> = <<SOF, x>>
      <4>1. x \in Byte /\ lenPending \in Byte /\ cmd0Pending \in Byte /\ SOF \in Byte
        BY <2>1, Sizes, TurnTakes DEF TypeOK
      <4> HIDE DEF x
      <4> QED BY <4>1, OneByteMore
    <3> QED BY <3>1, <3>2
  <2> QED BY <2>1, <2>2, LossTurn
<1>3. CASE WaitingCmd0
  <2>1. /\ Turn("ST_WAITING_CMD0") /\ statePending = "ST_WAITING_CMD0"
        /\ statePending' = "ST_WAITING_CMD1" /\ lenPending' = lenPending
        /\ cmd0Pending' = x
    BY <1>3 DEF WaitingCmd0, Turn
  <2>2. Partial' = Partial \o <<x>>
    <3>1. Partial = <<SOF, lenPending>> /\ Partial' = <<SOF, lenPending, x>>
      BY <2>1 DEF Partial
    <3>2. <<SOF, lenPending>> \o <<x>> = <<SOF, lenPending, x>>
      <4>1. x \in Byte /\ lenPending \in Byte /\ cmd0Pending \in Byte /\ SOF \in Byte
        BY <2>1, Sizes, TurnTakes DEF TypeOK
      <4> HIDE DEF x
      <4> QED BY <4>1, OneByteMore
    <3> QED BY <3>1, <3>2
  <2> QED BY <2>1, <2>2, LossTurn
<1>4. CASE WaitingCmd1
  <2>1. /\ Turn("ST_WAITING_CMD1") /\ statePending = "ST_WAITING_CMD1"
        /\ statePending' = "ST_WAITING_DATA_AND_FCS" /\ lenPending' = lenPending
        /\ cmd0Pending' = cmd0Pending /\ cmd1Pending' = x
    BY <1>4 DEF WaitingCmd1, Turn
  <2>2. Partial' = Partial \o <<x>>
    <3>1. /\ Partial = <<SOF, lenPending, cmd0Pending>>
          /\ Partial' = <<SOF, lenPending, cmd0Pending, x>>
      BY <2>1 DEF Partial, Header
    <3>2. <<SOF, lenPending, cmd0Pending>> \o <<x>> = <<SOF, lenPending, cmd0Pending, x>>
      <4>1. x \in Byte /\ lenPending \in Byte /\ cmd0Pending \in Byte /\ SOF \in Byte
        BY <2>1, Sizes, TurnTakes DEF TypeOK
      <4> HIDE DEF x
      <4> DEFINE s == <<SOF, lenPending, cmd0Pending>> \o <<x>>
                 t == <<SOF, lenPending, cmd0Pending, x>>
      <4>2. s \in Seq(Byte) /\ t \in Seq(Byte) /\ Len(s) = 4 /\ Len(t) = 4
        BY <4>1
      <4>3. s[1] = t[1] /\ s[2] = t[2] /\ s[3] = t[3] /\ s[4] = t[4]
        BY <4>1
      <4> HIDE DEF s, t
      <4>4. s = t
        BY <4>2, <4>3, SameBytes
      <4> QED BY <4>4 DEF s, t
    <3> QED BY <3>1, <3>2
  <2> QED BY <2>1, <2>2, LossTurn
<1> QED BY <1>1, <1>2, <1>3, <1>4

\* A message returned is the next frame sent, whole.
LEMMA LossMessage ==
    ASSUME TypeOK, TypeOK', LossInv, WaitingDataAndFcs, getBufferedSize >= lenPending + 1
    PROVE  LossInv'
<1> DEFINE n == lenPending + 1
<1>1. /\ Header \in Seq(Byte) /\ copyOut(n) \in Seq(Byte)
      /\ Content' \in Seq(Byte) /\ Content = copyOut(n) \o Content'
      /\ delivered' = (delivered \o Header) \o copyOut(n)
      /\ deliveredEnds' = deliveredEnds \cup {Len(delivered')}
      /\ Len(delivered') = Len(delivered) + 5 + lenPending
  BY MessageTypes
<1>2. /\ statePending = "ST_WAITING_DATA_AND_FCS" /\ statePending' = "ST_WAITING_SOP"
      /\ UNCHANGED <<wire, dongle, clean>>
  BY DEF WaitingDataAndFcs
<1>3. FrameInv' /\ Starts' = Starts /\ sent' = sent /\ sentEnds' = sentEnds
  BY <1>2, FramesStay DEF LossInv, dongle
<1>4. CASE ~clean
  <2>1. UNCHANGED dongle /\ ~clean'
    BY <1>2, <1>4
  <2> QED BY <2>1, LossFault
<1>5. CASE clean
  <2>1. /\ Len(sent) \in Nat /\ Len(delivered) \in Nat
        /\ Len(delivered) + 5 + lenPending \in sentEnds
        /\ \A e \in sentEnds : \/ e <= Len(delivered)
                               \/ Len(delivered) + 5 + lenPending <= e
    BY <1>2, <1>5, InStep DEF LossInv, IInv
  <2>2. lenPending \in Nat
    BY Sizes DEF TypeOK
  <2>3. sentEnds \subseteq Nat
    BY DEF TypeOK
  <2>4. Len(delivered') \in sentEnds
    BY <1>1, <2>1
  <2>5. SyncInv'
    BY <1>3, <2>4 DEF SyncInv, Starts
  <2>6. deliveredEnds' = {e \in sentEnds' : e <= Len(delivered')}
    <3>1. deliveredEnds = {e \in sentEnds : e <= Len(delivered)}
      BY <1>5 DEF LossInv, NothingLost
    <3> DEFINE k == Len(delivered)
               m == Len(delivered')
    <3>2. k \in Nat /\ m \in Nat /\ k <= m /\ m \in sentEnds
      BY <1>1, <2>1, <2>2, <2>4
    <3>3. \A e \in sentEnds : e <= k \/ m <= e
      BY <1>1, <2>1
    <3> HIDE DEF k, m
    <3>4. ASSUME NEW e \in sentEnds PROVE e <= m <=> e <= k \/ e = m
      <4>1. e \in Nat
        BY <2>3
      <4> QED BY <3>2, <3>3, <4>1
    <3>5. {e \in sentEnds : e <= k} \cup {m} = {e \in sentEnds : e <= m}
      BY <3>2, <3>4
    <3> QED BY <1>1, <1>3, <3>1, <3>5 DEF k, m
  <2>7. delivered' \o Partial' \o Content' \o wire' = sent'
    <3> DEFINE q == delivered \o Header
               x == copyOut(n)
    <3>1. PICK u : u = Content'
      OBVIOUS
    <3>2. q \in Seq(Byte) /\ x \in Seq(Byte) /\ u \in Seq(Byte)
      BY <1>1, <3>1, ConcatProperties DEF TypeOK
    <3>3. Partial = Header /\ Partial' = <<>>
      BY <1>2 DEF Partial
    <3>4. q \o Content \o wire = sent
      BY <1>5, <3>3 DEF LossInv, NothingLost
    <3>5. Content = x \o u /\ delivered' = q \o x
      BY <1>1, <3>1
    <3>6. delivered' \o Partial' = delivered'
      BY <3>3, ConcatEmptySeq DEF TypeOK
    <3> HIDE DEF q, x
    <3>7. (q \o x) \o u = q \o (x \o u)
      BY <3>2, JoinAssociative
    <3>8. delivered' \o Partial' \o Content' \o wire' = ((q \o x) \o u) \o wire
      BY <1>2, <3>1, <3>5, <3>6
    <3> QED BY <1>3, <3>4, <3>5, <3>7, <3>8
  <2> QED BY <1>3, <2>5, <2>6, <2>7 DEF LossInv, NothingLost
<1> QED BY <1>4, <1>5

LEMMA StepLoss ==
    ASSUME TypeOK, TypeOK', LossInv, [Next]_vars
    PROVE  LossInv'
<1>1. ASSUME NEW f \in Frames, DongleSends(f) PROVE LossInv'
  BY <1>1, LossDongle
<1>2. CASE LineLoses \/ (\E b \in Byte : LineInvents(b)) \/ ReadFails
  <2>1. UNCHANGED dongle /\ ~clean'
    BY <1>2 DEF LineLoses, LineInvents, ReadFails
  <2> QED BY <2>1, LossFault
<1>3. CASE FiveSecondsPass \/ LeaveEmpty \/ UNCHANGED vars
  <2>1. UNCHANGED <<ring, parser, wire, dongle, result>> /\ (clean' => clean)
    BY <1>3 DEF FiveSecondsPass, LeaveEmpty, vars
  <2> QED BY <2>1, LossStays
<1>4. CASE ReadSome
  BY <1>4, LossRead DEF ReadSome
<1>5. CASE Enter
  <2>1. CASE statePending # "ST_WAITING_SOP" /\ expired
    <3>1. UNCHANGED dongle /\ ~clean'
      BY <1>5, <2>1 DEF Enter
    <3> QED BY <3>1, LossFault
  <2>2. CASE ~(statePending # "ST_WAITING_SOP" /\ expired)
    <3>1. UNCHANGED <<ring, parser, wire, dongle, result>> /\ (clean' => clean)
      BY <1>5, <2>2 DEF Enter, parser
    <3> QED BY <3>1, LossStays
  <2> QED BY <2>1, <2>2
<1>6. CASE WaitingSop \/ WaitingLen \/ WaitingCmd0 \/ WaitingCmd1
  BY <1>6, LossTurns
<1>7. CASE WaitingDataAndFcs
  <2>1. CASE getBufferedSize >= lenPending + 1
    BY <1>7, <2>1, LossMessage
  <2>2. CASE ~(getBufferedSize >= lenPending + 1)
    <3>1. UNCHANGED <<ring, parser, wire, dongle, result>> /\ (clean' => clean)
      BY <1>7, <2>2 DEF WaitingDataAndFcs, parser
    <3> QED BY <3>1, LossStays
  <2> QED BY <2>1, <2>2
<1> QED
  BY <1>1, <1>2, <1>3, <1>4, <1>5, <1>6, <1>7 DEF Next, getNextZNPMsg

\* As long as nothing was lost, invented, refused or abandoned, getNextZNPMsg
\* has returned the frames the dongle sent, in order and cut where they end,
\* and the rest of the stream is in the parser, the buffer and the TTY.
THEOREM NothingIsLost == Spec => []NothingLost
<1>1. Init => IInv
  BY InitTypes, InitLoss DEF IInv, LossInv
<1>2. IInv /\ [Next]_vars => IInv'
  <2> SUFFICES ASSUME IInv, [Next]_vars PROVE IInv'
    OBVIOUS
  <2>1. TypeOK /\ LossInv
    BY DEF IInv, LossInv
  <2>2. TypeOK'
    BY <2>1, StepBuffer
  <2>3. LossInv'
    BY <2>1, <2>2, StepLoss
  <2> QED BY <2>2, <2>3 DEF IInv, LossInv
<1>3. IInv => NothingLost
  BY DEF IInv
<1> QED BY <1>1, <1>2, <1>3, PTL DEF Spec

=============================================================================
