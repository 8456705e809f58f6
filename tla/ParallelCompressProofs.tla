------------------------ MODULE ParallelCompressProofs ------------------------
(***************************************************************************)
(* Proofs about the parallel compression of blocks, for every size of the  *)
(* stream, the blocks and the dictionary, every number of threads, and     *)
(* whatever fails.                                                         *)
(***************************************************************************)
EXTENDS ParallelCompress, FiniteSetTheorems, SequenceTheorems, TLAPS

-----------------------------------------------------------------------------
(***************************************************************************)
(* Sequences and channels.                                                 *)
(***************************************************************************)

\* The first of a sequence that is not empty, and the others.
LEMMA HeadAndTail ==
  ASSUME NEW S, NEW s \in Seq(S), s # <<>>
  PROVE  /\ Len(s) \in Nat \ {0}
         /\ Head(s) = s[1]
         /\ s[1] \in S
         /\ Tail(s) \in Seq(S)
         /\ Len(Tail(s)) = Len(s) - 1
         /\ \A i \in 1..(Len(s) - 1) : Tail(s)[i] = s[i + 1]
<1>1. Len(s) \in Nat \ {0}
  BY EmptySeq
<1>2. Head(s) = s[1]
  OBVIOUS
<1>3. s[1] \in S
  BY <1>1, ElementOfSeq
<1> QED BY <1>1, <1>2, <1>3, HeadTailProperties

\* An element put between the first n and the others.
Inserted(s, n, e) == SubSeq(s, 1, n) \o <<e>> \o SubSeq(s, n + 1, Len(s))

\* Putting an element into a sequence keeps the others in their order.
LEMMA InsertedAfter ==
  ASSUME NEW S, NEW s \in Seq(S), NEW e \in S, NEW n \in 0..Len(s)
  PROVE  /\ Inserted(s, n, e) \in Seq(S)
         /\ Len(Inserted(s, n, e)) = Len(s) + 1
         /\ Inserted(s, n, e)[n + 1] = e
         /\ \A i \in 1..n : Inserted(s, n, e)[i] = s[i]
         /\ \A i \in (n + 2)..(Len(s) + 1) : Inserted(s, n, e)[i] = s[i - 1]
<1> DEFINE r == Inserted(s, n, e)
<1> DEFINE a == SubSeq(s, 1, n)
           b == SubSeq(s, n + 1, Len(s))
           o == <<e>>
<1>0. Len(s) \in Nat /\ n \in Nat
  BY LenProperties
<1>1. /\ a \in Seq(S)
      /\ Len(a) = n
      /\ \A i \in 1..n : a[i] = s[i]
  <2>1. \A i \in 1..n : s[i] \in S
    BY <1>0, ElementOfSeq
  <2>2. /\ a \in Seq(S)
        /\ Len(a) = IF 1 <= n THEN n - 1 + 1 ELSE 0
        /\ \A i \in 1..(n - 1 + 1) : a[i] = s[1 + i - 1]
    BY <1>0, <2>1, SubSeqProperties
  <2> QED BY <2>2, <1>0
<1>2. /\ b \in Seq(S)
      /\ Len(b) = Len(s) - n
      /\ \A i \in 1..(Len(s) - n) : b[i] = s[n + i]
  <2>1. \A i \in (n + 1)..Len(s) : s[i] \in S
    BY <1>0, ElementOfSeq
  <2>2. /\ b \in Seq(S)
        /\ Len(b) = IF n + 1 <= Len(s) THEN Len(s) - (n + 1) + 1 ELSE 0
        /\ \A i \in 1..(Len(s) - (n + 1) + 1) : b[i] = s[(n + 1) + i - 1]
    BY <1>0, <2>1, SubSeqProperties
  <2> QED BY <2>2, <1>0
<1>3. o \in Seq(S) /\ Len(o) = 1 /\ o[1] = e
  OBVIOUS
<1> HIDE DEF a, b, o
<1>4. /\ a \o o \in Seq(S)
      /\ Len(a \o o) = n + 1
      /\ \A i \in 1..(n + 1) : (a \o o)[i] = IF i <= n THEN a[i] ELSE o[i - n]
  <2>1. /\ a \o o \in Seq(S)
        /\ Len(a \o o) = Len(a) + Len(o)
        /\ \A i \in 1..(Len(a) + Len(o)) :
             (a \o o)[i] = IF i <= Len(a) THEN a[i] ELSE o[i - Len(a)]
    BY <1>1, <1>3, ConcatProperties
  <2> QED BY <2>1, <1>0, <1>1, <1>3
<1> DEFINE c == a \o o
<1> HIDE DEF c
<1>5. /\ c \o b \in Seq(S)
      /\ Len(c \o b) = Len(s) + 1
      /\ \A i \in 1..(Len(s) + 1) :
           (c \o b)[i] = IF i <= n + 1 THEN c[i] ELSE b[i - (n + 1)]
  <2>0. c \in Seq(S) /\ Len(c) = n + 1
    BY <1>4 DEF c
  <2>1. /\ c \o b \in Seq(S)
        /\ Len(c \o b) = Len(c) + Len(b)
        /\ \A i \in 1..(Len(c) + Len(b)) :
             (c \o b)[i] = IF i <= Len(c) THEN c[i] ELSE b[i - Len(c)]
    BY <1>2, <2>0, ConcatProperties
  <2> QED BY <2>0, <2>1, <1>0, <1>2
<1>6. r = c \o b
  BY DEF a, b, o, c, Inserted
<1> HIDE DEF r
<1>7. \A i \in 1..(n + 1) : c[i] = IF i <= n THEN a[i] ELSE o[i - n]
  BY <1>4 DEF c
<1>8. r[n + 1] = e
  <2>1. /\ n + 1 \in 1..(Len(s) + 1) /\ n + 1 \in 1..(n + 1)
        /\ ~(n + 1 <= n) /\ (n + 1) - n = 1
    BY <1>0
  <2>2. r[n + 1] = c[n + 1]
    BY <2>1, <1>5, <1>6
  <2>3. c[n + 1] = o[1]
    BY <2>1, <1>7
  <2> QED BY <2>2, <2>3, <1>3
<1>9. \A i \in 1..n : r[i] = s[i]
  <2> SUFFICES ASSUME NEW i \in 1..n PROVE r[i] = s[i]
    OBVIOUS
  <2>1. i \in 1..(n + 1) /\ i \in 1..(Len(s) + 1) /\ i <= n
    BY <1>0
  <2>2. i <= n + 1
    BY <2>1, <1>0
  <2>3. r[i] = c[i]
    BY <2>1, <2>2, <1>5, <1>6
  <2>4. c[i] = a[i]
    BY <2>1, <1>7
  <2> QED BY <2>3, <2>4, <1>1
<1>10. \A i \in (n + 2)..(Len(s) + 1) : r[i] = s[i - 1]
  <2> SUFFICES ASSUME NEW i \in (n + 2)..(Len(s) + 1) PROVE r[i] = s[i - 1]
    OBVIOUS
  <2>1. i \in 1..(Len(s) + 1) /\ ~(i <= n + 1) /\ i - (n + 1) \in 1..(Len(s) - n)
    BY <1>0
  <2>2. r[i] = b[i - (n + 1)]
    BY <2>1, <1>5, <1>6
  <2>3. b[i - (n + 1)] = s[n + (i - (n + 1))]
    BY <2>1, <1>2
  <2>4. n + (i - (n + 1)) = i - 1
    BY <1>0
  <2> QED BY <2>2, <2>3, <2>4
<1> QED BY <1>5, <1>6, <1>8, <1>9, <1>10 DEF r

\* What is in a sequence, and that nothing is in it twice.
In(b, s) == \E i \in 1..Len(s) : s[i] = b
Distinct(s) == \A i, j \in 1..Len(s) : i # j => s[i] # s[j]

\* Taking the first of a sequence takes nothing else.
LEMMA InPopped ==
  ASSUME NEW S, NEW s \in Seq(S), s # <<>>, Distinct(s)
  PROVE  /\ Distinct(Tail(s))
         /\ In(Head(s), s)
         /\ Head(s) \in S
         /\ \A b : In(b, Tail(s)) <=> In(b, s) /\ b # Head(s)
<1>1. /\ Len(s) \in Nat \ {0}
      /\ Head(s) = s[1]
      /\ s[1] \in S
      /\ Len(Tail(s)) = Len(s) - 1
      /\ \A i \in 1..(Len(s) - 1) : Tail(s)[i] = s[i + 1]
  BY HeadAndTail
<1>2. In(Head(s), s)
  BY <1>1 DEF In
<1>3. Distinct(Tail(s))
  <2> SUFFICES ASSUME NEW i \in 1..Len(Tail(s)), NEW j \in 1..Len(Tail(s)), i # j
               PROVE  Tail(s)[i] # Tail(s)[j]
    BY DEF Distinct
  <2>1. i \in 1..(Len(s) - 1) /\ j \in 1..(Len(s) - 1)
    BY <1>1
  <2>2. i + 1 \in 1..Len(s) /\ j + 1 \in 1..Len(s) /\ i + 1 # j + 1
    BY <1>1, <2>1
  <2>3. s[i + 1] # s[j + 1]
    BY <2>2 DEF Distinct
  <2> QED BY <1>1, <2>1, <2>3
<1>4. ASSUME NEW b, In(b, Tail(s))
      PROVE  In(b, s) /\ b # Head(s)
  <2>1. PICK i \in 1..(Len(s) - 1) : Tail(s)[i] = b
    BY <1>1, <1>4 DEF In
  <2>2. i + 1 \in 1..Len(s) /\ 1 \in 1..Len(s) /\ i + 1 # 1
    BY <1>1
  <2>3. s[i + 1] = b
    BY <1>1, <2>1
  <2>4. s[i + 1] # s[1]
    BY <2>2 DEF Distinct
  <2> QED BY <1>1, <2>2, <2>3, <2>4 DEF In
<1>5. ASSUME NEW b, In(b, s), b # Head(s)
      PROVE  In(b, Tail(s))
  <2>1. PICK i \in 1..Len(s) : s[i] = b
    BY <1>5 DEF In
  <2>2. i - 1 \in 1..(Len(s) - 1) /\ (i - 1) + 1 = i
    BY <1>1, <1>5, <2>1
  <2>3. Tail(s)[i - 1] = b
    BY <1>1, <2>1, <2>2
  <2> QED BY <1>1, <2>2, <2>3 DEF In
<1> QED BY <1>1, <1>2, <1>3, <1>4, <1>5

\* Appending adds one element, and nothing twice if it is new.
LEMMA InAppended ==
  ASSUME NEW S, NEW s \in Seq(S), NEW d \in S, ~In(d, s), Distinct(s)
  PROVE  /\ Distinct(Append(s, d))
         /\ \A b : In(b, Append(s, d)) <=> In(b, s) \/ b = d
<1> DEFINE r == Append(s, d)
<1>1. /\ Len(s) \in Nat
      /\ Len(r) = Len(s) + 1
      /\ \A i \in 1..Len(s) : r[i] = s[i]
      /\ r[Len(s) + 1] = d
  BY AppendProperties, LenProperties
<1> HIDE DEF r
<1>2. \A i \in 1..Len(r) : i \in 1..Len(s) \/ i = Len(s) + 1
  BY <1>1
<1>3. Distinct(r)
  <2> SUFFICES ASSUME NEW i \in 1..Len(r), NEW j \in 1..Len(r), i # j
               PROVE  r[i] # r[j]
    BY DEF Distinct
  <2>1. CASE i \in 1..Len(s) /\ j \in 1..Len(s)
    BY <1>1, <2>1 DEF Distinct
  <2>2. CASE i \in 1..Len(s) /\ j = Len(s) + 1
    BY <1>1, <2>2 DEF In
  <2>3. CASE i = Len(s) + 1 /\ j \in 1..Len(s)
    BY <1>1, <2>3 DEF In
  <2> QED BY <1>2, <2>1, <2>2, <2>3
<1>4. ASSUME NEW b PROVE In(b, r) <=> In(b, s) \/ b = d
  <2>1. ASSUME In(b, r) PROVE In(b, s) \/ b = d
    BY <1>1, <1>2, <2>1 DEF In
  <2>2. ASSUME In(b, s) PROVE In(b, r)
    <3>1. PICK i \in 1..Len(s) : s[i] = b
      BY <2>2 DEF In
    <3>2. i \in 1..Len(r) /\ r[i] = b
      BY <1>1, <3>1
    <3> QED BY <3>2 DEF In
  <2>3. In(d, r)
    <3>1. Len(s) + 1 \in 1..Len(r)
      BY <1>1
    <3> QED BY <1>1, <3>1 DEF In
  <2> QED BY <2>1, <2>2, <2>3
<1> QED BY <1>3, <1>4 DEF r

\* r is s with e after the first n.
LEMMA InInserted ==
  ASSUME NEW s, Len(s) \in Nat, NEW e, NEW n \in 0..Len(s), NEW r,
         Len(r) = Len(s) + 1, r[n + 1] = e,
         \A i \in 1..n : r[i] = s[i],
         \A i \in (n + 2)..(Len(s) + 1) : r[i] = s[i - 1],
         ~In(e, s), Distinct(s)
  PROVE  /\ Distinct(r)
         /\ \A b : In(b, r) <=> In(b, s) \/ b = e
<1> DEFINE from(i) == IF i <= n THEN i ELSE i - 1
<1>1. \A i \in 1..Len(r) : i # n + 1 => from(i) \in 1..Len(s) /\ r[i] = s[from(i)]
  <2> SUFFICES ASSUME NEW i \in 1..Len(r), i # n + 1
               PROVE  from(i) \in 1..Len(s) /\ r[i] = s[from(i)]
    OBVIOUS
  <2>1. CASE i <= n
    <3>1. i \in 1..n /\ from(i) = i /\ i \in 1..Len(s)
      BY <2>1
    <3> QED BY <3>1
  <2>2. CASE ~(i <= n)
    <3>1. i \in (n + 2)..(Len(s) + 1) /\ from(i) = i - 1 /\ i - 1 \in 1..Len(s)
      BY <2>2
    <3> QED BY <3>1
  <2> QED BY <2>1, <2>2
<1>2. \A i, j \in 1..Len(r) : i # n + 1 /\ j # n + 1 /\ i # j => from(i) # from(j)
  OBVIOUS
<1>3. n + 1 \in 1..Len(r)
  OBVIOUS
<1> HIDE DEF from
<1>4. Distinct(r)
  <2> SUFFICES ASSUME NEW i \in 1..Len(r), NEW j \in 1..Len(r), i # j
               PROVE  r[i] # r[j]
    BY DEF Distinct
  <2>1. CASE i # n + 1 /\ j # n + 1
    <3>1. from(i) \in 1..Len(s) /\ from(j) \in 1..Len(s) /\ from(i) # from(j)
      BY <1>1, <1>2, <2>1
    <3>2. s[from(i)] # s[from(j)]
      BY <3>1 DEF Distinct
    <3> QED BY <1>1, <2>1, <3>2
  <2>2. CASE i = n + 1 /\ j # n + 1
    BY <1>1, <2>2 DEF In
  <2>3. CASE i # n + 1 /\ j = n + 1
    BY <1>1, <2>3 DEF In
  <2> QED BY <2>1, <2>2, <2>3
<1>5. ASSUME NEW b PROVE In(b, r) <=> In(b, s) \/ b = e
  <2>1. ASSUME In(b, r) PROVE In(b, s) \/ b = e
    BY <1>1, <2>1 DEF In
  <2>2. ASSUME In(b, s) PROVE In(b, r)
    <3>1. PICK i \in 1..Len(s) : s[i] = b
      BY <2>2 DEF In
    <3>2. CASE i <= n
      <4>1. i \in 1..n /\ i \in 1..Len(r)
        BY <3>2
      <4>2. r[i] = b
        BY <3>1, <4>1
      <4> QED BY <4>1, <4>2 DEF In
    <3>3. CASE ~(i <= n)
      <4>1. i + 1 \in (n + 2)..(Len(s) + 1) /\ i + 1 \in 1..Len(r) /\ (i + 1) - 1 = i
        BY <3>3
      <4>2. r[i + 1] = b
        BY <3>1, <4>1
      <4> QED BY <4>1, <4>2 DEF In
    <3> QED BY <3>2, <3>3
  <2>3. In(e, r)
    BY <1>3 DEF In
  <2> QED BY <2>1, <2>2, <2>3
<1> QED BY <1>4, <1>5

\* What the calls leave of a channel whose messages are in M and whose threads
\* in W.
Channels(M, W) == [list : Seq(M), closed : BOOLEAN, waiting : SUBSET W]

\* channel send: the message is the last, whomever the signal wakes.
LEMMA SentChannel ==
  ASSUME NEW M, NEW W, NEW chan \in Channels(M, W), NEW d \in M,
         NEW next \in Sent(chan, d)
  PROVE  /\ next \in Channels(M, W)
         /\ next.list = Append(chan.list, d)
         /\ next.closed = chan.closed
<1> DEFINE full == [chan EXCEPT !.list = Append(@, d)]
<1>1. /\ full \in Channels(M, W)
      /\ full.list = Append(chan.list, d)
      /\ full.closed = chan.closed
  BY AppendProperties DEF Channels
<1>2. next = full \/ \E t \in full.waiting : next = [full EXCEPT !.waiting = @ \ {t}]
  BY DEF Sent, Signalled
<1> HIDE DEF full
<1> QED BY <1>1, <1>2 DEF Channels

\* channel accept: the first message is taken.
LEMMA AcceptedChannel ==
  ASSUME NEW M, NEW W, NEW chan \in Channels(M, W), HasData(chan)
  PROVE  /\ Accepted(chan) \in Channels(M, W)
         /\ Accepted(chan).list = Tail(chan.list)
         /\ Accepted(chan).closed = chan.closed
BY HeadAndTail DEF Channels, HasData, Accepted

\* A thread that begins to wait takes no message.
LEMMA WaitingChannel ==
  ASSUME NEW M, NEW W, NEW chan \in Channels(M, W), NEW t \in W
  PROVE  /\ Waiting(chan, t) \in Channels(M, W)
         /\ Waiting(chan, t).list = chan.list
         /\ Waiting(chan, t).closed = chan.closed
BY DEF Channels, Waiting

\* channel close: the messages stay.
LEMMA ClosedChannel ==
  ASSUME NEW M, NEW W, NEW chan \in Channels(M, W)
  PROVE  /\ Closed(chan) \in Channels(M, W)
         /\ Closed(chan).list = chan.list
         /\ Closed(chan).closed
BY DEF Channels, Closed

\* A thread that wakes for nothing takes no message.
LEMMA WokenChannel ==
  ASSUME NEW M, NEW W, NEW chan \in Channels(M, W), NEW t
  PROVE  LET next == [chan EXCEPT !.waiting = @ \ {t}]
         IN /\ next \in Channels(M, W)
            /\ next.list = chan.list
            /\ next.closed = chan.closed
BY DEF Channels

\* What the destructor of TMt leaves of a channel.
LEMMA ClearedChannel ==
  ASSUME NEW M, NEW W, NEW chan \in Channels(M, W)
  PROVE  LET next == [Closed(chan) EXCEPT !.list = <<>>]
         IN /\ next \in Channels(M, W)
            /\ next.list = <<>>
            /\ Len(next.list) = 0
BY EmptySeq DEF Channels, Closed

-----------------------------------------------------------------------------
(***************************************************************************)
(* The blocks of the stream.                                               *)
(***************************************************************************)

\* The lesser of two numbers.
LEMMA MinOfTwo ==
  ASSUME NEW a \in Int, NEW b \in Int
  PROVE  Min({a, b}) = IF a <= b THEN a ELSE b
<1>1. \E x \in {a, b} : \A y \in {a, b} : x <= y
  OBVIOUS
<1>2. Min({a, b}) \in {a, b} /\ \A y \in {a, b} : Min({a, b}) <= y
  BY <1>1 DEF Min
<1> QED BY <1>2

\* The greater of two numbers.
LEMMA MaxOfTwo ==
  ASSUME NEW a \in Int, NEW b \in Int
  PROVE  Max({a, b}) = IF a >= b THEN a ELSE b
<1>1. \E x \in {a, b} : \A y \in {a, b} : x >= y
  OBVIOUS
<1>2. Max({a, b}) \in {a, b} /\ \A y \in {a, b} : Max({a, b}) >= y
  BY <1>1 DEF Max
<1> QED BY <1>2

\* All blocks but the last are full, and the last one has bytes.
LEMMA BlockBounds ==
  ASSUME streamSize \in Nat
  PROVE  /\ BlockCount \in Nat
         /\ streamSize = 0 => BlockCount = 0
         /\ \A k \in Nat : k + 1 < BlockCount => k * BlockSize + BlockSize < streamSize
         /\ \A k \in Nat : k + 1 = BlockCount =>
              k * BlockSize < streamSize /\ k * BlockSize + BlockSize >= streamSize
<1> DEFINE n == streamSize + BlockSize - 1
<1>0. n \in Nat /\ BlockSize \in Nat \ {0}
  BY BlockAssumption
<1>1. /\ n \div BlockSize \in Nat
      /\ n = BlockSize * (n \div BlockSize) + (n % BlockSize)
      /\ n % BlockSize \in 0..(BlockSize - 1)
  <2> HIDE DEF n
  <2> QED BY <1>0, SMT
<1> DEFINE q == n \div BlockSize
           r == n % BlockSize
<1>2. BlockCount = q
  BY DEF BlockCount
<1>3. q \in Nat /\ r \in 0..(BlockSize - 1) /\ streamSize + BlockSize - 1 = BlockSize * q + r
  BY <1>1
<1> HIDE DEF n, q, r
<1>4. streamSize = 0 => q = 0
  <2> SUFFICES ASSUME streamSize = 0, q >= 1 PROVE FALSE
    BY <1>3
  <2>1. BlockSize * q >= BlockSize * 1
    BY <1>0, <1>3, SMT
  <2> QED BY <2>1, <1>3, <1>0
<1>5. ASSUME NEW k \in Nat, k + 1 < q
      PROVE  k * BlockSize + BlockSize < streamSize
  <2>1. BlockSize * q >= BlockSize * (k + 2)
    BY <1>0, <1>3, <1>5, SMT
  <2>2. BlockSize * (k + 2) = k * BlockSize + BlockSize + BlockSize
    BY <1>0, SMT
  <2>3. k * BlockSize \in Nat /\ BlockSize * q \in Nat
    BY <1>0, <1>3, SMT
  <2> QED BY <2>1, <2>2, <2>3, <1>3, <1>0
<1>6. ASSUME NEW k \in Nat, k + 1 = q
      PROVE  k * BlockSize < streamSize /\ k * BlockSize + BlockSize >= streamSize
  <2>1. BlockSize * q = k * BlockSize + BlockSize
    BY <1>0, <1>6, SMT
  <2>2. k * BlockSize \in Nat
    BY <1>0, SMT
  <2> QED BY <2>1, <2>2, <1>3, <1>0
<1> QED BY <1>2, <1>3, <1>4, <1>5, <1>6

\* The bytes of a part of the stream.
LEMMA BytesOf ==
  ASSUME NEW from \in Nat, NEW to \in Nat, from <= to
  PROVE  /\ Bytes(from, to) \in Seq(Int)
         /\ Len(Bytes(from, to)) = to - from
         /\ \A i \in 1..(to - from) : Bytes(from, to)[i] = from + i
BY DEF Bytes

\* Where the dictionary of a block that begins at pos begins.
LEMMA DictStart ==
  ASSUME NEW pos \in Nat
  PROVE  Max({0, pos - DictSize}) = IF pos >= DictSize THEN pos - DictSize ELSE 0
BY MaxOfTwo, BlockAssumption

\* The dictionary and the bytes of a block, in terms of its position.
LEMMA CodeOf ==
  ASSUME streamSize \in Nat, NEW k \in Nat, k < BlockCount
  PROVE  LET pos == k * BlockSize
         IN /\ pos \in Nat
            /\ pos < streamSize
            /\ Code(k + 1).dict = Bytes(IF pos >= DictSize THEN pos - DictSize ELSE 0, pos)
            /\ Code(k + 1).data = Bytes(pos, IF k + 1 < BlockCount THEN pos + BlockSize
                                                                   ELSE streamSize)
            /\ Code(k + 1) = [dict |-> Code(k + 1).dict, data |-> Code(k + 1).data]
            /\ Code(k + 1) \in [dict : Seq(Int), data : Seq(Int)]
<1> DEFINE pos == k * BlockSize
<1>0. pos \in Nat /\ BlockSize \in Nat \ {0} /\ DictSize \in Nat
  BY BlockAssumption, SMT
<1>1. (k + 1) - 1 = k
  OBVIOUS
<1>2. Code(k + 1) = [dict |-> Bytes(Max({0, pos - DictSize}), pos),
                     data |-> Bytes(pos, Min({pos + BlockSize, streamSize}))]
  BY <1>1 DEF Code
<1> HIDE DEF pos
<1>3. k + 1 < BlockCount => pos + BlockSize < streamSize
  BY BlockBounds DEF pos
<1>4. k + 1 = BlockCount => pos < streamSize /\ pos + BlockSize >= streamSize
  BY BlockBounds DEF pos
<1>5. BlockCount \in Nat
  BY BlockBounds
<1>6. pos < streamSize
  BY <1>0, <1>3, <1>4, <1>5
<1>7. Min({pos + BlockSize, streamSize}) = IF k + 1 < BlockCount THEN pos + BlockSize ELSE streamSize
  BY <1>0, <1>3, <1>4, <1>5, MinOfTwo
<1>8. Max({0, pos - DictSize}) = IF pos >= DictSize THEN pos - DictSize ELSE 0
  BY <1>0, DictStart
<1>9. Bytes(Max({0, pos - DictSize}), pos) \in Seq(Int)
  <2>1. Max({0, pos - DictSize}) \in Nat /\ Max({0, pos - DictSize}) <= pos
    BY <1>0, <1>8
  <2> QED BY <2>1, <1>0, BytesOf
<1>10. Bytes(pos, Min({pos + BlockSize, streamSize})) \in Seq(Int)
  <2>1. /\ Min({pos + BlockSize, streamSize}) \in Nat
        /\ pos <= Min({pos + BlockSize, streamSize})
    BY <1>0, <1>6, <1>7
  <2> QED BY <2>1, <1>0, BytesOf
<1> HIDE DEF pos
<1>11. Code(k + 1).dict = Bytes(Max({0, pos - DictSize}), pos)
       /\ Code(k + 1).data = Bytes(pos, Min({pos + BlockSize, streamSize}))
  BY <1>2
<1> QED BY <1>0, <1>2, <1>6, <1>7, <1>8, <1>9, <1>10, <1>11 DEF pos

\* The last bytes of the dictionary and the block are the next dictionary.
LEMMA NextDictOf ==
  ASSUME streamSize \in Nat, NEW k \in Nat, k + 1 < BlockCount
  PROVE  NextDict(Code(k + 1).dict, Code(k + 1).data) = Code(k + 2).dict
<1> DEFINE pos == k * BlockSize
           from == IF pos >= DictSize THEN pos - DictSize ELSE 0
           to == pos + BlockSize
           d == Bytes(from, pos)
           b == Bytes(pos, to)
           all == d \o b
           len == IF DictSize <= to - from THEN DictSize ELSE to - from
           start == IF to >= DictSize THEN to - DictSize ELSE 0
<1>0. BlockSize \in Nat \ {0} /\ DictSize \in Nat /\ pos \in Nat /\ BlockCount \in Nat
  BY BlockAssumption, BlockBounds, SMT
<1>1. Code(k + 1).dict = d /\ Code(k + 1).data = b
  <2>1. k < BlockCount
    BY <1>0
  <2>2. /\ Code(k + 1).dict = Bytes(from, pos)
        /\ Code(k + 1).data = Bytes(pos, IF k + 1 < BlockCount THEN to ELSE streamSize)
    BY <2>1, CodeOf
  <2> QED BY <2>2
<1>2. Code(k + 2).dict = Bytes(start, to)
  <2>1. (k + 1) * BlockSize = to /\ (k + 1) + 1 = k + 2
    BY <1>0, SMT
  <2>2. k + 1 \in Nat
    OBVIOUS
  <2>3. Code((k + 1) + 1).dict = Bytes(IF (k + 1) * BlockSize >= DictSize
                                       THEN (k + 1) * BlockSize - DictSize ELSE 0,
                                       (k + 1) * BlockSize)
    BY <2>2, CodeOf
  <2> HIDE DEF to
  <2> QED BY <2>1, <2>3
<1> HIDE DEF pos
<1>3. from \in Nat /\ from <= pos /\ to \in Nat /\ pos <= to
  BY <1>0
<1> HIDE DEF from, to
<1>4. /\ d \in Seq(Int)
      /\ Len(d) = pos - from
      /\ \A i \in 1..(pos - from) : d[i] = from + i
  BY <1>0, <1>3, BytesOf
<1>5. /\ b \in Seq(Int)
      /\ Len(b) = to - pos
      /\ \A i \in 1..(to - pos) : b[i] = pos + i
  BY <1>0, <1>3, BytesOf
<1> HIDE DEF d, b
<1>6. /\ all \in Seq(Int)
      /\ Len(all) = to - from
      /\ \A i \in 1..(to - from) : all[i] = from + i
  <2>1. /\ all \in Seq(Int)
        /\ Len(all) = Len(d) + Len(b)
        /\ \A i \in 1..(Len(d) + Len(b)) : all[i] = IF i <= Len(d) THEN d[i] ELSE b[i - Len(d)]
    BY <1>4, <1>5, ConcatProperties
  <2> HIDE DEF all
  <2>2. Len(d) + Len(b) = to - from
    BY <1>0, <1>3, <1>4, <1>5
  <2>3. \A i \in 1..(to - from) : all[i] = IF i <= pos - from THEN d[i] ELSE b[i - (pos - from)]
    BY <2>1, <2>2, <1>4
  <2>4. ASSUME NEW i \in 1..(to - from)
        PROVE  all[i] = from + i
    <3>1. CASE i <= pos - from
      <4>1. i \in 1..(pos - from)
        BY <3>1, <1>0, <1>3
      <4> QED BY <2>3, <3>1, <4>1, <1>4
    <3>2. CASE ~(i <= pos - from)
      <4>1. i - (pos - from) \in 1..(to - pos) /\ pos + (i - (pos - from)) = from + i
        BY <3>2, <1>0, <1>3
      <4>2. all[i] = b[i - (pos - from)]
        BY <2>3, <3>2
      <4> QED BY <4>1, <4>2, <1>5
    <3> QED BY <3>1, <3>2
  <2> QED BY <2>1, <2>2, <2>4
<1> HIDE DEF all
<1>7. Min({DictSize, Len(all)}) = len
  BY <1>0, <1>3, <1>6, MinOfTwo
<1>8. to - len = start
  BY <1>0, <1>3 DEF from, to
<1>9. len \in Nat /\ len <= to - from /\ start \in Nat /\ start <= to
  BY <1>0, <1>3
<1> HIDE DEF len, start
<1> DEFINE last == SubSeq(all, (to - from) - len + 1, to - from)
<1>10. \A i \in ((to - from) - len + 1)..(to - from) : all[i] \in Int
  BY <1>3, <1>6, <1>9
<1>11. /\ last \in Seq(Int)
       /\ Len(last) = len
       /\ \A i \in 1..len : last[i] = all[(to - from) - len + i]
  <2> DEFINE lo == (to - from) - len + 1
             hi == to - from
  <2>1. lo \in Int /\ hi \in Int /\ hi - lo + 1 = len
    BY <1>3, <1>9
  <2>2. \A i \in lo..hi : all[i] \in Int
    BY <1>10
  <2> HIDE DEF lo, hi
  <2>3. /\ SubSeq(all, lo, hi) \in Seq(Int)
        /\ Len(SubSeq(all, lo, hi)) = IF lo <= hi THEN hi - lo + 1 ELSE 0
        /\ \A i \in 1..(hi - lo + 1) : SubSeq(all, lo, hi)[i] = all[lo + i - 1]
    BY <2>1, <2>2, SubSeqProperties
  <2>4. last = SubSeq(all, lo, hi)
    BY DEF lo, hi
  <2> HIDE DEF last
  <2>5. Len(last) = len
    BY <2>1, <2>3, <2>4, <1>9
  <2>6. \A i \in 1..len : last[i] = all[lo + i - 1]
    BY <2>1, <2>3, <2>4
  <2> QED BY <2>3, <2>4, <2>5, <2>6, <1>3, <1>9 DEF lo
<1> HIDE DEF last
<1>12. \A i \in 1..len : last[i] = start + i
  <2> SUFFICES ASSUME NEW i \in 1..len PROVE last[i] = start + i
    OBVIOUS
  <2>1. (to - from) - len + i \in 1..(to - from)
    BY <1>3, <1>9
  <2>2. last[i] = from + ((to - from) - len + i)
    BY <2>1, <1>6, <1>11
  <2> QED BY <2>2, <1>3, <1>8, <1>9
<1>13. /\ Bytes(start, to) \in Seq(Int)
       /\ Len(Bytes(start, to)) = len
       /\ \A i \in 1..len : Bytes(start, to)[i] = start + i
  <2>1. to - start = len
    BY <1>3, <1>8, <1>9
  <2>2. /\ Bytes(start, to) \in Seq(Int)
        /\ Len(Bytes(start, to)) = to - start
        /\ \A i \in 1..(to - start) : Bytes(start, to)[i] = start + i
    BY <1>3, <1>9, BytesOf
  <2> QED BY <2>1, <2>2
<1>14. last = Bytes(start, to)
  BY <1>11, <1>12, <1>13, SeqEqual
<1>15. NextDict(d, b) = last
  BY <1>6, <1>7 DEF NextDict, all, last
<1> QED BY <1>1, <1>2, <1>14, <1>15

-----------------------------------------------------------------------------
(***************************************************************************)
(* The inductive invariant.                                                *)
(***************************************************************************)
Places == {"absent", "accept", "read", "compress", "write", "send",
           "raise", "close", "clear", "end", "exited"}

MainPlaces == {"start", "work", "wait", "raise", "close", "clear", "done"}

Codes == [dict : Seq(Int), data : Seq(Int)]

BufContents == [index : Nat, dict : Seq(Int), data : Seq(Int)]

TypeInv ==
  /\ streamSize \in Nat
  /\ threadNum \in Nat
  /\ threadNum = 0 => BlockCount = 0
  /\ work_chan \in Channels(Buffers, Threads)
  /\ end_chan \in Channels(Threads, {NoThread})
  /\ mpc \in MainPlaces
  /\ turn \in Nat \ {0}
  /\ is_thread_on \in Nat
  /\ is_on_error \in BOOLEAN
  /\ wpc \in [Threads -> Places]
  /\ workBuf \in [Threads -> Buffers \union {NoBuf}]
  /\ resume \in [Threads \union {NoThread} -> {"end", "accept", "wait"}]
  /\ bufs \in [Buffers -> BufContents]
  /\ curReadBlockIndex \in Nat
  /\ curWriteBlockIndex \in Nat
  /\ dict \in Seq(Int)
  /\ dataBufList \in Seq(Buffers)
  /\ readLocker \in Threads \union {NoThread}
  /\ writeLocker \in Threads \union {NoThread}
  /\ out \in Seq(Codes)
  /\ result \in Int

\* A call is on its way to set is_on_error, or has done so.
Failing ==
  \/ is_on_error
  \/ mpc = "raise"
  \/ \E t \in Threads : wpc[t] = "raise"

ErrorInv ==
  /\ mpc \in {"close", "clear"} => is_on_error
  /\ \A t \in Threads : wpc[t] \in {"close", "clear"} => is_on_error
  /\ work_chan.closed => is_on_error \/ mpc = "done"
  /\ mpc \in {"raise", "close", "clear"} => resume[NoThread] = "wait"
  /\ \A t \in Threads :
       wpc[t] \in {"raise", "close", "clear"} => resume[t] \in {"accept", "end"}

\* The buffers by their owners.
InChannel(b) == In(b, work_chan.list)
InList(b) == In(b, dataBufList)
InHands(b) == \E t \in Threads : workBuf[t] = b

OwnInv ==
  /\ \A t, u \in Threads : t # u /\ workBuf[t] # NoBuf => workBuf[t] # workBuf[u]
  /\ \A b \in Buffers : ~(InHands(b) /\ InChannel(b))
  /\ \A b \in Buffers : ~(InHands(b) /\ InList(b))
  /\ \A b \in Buffers : ~(InChannel(b) /\ InList(b))
  /\ Distinct(work_chan.list)
  /\ Distinct(dataBufList)
  /\ ~is_on_error /\ mpc # "done" =>
       \A b \in Buffers : InHands(b) \/ InChannel(b) \/ InList(b)
  /\ \A t \in Threads : wpc[t] \in {"read", "compress", "send"} => workBuf[t] \in Buffers
  /\ \A t \in Threads : wpc[t] \in {"absent", "write"} => workBuf[t] = NoBuf
  /\ \A t \in Threads : wpc[t] = "accept" /\ ~is_on_error => workBuf[t] = NoBuf

LockInv ==
  /\ \A t \in Threads : wpc[t] \in {"write", "send"} => writeLocker = t
  /\ ~Failing /\ writeLocker # NoThread => wpc[writeLocker] \in {"write", "send"}

\* Threads that have begun and not ended.
Active == {t \in Threads : wpc[t] \notin {"absent", "exited"}}

CountInv ==
  /\ is_thread_on = Cardinality(Active) + Len(end_chan.list)
  /\ \A t \in Threads : wpc[t] = "absent" <=> t >= turn
  /\ mpc = "start" => turn <= threadNum
  /\ mpc = "done" => \A t \in Threads : wpc[t] \in {"absent", "exited"}
  /\ result = Running <=> mpc # "done"

\* What a buffer holds after block k is read into it.
Block(k) == [index |-> k, dict |-> Code(k + 1).dict, data |-> Code(k + 1).data]

\* The buffer holds a block that is read and not written.
Live(b) ==
  \/ InList(b)
  \/ \E t \in Threads : wpc[t] = "compress" /\ workBuf[t] = b

Sorted ==
  \A i, j \in 1..Len(dataBufList) :
    i < j => bufs[dataBufList[i]].index < bufs[dataBufList[j]].index

BlockInv ==
  /\ curWriteBlockIndex = Len(out)
  /\ curWriteBlockIndex <= curReadBlockIndex
  /\ curReadBlockIndex <= BlockCount
  /\ \A k \in Nat : k = curReadBlockIndex /\ k < BlockCount => dict = Code(k + 1).dict
  /\ \A b \in Buffers : Live(b) =>
       \E k \in curWriteBlockIndex..(curReadBlockIndex - 1) : bufs[b] = Block(k)
  /\ \A b, c \in Buffers : Live(b) /\ Live(c) /\ b # c => bufs[b].index # bufs[c].index
  /\ Sorted

CompleteInv ==
  ~Failing =>
    /\ \A k \in curWriteBlockIndex..(curReadBlockIndex - 1) :
         \E b \in Buffers : Live(b) /\ bufs[b].index = k
    /\ writeLocker = NoThread => ~IsNext
    /\ \A t \in Threads : wpc[t] \in {"end", "exited"} => curReadBlockIndex >= BlockCount
    /\ mpc = "wait" => curReadBlockIndex >= BlockCount

IInv ==
  TypeInv /\ ErrorInv /\ OwnInv /\ LockInv /\ CountInv /\ BlockInv /\ CompleteInv

-----------------------------------------------------------------------------
(***************************************************************************)
(* What the steps have in common.                                          *)
(***************************************************************************)

\* The stream and the number of threads stay the same during the call.
LEMMA CallIsFixed ==
  ASSUME Next
  PROVE  /\ streamSize' = streamSize /\ threadNum' = threadNum
         /\ Threads' = Threads /\ Buffers' = Buffers
         /\ BlockCount' = BlockCount
<1>1. streamSize' = streamSize /\ threadNum' = threadNum
  <2>1. ASSUME MainStep PROVE UNCHANGED callVars
    BY <2>1 DEF MainStep, OpenFails, StartThread, StartFails, OnError, Raise, CloseWork,
                ClearWork, onErrorLeaves, WorkIsOver, AcceptEnd, Return
  <2>2. ASSUME NEW t \in Threads, ThreadStep(t) PROVE UNCHANGED callVars
    BY <2>2 DEF ThreadStep, Accept, NothingToRead, ReadBlock, ReadFails, CompressFails, Insert,
                WriteBlock, WriteFails, WriteIsOver, SendBack, ThreadEnd, OnError, Raise,
                CloseWork, ClearWork, onErrorLeaves
  <2> QED BY <2>1, <2>2 DEF Next, WakeForNothing, Terminated, vars, callVars
<1> QED BY <1>1 DEF Threads, Buffers, BlockCount

\* on_error of a thread.
LEMMA OnErrorOfThread ==
  ASSUME TypeInv, ErrorInv, NEW t \in Threads, OnError(t)
  PROVE  /\ UNCHANGED onErrorLeaves
         /\ mpc' = mpc
         /\ is_on_error'
         /\ wpc[t] \in {"raise", "close", "clear"}
         /\ \E place \in {"close", "clear", "accept", "end"} : wpc' = [wpc EXCEPT ![t] = place]
         /\ readLocker' \in {readLocker, NoThread}
         /\ writeLocker' = writeLocker \/ (writeLocker = t /\ writeLocker' = NoThread)
         /\ work_chan' \in Channels(Buffers, Threads)
         /\ \/ work_chan'.list = work_chan.list
            \/ work_chan.list # <<>> /\ work_chan'.list = Tail(work_chan.list)
<1>0. t # NoThread
  BY ParallelAssumption DEF Threads
<1>1. ASSUME Resume(t), wpc[t] \in {"raise", "close", "clear"}
      PROVE  /\ mpc' = mpc
             /\ \E place \in {"close", "clear", "accept", "end"} : wpc' = [wpc EXCEPT ![t] = place]
             /\ readLocker' \in {readLocker, NoThread}
             /\ writeLocker' = writeLocker \/ (writeLocker = t /\ writeLocker' = NoThread)
  BY <1>0, <1>1 DEF Resume, GoTo, ErrorInv
<1>2. CASE Raise(t)
  <2>1. wpc[t] = "raise" /\ is_on_error' /\ UNCHANGED <<onErrorLeaves, work_chan>>
    BY <1>0, <1>2 DEF Raise, At
  <2>2. CASE is_on_error
    <3>1. Resume(t)
      BY <1>2, <2>2 DEF Raise
    <3> QED BY <1>1, <2>1, <3>1 DEF TypeInv
  <2>3. CASE ~is_on_error
    <3>1. GoTo(t, "close") /\ UNCHANGED <<readLocker, writeLocker>>
      BY <1>2, <2>3 DEF Raise
    <3> QED BY <1>0, <2>1, <3>1 DEF GoTo, TypeInv
  <2> QED BY <2>2, <2>3
<1>3. CASE CloseWork(t)
  <2>1. wpc[t] = "close" /\ is_on_error
    BY <1>0, <1>3 DEF CloseWork, At, ErrorInv
  <2>2. work_chan' \in Channels(Buffers, Threads) /\ work_chan'.list = work_chan.list
    BY <1>3, ClosedChannel DEF CloseWork, TypeInv
  <2> QED BY <1>0, <1>3, <2>1, <2>2 DEF CloseWork, GoTo
<1>4. CASE ClearWork(t)
  <2>1. wpc[t] = "clear" /\ is_on_error /\ is_on_error' = is_on_error /\ UNCHANGED onErrorLeaves
    BY <1>0, <1>4 DEF ClearWork, At, ErrorInv
  <2>2. CASE HasData(work_chan)
    <3>1. work_chan' = Accepted(work_chan) /\ UNCHANGED <<mpc, wpc, readLocker, writeLocker>>
      BY <1>4, <2>2 DEF ClearWork
    <3>2. work_chan' \in Channels(Buffers, Threads) /\ work_chan'.list = Tail(work_chan.list)
      BY <2>2, <3>1, AcceptedChannel DEF TypeInv
    <3>3. wpc' = [wpc EXCEPT ![t] = "clear"]
      BY <2>1, <3>1 DEF TypeInv
    <3> QED BY <2>1, <2>2, <3>1, <3>2, <3>3 DEF HasData
  <2>3. CASE ~HasData(work_chan)
    <3>1. Resume(t) /\ UNCHANGED work_chan
      BY <1>4, <2>3 DEF ClearWork
    <3> QED BY <1>1, <2>1, <3>1 DEF TypeInv
  <2> QED BY <2>2, <2>3
<1> QED BY <1>2, <1>3, <1>4 DEF OnError

\* on_error of the calling thread.
LEMMA OnErrorOfCaller ==
  ASSUME TypeInv, ErrorInv, OnError(NoThread)
  PROVE  /\ UNCHANGED onErrorLeaves
         /\ wpc' = wpc
         /\ is_on_error'
         /\ mpc \in {"raise", "close", "clear"}
         /\ mpc' \in {"close", "clear", "wait"}
         /\ readLocker' = readLocker
         /\ writeLocker' = writeLocker
         /\ work_chan' \in Channels(Buffers, Threads)
         /\ \/ work_chan'.list = work_chan.list
            \/ work_chan.list # <<>> /\ work_chan'.list = Tail(work_chan.list)
<1>1. ASSUME Resume(NoThread), mpc \in {"raise", "close", "clear"}
      PROVE  wpc' = wpc /\ mpc' = "wait" /\ readLocker' = readLocker /\ writeLocker' = writeLocker
  BY <1>1 DEF Resume, GoTo, ErrorInv
<1>2. CASE Raise(NoThread)
  <2>1. mpc = "raise" /\ is_on_error' /\ UNCHANGED <<onErrorLeaves, work_chan>>
    BY <1>2 DEF Raise, At
  <2>2. CASE is_on_error
    <3>1. Resume(NoThread)
      BY <1>2, <2>2 DEF Raise
    <3> QED BY <1>1, <2>1, <3>1 DEF TypeInv
  <2>3. CASE ~is_on_error
    <3>1. GoTo(NoThread, "close") /\ UNCHANGED <<readLocker, writeLocker>>
      BY <1>2, <2>3 DEF Raise
    <3> QED BY <2>1, <3>1 DEF GoTo, TypeInv
  <2> QED BY <2>2, <2>3
<1>3. CASE CloseWork(NoThread)
  <2>1. mpc = "close" /\ is_on_error
    BY <1>3 DEF CloseWork, At, ErrorInv
  <2>2. work_chan' \in Channels(Buffers, Threads) /\ work_chan'.list = work_chan.list
    BY <1>3, ClosedChannel DEF CloseWork, TypeInv
  <2> QED BY <1>3, <2>1, <2>2 DEF CloseWork, GoTo
<1>4. CASE ClearWork(NoThread)
  <2>1. mpc = "clear" /\ is_on_error /\ is_on_error' = is_on_error /\ UNCHANGED onErrorLeaves
    BY <1>4 DEF ClearWork, At, ErrorInv
  <2>2. CASE HasData(work_chan)
    <3>1. work_chan' = Accepted(work_chan) /\ UNCHANGED <<mpc, wpc, readLocker, writeLocker>>
      BY <1>4, <2>2 DEF ClearWork
    <3>2. work_chan' \in Channels(Buffers, Threads) /\ work_chan'.list = Tail(work_chan.list)
      BY <2>2, <3>1, AcceptedChannel DEF TypeInv
    <3> QED BY <2>1, <2>2, <3>1, <3>2 DEF HasData
  <2>3. CASE ~HasData(work_chan)
    <3>1. Resume(NoThread) /\ UNCHANGED work_chan
      BY <1>4, <2>3 DEF ClearWork
    <3> QED BY <1>1, <2>1, <3>1 DEF TypeInv
  <2> QED BY <2>2, <2>3
<1> QED BY <1>2, <1>3, <1>4 DEF OnError

\* A thread takes a buffer, ends, or waits.
LEMMA AcceptOfThread ==
  ASSUME TypeInv, NEW t \in Threads, Accept(t)
  PROVE  /\ wpc[t] = "accept"
         /\ work_chan' \in Channels(Buffers, Threads)
         /\ work_chan'.closed = work_chan.closed
         /\ UNCHANGED <<callVars, mainVars, end_chan, is_on_error, resume, bufs,
                        readSide, writeSide>>
         /\ \/ /\ work_chan.list # <<>>
               /\ work_chan'.list = Tail(work_chan.list)
               /\ workBuf' = [workBuf EXCEPT ![t] = Head(work_chan.list)]
               /\ wpc' = [wpc EXCEPT ![t] = "read"]
            \/ /\ work_chan.closed
               /\ work_chan'.list = work_chan.list
               /\ workBuf' = workBuf
               /\ wpc' = [wpc EXCEPT ![t] = "end"]
            \/ /\ work_chan'.list = work_chan.list
               /\ workBuf' = workBuf
               /\ wpc' = wpc
<1>0. work_chan \in Channels(Buffers, Threads)
  BY DEF TypeInv
<1>1. CASE HasData(work_chan)
  <2>1. /\ work_chan' = Accepted(work_chan)
        /\ workBuf' = [workBuf EXCEPT ![t] = Head(work_chan.list)]
        /\ wpc' = [wpc EXCEPT ![t] = "read"]
    BY <1>1 DEF Accept, HasData, IsOver, MustWait
  <2> QED BY <1>0, <1>1, <2>1, AcceptedChannel DEF Accept, HasData
<1>2. CASE IsOver(work_chan)
  <2>1. wpc' = [wpc EXCEPT ![t] = "end"] /\ UNCHANGED <<work_chan, workBuf>>
    BY <1>2 DEF Accept, HasData, IsOver, MustWait
  <2> QED BY <1>0, <1>2, <2>1 DEF Accept, IsOver
<1>3. CASE MustWait(work_chan)
  <2>1. work_chan' = Waiting(work_chan, t) /\ UNCHANGED <<wpc, workBuf>>
    BY <1>3 DEF Accept, HasData, IsOver, MustWait
  <2> QED BY <1>0, <2>1, WaitingChannel DEF Accept
<1> QED BY <1>1, <1>2, <1>3 DEF Accept

\* The block that is read, and the dictionary of the next one.
LEMMA ReadOfBlock ==
  ASSUME TypeInv, BlockInv, NEW t \in Threads, ReadBlock(t)
  PROVE  /\ wpc[t] = "read"
         /\ curReadBlockIndex < BlockCount
         /\ curReadBlockIndex' = curReadBlockIndex + 1
         /\ Block(curReadBlockIndex) \in BufContents
         /\ Block(curReadBlockIndex).index = curReadBlockIndex
         /\ bufs' = [bufs EXCEPT ![workBuf[t]] = Block(curReadBlockIndex)]
         /\ dict' \in Seq(Int)
         /\ curReadBlockIndex + 1 < BlockCount => dict' = Code(curReadBlockIndex + 2).dict
         /\ wpc' = [wpc EXCEPT ![t] = "compress"]
<1> DEFINE k == curReadBlockIndex
<1>0. k \in Nat /\ BlockCount \in Nat /\ k < BlockCount /\ streamSize \in Nat
  BY BlockBounds DEF TypeInv, ReadBlock
<1>1. /\ dict = Code(k + 1).dict
      /\ Code(k + 1).dict \in Seq(Int) /\ Code(k + 1).data \in Seq(Int)
      /\ Code(k + 1).data = Bytes(k * BlockSize, IF k + 1 < BlockCount
                                    THEN k * BlockSize + BlockSize ELSE streamSize)
  BY <1>0, CodeOf DEF BlockInv
<1>2. bufs' = [bufs EXCEPT ![workBuf[t]] = [index |-> k, dict |-> dict,
                                            data |-> Code(k + 1).data]]
  BY <1>1 DEF ReadBlock
<1>3. dict' = IF k + 1 < BlockCount THEN NextDict(dict, Code(k + 1).data) ELSE dict
  BY <1>1 DEF ReadBlock
<1>4. k + 1 < BlockCount => dict' = Code(k + 2).dict
  BY <1>0, <1>1, <1>3, NextDictOf
<1>5. k + 1 < BlockCount => Code(k + 2).dict \in Seq(Int)
  <2> SUFFICES ASSUME k + 1 < BlockCount PROVE Code(k + 2).dict \in Seq(Int)
    OBVIOUS
  <2>1. k + 1 \in Nat /\ (k + 1) + 1 = k + 2
    BY <1>0
  <2>2. Code((k + 1) + 1) \in [dict : Seq(Int), data : Seq(Int)]
    BY <1>0, <2>1, CodeOf
  <2> QED BY <2>1, <2>2
<1>6. dict' \in Seq(Int)
  BY <1>1, <1>3, <1>4, <1>5
<1> QED BY <1>0, <1>1, <1>2, <1>4, <1>6 DEF ReadBlock, Block, BufContents

\* A thread puts its block into the list.
LEMMA InsertOfThread ==
  ASSUME TypeInv, NEW t \in Threads, Insert(t), workBuf[t] \in Buffers
  PROVE  \E n \in 0..Len(dataBufList) :
           /\ \A i \in 1..n : bufs[dataBufList[i]].index < bufs[workBuf[t]].index
           /\ n < Len(dataBufList) =>
                ~(bufs[dataBufList[n + 1]].index < bufs[workBuf[t]].index)
           /\ dataBufList' \in Seq(Buffers)
           /\ Len(dataBufList') = Len(dataBufList) + 1
           /\ dataBufList'[n + 1] = workBuf[t]
           /\ \A i \in 1..n : dataBufList'[i] = dataBufList[i]
           /\ \A i \in (n + 2)..(Len(dataBufList) + 1) : dataBufList'[i] = dataBufList[i - 1]
<1>1. PICK n \in 0..Len(dataBufList) :
        /\ \A i \in 1..n : bufs[dataBufList[i]].index < bufs[workBuf[t]].index
        /\ n < Len(dataBufList) => ~(bufs[dataBufList[n + 1]].index < bufs[workBuf[t]].index)
        /\ dataBufList' = SubSeq(dataBufList, 1, n) \o <<workBuf[t]>>
                            \o SubSeq(dataBufList, n + 1, Len(dataBufList))
  BY DEF Insert
<1>2. dataBufList \in Seq(Buffers)
  BY DEF TypeInv
<1>3. /\ dataBufList' \in Seq(Buffers)
      /\ Len(dataBufList') = Len(dataBufList) + 1
      /\ dataBufList'[n + 1] = workBuf[t]
      /\ \A i \in 1..n : dataBufList'[i] = dataBufList[i]
      /\ \A i \in (n + 2)..(Len(dataBufList) + 1) : dataBufList'[i] = dataBufList[i - 1]
  <2>1. dataBufList' = Inserted(dataBufList, n, workBuf[t])
    BY <1>1 DEF Inserted
  <2>2. /\ Inserted(dataBufList, n, workBuf[t]) \in Seq(Buffers)
        /\ Len(Inserted(dataBufList, n, workBuf[t])) = Len(dataBufList) + 1
    BY <1>2, InsertedAfter
  <2>3. Inserted(dataBufList, n, workBuf[t])[n + 1] = workBuf[t]
    BY <1>2, InsertedAfter
  <2>4. \A i \in 1..n : Inserted(dataBufList, n, workBuf[t])[i] = dataBufList[i]
    BY <1>2, InsertedAfter
  <2>5. \A i \in (n + 2)..(Len(dataBufList) + 1) :
          Inserted(dataBufList, n, workBuf[t])[i] = dataBufList[i - 1]
    BY <1>2, InsertedAfter
  <2> QED BY <2>1, <2>2, <2>3, <2>4, <2>5, Zenon
<1> QED BY <1>1, <1>3

-----------------------------------------------------------------------------
(***************************************************************************)
(* Types.                                                                  *)
(***************************************************************************)

\* The call begins with values of the right types.
LEMMA TypeInit == Init => TypeInv
<1> SUFFICES ASSUME Init PROVE TypeInv
  OBVIOUS
<1>1. streamSize \in Nat /\ out = <<>> /\ result = Running
  BY ParallelAssumption DEF Init, BlockInit
<1>2. BlockCount \in Nat
  BY <1>1, BlockBounds
<1>3. PICK arg \in ThreadNums : threadNum = Min({arg, BlockCount})
  BY DEF Init, ThreadsFor, BlockCount
<1>4. arg \in Nat \ {0}
  BY ParallelAssumption
<1>5. threadNum = IF arg <= BlockCount THEN arg ELSE BlockCount
  BY <1>2, <1>3, <1>4, MinOfTwo
<1>6. threadNum \in Nat /\ (threadNum = 0 => BlockCount = 0)
  BY <1>2, <1>4, <1>5
<1>7. work_chan \in Channels(Buffers, Threads)
  <2>1. WorkBufCount(threadNum) \in Nat
    <3>1. (threadNum + 2) \div 3 \in Nat
      BY <1>6, SMT
    <3> QED BY <1>6, <3>1 DEF WorkBufCount
  <2>2. [i \in 1..WorkBufCount(threadNum) |-> i] \in Seq(1..WorkBufCount(threadNum))
    BY <2>1
  <2> QED BY <2>2, EmptySeq DEF Init, NewChannel, Channels, Buffers
<1>8. end_chan \in Channels(Threads, {NoThread})
  BY EmptySeq DEF Init, NewChannel, Channels
<1>9. bufs \in [Buffers -> BufContents]
  BY EmptySeq DEF Init, EmptyBuf, BufContents
<1>10. dict \in Seq(Int) /\ dataBufList \in Seq(Buffers) /\ out \in Seq(Codes)
  BY <1>1, EmptySeq DEF Init
<1>11. /\ mpc \in MainPlaces
       /\ wpc \in [Threads -> Places]
       /\ workBuf \in [Threads -> Buffers \union {NoBuf}]
       /\ resume \in [Threads \union {NoThread} -> {"end", "accept", "wait"}]
  BY DEF Init, MainPlaces, Places
<1>12. /\ turn \in Nat \ {0} /\ is_thread_on \in Nat /\ is_on_error \in BOOLEAN
       /\ curReadBlockIndex \in Nat /\ curWriteBlockIndex \in Nat
       /\ readLocker \in Threads \union {NoThread}
       /\ writeLocker \in Threads \union {NoThread}
  <2>1. /\ turn = 1 /\ is_thread_on = 0 /\ is_on_error = FALSE
        /\ curReadBlockIndex = 0 /\ curWriteBlockIndex = 0
        /\ readLocker = NoThread /\ writeLocker = NoThread
    BY Zenon DEF Init
  <2>2. is_on_error \in BOOLEAN
    BY <2>1
  <2>3. readLocker \in Threads \union {NoThread} /\ writeLocker \in Threads \union {NoThread}
    BY <2>1
  <2>4. turn \in Nat \ {0} /\ is_thread_on \in Nat
        /\ curReadBlockIndex \in Nat /\ curWriteBlockIndex \in Nat
    BY <2>1
  <2> QED BY <2>2, <2>3, <2>4
<1>13. result \in Int
  BY <1>1 DEF Running
<1> QED BY <1>1, <1>6, <1>7, <1>8, <1>9, <1>10, <1>11, <1>12, <1>13 DEF TypeInv

\* Every step keeps the types.
LEMMA TypeStep ==
  ASSUME TypeInv, ErrorInv, OwnInv, BlockInv, Next
  PROVE  TypeInv'
<1>0. /\ streamSize' = streamSize /\ threadNum' = threadNum
      /\ Threads' = Threads /\ Buffers' = Buffers
      /\ BlockCount' = BlockCount
  BY CallIsFixed
<1> USE DEF callVars, mainVars, chans, readSide, writeSide
<1>1. CASE OpenFails
  <2>1. result' \in Int /\ mpc' \in MainPlaces
    BY <1>1 DEF OpenFails, MainPlaces
  <2> QED BY <1>0, <1>1, <2>1 DEF OpenFails, TypeInv
<1>2. CASE StartThread
  <2>1. mpc' \in MainPlaces
    BY <1>2 DEF StartThread, MainPlaces
  <2>2. wpc' \in [Threads -> Places]
    BY <1>2 DEF StartThread, TypeInv, Places
  <2> QED BY <1>0, <1>2, <2>1, <2>2 DEF StartThread, TypeInv
<1>3. CASE StartFails
  BY <1>0, <1>3 DEF StartFails, TypeInv, MainPlaces
<1>4. CASE OnError(NoThread)
  <2>1. is_on_error' \in BOOLEAN
    BY <1>4 DEF OnError, Raise, CloseWork, ClearWork, TypeInv
  <2>2. mpc' \in MainPlaces
    BY <1>4, OnErrorOfCaller DEF MainPlaces
  <2> QED BY <1>0, <1>4, <2>1, <2>2, OnErrorOfCaller DEF onErrorLeaves, TypeInv
<1>5. CASE WorkIsOver
  BY <1>0, <1>5 DEF WorkIsOver, TypeInv, MainPlaces
<1>6. CASE AcceptEnd
  <2>1. end_chan \in Channels(Threads, {NoThread})
    BY DEF TypeInv
  <2>2. HasData(end_chan) => Accepted(end_chan) \in Channels(Threads, {NoThread})
    BY <2>1, AcceptedChannel
  <2>3. Waiting(end_chan, NoThread) \in Channels(Threads, {NoThread})
    BY <2>1, WaitingChannel
  <2>4. end_chan' \in Channels(Threads, {NoThread})
    BY <1>6, <2>2, <2>3 DEF AcceptEnd
  <2>5. is_thread_on' \in Nat
    BY <1>6 DEF AcceptEnd, TypeInv
  <2> QED BY <1>0, <1>6, <2>4, <2>5 DEF AcceptEnd, TypeInv
<1>7. CASE Return
  <2>1. work_chan' \in Channels(Buffers, Threads) /\ end_chan' \in Channels(Threads, {NoThread})
    BY <1>7, ClearedChannel DEF Return, TypeInv
  <2>2. result' \in Int
    BY <1>7, LenProperties DEF Return, TypeInv
  <2> QED BY <1>0, <1>7, <2>1, <2>2 DEF Return, TypeInv, MainPlaces
<1>8. ASSUME NEW t \in Threads, ThreadStep(t)
      PROVE  TypeInv'
  <2>1. CASE Accept(t)
    <3>1. work_chan.list # <<>> => Head(work_chan.list) \in Buffers
      BY HeadAndTail DEF TypeInv, Channels
    <3>2. /\ work_chan' \in Channels(Buffers, Threads)
          /\ workBuf' \in [Threads -> Buffers \union {NoBuf}]
          /\ wpc' \in [Threads -> Places]
      BY <2>1, <3>1, AcceptOfThread DEF TypeInv, Places
    <3> QED BY <1>0, <2>1, <3>2, AcceptOfThread DEF TypeInv
  <2>2. CASE NothingToRead(t)
    BY <1>0, <2>2 DEF NothingToRead, TypeInv, Places
  <2>3. CASE ReadBlock(t)
    <3>1. workBuf[t] \in Buffers
      BY <2>3 DEF ReadBlock, OwnInv
    <3>2. bufs' \in [Buffers -> BufContents] /\ dict' \in Seq(Int) /\ wpc' \in [Threads -> Places]
      BY <2>3, <3>1, ReadOfBlock DEF TypeInv, Places
    <3>3. curReadBlockIndex' \in Nat
      BY <2>3 DEF ReadBlock, TypeInv
    <3> QED BY <1>0, <2>3, <3>2, <3>3 DEF ReadBlock, TypeInv
  <2>4. CASE ReadFails(t)
    BY <1>0, <2>4 DEF ReadFails, CheckFails, TypeInv, Places
  <2>5. CASE CompressFails(t)
    BY <1>0, <2>5 DEF CompressFails, CheckFails, TypeInv, Places
  <2>6. CASE Insert(t)
    <3>1. workBuf[t] \in Buffers
      BY <2>6 DEF Insert, OwnInv
    <3>2. dataBufList' \in Seq(Buffers)
      BY <2>6, <3>1, InsertOfThread
    <3> QED BY <1>0, <2>6, <3>2 DEF Insert, TypeInv, Places
  <2>7. CASE WriteBlock(t)
    <3>1. /\ Head(dataBufList) \in Buffers
          /\ Tail(dataBufList) \in Seq(Buffers)
      BY <2>7, HeadAndTail DEF WriteBlock, IsNext, TypeInv
    <3>2. bufs[Head(dataBufList)] \in BufContents
      BY <3>1 DEF TypeInv
    <3>3. out' \in Seq(Codes)
      BY <2>7, <3>2, AppendProperties DEF WriteBlock, TypeInv, BufContents, Codes
    <3>4. /\ workBuf' \in [Threads -> Buffers \union {NoBuf}]
          /\ wpc' \in [Threads -> Places]
          /\ dataBufList' \in Seq(Buffers)
          /\ curWriteBlockIndex' \in Nat
      BY <2>7, <3>1 DEF WriteBlock, TypeInv, Places
    <3> QED BY <1>0, <2>7, <3>3, <3>4 DEF WriteBlock, TypeInv
  <2>8. CASE WriteFails(t)
    <3>1. /\ Head(dataBufList) \in Buffers
          /\ Tail(dataBufList) \in Seq(Buffers)
      BY <2>8, HeadAndTail DEF WriteFails, IsNext, TypeInv
    <3> QED BY <1>0, <2>8, <3>1 DEF WriteFails, CheckFails, TypeInv, Places
  <2>9. CASE WriteIsOver(t)
    BY <1>0, <2>9 DEF WriteIsOver, TypeInv, Places
  <2>10. CASE SendBack(t)
    <3>1. workBuf[t] \in Buffers
      BY <2>10 DEF SendBack, OwnInv
    <3>2. CASE work_chan.closed
      BY <1>0, <2>10, <3>2 DEF SendBack, CheckFails, TypeInv, Places
    <3>3. CASE ~work_chan.closed
      <4>1. work_chan' \in Channels(Buffers, Threads)
        BY <2>10, <3>1, <3>3, SentChannel DEF SendBack, TypeInv
      <4>2. bufs' \in [Buffers -> BufContents]
        <5>1. EmptyBuf \in BufContents
          BY EmptySeq DEF EmptyBuf, BufContents
        <5> QED BY <2>10, <3>1, <3>3, <5>1 DEF SendBack, TypeInv
      <4> QED BY <1>0, <2>10, <3>3, <4>1, <4>2 DEF SendBack, TypeInv, Places
    <3> QED BY <3>2, <3>3
  <2>11. CASE OnError(t)
    <3>1. wpc' \in [Threads -> Places]
      BY <2>11, OnErrorOfThread DEF TypeInv, Places
    <3>2. /\ work_chan' \in Channels(Buffers, Threads)
          /\ readLocker' \in Threads \union {NoThread}
          /\ writeLocker' \in Threads \union {NoThread}
          /\ is_on_error' \in BOOLEAN
          /\ mpc' = mpc
          /\ UNCHANGED onErrorLeaves
      <4>1. is_on_error' \in BOOLEAN
        BY <2>11 DEF OnError, Raise, CloseWork, ClearWork, TypeInv
      <4> QED BY <2>11, <4>1, OnErrorOfThread DEF TypeInv
    <3> QED BY <1>0, <3>1, <3>2 DEF onErrorLeaves, TypeInv
  <2>12. CASE ThreadEnd(t)
    <3>1. end_chan' \in Channels(Threads, {NoThread})
      BY <2>12, SentChannel DEF ThreadEnd, TypeInv
    <3> QED BY <1>0, <2>12, <3>1 DEF ThreadEnd, TypeInv, Places
  <2> QED BY <1>8, <2>1, <2>2, <2>3, <2>4, <2>5, <2>6, <2>7, <2>8, <2>9, <2>10, <2>11, <2>12
          DEF ThreadStep
<1>9. CASE WakeForNothing
  <2>1. work_chan' \in Channels(Buffers, Threads) /\ end_chan' \in Channels(Threads, {NoThread})
    <3>1. work_chan \in Channels(Buffers, Threads) /\ end_chan \in Channels(Threads, {NoThread})
      BY DEF TypeInv
    <3>2. \A t : [work_chan EXCEPT !.waiting = @ \ {t}] \in Channels(Buffers, Threads)
      BY <3>1, WokenChannel
    <3>3. \A t : [end_chan EXCEPT !.waiting = @ \ {t}] \in Channels(Threads, {NoThread})
      BY <3>1, WokenChannel
    <3> QED BY <1>9, <3>1, <3>2, <3>3 DEF WakeForNothing
  <2> QED BY <1>0, <1>9, <2>1 DEF WakeForNothing, TypeInv
<1>10. CASE Terminated
  BY <1>0, <1>10 DEF Terminated, vars, TypeInv
<1> QED BY <1>1, <1>2, <1>3, <1>4, <1>5, <1>6, <1>7, <1>8, <1>9, <1>10 DEF Next, MainStep

-----------------------------------------------------------------------------
(***************************************************************************)
(* Errors.                                                                 *)
(***************************************************************************)

\* The call begins without an error and with open channels.
LEMMA ErrorInit == Init => ErrorInv
<1> SUFFICES ASSUME Init PROVE ErrorInv
  OBVIOUS
<1>1. mpc \in {"wait", "start"} /\ ~work_chan.closed
  BY DEF Init, NewChannel
<1>2. \A t \in Threads : wpc[t] = "absent"
  BY DEF Init
<1> QED BY <1>1, <1>2 DEF ErrorInv

\* A channel is closed only by on_error, after is_on_error is set.
LEMMA ErrorStep ==
  ASSUME TypeInv, ErrorInv, Next
  PROVE  ErrorInv'
<1>0. Threads' = Threads
  BY CallIsFixed
<1> USE DEF callVars, mainVars, chans, readSide, writeSide
<1>1. CASE OpenFails
  BY <1>0, <1>1 DEF OpenFails, ErrorInv
<1>2. CASE StartThread
  BY <1>0, <1>2 DEF StartThread, ErrorInv, TypeInv
<1>3. CASE StartFails
  <2>1. resume' = [resume EXCEPT ![NoThread] = "wait"] /\ \A t \in Threads : t # NoThread
    BY <1>3, ParallelAssumption DEF StartFails, Threads
  <2> QED BY <1>0, <1>3, <2>1 DEF StartFails, ErrorInv, TypeInv
<1>4. CASE OnError(NoThread)
  BY <1>0, <1>4, OnErrorOfCaller DEF onErrorLeaves, ErrorInv
<1>5. CASE WorkIsOver
  BY <1>0, <1>5 DEF WorkIsOver, ErrorInv
<1>6. CASE AcceptEnd
  BY <1>0, <1>6 DEF AcceptEnd, ErrorInv
<1>7. CASE Return
  BY <1>0, <1>7 DEF Return, ErrorInv
<1>8. ASSUME NEW t \in Threads, ThreadStep(t)
      PROVE  ErrorInv'
  <2>0. t # NoThread
    BY ParallelAssumption DEF Threads
  <2>1. CASE Accept(t)
    <3>1. \A u \in Threads : wpc'[u] \in {"raise", "close", "clear"} => wpc'[u] = wpc[u]
      BY <2>1, AcceptOfThread DEF TypeInv
    <3> QED BY <1>0, <2>1, <3>1, AcceptOfThread DEF ErrorInv
  <2>2. CASE NothingToRead(t)
    BY <1>0, <2>2 DEF NothingToRead, ErrorInv, TypeInv
  <2>3. CASE ReadBlock(t)
    BY <1>0, <2>3 DEF ReadBlock, ErrorInv, TypeInv
  <2>4. CASE ReadFails(t)
    BY <1>0, <2>0, <2>4 DEF ReadFails, CheckFails, ErrorInv, TypeInv
  <2>5. CASE CompressFails(t)
    BY <1>0, <2>0, <2>5 DEF CompressFails, CheckFails, ErrorInv, TypeInv
  <2>6. CASE Insert(t)
    <3>1. wpc' = [wpc EXCEPT ![t] = "write"]
          /\ UNCHANGED <<mpc, is_on_error, resume, work_chan>>
      BY <2>6 DEF Insert
    <3> QED BY <1>0, <3>1 DEF ErrorInv, TypeInv
  <2>7. CASE WriteBlock(t)
    <3>1. wpc' = [wpc EXCEPT ![t] = "send"]
          /\ UNCHANGED <<mpc, is_on_error, resume, work_chan>>
      BY <2>7 DEF WriteBlock
    <3> QED BY <1>0, <3>1 DEF ErrorInv, TypeInv
  <2>8. CASE WriteFails(t)
    BY <1>0, <2>0, <2>8 DEF WriteFails, CheckFails, ErrorInv, TypeInv
  <2>9. CASE WriteIsOver(t)
    BY <1>0, <2>9 DEF WriteIsOver, ErrorInv, TypeInv
  <2>10. CASE SendBack(t)
    <3>1. CASE work_chan.closed
      BY <1>0, <2>0, <2>10, <3>1 DEF SendBack, CheckFails, ErrorInv, TypeInv
    <3>2. CASE ~work_chan.closed
      <4>1. work_chan'.closed = work_chan.closed
        <5>1. work_chan' \in Sent(work_chan, workBuf[t])
          BY <2>10, <3>2 DEF SendBack
        <5>2. work_chan \in Channels(Buffers, Threads)
          BY DEF TypeInv
        <5> QED BY <5>1, <5>2 DEF Sent, Signalled, Channels
      <4>2. wpc' = [wpc EXCEPT ![t] = "write"] /\ UNCHANGED <<mpc, is_on_error, resume>>
        BY <2>10, <3>2 DEF SendBack
      <4> QED BY <1>0, <4>1, <4>2 DEF ErrorInv, TypeInv
    <3> QED BY <3>1, <3>2
  <2>11. CASE OnError(t)
    <3>1. PICK place \in {"close", "clear", "accept", "end"} : wpc' = [wpc EXCEPT ![t] = place]
      BY <2>11, OnErrorOfThread
    <3>2. is_on_error' /\ mpc' = mpc /\ resume' = resume /\ wpc[t] \in {"raise", "close", "clear"}
      BY <2>11, OnErrorOfThread DEF onErrorLeaves
    <3> QED BY <1>0, <3>1, <3>2 DEF ErrorInv, TypeInv
  <2>12. CASE ThreadEnd(t)
    BY <1>0, <2>12 DEF ThreadEnd, ErrorInv, TypeInv
  <2> QED BY <1>8, <2>1, <2>2, <2>3, <2>4, <2>5, <2>6, <2>7, <2>8, <2>9, <2>10, <2>11, <2>12
          DEF ThreadStep
<1>9. CASE WakeForNothing
  <2>1. work_chan'.closed = work_chan.closed
    BY <1>9 DEF WakeForNothing, TypeInv, Channels
  <2> QED BY <1>0, <1>9, <2>1 DEF WakeForNothing, ErrorInv
<1>10. CASE Terminated
  BY <1>0, <1>10 DEF Terminated, vars, ErrorInv
<1> QED BY <1>1, <1>2, <1>3, <1>4, <1>5, <1>6, <1>7, <1>8, <1>9, <1>10 DEF Next, MainStep

-----------------------------------------------------------------------------
(***************************************************************************)
(* Threads are counted.                                                    *)
(***************************************************************************)

\* The threads can be counted.
LEMMA ActiveIsFinite ==
  ASSUME TypeInv
  PROVE  IsFiniteSet(Active) /\ Cardinality(Active) \in Nat
<1>1. IsFiniteSet(Threads)
  BY FS_Interval DEF TypeInv, Threads
<1>2. Active \subseteq Threads
  BY DEF Active
<1> QED BY <1>1, <1>2, FS_Subset, FS_CardinalityType

\* The call begins without threads.
LEMMA CountInit == Init => CountInv
<1> SUFFICES ASSUME Init PROVE CountInv
  OBVIOUS
<1>1. \A t \in Threads : wpc[t] = "absent"
  BY DEF Init
<1>2. Active = {}
  BY <1>1 DEF Active
<1>3. is_thread_on = 0 /\ Len(end_chan.list) = 0 /\ turn = 1 /\ result = Running
      /\ mpc = IF threadNum = 0 THEN "wait" ELSE "start"
  BY EmptySeq DEF Init, NewChannel, BlockInit
<1>4. is_thread_on = Cardinality(Active) + Len(end_chan.list)
  BY <1>2, <1>3, FS_EmptySet
<1>5. threadNum \in Nat
  BY TypeInit DEF TypeInv
<1>6. \A t \in Threads : wpc[t] = "absent" <=> t >= turn
  BY <1>1, <1>3, <1>5 DEF Threads
<1> QED BY <1>3, <1>4, <1>5, <1>6 DEF CountInv

\* A thread goes on from one place to another.
LEMMA CountMove ==
  ASSUME TypeInv, CountInv, NEW t \in Threads, NEW place,
         Threads' = Threads,
         wpc' = [wpc EXCEPT ![t] = place],
         wpc[t] \notin {"absent", "exited"},
         place \notin {"absent", "exited"},
         end_chan' = end_chan, is_thread_on' = is_thread_on, turn' = turn,
         threadNum' = threadNum, mpc' = mpc, result' = result
  PROVE  CountInv'
<1>1. Active' = Active
  BY DEF Active, TypeInv
<1>2. \A u \in Threads : wpc'[u] = "absent" <=> wpc[u] = "absent"
  BY DEF TypeInv
<1>3. mpc # "done"
  BY DEF CountInv
<1>4. (\A u \in Threads : wpc[u] = "absent" <=> u >= turn)'
  BY <1>2 DEF CountInv
<1> QED BY <1>1, <1>3, <1>4 DEF CountInv

\* The threads and their count are left alone.
LEMMA CountQuiet ==
  ASSUME CountInv, Threads' = Threads, threadNum' = threadNum, wpc' = wpc,
         Len(end_chan'.list) = Len(end_chan.list),
         is_thread_on' = is_thread_on, turn' = turn, result' = result,
         mpc' = mpc \/ (mpc' \notin {"start", "done"} /\ mpc # "done")
  PROVE  CountInv'
<1>1. Active' = Active
  BY DEF Active
<1> QED BY <1>1 DEF CountInv

\* is_thread_on keeps agreeing with the threads and their messages.
LEMMA CountStep ==
  ASSUME TypeInv, ErrorInv, CountInv, Next
  PROVE  CountInv'
<1>0. Threads' = Threads /\ threadNum' = threadNum
  BY CallIsFixed
<1> USE DEF callVars, mainVars, chans, readSide, writeSide
<1>a. IsFiniteSet(Active) /\ Cardinality(Active) \in Nat
  BY ActiveIsFinite
<1>1. CASE OpenFails
  <2>1. /\ turn = 1 /\ mpc' = "done" /\ result' = 0
        /\ UNCHANGED <<wpc, end_chan, is_thread_on, turn>>
    BY <1>1 DEF OpenFails
  <2>2. \A t \in Threads : wpc[t] = "absent"
    BY <2>1 DEF CountInv, Threads, TypeInv
  <2>3. Active' = Active
    BY <1>0, <2>1 DEF Active
  <2> QED BY <1>0, <2>1, <2>2, <2>3 DEF CountInv, Running
<1>2. CASE StartThread
  <2>1. /\ mpc = "start" /\ turn \in Nat \ {0} /\ threadNum \in Nat /\ turn <= threadNum
        /\ is_thread_on' = is_thread_on + 1
        /\ wpc' = [wpc EXCEPT ![turn] = "accept"]
        /\ turn' = turn + 1
        /\ mpc' = IF turn = threadNum THEN "work" ELSE "start"
        /\ result' = result /\ end_chan' = end_chan
    BY <1>2 DEF StartThread, TypeInv, CountInv
  <2>2. turn \in Threads /\ wpc[turn] = "absent"
    BY <2>1 DEF Threads, CountInv
  <2>3. Active' = Active \union {turn} /\ turn \notin Active
    BY <1>0, <2>1, <2>2 DEF Active, TypeInv
  <2>4. Cardinality(Active') = Cardinality(Active) + 1
    BY <1>a, <2>3, FS_AddElement
  <2>5. Len(end_chan.list) \in Nat
    BY LenProperties DEF TypeInv, Channels
  <2>6. (is_thread_on = Cardinality(Active) + Len(end_chan.list))'
    BY <1>a, <2>1, <2>4, <2>5 DEF CountInv
  <2>7. (\A t \in Threads : wpc[t] = "absent" <=> t >= turn)'
    <3> SUFFICES ASSUME NEW t \in Threads
                 PROVE  wpc'[t] = "absent" <=> t >= turn'
      BY <1>0
    <3>1. t \in Nat
      BY DEF Threads
    <3>2. CASE t = turn
      BY <2>1, <2>2, <3>2 DEF TypeInv
    <3>3. CASE t # turn
      <4>1. wpc'[t] = wpc[t]
        BY <2>1, <3>3 DEF TypeInv
      <4>2. wpc[t] = "absent" <=> t >= turn
        BY DEF CountInv
      <4>3. t >= turn <=> t >= turn'
        BY <2>1, <3>1, <3>3
      <4> QED BY <4>1, <4>2, <4>3
    <3> QED BY <3>2, <3>3
  <2>8. /\ (mpc = "start" => turn <= threadNum)'
        /\ (mpc = "done" => \A t \in Threads : wpc[t] \in {"absent", "exited"})'
        /\ (result = Running <=> mpc # "done")'
    BY <1>0, <2>1 DEF CountInv, Running
  <2> QED BY <2>6, <2>7, <2>8 DEF CountInv
<1>3. CASE StartFails
  <2>1. UNCHANGED <<turn, is_thread_on, result, end_chan, wpc>> /\ mpc' = "raise" /\ mpc = "start"
    BY <1>3 DEF StartFails
  <2> QED BY <1>0, <2>1, CountQuiet
<1>4. CASE OnError(NoThread)
  <2>1. UNCHANGED <<turn, is_thread_on, result, end_chan, wpc>>
        /\ mpc' \in {"close", "clear", "wait"} /\ mpc \in {"raise", "close", "clear"}
    BY <1>4, OnErrorOfCaller DEF onErrorLeaves
  <2> QED BY <1>0, <2>1, CountQuiet
<1>5. CASE WorkIsOver
  <2>1. UNCHANGED <<turn, is_thread_on, result, end_chan, wpc>> /\ mpc' = "wait" /\ mpc = "work"
    BY <1>5 DEF WorkIsOver
  <2> QED BY <1>0, <2>1, CountQuiet
<1>6. CASE AcceptEnd
  <2>1. UNCHANGED <<turn, result, wpc, mpc>> /\ is_thread_on > 0 /\ mpc = "wait"
    BY <1>6 DEF AcceptEnd
  <2>2. end_chan \in Channels(Threads, {NoThread})
    BY DEF TypeInv
  <2>3. CASE HasData(end_chan)
    <3>1. end_chan' = Accepted(end_chan) /\ is_thread_on' = is_thread_on - 1
      BY <1>6, <2>3 DEF AcceptEnd, HasData, MustWait
    <3>2. Len(end_chan'.list) = Len(end_chan.list) - 1 /\ Len(end_chan.list) \in Nat
      <4>1. end_chan'.list = Tail(end_chan.list)
        BY <2>2, <2>3, <3>1, AcceptedChannel
      <4>2. end_chan.list \in Seq(Threads) /\ end_chan.list # <<>>
        BY <2>2, <2>3 DEF HasData, Channels
      <4> QED BY <4>1, <4>2, HeadAndTail
    <3>3. Active' = Active
      BY <1>0, <2>1 DEF Active
    <3>4. (is_thread_on = Cardinality(Active) + Len(end_chan.list))'
      BY <1>a, <3>1, <3>2, <3>3 DEF CountInv
    <3> QED BY <1>0, <2>1, <3>4 DEF CountInv
  <2>4. CASE ~HasData(end_chan)
    <3>1. end_chan' = Waiting(end_chan, NoThread) /\ is_thread_on' = is_thread_on
      BY <1>6, <2>4 DEF AcceptEnd, HasData, MustWait
    <3>2. end_chan'.list = end_chan.list
      BY <2>2, <3>1, WaitingChannel
    <3> QED BY <1>0, <2>1, <3>1, <3>2, CountQuiet
  <2> QED BY <2>3, <2>4
<1>7. CASE Return
  <2>1. /\ is_thread_on = 0 /\ mpc' = "done" /\ UNCHANGED <<turn, is_thread_on, wpc>>
        /\ end_chan' = [Closed(end_chan) EXCEPT !.list = <<>>]
        /\ result' = IF is_on_error THEN 0 ELSE Len(out)
    BY <1>7 DEF Return
  <2>2. Len(end_chan.list) \in Nat
    BY LenProperties DEF TypeInv, Channels
  <2>3. Cardinality(Active) = 0
    BY <1>a, <2>1, <2>2 DEF CountInv
  <2>4. Active = {}
    BY <1>a, <2>3, FS_EmptySet
  <2>5. Active' = {}
    BY <1>0, <2>1, <2>4 DEF Active
  <2>6. Len(end_chan'.list) = 0
    BY <2>1, ClearedChannel DEF TypeInv
  <2>7. Cardinality(Active') = 0
    BY <2>5, FS_EmptySet
  <2>8. (is_thread_on = Cardinality(Active) + Len(end_chan.list))'
    BY <2>1, <2>6, <2>7
  <2>9. \A t \in Threads : wpc[t] \in {"absent", "exited"}
    BY <2>4 DEF Active
  <2>10. result' # Running
    BY <2>1, LenProperties DEF TypeInv, Running
  <2> QED BY <1>0, <2>1, <2>8, <2>9, <2>10 DEF CountInv
<1>8. ASSUME NEW t \in Threads, ThreadStep(t)
      PROVE  CountInv'
  <2>1. CASE Accept(t)
    <3>1. /\ wpc[t] = "accept" /\ UNCHANGED <<end_chan, is_thread_on, turn, mpc, result>>
          /\ \E place \in {"read", "end", "accept"} : wpc' = [wpc EXCEPT ![t] = place]
      BY <2>1, AcceptOfThread DEF TypeInv
    <3> QED BY <1>0, <3>1, CountMove
  <2>2. CASE NothingToRead(t)
    <3>1. wpc[t] = "read" /\ UNCHANGED <<end_chan, is_thread_on, turn, mpc, result>>
          /\ wpc' = [wpc EXCEPT ![t] = "end"]
      BY <2>2 DEF NothingToRead
    <3> QED BY <1>0, <3>1, CountMove
  <2>3. CASE ReadBlock(t)
    <3>1. wpc[t] = "read" /\ UNCHANGED <<end_chan, is_thread_on, turn, mpc, result>>
          /\ wpc' = [wpc EXCEPT ![t] = "compress"]
      BY <2>3 DEF ReadBlock
    <3> QED BY <1>0, <3>1, CountMove
  <2>4. CASE ReadFails(t)
    <3>1. wpc[t] = "read" /\ UNCHANGED <<end_chan, is_thread_on, turn, mpc, result>>
          /\ wpc' = [wpc EXCEPT ![t] = "raise"]
      BY <2>4 DEF ReadFails, CheckFails
    <3> QED BY <1>0, <3>1, CountMove
  <2>5. CASE CompressFails(t)
    <3>1. wpc[t] = "compress" /\ UNCHANGED <<end_chan, is_thread_on, turn, mpc, result>>
          /\ wpc' = [wpc EXCEPT ![t] = "raise"]
      BY <2>5 DEF CompressFails, CheckFails
    <3> QED BY <1>0, <3>1, CountMove
  <2>6. CASE Insert(t)
    <3>1. wpc[t] = "compress" /\ UNCHANGED <<end_chan, is_thread_on, turn, mpc, result>>
          /\ wpc' = [wpc EXCEPT ![t] = "write"]
      BY <2>6 DEF Insert
    <3> QED BY <1>0, <3>1, CountMove
  <2>7. CASE WriteBlock(t)
    <3>1. wpc[t] = "write" /\ UNCHANGED <<end_chan, is_thread_on, turn, mpc, result>>
          /\ wpc' = [wpc EXCEPT ![t] = "send"]
      BY <2>7 DEF WriteBlock
    <3> QED BY <1>0, <3>1, CountMove
  <2>8. CASE WriteFails(t)
    <3>1. wpc[t] = "write" /\ UNCHANGED <<end_chan, is_thread_on, turn, mpc, result>>
          /\ wpc' = [wpc EXCEPT ![t] = "raise"]
      BY <2>8 DEF WriteFails, CheckFails
    <3> QED BY <1>0, <3>1, CountMove
  <2>9. CASE WriteIsOver(t)
    <3>1. wpc[t] = "write" /\ UNCHANGED <<end_chan, is_thread_on, turn, mpc, result>>
          /\ wpc' = [wpc EXCEPT ![t] = "accept"]
      BY <2>9 DEF WriteIsOver
    <3> QED BY <1>0, <3>1, CountMove
  <2>10. CASE SendBack(t)
    <3>1. wpc[t] = "send" /\ UNCHANGED <<end_chan, is_thread_on, turn, mpc, result>>
          /\ \E place \in {"raise", "write"} : wpc' = [wpc EXCEPT ![t] = place]
      BY <2>10 DEF SendBack, CheckFails
    <3> QED BY <1>0, <3>1, CountMove
  <2>11. CASE OnError(t)
    <3>1. /\ wpc[t] \in {"raise", "close", "clear"}
          /\ UNCHANGED <<end_chan, is_thread_on, turn, mpc, result>>
          /\ \E place \in {"close", "clear", "accept", "end"} : wpc' = [wpc EXCEPT ![t] = place]
      BY <2>11, OnErrorOfThread DEF onErrorLeaves
    <3> QED BY <1>0, <3>1, CountMove
  <2>12. CASE ThreadEnd(t)
    <3>1. /\ wpc[t] = "end" /\ UNCHANGED <<is_thread_on, turn, mpc, result>>
          /\ wpc' = [wpc EXCEPT ![t] = "exited"]
          /\ end_chan' \in Sent(end_chan, t)
      BY <2>12 DEF ThreadEnd
    <3>2. end_chan \in Channels(Threads, {NoThread})
      BY DEF TypeInv
    <3>3. end_chan'.list = Append(end_chan.list, t)
      BY <3>1, <3>2, SentChannel
    <3>4. Len(end_chan'.list) = Len(end_chan.list) + 1 /\ Len(end_chan.list) \in Nat
      BY <3>2, <3>3, AppendProperties, LenProperties DEF Channels
    <3>5. Active' = Active \ {t} /\ t \in Active
      BY <1>0, <3>1 DEF Active, TypeInv
    <3>6. Cardinality(Active') = Cardinality(Active) - 1
      BY <1>a, <3>5, FS_RemoveElement
    <3>7. (is_thread_on = Cardinality(Active) + Len(end_chan.list))'
      BY <1>a, <3>1, <3>4, <3>6 DEF CountInv
    <3>8. \A u \in Threads : wpc'[u] = "absent" <=> wpc[u] = "absent"
      BY <3>1 DEF TypeInv
    <3>9. mpc # "done"
      BY <3>1 DEF CountInv
    <3>10. (\A u \in Threads : wpc[u] = "absent" <=> u >= turn)'
      BY <1>0, <3>1, <3>8 DEF CountInv
    <3> QED BY <1>0, <3>1, <3>7, <3>9, <3>10 DEF CountInv
  <2> QED BY <1>8, <2>1, <2>2, <2>3, <2>4, <2>5, <2>6, <2>7, <2>8, <2>9, <2>10, <2>11, <2>12
          DEF ThreadStep
<1>9. CASE WakeForNothing
  <2>1. end_chan'.list = end_chan.list
    BY <1>9 DEF WakeForNothing, TypeInv, Channels
  <2>2. UNCHANGED <<wpc, turn, is_thread_on, mpc, result>>
    BY <1>9 DEF WakeForNothing
  <2> QED BY <1>0, <2>1, <2>2, CountQuiet
<1>10. CASE Terminated
  <2>1. UNCHANGED <<wpc, turn, is_thread_on, mpc, result, end_chan>>
    BY <1>10 DEF Terminated, vars
  <2> QED BY <1>0, <2>1, CountQuiet
<1> QED BY <1>1, <1>2, <1>3, <1>4, <1>5, <1>6, <1>7, <1>8, <1>9, <1>10 DEF Next, MainStep

-----------------------------------------------------------------------------
(***************************************************************************)
(* Locks.                                                                  *)
(***************************************************************************)

\* But for on_error, a thread goes on and raises nothing again.
LEMMA ThreadMoves ==
  ASSUME TypeInv, NEW t \in Threads, ThreadStep(t), ~OnError(t)
  PROVE  /\ mpc' = mpc /\ is_on_error' = is_on_error
         /\ wpc[t] # "raise"
         /\ \A u \in Threads : u # t => wpc'[u] = wpc[u]
<1> USE DEF mainVars
<1>1. CASE Accept(t)
  BY <1>1, AcceptOfThread DEF TypeInv
<1>2. CASE NothingToRead(t)
  BY <1>2 DEF NothingToRead, TypeInv
<1>3. CASE ReadBlock(t)
  BY <1>3 DEF ReadBlock, TypeInv
<1>4. CASE ReadFails(t)
  BY <1>4 DEF ReadFails, CheckFails, TypeInv
<1>5. CASE CompressFails(t)
  BY <1>5 DEF CompressFails, CheckFails, TypeInv
<1>6. CASE Insert(t)
  <2>1. mpc' = mpc /\ is_on_error' = is_on_error /\ wpc[t] = "compress"
        /\ wpc' = [wpc EXCEPT ![t] = "write"]
    BY <1>6 DEF Insert
  <2> QED BY <2>1 DEF TypeInv
<1>7. CASE WriteBlock(t)
  <2>1. mpc' = mpc /\ is_on_error' = is_on_error /\ wpc[t] = "write"
        /\ wpc' = [wpc EXCEPT ![t] = "send"]
    BY <1>7 DEF WriteBlock
  <2> QED BY <2>1 DEF TypeInv
<1>8. CASE WriteFails(t)
  BY <1>8 DEF WriteFails, CheckFails, TypeInv
<1>9. CASE WriteIsOver(t)
  BY <1>9 DEF WriteIsOver, TypeInv
<1>10. CASE SendBack(t)
  BY <1>10 DEF SendBack, CheckFails, TypeInv
<1>11. CASE ThreadEnd(t)
  BY <1>11 DEF ThreadEnd, TypeInv
<1> QED BY <1>1, <1>2, <1>3, <1>4, <1>5, <1>6, <1>7, <1>8, <1>9, <1>10, <1>11 DEF ThreadStep

\* An error is not forgotten.
LEMMA FailingStays ==
  ASSUME TypeInv, ErrorInv, CountInv, Next, Failing
  PROVE  Failing'
<1>0. Threads' = Threads
  BY CallIsFixed
<1> USE DEF mainVars
<1>1. CASE OpenFails
  BY <1>0, <1>1 DEF OpenFails, Failing
<1>2. CASE StartThread
  <2>1. /\ mpc = "start" /\ is_on_error' = is_on_error
        /\ wpc' = [wpc EXCEPT ![turn] = "accept"]
    BY <1>2 DEF StartThread
  <2>2. turn \in Threads /\ wpc[turn] = "absent"
    BY <2>1 DEF CountInv, TypeInv, Threads
  <2>3. \A t \in Threads : wpc[t] = "raise" => wpc'[t] = "raise"
    BY <2>1, <2>2 DEF TypeInv
  <2> QED BY <1>0, <2>1, <2>3 DEF Failing
<1>3. CASE StartFails
  BY <1>0, <1>3 DEF StartFails, Failing
<1>4. CASE OnError(NoThread)
  BY <1>4, OnErrorOfCaller DEF Failing
<1>5. CASE WorkIsOver
  BY <1>0, <1>5 DEF WorkIsOver, Failing
<1>6. CASE AcceptEnd
  BY <1>0, <1>6 DEF AcceptEnd, Failing
<1>7. CASE Return
  BY <1>0, <1>7 DEF Return, Failing
<1>8. ASSUME NEW t \in Threads, ThreadStep(t)
      PROVE  Failing'
  <2>1. CASE OnError(t)
    BY <2>1, OnErrorOfThread DEF Failing
  <2>2. CASE ~OnError(t)
    BY <1>0, <1>8, <2>2, ThreadMoves DEF Failing
  <2> QED BY <2>1, <2>2
<1>9. CASE WakeForNothing
  BY <1>0, <1>9 DEF WakeForNothing, Failing
<1>10. CASE Terminated
  BY <1>0, <1>10 DEF Terminated, vars, Failing
<1> QED BY <1>1, <1>2, <1>3, <1>4, <1>5, <1>6, <1>7, <1>8, <1>9, <1>10 DEF Next, MainStep

\* Nobody has a lock when the call begins.
LEMMA LockInit == Init => LockInv
<1> SUFFICES ASSUME Init PROVE LockInv
  OBVIOUS
<1>1. writeLocker = NoThread /\ \A t \in Threads : wpc[t] = "absent"
  BY DEF Init
<1> QED BY <1>1 DEF LockInv

\* The lock is left alone, and so are the threads that hold or take it.
LEMMA LockQuiet ==
  ASSUME TypeInv, LockInv, Failing => Failing',
         Threads' = Threads, writeLocker' = writeLocker,
         \A t \in Threads : wpc'[t] \in {"write", "send"} <=> wpc[t] \in {"write", "send"}
  PROVE  LockInv'
BY DEF TypeInv, LockInv

\* Whoever writes or sends a buffer back keeps writeLocker meanwhile.
LEMMA LockStep ==
  ASSUME TypeInv, ErrorInv, CountInv, LockInv, Next
  PROVE  LockInv'
<1>0. Threads' = Threads /\ (Failing => Failing')
  BY CallIsFixed, FailingStays
<1> USE DEF callVars, mainVars, chans, readSide, writeSide
<1>1. ASSUME NEW t \in Threads, NEW place, wpc' = [wpc EXCEPT ![t] = place],
             wpc[t] \in {"write", "send"} <=> place \in {"write", "send"},
             writeLocker' = writeLocker
      PROVE  LockInv'
  <2>1. \A u \in Threads : wpc'[u] \in {"write", "send"} <=> wpc[u] \in {"write", "send"}
    BY <1>1 DEF TypeInv
  <2> QED BY <1>0, <1>1, <2>1, LockQuiet
<1>2. ASSUME wpc' = wpc, writeLocker' = writeLocker
      PROVE  LockInv'
  BY <1>0, <1>2, LockQuiet
<1>3. ASSUME NEW t \in Threads, wpc' = [wpc EXCEPT ![t] = "raise"], writeLocker' = writeLocker
      PROVE  LockInv'
  <2>1. Failing'
    BY <1>0, <1>3 DEF Failing, TypeInv
  <2>2. \A u \in Threads : wpc'[u] \in {"write", "send"} => wpc[u] \in {"write", "send"}
    BY <1>3 DEF TypeInv
  <2> QED BY <1>0, <1>3, <2>1, <2>2 DEF LockInv
<1>4. CASE OpenFails \/ StartFails \/ WorkIsOver \/ AcceptEnd \/ Return
  <2>1. wpc' = wpc /\ writeLocker' = writeLocker
    BY <1>4 DEF OpenFails, StartFails, WorkIsOver, AcceptEnd, Return
  <2> QED BY <1>2, <2>1
<1>5. CASE StartThread
  <2>1. wpc' = [wpc EXCEPT ![turn] = "accept"] /\ writeLocker' = writeLocker /\ mpc = "start"
    BY <1>5 DEF StartThread
  <2>2. turn \in Threads /\ wpc[turn] = "absent"
    BY <2>1 DEF CountInv, TypeInv, Threads
  <2> QED BY <1>1, <2>1, <2>2
<1>6. CASE OnError(NoThread)
  <2>1. wpc' = wpc /\ writeLocker' = writeLocker
    BY <1>6, OnErrorOfCaller
  <2> QED BY <1>2, <2>1
<1>7. ASSUME NEW t \in Threads, ThreadStep(t)
      PROVE  LockInv'
  <2>0. t # NoThread
    BY ParallelAssumption DEF Threads
  <2>1. CASE Accept(t)
    <3>1. /\ wpc[t] = "accept" /\ writeLocker' = writeLocker
          /\ \E place \in {"read", "end", "accept"} : wpc' = [wpc EXCEPT ![t] = place]
      BY <2>1, AcceptOfThread DEF TypeInv
    <3> QED BY <1>1, <3>1
  <2>2. CASE NothingToRead(t)
    <3>1. wpc[t] = "read" /\ wpc' = [wpc EXCEPT ![t] = "end"] /\ writeLocker' = writeLocker
      BY <2>2 DEF NothingToRead
    <3> QED BY <1>1, <3>1
  <2>3. CASE ReadBlock(t)
    <3>1. wpc[t] = "read" /\ wpc' = [wpc EXCEPT ![t] = "compress"] /\ writeLocker' = writeLocker
      BY <2>3 DEF ReadBlock
    <3> QED BY <1>1, <3>1
  <2>4. CASE ReadFails(t)
    <3>1. wpc' = [wpc EXCEPT ![t] = "raise"] /\ writeLocker' = writeLocker
      BY <2>4 DEF ReadFails, CheckFails
    <3> QED BY <1>3, <3>1
  <2>5. CASE CompressFails(t)
    <3>1. wpc' = [wpc EXCEPT ![t] = "raise"] /\ writeLocker' = writeLocker
      BY <2>5 DEF CompressFails, CheckFails
    <3> QED BY <1>3, <3>1
  <2>6. CASE Insert(t)
    <3>1. wpc' = [wpc EXCEPT ![t] = "write"] /\ writeLocker = NoThread /\ writeLocker' = t
      BY <2>6 DEF Insert
    <3>2. \A u \in Threads : wpc[u] \notin {"write", "send"}
      BY <3>1, ParallelAssumption DEF LockInv, Threads
    <3>3. wpc'[t] = "write" /\ \A u \in Threads : u # t => wpc'[u] = wpc[u]
      BY <3>1 DEF TypeInv
    <3> QED BY <1>0, <3>1, <3>2, <3>3 DEF LockInv
  <2>7. CASE WriteBlock(t)
    <3>1. wpc[t] = "write" /\ wpc' = [wpc EXCEPT ![t] = "send"] /\ writeLocker' = writeLocker
      BY <2>7 DEF WriteBlock
    <3> QED BY <1>1, <3>1
  <2>8. CASE WriteFails(t)
    <3>1. wpc' = [wpc EXCEPT ![t] = "raise"] /\ writeLocker' = writeLocker
      BY <2>8 DEF WriteFails, CheckFails
    <3> QED BY <1>3, <3>1
  <2>9. CASE WriteIsOver(t)
    <3>1. wpc[t] = "write" /\ wpc' = [wpc EXCEPT ![t] = "accept"] /\ writeLocker' = NoThread
      BY <2>9 DEF WriteIsOver
    <3>2. \A u \in Threads : u # t => wpc[u] \notin {"write", "send"}
      BY <3>1 DEF LockInv
    <3>3. \A u \in Threads : wpc'[u] \notin {"write", "send"}
      BY <3>1, <3>2 DEF TypeInv
    <3> QED BY <1>0, <3>1, <3>3 DEF LockInv
  <2>10. CASE SendBack(t)
    <3>1. wpc[t] = "send" /\ writeLocker' = writeLocker
          /\ \E place \in {"raise", "write"} : wpc' = [wpc EXCEPT ![t] = place]
      BY <2>10 DEF SendBack, CheckFails
    <3> QED BY <1>1, <1>3, <3>1
  <2>11. CASE OnError(t)
    <3>1. PICK place \in {"close", "clear", "accept", "end"} : wpc' = [wpc EXCEPT ![t] = place]
      BY <2>11, OnErrorOfThread
    <3>2. /\ is_on_error'
          /\ writeLocker' = writeLocker \/ (writeLocker = t /\ writeLocker' = NoThread)
      BY <2>11, OnErrorOfThread
    <3>3. Failing'
      BY <3>2 DEF Failing
    <3>4. \A u \in Threads : wpc'[u] \in {"write", "send"} => u # t /\ wpc[u] \in {"write", "send"}
      BY <3>1 DEF TypeInv
    <3> QED BY <1>0, <3>2, <3>3, <3>4 DEF LockInv
  <2>12. CASE ThreadEnd(t)
    <3>1. wpc[t] = "end" /\ wpc' = [wpc EXCEPT ![t] = "exited"] /\ writeLocker' = writeLocker
      BY <2>12 DEF ThreadEnd
    <3> QED BY <1>1, <3>1
  <2> QED BY <1>7, <2>1, <2>2, <2>3, <2>4, <2>5, <2>6, <2>7, <2>8, <2>9, <2>10, <2>11, <2>12
          DEF ThreadStep
<1>8. CASE WakeForNothing
  <2>1. wpc' = wpc /\ writeLocker' = writeLocker
    BY <1>8 DEF WakeForNothing
  <2> QED BY <1>2, <2>1
<1>9. CASE Terminated
  <2>1. wpc' = wpc /\ writeLocker' = writeLocker
    BY <1>9 DEF Terminated, vars
  <2> QED BY <1>2, <2>1
<1> QED BY <1>4, <1>5, <1>6, <1>7, <1>8, <1>9 DEF Next, MainStep

-----------------------------------------------------------------------------
(***************************************************************************)
(* Buffers have one owner.                                                 *)
(***************************************************************************)

\* All buffers are in the channel when the call begins.
LEMMA OwnInit == Init => OwnInv
<1> SUFFICES ASSUME Init PROVE OwnInv
  OBVIOUS
<1>0. TypeInv
  BY TypeInit
<1>1. /\ \A t \in Threads : wpc[t] = "absent" /\ workBuf[t] = NoBuf
      /\ work_chan.list = [i \in Buffers |-> i]
      /\ dataBufList = <<>>
  BY DEF Init, NewChannel
<1>2. /\ Len(work_chan.list) \in Nat
      /\ Buffers = 1..Len(work_chan.list)
      /\ \A i \in 1..Len(work_chan.list) : work_chan.list[i] = i
  <2>1. work_chan.list \in Seq(Buffers)
    BY <1>0 DEF TypeInv, Channels
  <2>2. DOMAIN work_chan.list = Buffers
    BY <1>1
  <2>3. Len(work_chan.list) \in Nat /\ DOMAIN work_chan.list = 1..Len(work_chan.list)
    BY <2>1, LenProperties
  <2> QED BY <1>1, <2>2, <2>3
<1>3. \A b : ~In(b, dataBufList)
  BY <1>1, EmptySeq DEF In
<1>4. \A b \in Buffers : In(b, work_chan.list)
  BY <1>2 DEF In
<1>5. \A b : ~(b \in Buffers /\ InHands(b))
  <2>1. NoBuf \notin Buffers
    BY ParallelAssumption DEF Buffers
  <2> QED BY <1>1, <2>1 DEF InHands
<1>6. Distinct(work_chan.list)
  BY <1>2 DEF Distinct
<1>7. Distinct(dataBufList)
  BY <1>1, EmptySeq DEF Distinct
<1> QED BY <1>1, <1>3, <1>4, <1>5, <1>6, <1>7 DEF OwnInv, InChannel, InList

\* The buffers stay where they are.
LEMMA OwnQuiet ==
  ASSUME OwnInv, Threads' = Threads, Buffers' = Buffers,
         workBuf' = workBuf, work_chan'.list = work_chan.list, dataBufList' = dataBufList,
         is_on_error => is_on_error', mpc = "done" => mpc' = "done",
         \A t \in Threads :
           /\ wpc'[t] \in {"read", "compress", "send"} => workBuf[t] \in Buffers
           /\ wpc'[t] \in {"absent", "write"} => workBuf[t] = NoBuf
           /\ wpc'[t] = "accept" /\ ~is_on_error' => workBuf[t] = NoBuf
  PROVE  OwnInv'
BY DEF OwnInv, InHands, InChannel, InList

\* A thread goes to a place where it needs the buffer it has, or none.
LEMMA OwnMove ==
  ASSUME TypeInv, OwnInv, Threads' = Threads, Buffers' = Buffers,
         NEW t \in Threads, NEW place, wpc' = [wpc EXCEPT ![t] = place],
         place \in {"read", "compress", "send"} => workBuf[t] \in Buffers,
         place \in {"absent", "write"} => workBuf[t] = NoBuf,
         place = "accept" => workBuf[t] = NoBuf \/ is_on_error',
         workBuf' = workBuf, work_chan'.list = work_chan.list, dataBufList' = dataBufList,
         is_on_error => is_on_error', mpc' = mpc
  PROVE  OwnInv'
<1>1. ASSUME NEW u \in Threads
      PROVE  /\ wpc'[u] \in {"read", "compress", "send"} => workBuf[u] \in Buffers
             /\ wpc'[u] \in {"absent", "write"} => workBuf[u] = NoBuf
             /\ wpc'[u] = "accept" /\ ~is_on_error' => workBuf[u] = NoBuf
  <2>1. CASE u = t
    BY <2>1 DEF TypeInv
  <2>2. CASE u # t
    <3>1. wpc'[u] = wpc[u]
      BY <2>2 DEF TypeInv
    <3> QED BY <3>1 DEF OwnInv
  <2> QED BY <2>1, <2>2
<1> QED BY <1>1, OwnQuiet

\* While the channel is cleared a buffer leaves it.
LEMMA OwnCleared ==
  ASSUME TypeInv, OwnInv, Threads' = Threads, Buffers' = Buffers,
         workBuf' = workBuf, dataBufList' = dataBufList, is_on_error',
         \/ work_chan'.list = work_chan.list
         \/ work_chan.list # <<>> /\ work_chan'.list = Tail(work_chan.list),
         \A t \in Threads :
           /\ wpc'[t] \in {"read", "compress", "send"} => workBuf[t] \in Buffers
           /\ wpc'[t] \in {"absent", "write"} => workBuf[t] = NoBuf
  PROVE  OwnInv'
<1>1. /\ Distinct(work_chan'.list)
      /\ \A b : In(b, work_chan'.list) => In(b, work_chan.list)
  <2>1. work_chan.list \in Seq(Buffers) /\ Distinct(work_chan.list)
    BY DEF TypeInv, Channels, OwnInv
  <2>2. CASE work_chan'.list = work_chan.list
    BY <2>1, <2>2
  <2>3. CASE work_chan.list # <<>> /\ work_chan'.list = Tail(work_chan.list)
    BY <2>1, <2>3, InPopped
  <2> QED BY <2>2, <2>3
<1>2. \A b : InHands(b)' <=> InHands(b)
  BY DEF InHands
<1>3. \A b : InList(b)' <=> InList(b)
  BY DEF InList
<1>4. \A b : InChannel(b)' => InChannel(b)
  BY <1>1 DEF InChannel
<1> QED BY <1>1, <1>2, <1>3, <1>4 DEF OwnInv

\* A buffer goes from one owner to the next, and none is lost.
LEMMA OwnStep ==
  ASSUME TypeInv, ErrorInv, CountInv, OwnInv, Next
  PROVE  OwnInv'
<1>0. Threads' = Threads /\ Buffers' = Buffers
  BY CallIsFixed
<1> USE DEF callVars, mainVars, chans, readSide, writeSide
<1>a. NoBuf \notin Buffers
  BY ParallelAssumption DEF Buffers
<1>b. /\ work_chan.list \in Seq(Buffers) /\ Distinct(work_chan.list)
      /\ dataBufList \in Seq(Buffers) /\ Distinct(dataBufList)
  BY DEF TypeInv, Channels, OwnInv
<1>c. ASSUME wpc' = wpc, workBuf' = workBuf, work_chan'.list = work_chan.list,
             dataBufList' = dataBufList, is_on_error' = is_on_error, mpc = "done" => mpc' = "done"
      PROVE  OwnInv'
  <2>1. \A t \in Threads :
          /\ wpc'[t] \in {"read", "compress", "send"} => workBuf[t] \in Buffers
          /\ wpc'[t] \in {"absent", "write"} => workBuf[t] = NoBuf
          /\ wpc'[t] = "accept" /\ ~is_on_error' => workBuf[t] = NoBuf
    BY <1>c DEF OwnInv
  <2> QED BY <1>0, <1>c, <2>1, OwnQuiet
<1>1. CASE OpenFails \/ StartFails \/ WorkIsOver \/ AcceptEnd
  <2>1. /\ wpc' = wpc /\ workBuf' = workBuf /\ work_chan'.list = work_chan.list
        /\ dataBufList' = dataBufList /\ is_on_error' = is_on_error /\ mpc # "done"
    BY <1>1 DEF OpenFails, StartFails, WorkIsOver, AcceptEnd
  <2> QED BY <1>c, <2>1
<1>2. CASE StartThread
  <2>1. /\ mpc = "start" /\ wpc' = [wpc EXCEPT ![turn] = "accept"]
        /\ workBuf' = workBuf /\ work_chan'.list = work_chan.list
        /\ dataBufList' = dataBufList /\ is_on_error' = is_on_error
    BY <1>2 DEF StartThread
  <2>2. turn \in Threads /\ wpc[turn] = "absent"
    BY <2>1 DEF CountInv, TypeInv, Threads
  <2>3. workBuf[turn] = NoBuf
    BY <2>2 DEF OwnInv
  <2>4. ASSUME NEW t \in Threads
        PROVE  /\ wpc'[t] \in {"read", "compress", "send"} => workBuf[t] \in Buffers
               /\ wpc'[t] \in {"absent", "write"} => workBuf[t] = NoBuf
               /\ wpc'[t] = "accept" /\ ~is_on_error' => workBuf[t] = NoBuf
    <3>1. CASE t = turn
      BY <2>1, <2>2, <2>3, <3>1 DEF TypeInv
    <3>2. CASE t # turn
      <4>1. wpc'[t] = wpc[t]
        BY <2>1, <3>2 DEF TypeInv
      <4> QED BY <2>1, <4>1 DEF OwnInv
    <3> QED BY <3>1, <3>2
  <2> QED BY <1>0, <2>1, <2>4, OwnQuiet
<1>3. CASE OnError(NoThread)
  <2>1. /\ wpc' = wpc /\ workBuf' = workBuf /\ dataBufList' = dataBufList /\ is_on_error'
        /\ \/ work_chan'.list = work_chan.list
           \/ work_chan.list # <<>> /\ work_chan'.list = Tail(work_chan.list)
    BY <1>3, OnErrorOfCaller DEF onErrorLeaves
  <2>2. \A t \in Threads :
           /\ wpc'[t] \in {"read", "compress", "send"} => workBuf[t] \in Buffers
           /\ wpc'[t] \in {"absent", "write"} => workBuf[t] = NoBuf
    BY <2>1 DEF OwnInv
  <2> QED BY <1>0, <2>1, <2>2, OwnCleared
<1>4. CASE Return
  <2>1. /\ wpc' = wpc /\ workBuf' = workBuf /\ dataBufList' = dataBufList
        /\ is_on_error' = is_on_error /\ mpc' = "done"
        /\ work_chan' = [Closed(work_chan) EXCEPT !.list = <<>>]
    BY <1>4 DEF Return
  <2>2. Len(work_chan'.list) = 0
    BY <2>1, ClearedChannel DEF TypeInv
  <2>3. Distinct(work_chan'.list) /\ \A b : ~In(b, work_chan'.list)
    BY <2>2 DEF Distinct, In
  <2>4. \A b : InHands(b)' <=> InHands(b)
    BY <1>0, <2>1 DEF InHands
  <2>5. \A b : InList(b)' <=> InList(b)
    BY <2>1 DEF InList
  <2>6. \A b : ~InChannel(b)'
    BY <2>3 DEF InChannel
  <2> QED BY <1>0, <2>1, <2>3, <2>4, <2>5, <2>6 DEF OwnInv
<1>5. ASSUME NEW t \in Threads, ThreadStep(t)
      PROVE  OwnInv'
  <2>0. t # NoThread
    BY ParallelAssumption DEF Threads
  <2>1. CASE Accept(t)
    <3>1. /\ wpc[t] = "accept" /\ UNCHANGED <<is_on_error, mpc, dataBufList>>
      BY <2>1, AcceptOfThread
    <3>2. CASE /\ work_chan.list # <<>>
               /\ work_chan'.list = Tail(work_chan.list)
               /\ workBuf' = [workBuf EXCEPT ![t] = Head(work_chan.list)]
               /\ wpc' = [wpc EXCEPT ![t] = "read"]
      <4> DEFINE c == Head(work_chan.list)
      <4>1. /\ Distinct(Tail(work_chan.list))
            /\ In(c, work_chan.list)
            /\ c \in Buffers
            /\ \A b : In(b, Tail(work_chan.list)) <=> In(b, work_chan.list) /\ b # c
        BY <1>b, <3>2, InPopped
      <4> HIDE DEF c
      <4>2. workBuf' = [workBuf EXCEPT ![t] = c]
        BY <3>2 DEF c
      <4>3. workBuf'[t] = c /\ \A u \in Threads : u # t => workBuf'[u] = workBuf[u]
        BY <4>2 DEF TypeInv
      <4>4. InChannel(c) /\ ~InHands(c) /\ ~InList(c)
        BY <4>1 DEF OwnInv, InChannel
      <4>5. \A b : InChannel(b)' <=> InChannel(b) /\ b # c
        BY <3>2, <4>1 DEF InChannel
      <4>6. \A b : InList(b)' <=> InList(b)
        BY <3>1 DEF InList
      <4>7. \A b : InHands(b)' => InHands(b) \/ b = c
        BY <1>0, <4>3 DEF InHands
      <4>8. \A b : b = c => InHands(b)'
        BY <1>0, <4>3 DEF InHands
      <4>9. ASSUME ~is_on_error, NEW b \in Buffers, InHands(b)
            PROVE  InHands(b)'
        <5>1. PICK u \in Threads : workBuf[u] = b
          BY <4>9 DEF InHands
        <5>2. workBuf[t] = NoBuf
          BY <3>1, <4>9 DEF OwnInv
        <5>3. u # t
          BY <1>a, <5>1, <5>2
        <5> QED BY <1>0, <4>3, <5>1, <5>3 DEF InHands
      <4>10. \A u \in Threads : u # t => workBuf[u] # c
        BY <4>4 DEF InHands
      <4>11. (\A u, v \in Threads : u # v /\ workBuf[u] # NoBuf => workBuf[u] # workBuf[v])'
        <5> SUFFICES ASSUME NEW u \in Threads, NEW v \in Threads, u # v, workBuf'[u] # NoBuf
                     PROVE  workBuf'[u] # workBuf'[v]
          BY <1>0
        <5>1. CASE u = t
          BY <4>3, <4>10, <5>1
        <5>2. CASE v = t
          BY <4>3, <4>10, <5>2
        <5>3. CASE u # t /\ v # t
          BY <4>3, <5>3 DEF OwnInv
        <5> QED BY <5>1, <5>2, <5>3
      <4>12. (~is_on_error /\ mpc # "done" =>
                \A b \in Buffers : InHands(b) \/ InChannel(b) \/ InList(b))'
        <5> SUFFICES ASSUME ~is_on_error, mpc # "done", NEW b \in Buffers
                     PROVE  InHands(b)' \/ InChannel(b)' \/ InList(b)'
          BY <1>0, <3>1
        <5>1. InHands(b) \/ InChannel(b) \/ InList(b)
          BY DEF OwnInv
        <5> QED BY <4>5, <4>6, <4>8, <4>9, <5>1
      <4>13. (/\ \A b \in Buffers : ~(InHands(b) /\ InChannel(b))
              /\ \A b \in Buffers : ~(InHands(b) /\ InList(b))
              /\ \A b \in Buffers : ~(InChannel(b) /\ InList(b)))'
        BY <1>0, <4>4, <4>5, <4>6, <4>7 DEF OwnInv
      <4>14. ASSUME NEW u \in Threads
             PROVE  /\ wpc'[u] \in {"read", "compress", "send"} => workBuf'[u] \in Buffers
                    /\ wpc'[u] \in {"absent", "write"} => workBuf'[u] = NoBuf
                    /\ wpc'[u] = "accept" /\ ~is_on_error' => workBuf'[u] = NoBuf
        <5>1. CASE u = t
          BY <3>2, <4>1, <4>3, <5>1 DEF TypeInv
        <5>2. CASE u # t
          <6>1. wpc'[u] = wpc[u] /\ workBuf'[u] = workBuf[u]
            BY <3>2, <4>3, <5>2 DEF TypeInv
          <6> QED BY <3>1, <6>1 DEF OwnInv
        <5> QED BY <5>1, <5>2
      <4>15. Distinct(work_chan.list)' /\ Distinct(dataBufList)'
        BY <1>b, <3>1, <3>2, <4>1
      <4> QED BY <1>0, <4>11, <4>12, <4>13, <4>14, <4>15 DEF OwnInv
    <3>3. CASE /\ work_chan'.list = work_chan.list
               /\ workBuf' = workBuf
               /\ wpc' = [wpc EXCEPT ![t] = "end"]
      BY <1>0, <3>1, <3>3, OwnMove
    <3>4. CASE work_chan'.list = work_chan.list /\ workBuf' = workBuf /\ wpc' = wpc
      BY <1>c, <3>1, <3>4
    <3> QED BY <2>1, <3>2, <3>3, <3>4, AcceptOfThread
  <2>2. CASE NothingToRead(t)
    <3>1. /\ wpc' = [wpc EXCEPT ![t] = "end"] /\ workBuf' = workBuf
          /\ work_chan'.list = work_chan.list
          /\ dataBufList' = dataBufList /\ is_on_error' = is_on_error /\ mpc' = mpc
      BY <2>2 DEF NothingToRead
    <3> QED BY <1>0, <3>1, OwnMove
  <2>3. CASE ReadBlock(t)
    <3>1. /\ wpc[t] = "read"
          /\ wpc' = [wpc EXCEPT ![t] = "compress"] /\ workBuf' = workBuf
          /\ work_chan'.list = work_chan.list
          /\ dataBufList' = dataBufList /\ is_on_error' = is_on_error /\ mpc' = mpc
      BY <2>3 DEF ReadBlock
    <3>2. workBuf[t] \in Buffers
      BY <3>1 DEF OwnInv
    <3> QED BY <1>0, <3>1, <3>2, OwnMove
  <2>4. CASE ReadFails(t)
    <3>1. /\ wpc' = [wpc EXCEPT ![t] = "raise"] /\ workBuf' = workBuf
          /\ work_chan'.list = work_chan.list
          /\ dataBufList' = dataBufList /\ is_on_error' = is_on_error /\ mpc' = mpc
      BY <2>4 DEF ReadFails, CheckFails
    <3> QED BY <1>0, <3>1, OwnMove
  <2>5. CASE CompressFails(t)
    <3>1. /\ wpc' = [wpc EXCEPT ![t] = "raise"] /\ workBuf' = workBuf
          /\ work_chan'.list = work_chan.list
          /\ dataBufList' = dataBufList /\ is_on_error' = is_on_error /\ mpc' = mpc
      BY <2>5 DEF CompressFails, CheckFails
    <3> QED BY <1>0, <3>1, OwnMove
  <2>6. CASE Insert(t)
    <3> DEFINE c == workBuf[t]
    <3>1. /\ wpc[t] = "compress" /\ wpc' = [wpc EXCEPT ![t] = "write"]
          /\ workBuf' = [workBuf EXCEPT ![t] = NoBuf]
          /\ work_chan' = work_chan /\ is_on_error' = is_on_error /\ mpc' = mpc
      BY <2>6 DEF Insert
    <3>2. c \in Buffers
      BY <3>1 DEF OwnInv
    <3>3. InHands(c) /\ ~InChannel(c) /\ ~InList(c)
      BY <3>2 DEF OwnInv, InHands
    <3>4. /\ Distinct(dataBufList')
          /\ \A b : In(b, dataBufList') <=> In(b, dataBufList) \/ b = c
      <4>1. PICK n \in 0..Len(dataBufList) :
              /\ Len(dataBufList') = Len(dataBufList) + 1
              /\ dataBufList'[n + 1] = c
              /\ \A i \in 1..n : dataBufList'[i] = dataBufList[i]
              /\ \A i \in (n + 2)..(Len(dataBufList) + 1) : dataBufList'[i] = dataBufList[i - 1]
        BY <2>6, <3>2, InsertOfThread
      <4>2. Len(dataBufList) \in Nat /\ ~In(c, dataBufList) /\ Distinct(dataBufList)
        BY <1>b, <3>3, LenProperties DEF InList
      <4> HIDE DEF c
      <4> QED BY <4>1, <4>2, InInserted
    <3> HIDE DEF c
    <3>5. workBuf'[t] = NoBuf /\ \A u \in Threads : u # t => workBuf'[u] = workBuf[u]
      BY <3>1 DEF TypeInv
    <3>6. \A b : InChannel(b)' <=> InChannel(b)
      BY <3>1 DEF InChannel
    <3>7. \A b : InList(b)' <=> InList(b) \/ b = c
      BY <3>4 DEF InList
    <3>8. \A b \in Buffers : InHands(b)' <=> InHands(b) /\ b # c
      <4> SUFFICES ASSUME NEW b \in Buffers PROVE InHands(b)' <=> InHands(b) /\ b # c
        OBVIOUS
      <4>1. ASSUME InHands(b)' PROVE InHands(b) /\ b # c
        <5>1. PICK u \in Threads : workBuf'[u] = b
          BY <1>0, <4>1 DEF InHands
        <5>2. u # t /\ workBuf[u] = b
          BY <1>a, <3>5, <5>1
        <5>3. b # c
          BY <1>a, <5>2 DEF OwnInv, c
        <5> QED BY <5>2, <5>3 DEF InHands
      <4>2. ASSUME InHands(b), b # c PROVE InHands(b)'
        <5>1. PICK u \in Threads : workBuf[u] = b
          BY <4>2 DEF InHands
        <5>2. u # t
          BY <4>2, <5>1 DEF c
        <5> QED BY <1>0, <3>5, <5>1, <5>2 DEF InHands
      <4> QED BY <4>1, <4>2
    <3>9. (\A u, v \in Threads : u # v /\ workBuf[u] # NoBuf => workBuf[u] # workBuf[v])'
      <4> SUFFICES ASSUME NEW u \in Threads, NEW v \in Threads, u # v, workBuf'[u] # NoBuf
                   PROVE  workBuf'[u] # workBuf'[v]
        BY <1>0
      <4>1. u # t
        BY <3>5
      <4> QED BY <3>5, <4>1 DEF OwnInv
    <3>10. (~is_on_error /\ mpc # "done" =>
              \A b \in Buffers : InHands(b) \/ InChannel(b) \/ InList(b))'
      BY <1>0, <3>1, <3>6, <3>7, <3>8 DEF OwnInv
    <3>11. (/\ \A b \in Buffers : ~(InHands(b) /\ InChannel(b))
            /\ \A b \in Buffers : ~(InHands(b) /\ InList(b))
            /\ \A b \in Buffers : ~(InChannel(b) /\ InList(b)))'
      BY <1>0, <3>2, <3>3, <3>6, <3>7, <3>8 DEF OwnInv
    <3>12. ASSUME NEW u \in Threads
           PROVE  /\ wpc'[u] \in {"read", "compress", "send"} => workBuf'[u] \in Buffers
                  /\ wpc'[u] \in {"absent", "write"} => workBuf'[u] = NoBuf
                  /\ wpc'[u] = "accept" /\ ~is_on_error' => workBuf'[u] = NoBuf
      <4>1. CASE u = t
        BY <3>1, <3>5, <4>1 DEF TypeInv
      <4>2. CASE u # t
        <5>1. wpc'[u] = wpc[u] /\ workBuf'[u] = workBuf[u]
          BY <3>1, <3>5, <4>2 DEF TypeInv
        <5> QED BY <3>1, <5>1 DEF OwnInv
      <4> QED BY <4>1, <4>2
    <3>13. Distinct(work_chan.list)' /\ Distinct(dataBufList)'
      BY <1>b, <3>1, <3>4
    <3> QED BY <1>0, <3>9, <3>10, <3>11, <3>12, <3>13 DEF OwnInv
  <2>7. CASE WriteBlock(t) \/ WriteFails(t)
    <3> DEFINE c == Head(dataBufList)
    <3>1. /\ wpc[t] = "write" /\ dataBufList # <<>>
          /\ \E place \in {"send", "raise"} : wpc' = [wpc EXCEPT ![t] = place]
          /\ workBuf' = [workBuf EXCEPT ![t] = c]
          /\ dataBufList' = Tail(dataBufList)
          /\ work_chan' = work_chan /\ is_on_error' = is_on_error /\ mpc' = mpc
      BY <2>7 DEF WriteBlock, WriteFails, IsNext, CheckFails
    <3>2. /\ Distinct(Tail(dataBufList))
          /\ In(c, dataBufList)
          /\ c \in Buffers
          /\ \A b : In(b, Tail(dataBufList)) <=> In(b, dataBufList) /\ b # c
      BY <1>b, <3>1, InPopped
    <3> HIDE DEF c
    <3>3. workBuf[t] = NoBuf
      BY <3>1 DEF OwnInv
    <3>4. workBuf'[t] = c /\ \A u \in Threads : u # t => workBuf'[u] = workBuf[u]
      BY <3>1 DEF TypeInv
    <3>5. InList(c) /\ ~InHands(c) /\ ~InChannel(c)
      BY <3>2 DEF OwnInv, InList
    <3>6. \A b : InList(b)' <=> InList(b) /\ b # c
      BY <3>1, <3>2 DEF InList
    <3>7. \A b : InChannel(b)' <=> InChannel(b)
      BY <3>1 DEF InChannel
    <3>8. \A b \in Buffers : InHands(b)' <=> InHands(b) \/ b = c
      <4> SUFFICES ASSUME NEW b \in Buffers PROVE InHands(b)' <=> InHands(b) \/ b = c
        OBVIOUS
      <4>1. ASSUME InHands(b)' PROVE InHands(b) \/ b = c
        BY <1>0, <3>4, <4>1 DEF InHands
      <4>2. ASSUME InHands(b) PROVE InHands(b)'
        <5>1. PICK u \in Threads : workBuf[u] = b
          BY <4>2 DEF InHands
        <5>2. u # t
          BY <1>a, <3>3, <5>1
        <5> QED BY <1>0, <3>4, <5>1, <5>2 DEF InHands
      <4>3. b = c => InHands(b)'
        BY <1>0, <3>4 DEF InHands
      <4> QED BY <4>1, <4>2, <4>3
    <3>9. (\A u, v \in Threads : u # v /\ workBuf[u] # NoBuf => workBuf[u] # workBuf[v])'
      <4>0. \A u \in Threads : u # t => workBuf[u] # c
        BY <3>5 DEF InHands
      <4> SUFFICES ASSUME NEW u \in Threads, NEW v \in Threads, u # v, workBuf'[u] # NoBuf
                   PROVE  workBuf'[u] # workBuf'[v]
        BY <1>0
      <4>1. CASE u = t
        BY <3>4, <4>0, <4>1
      <4>2. CASE v = t
        BY <3>4, <4>0, <4>2
      <4>3. CASE u # t /\ v # t
        BY <3>4, <4>3 DEF OwnInv
      <4> QED BY <4>1, <4>2, <4>3
    <3>10. (~is_on_error /\ mpc # "done" =>
              \A b \in Buffers : InHands(b) \/ InChannel(b) \/ InList(b))'
      BY <1>0, <3>1, <3>6, <3>7, <3>8 DEF OwnInv
    <3>11. (/\ \A b \in Buffers : ~(InHands(b) /\ InChannel(b))
            /\ \A b \in Buffers : ~(InHands(b) /\ InList(b))
            /\ \A b \in Buffers : ~(InChannel(b) /\ InList(b)))'
      BY <1>0, <3>2, <3>5, <3>6, <3>7, <3>8 DEF OwnInv
    <3>12. ASSUME NEW u \in Threads
           PROVE  /\ wpc'[u] \in {"read", "compress", "send"} => workBuf'[u] \in Buffers
                  /\ wpc'[u] \in {"absent", "write"} => workBuf'[u] = NoBuf
                  /\ wpc'[u] = "accept" /\ ~is_on_error' => workBuf'[u] = NoBuf
      <4>1. CASE u = t
        BY <3>1, <3>2, <3>4, <4>1 DEF TypeInv
      <4>2. CASE u # t
        <5>1. wpc'[u] = wpc[u] /\ workBuf'[u] = workBuf[u]
          BY <3>1, <3>4, <4>2 DEF TypeInv
        <5> QED BY <3>1, <5>1 DEF OwnInv
      <4> QED BY <4>1, <4>2
    <3>13. Distinct(work_chan.list)' /\ Distinct(dataBufList)'
      BY <1>b, <3>1, <3>2
    <3> QED BY <1>0, <3>9, <3>10, <3>11, <3>12, <3>13 DEF OwnInv
  <2>8. CASE WriteIsOver(t)
    <3>1. /\ wpc[t] = "write"
          /\ wpc' = [wpc EXCEPT ![t] = "accept"] /\ workBuf' = workBuf
          /\ work_chan'.list = work_chan.list
          /\ dataBufList' = dataBufList /\ is_on_error' = is_on_error /\ mpc' = mpc
      BY <2>8 DEF WriteIsOver
    <3>2. workBuf[t] = NoBuf
      BY <3>1 DEF OwnInv
    <3> QED BY <1>0, <3>1, <3>2, OwnMove
  <2>9. CASE SendBack(t)
    <3>1. CASE work_chan.closed
      <4>1. /\ wpc' = [wpc EXCEPT ![t] = "raise"] /\ workBuf' = workBuf
            /\ work_chan'.list = work_chan.list
            /\ dataBufList' = dataBufList /\ is_on_error' = is_on_error /\ mpc' = mpc
        BY <2>9, <3>1 DEF SendBack, CheckFails
      <4> QED BY <1>0, <4>1, OwnMove
    <3>2. CASE ~work_chan.closed
      <4> DEFINE c == workBuf[t]
      <4>1. /\ wpc[t] = "send" /\ wpc' = [wpc EXCEPT ![t] = "write"]
            /\ workBuf' = [workBuf EXCEPT ![t] = NoBuf]
            /\ dataBufList' = dataBufList /\ is_on_error' = is_on_error /\ mpc' = mpc
            /\ work_chan' \in Sent(work_chan, c)
        BY <2>9, <3>2 DEF SendBack
      <4>2. c \in Buffers
        BY <4>1 DEF OwnInv
      <4>3. InHands(c) /\ ~InChannel(c) /\ ~InList(c)
        BY <4>2 DEF OwnInv, InHands
      <4>4. work_chan'.list = Append(work_chan.list, c)
        <5>1. work_chan \in Channels(Buffers, Threads)
          BY DEF TypeInv
        <5> HIDE DEF c
        <5> QED BY <4>1, <4>2, <5>1, SentChannel
      <4>5. /\ Distinct(work_chan'.list)
            /\ \A b : In(b, work_chan'.list) <=> In(b, work_chan.list) \/ b = c
        <5>1. ~In(c, work_chan.list)
          BY <4>3 DEF InChannel
        <5> HIDE DEF c
        <5> QED BY <1>b, <4>2, <4>4, <5>1, InAppended
      <4> HIDE DEF c
      <4>6. workBuf'[t] = NoBuf /\ \A u \in Threads : u # t => workBuf'[u] = workBuf[u]
        BY <4>1 DEF TypeInv
      <4>7. \A b : InChannel(b)' <=> InChannel(b) \/ b = c
        BY <4>5 DEF InChannel
      <4>8. \A b : InList(b)' <=> InList(b)
        BY <4>1 DEF InList
      <4>9. \A b \in Buffers : InHands(b)' <=> InHands(b) /\ b # c
        <5> SUFFICES ASSUME NEW b \in Buffers PROVE InHands(b)' <=> InHands(b) /\ b # c
          OBVIOUS
        <5>1. ASSUME InHands(b)' PROVE InHands(b) /\ b # c
          <6>1. PICK u \in Threads : workBuf'[u] = b
            BY <1>0, <5>1 DEF InHands
          <6>2. u # t /\ workBuf[u] = b
            BY <1>a, <4>6, <6>1
          <6>3. b # c
            BY <1>a, <6>2 DEF OwnInv, c
          <6> QED BY <6>2, <6>3 DEF InHands
        <5>2. ASSUME InHands(b), b # c PROVE InHands(b)'
          <6>1. PICK u \in Threads : workBuf[u] = b
            BY <5>2 DEF InHands
          <6>2. u # t
            BY <5>2, <6>1 DEF c
          <6> QED BY <1>0, <4>6, <6>1, <6>2 DEF InHands
        <5> QED BY <5>1, <5>2
      <4>10. (\A u, v \in Threads : u # v /\ workBuf[u] # NoBuf => workBuf[u] # workBuf[v])'
        <5> SUFFICES ASSUME NEW u \in Threads, NEW v \in Threads, u # v, workBuf'[u] # NoBuf
                     PROVE  workBuf'[u] # workBuf'[v]
          BY <1>0
        <5>1. u # t
          BY <4>6
        <5> QED BY <4>6, <5>1 DEF OwnInv
      <4>11. (~is_on_error /\ mpc # "done" =>
                \A b \in Buffers : InHands(b) \/ InChannel(b) \/ InList(b))'
        BY <1>0, <4>1, <4>7, <4>8, <4>9 DEF OwnInv
      <4>12. (/\ \A b \in Buffers : ~(InHands(b) /\ InChannel(b))
              /\ \A b \in Buffers : ~(InHands(b) /\ InList(b))
              /\ \A b \in Buffers : ~(InChannel(b) /\ InList(b)))'
        BY <1>0, <4>2, <4>3, <4>7, <4>8, <4>9 DEF OwnInv
      <4>13. ASSUME NEW u \in Threads
             PROVE  /\ wpc'[u] \in {"read", "compress", "send"} => workBuf'[u] \in Buffers
                    /\ wpc'[u] \in {"absent", "write"} => workBuf'[u] = NoBuf
                    /\ wpc'[u] = "accept" /\ ~is_on_error' => workBuf'[u] = NoBuf
        <5>1. CASE u = t
          BY <4>1, <4>6, <5>1 DEF TypeInv
        <5>2. CASE u # t
          <6>1. wpc'[u] = wpc[u] /\ workBuf'[u] = workBuf[u]
            BY <4>1, <4>6, <5>2 DEF TypeInv
          <6> QED BY <4>1, <6>1 DEF OwnInv
        <5> QED BY <5>1, <5>2
      <4>14. Distinct(work_chan.list)' /\ Distinct(dataBufList)'
        BY <1>b, <4>1, <4>5
      <4> QED BY <1>0, <4>10, <4>11, <4>12, <4>13, <4>14 DEF OwnInv
    <3> QED BY <3>1, <3>2
  <2>10. CASE OnError(t)
    <3>1. /\ workBuf' = workBuf /\ dataBufList' = dataBufList /\ is_on_error'
          /\ \/ work_chan'.list = work_chan.list
             \/ work_chan.list # <<>> /\ work_chan'.list = Tail(work_chan.list)
      BY <2>10, OnErrorOfThread DEF onErrorLeaves
    <3>2. PICK place \in {"close", "clear", "accept", "end"} : wpc' = [wpc EXCEPT ![t] = place]
      BY <2>10, OnErrorOfThread
    <3>3. ASSUME NEW u \in Threads
          PROVE  /\ wpc'[u] \in {"read", "compress", "send"} => workBuf[u] \in Buffers
                 /\ wpc'[u] \in {"absent", "write"} => workBuf[u] = NoBuf
      <4>1. CASE u = t
        BY <3>2, <4>1 DEF TypeInv
      <4>2. CASE u # t
        <5>1. wpc'[u] = wpc[u]
          BY <3>2, <4>2 DEF TypeInv
        <5> QED BY <5>1 DEF OwnInv
      <4> QED BY <4>1, <4>2
    <3> QED BY <1>0, <3>1, <3>3, OwnCleared
  <2>11. CASE ThreadEnd(t)
    <3>1. /\ wpc' = [wpc EXCEPT ![t] = "exited"] /\ workBuf' = workBuf
          /\ work_chan'.list = work_chan.list
          /\ dataBufList' = dataBufList /\ is_on_error' = is_on_error /\ mpc' = mpc
      BY <2>11 DEF ThreadEnd
    <3> QED BY <1>0, <3>1, OwnMove
  <2> QED BY <1>5, <2>1, <2>2, <2>3, <2>4, <2>5, <2>6, <2>7, <2>8, <2>9, <2>10, <2>11
          DEF ThreadStep
<1>6. CASE WakeForNothing
  <2>1. work_chan'.list = work_chan.list
    BY <1>6 DEF WakeForNothing, TypeInv, Channels
  <2>2. UNCHANGED <<wpc, workBuf, dataBufList, is_on_error, mpc>>
    BY <1>6 DEF WakeForNothing
  <2> QED BY <1>c, <2>1, <2>2
<1>7. CASE Terminated
  <2>1. UNCHANGED <<wpc, workBuf, dataBufList, is_on_error, mpc, work_chan>>
    BY <1>7 DEF Terminated, vars
  <2> QED BY <1>c, <2>1
<1> QED BY <1>1, <1>2, <1>3, <1>4, <1>5, <1>6, <1>7 DEF Next, MainStep

-----------------------------------------------------------------------------
(***************************************************************************)
(* The blocks in the buffers.                                              *)
(***************************************************************************)

\* What the blocks are does not change during the call.
LEMMA BlocksAreFixed ==
  ASSUME streamSize' = streamSize
  PROVE  /\ \A k : Block(k)' = Block(k)
         /\ \A k : Code(k)' = Code(k)
         /\ \A k : Block(k).index = k
BY DEF Block, Code

\* No block is read when the call begins.
LEMMA BlocksInit == Init => BlockInv
<1> SUFFICES ASSUME Init PROVE BlockInv
  OBVIOUS
<1>1. /\ curReadBlockIndex = 0 /\ curWriteBlockIndex = 0
      /\ dict = <<>> /\ dataBufList = <<>> /\ out = <<>>
      /\ \A t \in Threads : wpc[t] = "absent"
  BY DEF Init, BlockInit
<1>2. streamSize \in Nat
  BY TypeInit DEF TypeInv
<1>3. BlockCount \in Nat
  BY <1>2, BlockBounds
<1>4. Len(out) = 0 /\ Len(dataBufList) = 0
  BY <1>1, EmptySeq
<1>5. \A b : ~Live(b)
  BY <1>1, <1>4 DEF Live, InList, In
<1>6. ASSUME 0 < BlockCount
      PROVE  Code(0 + 1).dict = <<>>
  <2>1. 0 * BlockSize = 0 /\ DictSize \in Nat
    BY BlockAssumption, SMT
  <2>2. Code(0 + 1).dict = Bytes(IF 0 * BlockSize >= DictSize THEN 0 * BlockSize - DictSize
                                                             ELSE 0, 0 * BlockSize)
    BY <1>2, <1>6, CodeOf
  <2>3. Code(0 + 1).dict = Bytes(0, 0)
    BY <2>1, <2>2
  <2>4. Bytes(0, 0) \in Seq(Int) /\ Len(Bytes(0, 0)) = 0
    BY BytesOf
  <2> QED BY <2>3, <2>4, EmptySeq
<1>7. \A k \in Nat : k = curReadBlockIndex /\ k < BlockCount => dict = Code(k + 1).dict
  BY <1>1, <1>6
<1>8. Sorted
  BY <1>4 DEF Sorted
<1> QED BY <1>1, <1>3, <1>4, <1>5, <1>7, <1>8 DEF BlockInv

\* No thread has a new block, and those there are stay where they are.
LEMMA BlockQuiet ==
  ASSUME BlockInv, streamSize' = streamSize, Threads' = Threads, Buffers' = Buffers,
         BlockCount' = BlockCount,
         UNCHANGED <<curReadBlockIndex, curWriteBlockIndex, dict, dataBufList, out>>,
         \A b \in Buffers : Live(b) => bufs'[b] = bufs[b],
         dataBufList \in Seq(Buffers),
         \A t \in Threads : wpc'[t] = "compress" => wpc[t] = "compress" /\ workBuf'[t] = workBuf[t]
  PROVE  BlockInv'
<1>1. \A b : Live(b)' => Live(b)
  BY DEF Live, InList
<1>2. Sorted'
  <2>1. \A i \in 1..Len(dataBufList) : dataBufList[i] \in Buffers /\ Live(dataBufList[i])
    BY ElementOfSeq DEF Live, InList, In
  <2>2. \A i \in 1..Len(dataBufList) : bufs'[dataBufList[i]] = bufs[dataBufList[i]]
    BY <2>1
  <2> QED BY <2>2 DEF BlockInv, Sorted
<1>3. \A k : Block(k)' = Block(k) /\ Code(k)' = Code(k)
  BY BlocksAreFixed
<1>4. (\A b \in Buffers : Live(b) =>
         \E k \in curWriteBlockIndex..(curReadBlockIndex - 1) : bufs[b] = Block(k))'
  <2> SUFFICES ASSUME NEW b \in Buffers, Live(b)'
               PROVE  \E k \in curWriteBlockIndex..(curReadBlockIndex - 1) : bufs'[b] = Block(k)'
    OBVIOUS
  <2>1. Live(b) /\ bufs'[b] = bufs[b]
    BY <1>1
  <2> QED BY <1>3, <2>1 DEF BlockInv
<1>5. (\A b, c \in Buffers : Live(b) /\ Live(c) /\ b # c => bufs[b].index # bufs[c].index)'
  BY <1>1 DEF BlockInv
<1>6. (\A k \in Nat : k = curReadBlockIndex /\ k < BlockCount => dict = Code(k + 1).dict)'
  BY <1>3 DEF BlockInv
<1> QED BY <1>2, <1>4, <1>5, <1>6 DEF BlockInv

\* The first of the list has the least index.
LEMMA SortedTail ==
  ASSUME Sorted, dataBufList \in Seq(Buffers), dataBufList # <<>>,
         dataBufList' = Tail(dataBufList), bufs' = bufs
  PROVE  Sorted'
<1>1. /\ Len(dataBufList) \in Nat \ {0}
      /\ Len(dataBufList') = Len(dataBufList) - 1
      /\ \A i \in 1..(Len(dataBufList) - 1) : dataBufList'[i] = dataBufList[i + 1]
  BY HeadAndTail
<1> SUFFICES ASSUME NEW i \in 1..Len(dataBufList'), NEW j \in 1..Len(dataBufList'), i < j
             PROVE  bufs'[dataBufList'[i]].index < bufs'[dataBufList'[j]].index
  BY DEF Sorted
<1>2. i \in 1..(Len(dataBufList) - 1) /\ j \in 1..(Len(dataBufList) - 1)
  BY <1>1
<1>3. i + 1 \in 1..Len(dataBufList) /\ j + 1 \in 1..Len(dataBufList) /\ i + 1 < j + 1
  BY <1>1, <1>2
<1>4. bufs[dataBufList[i + 1]].index < bufs[dataBufList[j + 1]].index
  BY <1>3 DEF Sorted
<1> QED BY <1>1, <1>2, <1>4

\* The buffers keep the blocks that are read and not written, in order.
LEMMA BlockStep ==
  ASSUME TypeInv, ErrorInv, CountInv, OwnInv, BlockInv, Next
  PROVE  BlockInv'
<1>0. /\ streamSize' = streamSize /\ threadNum' = threadNum
      /\ Threads' = Threads /\ Buffers' = Buffers
      /\ BlockCount' = BlockCount
  BY CallIsFixed
<1> USE DEF callVars, mainVars, chans, readSide, writeSide
<1>a. NoBuf \notin Buffers
  BY ParallelAssumption DEF Buffers
<1>b. dataBufList \in Seq(Buffers)
  BY DEF TypeInv
<1>c. ASSUME UNCHANGED <<curReadBlockIndex, curWriteBlockIndex, dict, dataBufList, out, bufs>>,
             \A t \in Threads :
               wpc'[t] = "compress" => wpc[t] = "compress" /\ workBuf'[t] = workBuf[t]
      PROVE  BlockInv'
  BY <1>0, <1>b, <1>c, BlockQuiet
<1>d. ASSUME UNCHANGED <<curReadBlockIndex, curWriteBlockIndex, dict, dataBufList, out, bufs>>,
             NEW t \in Threads, NEW place, place # "compress", wpc' = [wpc EXCEPT ![t] = place],
             workBuf' = workBuf
      PROVE  BlockInv'
  <2>1. \A u \in Threads :
          wpc'[u] = "compress" => wpc[u] = "compress" /\ workBuf'[u] = workBuf[u]
    BY <1>d DEF TypeInv
  <2> QED BY <1>c, <1>d, <2>1
<1>e. /\ curReadBlockIndex \in Nat /\ curWriteBlockIndex \in Nat /\ BlockCount \in Nat
      /\ streamSize \in Nat
  BY BlockBounds DEF TypeInv
<1>f. \A k : Block(k)' = Block(k) /\ Code(k)' = Code(k) /\ Block(k).index = k
  BY <1>0, BlocksAreFixed
<1>1. CASE OpenFails \/ StartFails \/ WorkIsOver \/ AcceptEnd \/ Return
  <2>1. /\ UNCHANGED <<curReadBlockIndex, curWriteBlockIndex, dict, dataBufList, out, bufs>>
        /\ wpc' = wpc /\ workBuf' = workBuf
    BY <1>1 DEF OpenFails, StartFails, WorkIsOver, AcceptEnd, Return
  <2> QED BY <1>c, <2>1
<1>2. CASE StartThread
  <2>1. /\ UNCHANGED <<curReadBlockIndex, curWriteBlockIndex, dict, dataBufList, out, bufs>>
        /\ wpc' = [wpc EXCEPT ![turn] = "accept"] /\ workBuf' = workBuf
    BY <1>2 DEF StartThread
  <2>2. \A u \in Threads :
          wpc'[u] = "compress" => wpc[u] = "compress" /\ workBuf'[u] = workBuf[u]
    BY <2>1 DEF TypeInv
  <2> QED BY <1>c, <2>1, <2>2
<1>3. CASE OnError(NoThread)
  <2>1. /\ UNCHANGED <<curReadBlockIndex, curWriteBlockIndex, dict, dataBufList, out, bufs>>
        /\ wpc' = wpc /\ workBuf' = workBuf
    BY <1>3, OnErrorOfCaller DEF onErrorLeaves
  <2> QED BY <1>c, <2>1
<1>4. ASSUME NEW t \in Threads, ThreadStep(t)
      PROVE  BlockInv'
  <2>1. CASE Accept(t)
    <3>1. UNCHANGED <<curReadBlockIndex, curWriteBlockIndex, dict, dataBufList, out, bufs>>
      BY <2>1, AcceptOfThread
    <3>2. \A u \in Threads :
            wpc'[u] = "compress" => wpc[u] = "compress" /\ workBuf'[u] = workBuf[u]
      BY <2>1, AcceptOfThread DEF TypeInv
    <3> QED BY <1>c, <3>1, <3>2
  <2>2. CASE NothingToRead(t)
    <3>1. /\ UNCHANGED <<curReadBlockIndex, curWriteBlockIndex, dict, dataBufList, out, bufs>>
          /\ wpc' = [wpc EXCEPT ![t] = "end"] /\ workBuf' = workBuf
      BY <2>2 DEF NothingToRead
    <3> QED BY <1>d, <3>1
  <2>3. CASE ReadBlock(t)
    <3> DEFINE c == workBuf[t]
               n == curReadBlockIndex
    <3>1. /\ wpc[t] = "read" /\ n < BlockCount
          /\ curReadBlockIndex' = n + 1
          /\ bufs' = [bufs EXCEPT ![c] = Block(n)]
          /\ n + 1 < BlockCount => dict' = Code(n + 2).dict
          /\ wpc' = [wpc EXCEPT ![t] = "compress"]
      BY <2>3, ReadOfBlock
    <3>2. UNCHANGED <<workBuf, curWriteBlockIndex, dataBufList, out>>
      BY <2>3 DEF ReadBlock
    <3>3. c \in Buffers
      BY <3>1 DEF OwnInv
    <3>4. ~Live(c)
      <4>1. ~InList(c)
        BY <3>3 DEF OwnInv, InHands
      <4>2. \A u \in Threads : wpc[u] = "compress" => workBuf[u] # c
        BY <1>a, <3>1, <3>3 DEF OwnInv
      <4> QED BY <4>1, <4>2 DEF Live
    <3> HIDE DEF c, n
    <3>5. \A b : Live(b)' => Live(b) \/ b = c
      BY <1>0, <3>1, <3>2 DEF Live, InList, TypeInv, c
    <3>6. bufs'[c] = Block(n) /\ \A b \in Buffers : b # c => bufs'[b] = bufs[b]
      BY <3>1, <3>3 DEF TypeInv
    <3>7. n \in Nat /\ curWriteBlockIndex <= n /\ n + 1 <= BlockCount
      BY <1>e, <3>1 DEF n, BlockInv
    <3>8. ASSUME NEW b \in Buffers, Live(b)
          PROVE  bufs'[b] = bufs[b] /\ \E k \in curWriteBlockIndex..(n - 1) : bufs[b] = Block(k)
      BY <3>4, <3>6, <3>8 DEF BlockInv, n
    <3>9. (\A b \in Buffers : Live(b) =>
             \E k \in curWriteBlockIndex..(curReadBlockIndex - 1) : bufs[b] = Block(k))'
      <4> SUFFICES ASSUME NEW b \in Buffers, Live(b)'
                   PROVE  \E k \in curWriteBlockIndex'..(curReadBlockIndex' - 1) :
                            bufs'[b] = Block(k)'
        BY <1>0
      <4>1. CASE b = c
        <5>1. n \in curWriteBlockIndex'..(curReadBlockIndex' - 1)
          BY <1>e, <3>1, <3>2, <3>7
        <5> QED BY <1>f, <3>6, <4>1, <5>1
      <4>2. CASE b # c
        <5>1. Live(b)
          BY <3>5, <4>2
        <5>2. PICK k \in curWriteBlockIndex..(n - 1) : bufs[b] = Block(k)
          BY <3>8, <5>1
        <5>3. k \in curWriteBlockIndex'..(curReadBlockIndex' - 1)
          BY <1>e, <3>1, <3>2, <3>7
        <5> QED BY <1>f, <3>8, <5>1, <5>2, <5>3
      <4> QED BY <4>1, <4>2
    <3>10. (\A b, d \in Buffers : Live(b) /\ Live(d) /\ b # d => bufs[b].index # bufs[d].index)'
      <4> SUFFICES ASSUME NEW b \in Buffers, NEW d \in Buffers, Live(b)', Live(d)', b # d
                   PROVE  bufs'[b].index # bufs'[d].index
        BY <1>0
      <4>1. ASSUME NEW a \in Buffers, Live(a)
            PROVE  bufs'[a].index # n
        <5>1. PICK k \in curWriteBlockIndex..(n - 1) : bufs[a] = Block(k)
          BY <3>8, <4>1
        <5>2. bufs'[a].index = k
          BY <1>f, <3>8, <4>1, <5>1
        <5> QED BY <1>e, <3>7, <5>2
      <4>2. bufs'[c].index = n
        BY <1>f, <3>6
      <4>3. CASE b = c
        BY <3>5, <4>1, <4>2, <4>3
      <4>4. CASE d = c
        BY <3>5, <4>1, <4>2, <4>4
      <4>5. CASE b # c /\ d # c
        <5>1. Live(b) /\ Live(d)
          BY <3>5, <4>5
        <5> QED BY <3>8, <5>1 DEF BlockInv
      <4> QED BY <4>3, <4>4, <4>5
    <3>11. Sorted'
      <4>1. \A i \in 1..Len(dataBufList) : dataBufList[i] \in Buffers /\ Live(dataBufList[i])
        BY <1>b, ElementOfSeq DEF Live, InList, In
      <4>2. \A i \in 1..Len(dataBufList) : bufs'[dataBufList[i]] = bufs[dataBufList[i]]
        BY <3>8, <4>1
      <4> QED BY <3>2, <4>2 DEF BlockInv, Sorted
    <3>12. (\A k \in Nat : k = curReadBlockIndex /\ k < BlockCount => dict = Code(k + 1).dict)'
      <4> SUFFICES ASSUME NEW k \in Nat, k = curReadBlockIndex', k < BlockCount'
                   PROVE  dict' = Code(k + 1)'.dict
        OBVIOUS
      <4>1. k = n + 1 /\ n + 1 < BlockCount /\ k + 1 = n + 2
        BY <1>0, <3>1, <3>7
      <4> QED BY <1>f, <3>1, <4>1
    <3>13. /\ curWriteBlockIndex' = Len(out')
           /\ curWriteBlockIndex' <= curReadBlockIndex'
           /\ curReadBlockIndex' <= BlockCount'
      BY <1>0, <1>e, <3>1, <3>2, <3>7 DEF BlockInv
    <3> QED BY <3>9, <3>10, <3>11, <3>12, <3>13 DEF BlockInv
  <2>4. CASE ReadFails(t)
    <3>1. /\ UNCHANGED <<curReadBlockIndex, curWriteBlockIndex, dict, dataBufList, out, bufs>>
          /\ wpc' = [wpc EXCEPT ![t] = "raise"] /\ workBuf' = workBuf
      BY <2>4 DEF ReadFails, CheckFails
    <3> QED BY <1>d, <3>1
  <2>5. CASE CompressFails(t)
    <3>1. /\ UNCHANGED <<curReadBlockIndex, curWriteBlockIndex, dict, dataBufList, out, bufs>>
          /\ wpc' = [wpc EXCEPT ![t] = "raise"] /\ workBuf' = workBuf
      BY <2>5 DEF CompressFails, CheckFails
    <3> QED BY <1>d, <3>1
  <2>6. CASE Insert(t)
    <3> DEFINE c == workBuf[t]
    <3>1. /\ wpc[t] = "compress" /\ wpc' = [wpc EXCEPT ![t] = "write"]
          /\ workBuf' = [workBuf EXCEPT ![t] = NoBuf]
          /\ UNCHANGED <<curReadBlockIndex, curWriteBlockIndex, dict, out, bufs>>
      BY <2>6 DEF Insert
    <3>2. c \in Buffers /\ Live(c) /\ ~InList(c)
      BY <3>1 DEF OwnInv, Live, InHands
    <3>3. PICK n \in 0..Len(dataBufList) :
            /\ \A i \in 1..n : bufs[dataBufList[i]].index < bufs[c].index
            /\ n < Len(dataBufList) => ~(bufs[dataBufList[n + 1]].index < bufs[c].index)
            /\ Len(dataBufList') = Len(dataBufList) + 1
            /\ dataBufList'[n + 1] = c
            /\ \A i \in 1..n : dataBufList'[i] = dataBufList[i]
            /\ \A i \in (n + 2)..(Len(dataBufList) + 1) : dataBufList'[i] = dataBufList[i - 1]
      BY <2>6, <3>2, InsertOfThread
    <3>4. Len(dataBufList) \in Nat
      BY <1>b, LenProperties
    <3> HIDE DEF c
    <3>5. \A b : In(b, dataBufList') <=> In(b, dataBufList) \/ b = c
      <4>1. ~In(c, dataBufList) /\ Distinct(dataBufList)
        BY <3>2 DEF InList, OwnInv
      <4> QED BY <3>3, <3>4, <4>1, InInserted
    <3>6. \A b : Live(b)' => Live(b)
      <4> SUFFICES ASSUME NEW b, Live(b)' PROVE Live(b)
        OBVIOUS
      <4>1. CASE InList(b)'
        <5>1. In(b, dataBufList) \/ b = c
          BY <3>5, <4>1 DEF InList
        <5> QED BY <3>2, <5>1 DEF Live, InList
      <4>2. CASE ~InList(b)'
        <5>1. PICK u \in Threads : wpc'[u] = "compress" /\ workBuf'[u] = b
          BY <1>0, <4>2 DEF Live
        <5>2. wpc[u] = "compress" /\ workBuf[u] = b
          BY <3>1, <5>1 DEF TypeInv
        <5> QED BY <5>2 DEF Live
      <4> QED BY <4>1, <4>2
    <3>7. (\A b \in Buffers : Live(b) =>
             \E k \in curWriteBlockIndex..(curReadBlockIndex - 1) : bufs[b] = Block(k))'
      <4> SUFFICES ASSUME NEW b \in Buffers, Live(b)'
                   PROVE  \E k \in curWriteBlockIndex'..(curReadBlockIndex' - 1) :
                            bufs'[b] = Block(k)'
        BY <1>0
      <4>1. \E k \in curWriteBlockIndex..(curReadBlockIndex - 1) : bufs[b] = Block(k)
        BY <3>6 DEF BlockInv
      <4> QED BY <1>f, <3>1, <4>1
    <3>8. (\A b, d \in Buffers : Live(b) /\ Live(d) /\ b # d => bufs[b].index # bufs[d].index)'
      BY <1>0, <3>1, <3>6 DEF BlockInv
    <3>9. Sorted'
      <4> DEFINE key(b) == bufs[b].index
      <4>1. \A b \in Buffers : key(b) \in Nat
        BY DEF TypeInv, BufContents
      <4>2. \A i \in 1..Len(dataBufList) :
              dataBufList[i] \in Buffers /\ Live(dataBufList[i]) /\ dataBufList[i] # c
        BY <1>b, <3>2, ElementOfSeq DEF Live, InList, In
      <4>3. \A i \in 1..Len(dataBufList) : key(dataBufList[i]) # key(c)
        BY <3>2, <4>2 DEF BlockInv
      <4>4. \A i \in 1..Len(dataBufList) : i <= n => key(dataBufList[i]) < key(c)
        <5> SUFFICES ASSUME NEW i \in 1..Len(dataBufList), i <= n
                     PROVE  key(dataBufList[i]) < key(c)
          OBVIOUS
        <5>1. i \in 1..n
          BY <3>4
        <5> QED BY <3>3, <5>1
      <4>5. \A i, j \in 1..Len(dataBufList) : i < j => key(dataBufList[i]) < key(dataBufList[j])
        BY DEF BlockInv, Sorted
      <4>6. \A i \in 1..Len(dataBufList) : key(dataBufList[i]) \in Nat
        BY <4>1, <4>2
      <4>7. key(c) \in Nat
        BY <3>2, <4>1
      <4>8. n < Len(dataBufList) => ~(key(dataBufList[n + 1]) < key(c))
        BY <3>3
      <4> HIDE DEF key
      <4>9. \A i \in 1..Len(dataBufList) : i > n => key(c) < key(dataBufList[i])
        <5> SUFFICES ASSUME NEW i \in 1..Len(dataBufList), i > n
                     PROVE  key(c) < key(dataBufList[i])
          OBVIOUS
        <5>1. n + 1 \in 1..Len(dataBufList) /\ n < Len(dataBufList)
          BY <3>4
        <5>2. key(c) < key(dataBufList[n + 1])
          BY <4>3, <4>6, <4>7, <4>8, <5>1
        <5>3. i = n + 1 \/ key(dataBufList[n + 1]) < key(dataBufList[i])
          BY <4>5, <5>1
        <5> QED BY <4>6, <4>7, <5>1, <5>2, <5>3
      <4>10. \A i \in 1..Len(dataBufList') :
               \/ i <= n /\ i \in 1..Len(dataBufList) /\ dataBufList'[i] = dataBufList[i]
               \/ i = n + 1 /\ dataBufList'[i] = c
               \/ /\ i > n + 1 /\ i - 1 \in 1..Len(dataBufList) /\ i - 1 > n
                  /\ dataBufList'[i] = dataBufList[i - 1]
        <5> SUFFICES ASSUME NEW i \in 1..Len(dataBufList')
                     PROVE  \/ i <= n /\ i \in 1..Len(dataBufList) /\ dataBufList'[i] = dataBufList[i]
                            \/ i = n + 1 /\ dataBufList'[i] = c
                            \/ /\ i > n + 1 /\ i - 1 \in 1..Len(dataBufList) /\ i - 1 > n
                               /\ dataBufList'[i] = dataBufList[i - 1]
          OBVIOUS
        <5>0. Len(dataBufList') = Len(dataBufList) + 1
          BY <3>3
        <5>1. CASE i <= n
          <6>1. i \in 1..n /\ i \in 1..Len(dataBufList)
            BY <3>4, <5>1
          <6> QED BY <3>3, <5>1, <6>1
        <5>2. CASE i = n + 1
          BY <3>3, <5>2
        <5>3. CASE i > n + 1
          <6>1. /\ i \in (n + 2)..(Len(dataBufList) + 1)
                /\ i - 1 \in 1..Len(dataBufList) /\ i - 1 > n
            BY <3>4, <5>0, <5>3
          <6> QED BY <3>3, <5>3, <6>1
        <5>4. n \in Nat /\ i \in Nat
          BY <3>4, <5>0
        <5> QED BY <5>1, <5>2, <5>3, <5>4
      <4> SUFFICES ASSUME NEW i \in 1..Len(dataBufList'), NEW j \in 1..Len(dataBufList'), i < j
                   PROVE  key(dataBufList'[i]) < key(dataBufList'[j])
        BY <3>1 DEF Sorted, key
      <4>11. n \in Nat /\ i \in Nat /\ j \in Nat
        BY <3>3, <3>4
      <4>12. CASE i <= n /\ i \in 1..Len(dataBufList) /\ dataBufList'[i] = dataBufList[i]
        <5>1. CASE j <= n /\ j \in 1..Len(dataBufList) /\ dataBufList'[j] = dataBufList[j]
          BY <4>5, <4>12, <5>1
        <5>2. CASE j = n + 1 /\ dataBufList'[j] = c
          BY <4>4, <4>12, <5>2
        <5>3. CASE /\ j > n + 1 /\ j - 1 \in 1..Len(dataBufList) /\ j - 1 > n
                   /\ dataBufList'[j] = dataBufList[j - 1]
          <6>1. i < j - 1
            BY <4>11, <4>12, <5>3
          <6> QED BY <4>5, <4>12, <5>3, <6>1
        <5> QED BY <4>10, <5>1, <5>2, <5>3
      <4>13. CASE i = n + 1 /\ dataBufList'[i] = c
        <5>1. /\ j > n + 1 /\ j - 1 \in 1..Len(dataBufList) /\ j - 1 > n
              /\ dataBufList'[j] = dataBufList[j - 1]
          BY <4>10, <4>11, <4>13
        <5> QED BY <4>9, <4>13, <5>1
      <4>14. CASE /\ i > n + 1 /\ i - 1 \in 1..Len(dataBufList) /\ i - 1 > n
                  /\ dataBufList'[i] = dataBufList[i - 1]
        <5>1. /\ j > n + 1 /\ j - 1 \in 1..Len(dataBufList) /\ j - 1 > n
              /\ dataBufList'[j] = dataBufList[j - 1]
          BY <4>10, <4>11, <4>14
        <5>2. i - 1 < j - 1
          BY <4>11
        <5> QED BY <4>5, <4>14, <5>1, <5>2
      <4> QED BY <4>10, <4>12, <4>13, <4>14
    <3>10. (\A k \in Nat : k = curReadBlockIndex /\ k < BlockCount => dict = Code(k + 1).dict)'
      BY <1>0, <1>f, <3>1 DEF BlockInv
    <3> QED BY <1>0, <3>1, <3>7, <3>8, <3>9, <3>10 DEF BlockInv
  <2>7. CASE WriteBlock(t) \/ WriteFails(t)
    <3> DEFINE c == Head(dataBufList)
    <3>1. /\ wpc[t] = "write" /\ dataBufList # <<>>
          /\ bufs[c].index = curWriteBlockIndex
          /\ \E place \in {"send", "raise"} : wpc' = [wpc EXCEPT ![t] = place]
          /\ workBuf' = [workBuf EXCEPT ![t] = c]
          /\ dataBufList' = Tail(dataBufList)
          /\ UNCHANGED <<curReadBlockIndex, dict, bufs>>
      BY <2>7 DEF WriteBlock, WriteFails, IsNext, CheckFails
    <3>2. /\ c \in Buffers /\ In(c, dataBufList)
          /\ \A b : In(b, Tail(dataBufList)) <=> In(b, dataBufList) /\ b # c
      BY <1>b, <3>1, InPopped DEF OwnInv
    <3>3. Sorted'
      BY <1>b, <3>1, SortedTail DEF BlockInv
    <3> HIDE DEF c
    <3>4. Live(c)
      BY <3>2 DEF Live, InList
    <3>5. \A b \in Buffers : Live(b)' => Live(b) /\ b # c
      <4> SUFFICES ASSUME NEW b \in Buffers, Live(b)' PROVE Live(b) /\ b # c
        OBVIOUS
      <4>1. CASE InList(b)'
        <5>1. In(b, dataBufList) /\ b # c
          BY <3>1, <3>2, <4>1 DEF InList
        <5> QED BY <5>1 DEF Live, InList
      <4>2. CASE ~InList(b)'
        <5>1. PICK u \in Threads : wpc'[u] = "compress" /\ workBuf'[u] = b
          BY <1>0, <4>2 DEF Live
        <5>2. u # t /\ wpc[u] = "compress" /\ workBuf[u] = b
          BY <3>1, <5>1 DEF TypeInv
        <5>3. InHands(b) /\ ~InList(b)
          BY <5>2 DEF InHands, OwnInv
        <5>4. b # c
          BY <3>2, <5>3 DEF InList
        <5> QED BY <5>2, <5>4 DEF Live
      <4> QED BY <4>1, <4>2
    <3>6. PICK m \in curWriteBlockIndex..(curReadBlockIndex - 1) : bufs[c] = Block(m)
      BY <3>2, <3>4 DEF BlockInv
    <3>7. m = curWriteBlockIndex /\ curWriteBlockIndex < curReadBlockIndex
      BY <1>e, <1>f, <3>1, <3>6
    <3>8. /\ curWriteBlockIndex' \in {curWriteBlockIndex, curWriteBlockIndex + 1}
          /\ curWriteBlockIndex' = Len(out')
          /\ curWriteBlockIndex' <= curReadBlockIndex'
      <4>1. CASE WriteBlock(t)
        <5>1. /\ curWriteBlockIndex' = curWriteBlockIndex + 1
              /\ out' = Append(out, [dict |-> bufs[c].dict, data |-> bufs[c].data])
          BY <4>1 DEF WriteBlock, c
        <5>2. [dict |-> bufs[c].dict, data |-> bufs[c].data] \in Codes
          BY <3>2 DEF TypeInv, BufContents, Codes
        <5>3. out \in Seq(Codes)
          BY DEF TypeInv
        <5>4. Len(out') = Len(out) + 1
          BY <5>1, <5>2, <5>3, AppendProperties
        <5> QED BY <1>e, <3>1, <3>7, <5>1, <5>4 DEF BlockInv
      <4>2. CASE WriteFails(t)
        <5>1. UNCHANGED <<curWriteBlockIndex, out>>
          BY <4>2 DEF WriteFails
        <5> QED BY <3>1, <5>1 DEF BlockInv
      <4> QED BY <2>7, <4>1, <4>2
    <3>9. (\A b \in Buffers : Live(b) =>
             \E k \in curWriteBlockIndex..(curReadBlockIndex - 1) : bufs[b] = Block(k))'
      <4> SUFFICES ASSUME NEW b \in Buffers, Live(b)'
                   PROVE  \E k \in curWriteBlockIndex'..(curReadBlockIndex' - 1) :
                            bufs'[b] = Block(k)'
        BY <1>0
      <4>1. Live(b) /\ b # c
        BY <3>5
      <4>2. PICK k \in curWriteBlockIndex..(curReadBlockIndex - 1) : bufs[b] = Block(k)
        BY <4>1 DEF BlockInv
      <4>3. bufs[b].index # bufs[c].index
        BY <3>2, <3>4, <4>1 DEF BlockInv
      <4>4. k # curWriteBlockIndex
        BY <1>f, <3>1, <4>2, <4>3
      <4>5. k \in curWriteBlockIndex'..(curReadBlockIndex' - 1)
        BY <1>e, <3>1, <3>8, <4>2, <4>4
      <4> QED BY <1>f, <3>1, <4>2, <4>5
    <3>10. (\A b, d \in Buffers : Live(b) /\ Live(d) /\ b # d => bufs[b].index # bufs[d].index)'
      BY <1>0, <3>1, <3>5 DEF BlockInv
    <3>11. (\A k \in Nat : k = curReadBlockIndex /\ k < BlockCount => dict = Code(k + 1).dict)'
      BY <1>0, <1>f, <3>1 DEF BlockInv
    <3>12. curReadBlockIndex' <= BlockCount'
      BY <1>0, <3>1 DEF BlockInv
    <3> QED BY <3>3, <3>8, <3>9, <3>10, <3>11, <3>12 DEF BlockInv
  <2>8. CASE WriteIsOver(t)
    <3>1. /\ UNCHANGED <<curReadBlockIndex, curWriteBlockIndex, dict, dataBufList, out, bufs>>
          /\ wpc' = [wpc EXCEPT ![t] = "accept"] /\ workBuf' = workBuf
      BY <2>8 DEF WriteIsOver
    <3> QED BY <1>d, <3>1
  <2>9. CASE SendBack(t)
    <3>1. CASE work_chan.closed
      <4>1. /\ UNCHANGED <<curReadBlockIndex, curWriteBlockIndex, dict, dataBufList, out, bufs>>
            /\ wpc' = [wpc EXCEPT ![t] = "raise"] /\ workBuf' = workBuf
        BY <2>9, <3>1 DEF SendBack, CheckFails
      <4> QED BY <1>d, <4>1
    <3>2. CASE ~work_chan.closed
      <4> DEFINE c == workBuf[t]
      <4>1. /\ UNCHANGED <<curReadBlockIndex, curWriteBlockIndex, dict, dataBufList, out>>
            /\ wpc[t] = "send" /\ wpc' = [wpc EXCEPT ![t] = "write"]
            /\ workBuf' = [workBuf EXCEPT ![t] = NoBuf]
            /\ bufs' = [bufs EXCEPT ![c] = EmptyBuf]
        BY <2>9, <3>2 DEF SendBack
      <4>2. c \in Buffers
        BY <4>1 DEF OwnInv
      <4>3. ~Live(c)
        <5>1. ~InList(c)
          BY <4>2 DEF OwnInv, InHands
        <5>2. \A u \in Threads : wpc[u] = "compress" => workBuf[u] # c
          BY <1>a, <4>1, <4>2 DEF OwnInv
        <5> QED BY <5>1, <5>2 DEF Live
      <4> HIDE DEF c
      <4>4. \A b \in Buffers : Live(b) => bufs'[b] = bufs[b]
        BY <4>1, <4>3 DEF TypeInv
      <4>5. \A u \in Threads :
              wpc'[u] = "compress" => wpc[u] = "compress" /\ workBuf'[u] = workBuf[u]
        BY <4>1 DEF TypeInv
      <4> QED BY <1>0, <1>b, <4>1, <4>4, <4>5, BlockQuiet
    <3> QED BY <3>1, <3>2
  <2>10. CASE OnError(t)
    <3>1. /\ UNCHANGED <<curReadBlockIndex, curWriteBlockIndex, dict, dataBufList, out, bufs>>
          /\ workBuf' = workBuf
      BY <2>10, OnErrorOfThread DEF onErrorLeaves
    <3>2. PICK place \in {"close", "clear", "accept", "end"} : wpc' = [wpc EXCEPT ![t] = place]
      BY <2>10, OnErrorOfThread
    <3> QED BY <1>d, <3>1, <3>2
  <2>11. CASE ThreadEnd(t)
    <3>1. /\ UNCHANGED <<curReadBlockIndex, curWriteBlockIndex, dict, dataBufList, out, bufs>>
          /\ wpc' = [wpc EXCEPT ![t] = "exited"] /\ workBuf' = workBuf
      BY <2>11 DEF ThreadEnd
    <3> QED BY <1>d, <3>1
  <2> QED BY <1>4, <2>1, <2>2, <2>3, <2>4, <2>5, <2>6, <2>7, <2>8, <2>9, <2>10, <2>11
          DEF ThreadStep
<1>5. CASE WakeForNothing
  <2>1. UNCHANGED <<curReadBlockIndex, curWriteBlockIndex, dict, dataBufList, out, bufs,
                    wpc, workBuf>>
    BY <1>5 DEF WakeForNothing
  <2> QED BY <1>c, <2>1
<1>6. CASE Terminated
  <2>1. UNCHANGED <<curReadBlockIndex, curWriteBlockIndex, dict, dataBufList, out, bufs,
                    wpc, workBuf>>
    BY <1>6 DEF Terminated, vars
  <2> QED BY <1>c, <2>1
<1> QED BY <1>1, <1>2, <1>3, <1>4, <1>5, <1>6 DEF Next, MainStep


-----------------------------------------------------------------------------
(***************************************************************************)
(* No block is lost as long as nothing failed.                             *)
(***************************************************************************)

\* Nothing is missing when the call begins.
LEMMA CompleteInit == Init => CompleteInv
<1> SUFFICES ASSUME Init PROVE CompleteInv
  OBVIOUS
<1>0. TypeInv
  BY TypeInit
<1>1. /\ curReadBlockIndex = 0 /\ curWriteBlockIndex = 0 /\ dataBufList = <<>>
      /\ \A t \in Threads : wpc[t] = "absent"
      /\ mpc = "wait" => threadNum = 0
  BY DEF Init
<1>2. ~IsNext
  BY <1>1 DEF IsNext
<1>3. mpc = "wait" => curReadBlockIndex >= BlockCount
  BY <1>0, <1>1 DEF TypeInv
<1>4. \A k \in curWriteBlockIndex..(curReadBlockIndex - 1) :
        \E b \in Buffers : Live(b) /\ bufs[b].index = k
  BY <1>1
<1> QED BY <1>1, <1>2, <1>3, <1>4 DEF CompleteInv

\* The first of the list is one that waits to be written.
LEMMA HeadIsLive ==
  ASSUME dataBufList \in Seq(Buffers), dataBufList # <<>>
  PROVE  Head(dataBufList) \in Buffers /\ Live(Head(dataBufList))
<1>1. Len(dataBufList) \in Nat \ {0} /\ Head(dataBufList) = dataBufList[1]
      /\ dataBufList[1] \in Buffers
  BY HeadAndTail
<1>2. 1 \in 1..Len(dataBufList)
  BY <1>1
<1> QED BY <1>1, <1>2 DEF Live, InList, In

\* No block is read or written, and no thread gives up one it has.
LEMMA CompleteQuiet ==
  ASSUME TypeInv, CompleteInv, ~Failing,
         Threads' = Threads, Buffers' = Buffers, BlockCount' = BlockCount,
         UNCHANGED <<curReadBlockIndex, curWriteBlockIndex, dataBufList>>,
         \A b \in Buffers : Live(b) => bufs'[b] = bufs[b],
         \A t \in Threads : wpc[t] = "compress" => wpc'[t] = "compress" /\ workBuf'[t] = workBuf[t],
         writeLocker' = NoThread => writeLocker = NoThread \/ ~IsNext,
         \A t \in Threads : wpc'[t] \in {"end", "exited"} =>
           wpc[t] \in {"end", "exited"} \/ curReadBlockIndex >= BlockCount,
         mpc' = "wait" => mpc = "wait" \/ curReadBlockIndex >= BlockCount
  PROVE  CompleteInv'
<1>1. \A b : Live(b) => Live(b)'
  BY DEF Live, InList
<1>2. dataBufList # <<>> => bufs'[Head(dataBufList)] = bufs[Head(dataBufList)]
  BY HeadIsLive DEF TypeInv
<1>3. IsNext' => IsNext
  BY <1>2 DEF IsNext
<1>4. (\A k \in curWriteBlockIndex..(curReadBlockIndex - 1) :
         \E b \in Buffers : Live(b) /\ bufs[b].index = k)'
  <2> SUFFICES ASSUME NEW k \in curWriteBlockIndex..(curReadBlockIndex - 1)
               PROVE  \E b \in Buffers : Live(b)' /\ bufs'[b].index = k
    OBVIOUS
  <2>1. PICK b \in Buffers : Live(b) /\ bufs[b].index = k
    BY DEF CompleteInv
  <2> QED BY <1>1, <2>1
<1>5. (writeLocker = NoThread => ~IsNext)'
  BY <1>3 DEF CompleteInv
<1>6. (\A t \in Threads : wpc[t] \in {"end", "exited"} => curReadBlockIndex >= BlockCount)'
  BY DEF CompleteInv
<1>7. (mpc = "wait" => curReadBlockIndex >= BlockCount)'
  BY DEF CompleteInv
<1> QED BY <1>4, <1>5, <1>6, <1>7 DEF CompleteInv

\* Until something fails, every block that is read is written or in a buffer.
LEMMA CompleteStep ==
  ASSUME TypeInv, ErrorInv, CountInv, OwnInv, LockInv, BlockInv, CompleteInv, Next
  PROVE  CompleteInv'
<1>0. /\ streamSize' = streamSize /\ threadNum' = threadNum
      /\ Threads' = Threads /\ Buffers' = Buffers
      /\ BlockCount' = BlockCount
  BY CallIsFixed
<1> USE DEF callVars, mainVars, chans, readSide, writeSide
<1> SUFFICES ASSUME ~Failing' PROVE CompleteInv'
  BY DEF CompleteInv
<1>a. ~Failing /\ ~is_on_error /\ ~is_on_error'
  BY FailingStays DEF Failing
<1>b. NoBuf \notin Buffers /\ \A t \in Threads : t # NoThread
  BY ParallelAssumption DEF Buffers, Threads
<1>c. dataBufList \in Seq(Buffers)
  BY DEF TypeInv
<1>d. /\ curReadBlockIndex \in Nat /\ curWriteBlockIndex \in Nat /\ BlockCount \in Nat
      /\ streamSize \in Nat
  BY BlockBounds DEF TypeInv
<1>e. ASSUME NEW t \in Threads, wpc' = [wpc EXCEPT ![t] = "raise"]
      PROVE  FALSE
  <2>1. wpc'[t] = "raise"
    BY <1>e DEF TypeInv
  <2> QED BY <1>0, <2>1 DEF Failing
<1>f. ASSUME UNCHANGED <<curReadBlockIndex, curWriteBlockIndex, dataBufList, bufs, workBuf>>,
             NEW t \in Threads, NEW place, wpc' = [wpc EXCEPT ![t] = place],
             wpc[t] # "compress",
             place \in {"end", "exited"} =>
               wpc[t] \in {"end", "exited"} \/ curReadBlockIndex >= BlockCount,
             writeLocker' = NoThread => writeLocker = NoThread \/ ~IsNext,
             mpc' = "wait" => mpc = "wait" \/ curReadBlockIndex >= BlockCount
      PROVE  CompleteInv'
  <2>1. \A u \in Threads :
          wpc[u] = "compress" => wpc'[u] = "compress" /\ workBuf'[u] = workBuf[u]
    BY <1>f DEF TypeInv
  <2>2. \A u \in Threads : wpc'[u] \in {"end", "exited"} =>
          wpc[u] \in {"end", "exited"} \/ curReadBlockIndex >= BlockCount
    BY <1>f DEF TypeInv
  <2>3. \A b \in Buffers : Live(b) => bufs'[b] = bufs[b]
    BY <1>f
  <2> QED BY <1>0, <1>a, <1>f, <2>1, <2>2, <2>3, CompleteQuiet
<1>g. ASSUME UNCHANGED <<curReadBlockIndex, curWriteBlockIndex, dataBufList, bufs, workBuf,
                         wpc, writeLocker>>,
             mpc' = "wait" => mpc = "wait" \/ curReadBlockIndex >= BlockCount
      PROVE  CompleteInv'
  BY <1>0, <1>a, <1>g, CompleteQuiet
<1>1. CASE OpenFails \/ AcceptEnd \/ Return
  <2>1. /\ UNCHANGED <<curReadBlockIndex, curWriteBlockIndex, dataBufList, bufs, workBuf,
                       wpc, writeLocker>>
        /\ mpc' \in {mpc, "done"}
    BY <1>1 DEF OpenFails, AcceptEnd, Return
  <2> QED BY <1>g, <2>1
<1>2. CASE StartThread
  <2>1. /\ UNCHANGED <<curReadBlockIndex, curWriteBlockIndex, dataBufList, bufs, workBuf,
                       writeLocker>>
        /\ wpc' = [wpc EXCEPT ![turn] = "accept"] /\ mpc = "start" /\ mpc' # "wait"
    BY <1>2 DEF StartThread
  <2>2. turn \in Threads /\ wpc[turn] = "absent"
    BY <2>1 DEF CountInv, TypeInv, Threads
  <2> QED BY <1>f, <2>1, <2>2
<1>3. CASE StartFails
  BY <1>3 DEF StartFails, Failing
<1>4. CASE OnError(NoThread)
  BY <1>4, <1>a, OnErrorOfCaller
<1>5. CASE WorkIsOver
  <2>1. /\ UNCHANGED <<curReadBlockIndex, curWriteBlockIndex, dataBufList, bufs, workBuf,
                       wpc, writeLocker>>
        /\ wpc[threadNum] = "exited"
    BY <1>5 DEF WorkIsOver
  <2>2. curReadBlockIndex >= BlockCount
    <3>1. CASE threadNum = 0
      BY <1>d, <3>1 DEF TypeInv
    <3>2. CASE threadNum # 0
      <4>1. threadNum \in Threads
        BY <3>2 DEF TypeInv, Threads
      <4> QED BY <1>a, <2>1, <4>1 DEF CompleteInv
    <3> QED BY <3>1, <3>2
  <2> QED BY <1>g, <2>1, <2>2
<1>6. ASSUME NEW t \in Threads, ThreadStep(t)
      PROVE  CompleteInv'
  <2>1. CASE Accept(t)
    <3>1. /\ wpc[t] = "accept"
          /\ UNCHANGED <<curReadBlockIndex, curWriteBlockIndex, dataBufList, bufs, writeLocker, mpc>>
      BY <2>1, AcceptOfThread
    <3>2. ~work_chan.closed
      BY <1>a, <3>1 DEF ErrorInv, CountInv
    <3>3. \E place \in {"accept", "read"} : wpc' = [wpc EXCEPT ![t] = place]
      BY <2>1, <3>1, <3>2, AcceptOfThread DEF TypeInv
    <3>4. \A u \in Threads :
            wpc[u] = "compress" => wpc'[u] = "compress" /\ workBuf'[u] = workBuf[u]
      <4>1. \A u \in Threads : u # t => workBuf'[u] = workBuf[u]
        BY <2>1, AcceptOfThread DEF TypeInv
      <4> QED BY <3>1, <3>3, <4>1 DEF TypeInv
    <3>5. \A u \in Threads : wpc'[u] \in {"end", "exited"} => wpc[u] \in {"end", "exited"}
      BY <3>3 DEF TypeInv
    <3>6. \A b \in Buffers : Live(b) => bufs'[b] = bufs[b]
      BY <3>1
    <3> QED BY <1>0, <1>a, <3>1, <3>4, <3>5, <3>6, CompleteQuiet
  <2>2. CASE NothingToRead(t)
    <3>1. /\ UNCHANGED <<curReadBlockIndex, curWriteBlockIndex, dataBufList, bufs, workBuf,
                         writeLocker, mpc>>
          /\ wpc[t] = "read" /\ wpc' = [wpc EXCEPT ![t] = "end"]
          /\ curReadBlockIndex >= BlockCount
      BY <2>2 DEF NothingToRead
    <3> QED BY <1>f, <3>1
  <2>3. CASE ReadBlock(t)
    <3> DEFINE c == workBuf[t]
               n == curReadBlockIndex
    <3>1. /\ wpc[t] = "read" /\ n < BlockCount
          /\ curReadBlockIndex' = n + 1
          /\ bufs' = [bufs EXCEPT ![c] = Block(n)]
          /\ Block(n).index = n
          /\ wpc' = [wpc EXCEPT ![t] = "compress"]
      BY <2>3, ReadOfBlock
    <3>2. UNCHANGED <<workBuf, curWriteBlockIndex, dataBufList, writeLocker, mpc>>
      BY <2>3 DEF ReadBlock
    <3>3. c \in Buffers
      BY <3>1 DEF OwnInv
    <3>4. ~Live(c)
      <4>1. ~InList(c)
        BY <3>3 DEF OwnInv, InHands
      <4>2. \A u \in Threads : wpc[u] = "compress" => workBuf[u] # c
        BY <1>b, <3>1, <3>3 DEF OwnInv
      <4> QED BY <4>1, <4>2 DEF Live
    <3>5. \A b : b = c => Live(b)'
      BY <1>0, <3>1, <3>2 DEF Live, TypeInv
    <3> HIDE DEF c, n
    <3>6. \A b : Live(b) => Live(b)'
      BY <1>0, <3>1, <3>2 DEF Live, InList, TypeInv
    <3>7. bufs'[c].index = n /\ \A b \in Buffers : Live(b) => bufs'[b] = bufs[b]
      BY <3>1, <3>3, <3>4 DEF TypeInv
    <3>8. (\A k \in curWriteBlockIndex..(curReadBlockIndex - 1) :
             \E b \in Buffers : Live(b) /\ bufs[b].index = k)'
      <4> SUFFICES ASSUME NEW k \in curWriteBlockIndex'..(curReadBlockIndex' - 1)
                   PROVE  \E b \in Buffers : Live(b)' /\ bufs'[b].index = k
        BY <1>0
      <4>1. CASE k = n
        BY <3>3, <3>5, <3>7, <4>1
      <4>2. CASE k # n
        <5>1. k \in curWriteBlockIndex..(curReadBlockIndex - 1)
          BY <1>d, <3>1, <3>2, <4>2 DEF n
        <5>2. PICK b \in Buffers : Live(b) /\ bufs[b].index = k
          BY <1>a, <5>1 DEF CompleteInv
        <5> QED BY <3>6, <3>7, <5>2
      <4> QED BY <4>1, <4>2
    <3>9. (writeLocker = NoThread => ~IsNext)'
      <4>1. dataBufList # <<>> => bufs'[Head(dataBufList)] = bufs[Head(dataBufList)]
        BY <1>c, <3>7, HeadIsLive
      <4>2. IsNext' => IsNext
        BY <3>2, <4>1 DEF IsNext
      <4> QED BY <1>a, <3>2, <4>2 DEF CompleteInv
    <3>10. \A u \in Threads : wpc'[u] \in {"end", "exited"} => wpc[u] \in {"end", "exited"}
      BY <3>1 DEF TypeInv
    <3>11. (\A u \in Threads : wpc[u] \in {"end", "exited"} => curReadBlockIndex >= BlockCount)'
      <4> SUFFICES ASSUME NEW u \in Threads, wpc'[u] \in {"end", "exited"}
                   PROVE  curReadBlockIndex' >= BlockCount'
        BY <1>0
      <4>1. curReadBlockIndex >= BlockCount
        BY <1>a, <3>10 DEF CompleteInv
      <4> QED BY <1>d, <3>1, <4>1 DEF n
    <3>12. (mpc = "wait" => curReadBlockIndex >= BlockCount)'
      <4> SUFFICES ASSUME mpc = "wait" PROVE FALSE
        BY <3>2
      <4>1. curReadBlockIndex >= BlockCount
        BY <1>a DEF CompleteInv
      <4> QED BY <1>d, <3>1, <4>1 DEF n
    <3> QED BY <3>8, <3>9, <3>11, <3>12 DEF CompleteInv
  <2>4. CASE ReadFails(t)
    BY <1>e, <2>4 DEF ReadFails, CheckFails
  <2>5. CASE CompressFails(t)
    BY <1>e, <2>5 DEF CompressFails, CheckFails
  <2>6. CASE Insert(t)
    <3> DEFINE c == workBuf[t]
    <3>1. /\ wpc[t] = "compress" /\ wpc' = [wpc EXCEPT ![t] = "write"]
          /\ workBuf' = [workBuf EXCEPT ![t] = NoBuf]
          /\ writeLocker' = t
          /\ UNCHANGED <<curReadBlockIndex, curWriteBlockIndex, bufs, mpc>>
      BY <2>6 DEF Insert
    <3>2. c \in Buffers /\ ~InList(c)
      BY <3>1 DEF OwnInv, InHands
    <3>3. PICK n \in 0..Len(dataBufList) :
            /\ Len(dataBufList') = Len(dataBufList) + 1
            /\ dataBufList'[n + 1] = c
            /\ \A i \in 1..n : dataBufList'[i] = dataBufList[i]
            /\ \A i \in (n + 2)..(Len(dataBufList) + 1) : dataBufList'[i] = dataBufList[i - 1]
      BY <2>6, <3>2, InsertOfThread
    <3>4. Len(dataBufList) \in Nat
      BY <1>c, LenProperties
    <3> HIDE DEF c
    <3>5. \A b : In(b, dataBufList') <=> In(b, dataBufList) \/ b = c
      <4>1. ~In(c, dataBufList) /\ Distinct(dataBufList)
        BY <3>2 DEF InList, OwnInv
      <4> QED BY <3>3, <3>4, <4>1, InInserted
    <3>6. \A b : Live(b) => Live(b)'
      <4> SUFFICES ASSUME NEW b, Live(b) PROVE Live(b)'
        OBVIOUS
      <4>1. CASE InList(b) \/ b = c
        BY <3>5, <4>1 DEF Live, InList
      <4>2. CASE ~InList(b) /\ b # c
        <5>1. PICK u \in Threads : wpc[u] = "compress" /\ workBuf[u] = b
          BY <4>2 DEF Live
        <5>2. u # t
          BY <4>2, <5>1 DEF c
        <5>3. wpc'[u] = "compress" /\ workBuf'[u] = b
          BY <3>1, <5>1, <5>2 DEF TypeInv
        <5> QED BY <1>0, <5>3 DEF Live
      <4> QED BY <4>1, <4>2
    <3>7. (\A k \in curWriteBlockIndex..(curReadBlockIndex - 1) :
             \E b \in Buffers : Live(b) /\ bufs[b].index = k)'
      <4> SUFFICES ASSUME NEW k \in curWriteBlockIndex'..(curReadBlockIndex' - 1)
                   PROVE  \E b \in Buffers : Live(b)' /\ bufs'[b].index = k
        BY <1>0
      <4>1. PICK b \in Buffers : Live(b) /\ bufs[b].index = k
        BY <1>a, <3>1 DEF CompleteInv
      <4> QED BY <3>1, <3>6, <4>1
    <3>8. (writeLocker = NoThread => ~IsNext)'
      BY <1>b, <3>1
    <3>9. (\A u \in Threads : wpc[u] \in {"end", "exited"} => curReadBlockIndex >= BlockCount)'
      BY <1>0, <1>a, <3>1 DEF CompleteInv, TypeInv
    <3>10. (mpc = "wait" => curReadBlockIndex >= BlockCount)'
      BY <1>0, <1>a, <3>1 DEF CompleteInv
    <3> QED BY <3>7, <3>8, <3>9, <3>10 DEF CompleteInv
  <2>7. CASE WriteBlock(t)
    <3> DEFINE c == Head(dataBufList)
    <3>1. /\ wpc[t] = "write" /\ dataBufList # <<>>
          /\ bufs[c].index = curWriteBlockIndex
          /\ curWriteBlockIndex' = curWriteBlockIndex + 1
          /\ wpc' = [wpc EXCEPT ![t] = "send"]
          /\ workBuf' = [workBuf EXCEPT ![t] = c]
          /\ dataBufList' = Tail(dataBufList)
          /\ UNCHANGED <<curReadBlockIndex, bufs, writeLocker, mpc>>
      BY <2>7 DEF WriteBlock, IsNext
    <3>2. \A b : In(b, Tail(dataBufList)) <=> In(b, dataBufList) /\ b # c
      BY <1>c, <3>1, InPopped DEF OwnInv
    <3> HIDE DEF c
    <3>3. \A b : Live(b) /\ b # c => Live(b)'
      <4> SUFFICES ASSUME NEW b, Live(b), b # c PROVE Live(b)'
        OBVIOUS
      <4>1. CASE InList(b)
        BY <3>1, <3>2, <4>1 DEF Live, InList
      <4>2. CASE ~InList(b)
        <5>1. PICK u \in Threads : wpc[u] = "compress" /\ workBuf[u] = b
          BY <4>2 DEF Live
        <5>2. wpc'[u] = "compress" /\ workBuf'[u] = b
          BY <3>1, <5>1 DEF TypeInv
        <5> QED BY <1>0, <5>2 DEF Live
      <4> QED BY <4>1, <4>2
    <3>4. (\A k \in curWriteBlockIndex..(curReadBlockIndex - 1) :
             \E b \in Buffers : Live(b) /\ bufs[b].index = k)'
      <4> SUFFICES ASSUME NEW k \in curWriteBlockIndex'..(curReadBlockIndex' - 1)
                   PROVE  \E b \in Buffers : Live(b)' /\ bufs'[b].index = k
        BY <1>0
      <4>1. k \in curWriteBlockIndex..(curReadBlockIndex - 1) /\ k # curWriteBlockIndex
        BY <1>d, <3>1
      <4>2. PICK b \in Buffers : Live(b) /\ bufs[b].index = k
        BY <1>a, <4>1 DEF CompleteInv
      <4>3. b # c
        BY <3>1, <4>1, <4>2
      <4>4. Live(b)'
        BY <3>3, <4>2, <4>3
      <4>5. bufs' = bufs
        BY <3>1
      <4> QED BY <4>2, <4>4, <4>5
    <3>5. (writeLocker = NoThread => ~IsNext)'
      <4>1. writeLocker = t
        BY <3>1 DEF LockInv
      <4> QED BY <1>b, <3>1, <4>1
    <3>6. (\A u \in Threads : wpc[u] \in {"end", "exited"} => curReadBlockIndex >= BlockCount)'
      BY <1>0, <1>a, <3>1 DEF CompleteInv, TypeInv
    <3>7. (mpc = "wait" => curReadBlockIndex >= BlockCount)'
      BY <1>0, <1>a, <3>1 DEF CompleteInv
    <3> QED BY <3>4, <3>5, <3>6, <3>7 DEF CompleteInv
  <2>8. CASE WriteFails(t)
    BY <1>e, <2>8 DEF WriteFails, CheckFails
  <2>9. CASE WriteIsOver(t)
    <3>1. /\ UNCHANGED <<curReadBlockIndex, curWriteBlockIndex, dataBufList, bufs, workBuf, mpc>>
          /\ wpc[t] = "write" /\ wpc' = [wpc EXCEPT ![t] = "accept"]
          /\ ~IsNext
      BY <2>9 DEF WriteIsOver
    <3> QED BY <1>f, <3>1
  <2>10. CASE SendBack(t)
    <3>1. CASE work_chan.closed
      BY <1>e, <2>10, <3>1 DEF SendBack, CheckFails
    <3>2. CASE ~work_chan.closed
      <4> DEFINE c == workBuf[t]
      <4>1. /\ UNCHANGED <<curReadBlockIndex, curWriteBlockIndex, dataBufList, writeLocker, mpc>>
            /\ wpc[t] = "send" /\ wpc' = [wpc EXCEPT ![t] = "write"]
            /\ workBuf' = [workBuf EXCEPT ![t] = NoBuf]
            /\ bufs' = [bufs EXCEPT ![c] = EmptyBuf]
        BY <2>10, <3>2 DEF SendBack
      <4>2. c \in Buffers
        BY <4>1 DEF OwnInv
      <4>3. ~Live(c)
        <5>1. ~InList(c)
          BY <4>2 DEF OwnInv, InHands
        <5>2. \A u \in Threads : wpc[u] = "compress" => workBuf[u] # c
          BY <1>b, <4>1, <4>2 DEF OwnInv
        <5> QED BY <5>1, <5>2 DEF Live
      <4> HIDE DEF c
      <4>4. \A b \in Buffers : Live(b) => bufs'[b] = bufs[b]
        BY <4>1, <4>3 DEF TypeInv
      <4>5. \A u \in Threads :
              wpc[u] = "compress" => wpc'[u] = "compress" /\ workBuf'[u] = workBuf[u]
        BY <4>1 DEF TypeInv
      <4>6. \A u \in Threads : wpc'[u] \in {"end", "exited"} => wpc[u] \in {"end", "exited"}
        BY <4>1 DEF TypeInv
      <4> QED BY <1>0, <1>a, <4>1, <4>4, <4>5, <4>6, CompleteQuiet
    <3> QED BY <3>1, <3>2
  <2>11. CASE OnError(t)
    BY <1>a, <2>11, OnErrorOfThread
  <2>12. CASE ThreadEnd(t)
    <3>1. /\ UNCHANGED <<curReadBlockIndex, curWriteBlockIndex, dataBufList, bufs, workBuf,
                         writeLocker, mpc>>
          /\ wpc[t] = "end" /\ wpc' = [wpc EXCEPT ![t] = "exited"]
      BY <2>12 DEF ThreadEnd
    <3> QED BY <1>f, <3>1
  <2> QED BY <1>6, <2>1, <2>2, <2>3, <2>4, <2>5, <2>6, <2>7, <2>8, <2>9, <2>10, <2>11, <2>12
          DEF ThreadStep
<1>7. CASE WakeForNothing
  <2>1. UNCHANGED <<curReadBlockIndex, curWriteBlockIndex, dataBufList, bufs, workBuf, wpc,
                    writeLocker, mpc>>
    BY <1>7 DEF WakeForNothing
  <2> QED BY <1>g, <2>1
<1>8. CASE Terminated
  <2>1. UNCHANGED <<curReadBlockIndex, curWriteBlockIndex, dataBufList, bufs, workBuf, wpc,
                    writeLocker, mpc>>
    BY <1>8 DEF Terminated, vars
  <2> QED BY <1>g, <2>1
<1> QED BY <1>1, <1>2, <1>3, <1>4, <1>5, <1>6, <1>7, <1>8 DEF Next, MainStep

-----------------------------------------------------------------------------
(***************************************************************************)
(* What the call promises.                                                 *)
(***************************************************************************)

\* Nothing changes the invariant but the variables.
LEMMA ErrorQuiet ==
  ASSUME ErrorInv, UNCHANGED vars
  PROVE  ErrorInv'
BY DEF ErrorInv, Threads, vars, callVars, mainVars, chans

\* Nothing changes the types but the variables.
LEMMA TypeQuiet ==
  ASSUME TypeInv, UNCHANGED vars
  PROVE  TypeInv'
<1> USE DEF vars, callVars, mainVars, chans, readSide, writeSide
<1>1. Threads' = Threads /\ Buffers' = Buffers /\ BlockCount' = BlockCount
  BY DEF Threads, Buffers, BlockCount
<1> QED BY <1>1 DEF TypeInv

\* Whatever the threads do and whatever fails, the buffers, the locks, the
\* counters and the blocks of parallel_compress_blocks agree.
THEOREM Invariance == Spec => []IInv
<1>1. Init => IInv
  BY TypeInit, ErrorInit, OwnInit, LockInit, CountInit, BlocksInit, CompleteInit DEF IInv
<1>2. IInv /\ [Next]_vars => IInv'
  <2> SUFFICES ASSUME IInv, [Next]_vars PROVE IInv'
    OBVIOUS
  <2>0. TypeInv /\ ErrorInv /\ OwnInv /\ LockInv /\ CountInv /\ BlockInv /\ CompleteInv
    BY DEF IInv
  <2>1. CASE Next
    <3>1. TypeInv' /\ ErrorInv'
      BY <2>0, <2>1, TypeStep, ErrorStep
    <3>2. OwnInv'
      BY <2>0, <2>1, OwnStep
    <3>3. LockInv' /\ CountInv'
      BY <2>0, <2>1, LockStep, CountStep
    <3>4. BlockInv'
      BY <2>0, <2>1, BlockStep
    <3>5. CompleteInv'
      BY <2>0, <2>1, CompleteStep
    <3> QED BY <3>1, <3>2, <3>3, <3>4, <3>5 DEF IInv
  <2>2. CASE UNCHANGED vars
    <3> USE DEF vars, callVars, mainVars, chans, readSide, writeSide
    <3>0. /\ Threads' = Threads /\ Buffers' = Buffers /\ BlockCount' = BlockCount
          /\ streamSize' = streamSize
      BY <2>2 DEF Threads, Buffers, BlockCount
    <3>1. TypeInv' /\ ErrorInv'
      BY <2>0, <2>2, TypeQuiet, ErrorQuiet
    <3>2. OwnInv'
      <4>1. \A t \in Threads :
              /\ wpc'[t] \in {"read", "compress", "send"} => workBuf[t] \in Buffers
              /\ wpc'[t] \in {"absent", "write"} => workBuf[t] = NoBuf
              /\ wpc'[t] = "accept" /\ ~is_on_error' => workBuf[t] = NoBuf
        BY <2>0, <2>2 DEF OwnInv
      <4> QED BY <2>0, <2>2, <3>0, <4>1, OwnQuiet
    <3>3. Failing => Failing'
      BY <2>2, <3>0 DEF Failing
    <3>4. LockInv'
      BY <2>0, <2>2, <3>0, <3>3, LockQuiet
    <3>5. CountInv'
      BY <2>0, <2>2, <3>0, CountQuiet
    <3>6. BlockInv'
      BY <2>0, <2>2, <3>0, BlockQuiet DEF TypeInv
    <3>7. CompleteInv'
      <4>1. CASE Failing
        BY <3>3, <4>1 DEF CompleteInv
      <4>2. CASE ~Failing
        BY <2>0, <2>2, <3>0, <4>2, CompleteQuiet
      <4> QED BY <4>1, <4>2
    <3> QED BY <3>1, <3>2, <3>4, <3>5, <3>6, <3>7 DEF IInv
  <2> QED BY <2>1, <2>2
<1> QED BY <1>1, <1>2, PTL DEF Spec

\* A sequence with nothing twice is as long as the set of what is in it.
LEMMA DistinctSize ==
  ASSUME NEW S, NEW s \in Seq(S), Distinct(s)
  PROVE  Len(s) = Cardinality({s[i] : i \in DOMAIN s})
<1> DEFINE T == {s[i] : i \in DOMAIN s}
<1>1. Len(s) \in Nat /\ DOMAIN s = 1..Len(s) /\ s = [i \in 1..Len(s) |-> s[i]]
  BY LenProperties
<1>2. s \in [1..Len(s) -> T]
  BY <1>1
<1>3. \A t \in T : \E i \in 1..Len(s) : s[i] = t
  BY <1>1
<1>4. s \in Bijection(1..Len(s), T)
  BY <1>2, <1>3 DEF Bijection, Injection, Surjection, IsInjective, Distinct
<1> HIDE DEF T
<1>5. Cardinality(T) = Len(s)
  BY <1>1, <1>4, FS_CountingElements DEF ExistsBijection
<1> QED BY <1>5 DEF T

\* A work buffer is in one place, and none is lost before an error: no thread
\* of parallel_compress_blocks reads a block into a buffer that another one
\* compresses or writes.
THEOREM OneOwner == Spec => []BuffersHaveOneOwner
<1>1. IInv => BuffersHaveOneOwner
  <2> SUFFICES ASSUME IInv PROVE BuffersHaveOneOwner
    OBVIOUS
  <2> DEFINE inHands(t) == IF workBuf[t] = NoBuf THEN {} ELSE {workBuf[t]}
             inChannel == {work_chan.list[i] : i \in DOMAIN work_chan.list}
             inList == {dataBufList[i] : i \in DOMAIN dataBufList}
  <2>0. TypeInv /\ OwnInv
    BY DEF IInv
  <2>1. work_chan.list \in Seq(Buffers) /\ dataBufList \in Seq(Buffers)
    BY <2>0 DEF TypeInv, Channels
  <2>2. /\ DOMAIN work_chan.list = 1..Len(work_chan.list)
        /\ DOMAIN dataBufList = 1..Len(dataBufList)
    BY <2>1, LenProperties
  <2>3. /\ \A b : b \in inChannel <=> InChannel(b)
        /\ \A b : b \in inList <=> InList(b)
    BY <2>2 DEF InChannel, InList, In
  <2>4. inChannel \subseteq Buffers /\ inList \subseteq Buffers
    <3>1. \A i \in 1..Len(work_chan.list) : work_chan.list[i] \in Buffers
      BY <2>1, ElementOfSeq
    <3>2. \A i \in 1..Len(dataBufList) : dataBufList[i] \in Buffers
      BY <2>1, ElementOfSeq
    <3> QED BY <2>2, <3>1, <3>2
  <2>5. Len(work_chan.list) = Cardinality(inChannel) /\ Len(dataBufList) = Cardinality(inList)
    BY <2>0, <2>1, DistinctSize DEF OwnInv
  <2>6. /\ NoBuf \notin Buffers
        /\ \A t \in Threads : workBuf[t] \in Buffers \union {NoBuf}
    BY <2>0, ParallelAssumption DEF TypeInv, Buffers
  <2> HIDE DEF inChannel, inList
  <2>7. \A t, u \in Threads : t # u => inHands(t) \intersect inHands(u) = {}
    BY <2>0 DEF OwnInv
  <2>8. \A t \in Threads : \A b : b \in inHands(t) => b \in Buffers /\ InHands(b)
    BY <2>6 DEF InHands
  <2>9. \A b \in Buffers : InHands(b) => \E t \in Threads : b \in inHands(t)
    BY <2>6 DEF InHands
  <2> HIDE DEF inHands
  <2>10. \A t \in Threads : inHands(t) \intersect (inChannel \union inList) = {}
    BY <2>0, <2>3, <2>8 DEF OwnInv
  <2>11. inChannel \intersect inList = {}
    BY <2>0, <2>3, <2>4 DEF OwnInv
  <2>12. ~is_on_error /\ mpc # "done" =>
           inChannel \union inList \union UNION {inHands(t) : t \in Threads} = Buffers
    <3> SUFFICES ASSUME ~is_on_error, mpc # "done"
                 PROVE  inChannel \union inList \union UNION {inHands(t) : t \in Threads} = Buffers
      OBVIOUS
    <3>1. ASSUME NEW b \in Buffers
          PROVE  b \in inChannel \/ b \in inList \/ \E t \in Threads : b \in inHands(t)
      BY <2>0, <2>3, <2>9 DEF OwnInv
    <3> QED BY <2>4, <2>8, <3>1
  <2> QED BY <2>5, <2>7, <2>10, <2>11, <2>12
          DEF BuffersHaveOneOwner, inHands, inChannel, inList
<1> QED BY <1>1, Invariance, PTL

\* When parallel_compress_blocks returns, every thread it started has ended,
\* and none uses its locks, channels and buffers afterwards.
THEOREM NoThreadStays == Spec => []ThreadsAreGone
<1>1. IInv => ThreadsAreGone
  BY DEF IInv, CountInv, ThreadsAreGone
<1> QED BY <1>1, Invariance, PTL

\* Without an error every block is written when the last thread has ended.
LEMMA AllWritten ==
  ASSUME IInv, mpc = "wait", is_thread_on = 0, ~is_on_error
  PROVE  Len(out) = BlockCount
<1>0. TypeInv /\ OwnInv /\ LockInv /\ CountInv /\ BlockInv /\ CompleteInv
  BY DEF IInv
<1>1. /\ curReadBlockIndex \in Nat /\ curWriteBlockIndex \in Nat /\ BlockCount \in Nat
      /\ dataBufList \in Seq(Buffers) /\ Len(end_chan.list) \in Nat
  BY <1>0, BlockBounds, LenProperties DEF TypeInv, Channels
<1>2. Active = {}
  <2>1. IsFiniteSet(Active) /\ Cardinality(Active) \in Nat
    BY <1>0, ActiveIsFinite
  <2>2. Cardinality(Active) = 0
    BY <1>0, <1>1, <2>1 DEF CountInv
  <2> QED BY <2>1, <2>2, FS_EmptySet
<1>3. \A t \in Threads : wpc[t] \in {"absent", "exited"}
  BY <1>2 DEF Active
<1>4. ~Failing
  BY <1>3 DEF Failing
<1>5. curReadBlockIndex = BlockCount
  BY <1>0, <1>1, <1>4 DEF BlockInv, CompleteInv
<1>6. writeLocker = NoThread
  BY <1>0, <1>3, <1>4 DEF LockInv, TypeInv
<1>7. ~IsNext
  BY <1>0, <1>4, <1>6 DEF CompleteInv
<1>8. ASSUME curWriteBlockIndex < curReadBlockIndex
      PROVE  FALSE
  <2>1. curWriteBlockIndex \in curWriteBlockIndex..(curReadBlockIndex - 1)
    BY <1>1, <1>8
  <2>2. PICK b \in Buffers : Live(b) /\ bufs[b].index = curWriteBlockIndex
    BY <1>0, <1>4, <2>1 DEF CompleteInv
  <2>3. PICK i \in 1..Len(dataBufList) : dataBufList[i] = b
    BY <1>3, <2>2 DEF Live, InList, In
  <2>4. /\ Len(dataBufList) \in Nat \ {0} /\ dataBufList # <<>>
        /\ Head(dataBufList) = dataBufList[1]
    BY <1>1, <2>3, EmptySeq, HeadAndTail, LenProperties
  <2>5. Head(dataBufList) \in Buffers /\ Live(Head(dataBufList))
    BY <1>1, <2>4, HeadIsLive
  <2>6. PICK m \in curWriteBlockIndex..(curReadBlockIndex - 1) :
          bufs[Head(dataBufList)] = Block(m)
    BY <1>0, <2>5 DEF BlockInv
  <2>7. bufs[Head(dataBufList)].index = m
    BY <2>6 DEF Block
  <2>8. i = 1 \/ bufs[dataBufList[1]].index < bufs[dataBufList[i]].index
    BY <1>0, <2>3, <2>4 DEF BlockInv, Sorted
  <2>9. m = curWriteBlockIndex
    BY <1>1, <2>2, <2>3, <2>4, <2>6, <2>7, <2>8
  <2> QED BY <1>7, <2>4, <2>7, <2>9 DEF IsNext
<1> QED BY <1>0, <1>1, <1>5, <1>8 DEF BlockInv

\* A step of the threads is a step of the one thread of BlockCompress, or none.
LEMMA SequentialStep ==
  ASSUME IInv, [Next]_vars
  PROVE  [Sequential!BlockNext]_(Sequential!blockVars)
<1> USE DEF callVars, mainVars, readSide, writeSide
<1>0. TypeInv /\ ErrorInv /\ OwnInv /\ CountInv /\ BlockInv
  BY DEF IInv
<1>1. /\ Sequential!BlockCount = BlockCount /\ Sequential!Running = Running
      /\ \A k : Sequential!Code(k) = Code(k)
  <2>1. Sequential!BlockCount = BlockCount /\ Sequential!Running = Running
    BY DEF Sequential!BlockCount, BlockCount, Sequential!Running, Running
  <2>2. \A from, to : Sequential!Bytes(from, to) = Bytes(from, to)
    BY DEF Sequential!Bytes, Bytes
  <2>3. \A S : Sequential!Max(S) = Max(S) /\ Sequential!Min(S) = Min(S)
    BY Zenon DEF Sequential!Max, Max, Sequential!Min, Min
  <2>4. \A k : Sequential!Code(k) = Code(k)
    BY <2>2, <2>3, Zenon DEF Sequential!Code, Code
  <2> QED BY <2>1, <2>4
<1>2. ASSUME UNCHANGED <<streamSize, out, result>>
      PROVE  [Sequential!BlockNext]_(Sequential!blockVars)
  BY <1>2 DEF Sequential!blockVars
<1>3. CASE OpenFails
  <2>1. mpc = "start" /\ result' = 0 /\ UNCHANGED <<streamSize, out>>
    BY <1>3 DEF OpenFails
  <2>2. Sequential!ReturnError
    BY <1>0, <1>1, <2>1 DEF Sequential!ReturnError, CountInv
  <2> QED BY <2>2 DEF Sequential!BlockNext
<1>4. CASE Return
  <2>1. /\ mpc = "wait" /\ is_thread_on = 0
        /\ result' = IF is_on_error THEN 0 ELSE Len(out)
        /\ UNCHANGED <<streamSize, out>>
    BY <1>4 DEF Return
  <2>2. result = Sequential!Running
    BY <1>0, <1>1, <2>1 DEF CountInv
  <2>3. CASE is_on_error
    BY <2>1, <2>2, <2>3 DEF Sequential!ReturnError, Sequential!BlockNext
  <2>4. CASE ~is_on_error
    <3>1. Len(out) = Sequential!BlockCount
      BY <1>1, <2>1, <2>4, AllWritten
    <3> QED BY <2>1, <2>2, <2>4, <3>1 DEF Sequential!ReturnSize, Sequential!BlockNext
  <2> QED BY <2>3, <2>4
<1>5. CASE StartThread \/ StartFails \/ WorkIsOver \/ AcceptEnd
  BY <1>2, <1>5 DEF StartThread, StartFails, WorkIsOver, AcceptEnd
<1>6. CASE OnError(NoThread)
  BY <1>0, <1>2, <1>6, OnErrorOfCaller DEF onErrorLeaves
<1>7. ASSUME NEW t \in Threads, WriteBlock(t)
      PROVE  [Sequential!BlockNext]_(Sequential!blockVars)
  <2> DEFINE c == Head(dataBufList)
  <2>1. /\ wpc[t] = "write" /\ dataBufList # <<>>
        /\ bufs[c].index = curWriteBlockIndex
        /\ out' = Append(out, [dict |-> bufs[c].dict, data |-> bufs[c].data])
        /\ UNCHANGED <<streamSize, result>>
    BY <1>7 DEF WriteBlock, IsNext
  <2>2. /\ curReadBlockIndex \in Nat /\ curWriteBlockIndex \in Nat /\ BlockCount \in Nat
        /\ streamSize \in Nat /\ curWriteBlockIndex = Len(out)
        /\ curReadBlockIndex <= BlockCount
    BY <1>0, BlockBounds DEF TypeInv, BlockInv
  <2>3. c \in Buffers /\ Live(c)
    BY <1>0, <2>1, HeadIsLive DEF TypeInv
  <2> HIDE DEF c
  <2>4. PICK m \in curWriteBlockIndex..(curReadBlockIndex - 1) : bufs[c] = Block(m)
    BY <1>0, <2>3 DEF BlockInv
  <2>5. m = Len(out) /\ m \in Nat /\ m < BlockCount
    BY <2>1, <2>2, <2>4 DEF Block
  <2>6. Code(m + 1) = [dict |-> Code(m + 1).dict, data |-> Code(m + 1).data]
    BY <2>2, <2>5, CodeOf
  <2>7. [dict |-> bufs[c].dict, data |-> bufs[c].data] = Code(Len(out) + 1)
    BY <2>4, <2>5, <2>6 DEF Block
  <2>8. result = Running
    BY <1>0, <2>1 DEF CountInv
  <2>9. out' = Append(out, Sequential!Code(Len(out) + 1)) /\ Len(out) < Sequential!BlockCount
    BY <1>1, <2>1, <2>5, <2>7
  <2> QED BY <1>1, <2>1, <2>8, <2>9 DEF Sequential!WriteNext, Sequential!BlockNext
<1>8. ASSUME NEW t \in Threads, ThreadStep(t), ~WriteBlock(t)
      PROVE  UNCHANGED <<streamSize, out, result>>
  <2>1. CASE Accept(t)
    BY <1>0, <2>1, AcceptOfThread
  <2>2. CASE NothingToRead(t) \/ ReadBlock(t) \/ ReadFails(t) \/ CompressFails(t)
    BY <2>2 DEF NothingToRead, ReadBlock, ReadFails, CompressFails
  <2>3. CASE Insert(t)
    BY <2>3 DEF Insert
  <2>4. CASE WriteFails(t) \/ WriteIsOver(t) \/ SendBack(t) \/ ThreadEnd(t)
    BY <2>4 DEF WriteFails, WriteIsOver, SendBack, ThreadEnd
  <2>5. CASE OnError(t)
    BY <1>0, <2>5, OnErrorOfThread DEF onErrorLeaves
  <2> QED BY <1>8, <2>1, <2>2, <2>3, <2>4, <2>5 DEF ThreadStep
<1>9. CASE WakeForNothing
  BY <1>2, <1>9 DEF WakeForNothing
<1>10. CASE UNCHANGED vars
  BY <1>2, <1>10 DEF vars
<1> QED BY <1>2, <1>3, <1>4, <1>5, <1>6, <1>7, <1>8, <1>9, <1>10 DEF Next, MainStep, Terminated

\* parallel_compress_blocks implements BlockCompress: the codes are written in
\* the order of the blocks, each of the block and of the bytes before it, and
\* their size is returned only when all of them are written.
THEOREM ImplementsBlockCompress == Spec => WritesLikeOneThread
<1>1. Init => Sequential!BlockInit
  <2> SUFFICES ASSUME Init PROVE Sequential!BlockInit
    OBVIOUS
  <2> QED BY DEF Init, BlockInit, Sequential!BlockInit, Running, Sequential!Running
<1>2. IInv /\ [Next]_vars => [Sequential!BlockNext]_(Sequential!blockVars)
  BY SequentialStep
<1> QED BY <1>1, <1>2, Invariance, PTL DEF Spec, WritesLikeOneThread, Sequential!BlockSpec
=============================================================================
