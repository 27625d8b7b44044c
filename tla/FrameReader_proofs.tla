------------------------- MODULE FrameReader_proofs -------------------------
(***************************************************************************)
(* Both readers of the byte stream implement SourceLink, for every address *)
(* range, every set of modules and requests and every number of bytes      *)
(* under way.                                                              *)
(***************************************************************************)
EXTENDS FrameReader, SequenceTheorems, FiniteSetTheorems, TLAPS

Byte == Marks \cup Link!Reply

\* The bytes that no read has disposed of.
Whole == buf \o stream

\* Byte j of s is a reply that will be read unharmed.
ReadableAt(s, j) ==
    /\ j \in 2..Len(s) - 1
    /\ s[j] \notin Marks /\ s[j - 1] \in Heads /\ s[j + 1] = End

\* t is what is left of s behind its first n bytes.
Suffix(t, s, n) ==
    /\ n \in 0..Len(s) /\ Len(t) = Len(s) - n
    /\ \A i \in 1..Len(t) : t[i] = s[i + n]

\* Among the first bytes of s, up to the one behind the nth, only byte k can
\* be a reply that will be read.
OnlyAt(s, n, k) == \A i \in 2..n + 1 : ReadableAt(s, i) => i = k

TypeInv ==
    /\ pending \subseteq Link!Reply
    /\ stream \in Seq(Byte) /\ buf \in Seq(Byte)
    /\ frame \in Link!Reply \cup {None}
    /\ request \in Link!Request \cup {None}
    /\ up \in BOOLEAN /\ calm \in BOOLEAN /\ skips \in BOOLEAN
    /\ \A i \in 1..Len(buf) : buf[i] # End
    /\ request = None => buf = <<>>

\* No reply is under way twice.
Distinct(p, s) ==
    /\ \A r \in p : \A j \in 2..Len(s) : ReadableAt(s, j) => r # s[j]
    /\ \A i, j \in 2..Len(s) :
          ReadableAt(s, i) /\ ReadableAt(s, j) /\ s[i] = s[j] => i = j

\* An answer to the request at hand is its module's last.
InOrder(p, s) ==
    \A i \in 2..Len(s) : ReadableAt(s, i) /\ s[i].own =>
       /\ \A r \in p : r.addr = s[i].addr => r.own
       /\ \A j \in i + 1..Len(s) :
             ReadableAt(s, j) /\ s[j].addr = s[i].addr => s[j].own

\* The bytes are unharmed frames, one behind the other.
Framed(s) ==
    /\ s # <<>> => s[1] = Start
    /\ \A i \in 1..Len(s) :
         \/ s[i] = Start /\ i + 1 \in 1..Len(s) /\ s[i + 1] \in Link!Reply
         \/ /\ s[i] \in Link!Reply /\ i > 1 /\ s[i - 1] = Start
            /\ i + 1 \in 1..Len(s) /\ s[i + 1] = End
         \/ s[i] = End /\ i > 2 /\ s[i - 1] \in Link!Reply /\ (i < Len(s) => s[i + 1] = Start)

IInv ==
    /\ TypeInv
    /\ Distinct(pending, Whole)
    /\ InOrder(pending, Whole)
    /\ calm /\ (up \/ request # None) => Framed(Whole)

-----------------------------------------------------------------------------
(* Sequences of bytes and what can be read of them.                        *)

LEMMA ReplyType ==
    /\ \A r \in Link!Reply : /\ r \notin Marks /\ r.addr \in Link!Address
                             /\ r.kind \in Link!Kinds /\ r.own \in BOOLEAN
    /\ Heads \subseteq Marks \ {End} /\ Start \in Heads
  BY BytesAssumption DEF Link!Reply, Heads, Marks

LEMMA ReadableIs ==
    ASSUME NEW s \in Seq(Byte)
    PROVE  /\ Readable(s) = {s[j] : j \in {i \in 2..Len(s) : ReadableAt(s, i)}}
           /\ \A j : ReadableAt(s, j) => s[j] \in Link!Reply /\ j \in 2..Len(s)
           /\ Readable(s) \subseteq Link!Reply
  <1>1. Len(s) \in Nat /\ \A i \in 1..Len(s) : s[i] \in Byte
    BY LenProperties, ElementOfSeq
  <1>2. \A j : ReadableAt(s, j) => s[j] \in Link!Reply /\ j \in 2..Len(s)
    BY <1>1 DEF ReadableAt, Byte
  <1>3. Readable(s) = {s[j] : j \in {i \in 2..Len(s) : ReadableAt(s, i)}}
    BY <1>1 DEF Readable, ReadableAt
  <1> QED
    BY <1>2, <1>3

LEMMA SuffixReadable ==
    ASSUME NEW s \in Seq(Byte), NEW t \in Seq(Byte), NEW n, Suffix(t, s, n)
    PROVE  \A j \in 2..Len(t) : j + n \in 2..Len(s) /\ (ReadableAt(t, j) <=> ReadableAt(s, j + n))
  <1>1. Len(s) \in Nat /\ Len(t) \in Nat /\ n \in Nat /\ Len(t) = Len(s) - n
    BY LenProperties DEF Suffix
  <1> TAKE j \in 2..Len(t)
  <1>2. j + n \in 2..Len(s) /\ (j \in 2..Len(t) - 1 <=> j + n \in 2..Len(s) - 1)
    BY <1>1
  <1>3. t[j] = s[j + n] /\ t[j - 1] = s[(j + n) - 1]
    <2>1. j \in 1..Len(t) /\ j - 1 \in 1..Len(t) /\ (j - 1) + n = (j + n) - 1
      BY <1>1
    <2>2. \A i \in 1..Len(t) : t[i] = s[i + n]
      BY DEF Suffix
    <2>3. t[j - 1] = s[(j - 1) + n]
      BY ONLY <2>1, <2>2
    <2> QED
      BY ONLY <2>1, <2>2, <2>3
  <1>4. j \in 2..Len(t) - 1 => t[j + 1] = s[(j + n) + 1]
    <2>1. j \in 2..Len(t) - 1 => j + 1 \in 1..Len(t) /\ (j + 1) + n = (j + n) + 1
      BY <1>1
    <2>2. \A i \in 1..Len(t) : t[i] = s[i + n]
      BY DEF Suffix
    <2> QED
      BY <2>1, <2>2
  <1> QED
    <2>1. CASE j \in 2..Len(t) - 1
      BY <1>2, <1>3, <1>4, <2>1 DEF ReadableAt
    <2>2. CASE j \notin 2..Len(t) - 1
      BY <1>2, <2>2 DEF ReadableAt
    <2> QED
      BY <1>2, <2>1, <2>2

(* What is left behind a prefix is still distinct and in order.            *)
LEMMA SuffixKeeps ==
    ASSUME NEW p, NEW s \in Seq(Byte), NEW t \in Seq(Byte), NEW n, Suffix(t, s, n),
           Distinct(p, s), InOrder(p, s)
    PROVE  Distinct(p, t) /\ InOrder(p, t)
  <1>1. Len(s) \in Nat /\ Len(t) \in Nat /\ n \in Nat /\ Len(t) = Len(s) - n
    BY LenProperties DEF Suffix
  <1>2. \A j \in 2..Len(t) : /\ j + n \in 2..Len(s) /\ t[j] = s[j + n]
                             /\ ReadableAt(t, j) => ReadableAt(s, j + n)
    <2>1. \A j \in 2..Len(t) : t[j] = s[j + n]
      BY <1>1 DEF Suffix
    <2> QED
      BY <2>1, SuffixReadable
  <1>3. Distinct(p, t)
    <2>1. \A r \in p : \A j \in 2..Len(t) : ReadableAt(t, j) => r # t[j]
      BY <1>2 DEF Distinct
    <2>2. \A i, j \in 2..Len(t) :
             ReadableAt(t, i) /\ ReadableAt(t, j) /\ t[i] = t[j] => i = j
      <3> SUFFICES ASSUME NEW i \in 2..Len(t), NEW j \in 2..Len(t),
                          ReadableAt(t, i), ReadableAt(t, j), t[i] = t[j]
                   PROVE  i = j
        OBVIOUS
      <3>1. /\ i + n \in 2..Len(s) /\ t[i] = s[i + n] /\ ReadableAt(s, i + n)
            /\ j + n \in 2..Len(s) /\ t[j] = s[j + n] /\ ReadableAt(s, j + n)
        BY <1>2
      <3>2. i + n = j + n
        BY <3>1 DEF Distinct
      <3> QED
        BY <1>1, <3>2
    <2> QED
      BY <2>1, <2>2 DEF Distinct
  <1>4. ASSUME NEW i \in 2..Len(t), ReadableAt(t, i), t[i].own
        PROVE  /\ \A r \in p : r.addr = t[i].addr => r.own
               /\ \A j \in i + 1..Len(t) :
                     ReadableAt(t, j) /\ t[j].addr = t[i].addr => t[j].own
    <2>1. i + n \in 2..Len(s) /\ ReadableAt(s, i + n) /\ s[i + n].own /\ t[i] = s[i + n]
      BY <1>2, <1>4
    <2>2. ASSUME NEW j \in i + 1..Len(t), ReadableAt(t, j), t[j].addr = t[i].addr
          PROVE  t[j].own
      <3>1. j \in 2..Len(t) /\ j + n \in (i + n) + 1..Len(s)
        BY <1>1
      <3> QED
        BY <1>2, <2>1, <2>2, <3>1 DEF InOrder
    <2> QED
      BY <2>1, <2>2 DEF InOrder
  <1> QED
    BY <1>3, <1>4 DEF InOrder

\* What is under way without the first n bytes of s, if byte k is the only
\* reply among them: all the rest, and that reply was the next to arrive.
OneLess(p, s, t, n, k) ==
    IF k \in 2..n + 1 /\ ReadableAt(s, k)
      THEN /\ p \cup Readable(t) = (p \cup Readable(s)) \ {s[k]}
           /\ s[k] \in p \cup Readable(s)
           /\ s[k].own => \A q \in p \cup Readable(s) : q.addr = s[k].addr => q.own
      ELSE p \cup Readable(t) = p \cup Readable(s)

(* If at most one reply is lost with the first n bytes, it is the next to  *)
(* arrive, and the others are still under way.                             *)
LEMMA SuffixLoses ==
    ASSUME NEW p \in SUBSET Link!Reply, NEW s \in Seq(Byte), NEW t \in Seq(Byte),
           NEW n, Suffix(t, s, n), Distinct(p, s), InOrder(p, s),
           NEW k, OnlyAt(s, n, k)
    PROVE  OneLess(p, s, t, n, k)
  <1>1. Len(s) \in Nat /\ Len(t) \in Nat /\ n \in Nat /\ Len(t) = Len(s) - n
    BY LenProperties DEF Suffix
  <1>2. \A j \in 2..Len(t) : /\ j + n \in 2..Len(s) /\ t[j] = s[j + n]
                             /\ ReadableAt(t, j) <=> ReadableAt(s, j + n)
    <2>1. \A j \in 2..Len(t) : t[j] = s[j + n]
      BY <1>1 DEF Suffix
    <2> QED
      BY <2>1, SuffixReadable
  <1>3. \A r : r \in Readable(t) <=> \E j \in 2..Len(t) : ReadableAt(t, j) /\ r = t[j]
    BY ReadableIs
  <1>4. \A r : r \in Readable(s) <=> \E j \in 2..Len(s) : ReadableAt(s, j) /\ r = s[j]
    BY ReadableIs
  <1>5. Readable(t) \subseteq Readable(s)
    BY <1>2, <1>3, <1>4
  <1>6. ASSUME NEW j \in 2..Len(s), ReadableAt(s, j), j > n + 1
        PROVE  s[j] \in Readable(t)
    <2>1. j - n \in 2..Len(t) /\ (j - n) + n = j
      BY <1>1, <1>6
    <2> QED
      BY <1>2, <1>3, <1>6, <2>1
  <1>7. CASE k \in 2..n + 1 /\ ReadableAt(s, k)
    <2>1. k \in 2..Len(s) /\ s[k] \in Readable(s) /\ s[k] \in Link!Reply
      BY <1>7, <1>4, ReadableIs
    <2>2. s[k] \notin p
      BY <1>7, <2>1 DEF Distinct
    <2>3. s[k] \notin Readable(t)
      <3> SUFFICES ASSUME NEW j \in 2..Len(t), ReadableAt(t, j), s[k] = t[j]
                   PROVE  FALSE
        BY <1>3
      <3>1. j + n = k
        BY <1>2, <1>7, <2>1 DEF Distinct
      <3> QED
        BY <3>1, <1>1, <1>7
    <2>4. Readable(s) \subseteq Readable(t) \cup {s[k]}
      <3> SUFFICES ASSUME NEW j \in 2..Len(s), ReadableAt(s, j), j # k
                   PROVE  s[j] \in Readable(t)
        BY <1>4
      <3> QED
        BY <1>1, <1>6 DEF OnlyAt
    <2>5. s[k].own => \A q \in p \cup Readable(s) : q.addr = s[k].addr => q.own
      <3> SUFFICES ASSUME s[k].own, NEW j \in 2..Len(s), ReadableAt(s, j),
                          s[j].addr = s[k].addr, j # k
                   PROVE  s[j].own
        BY <1>4, <1>7, <2>1 DEF InOrder
      <3>1. j \in k + 1..Len(s)
        BY <1>1, <1>7 DEF OnlyAt
      <3> QED
        BY <1>7, <2>1, <3>1 DEF InOrder
    <2> QED
      BY <1>5, <1>7, <2>1, <2>2, <2>3, <2>4, <2>5 DEF OneLess
  <1>8. CASE ~(k \in 2..n + 1 /\ ReadableAt(s, k))
    <2>1. Readable(s) \subseteq Readable(t)
      BY <1>1, <1>4, <1>6, <1>8 DEF OnlyAt
    <2> QED
      BY <1>5, <1>8, <2>1 DEF OneLess
  <1> QED
    BY <1>7, <1>8

-----------------------------------------------------------------------------
(* The steps of the reader.                                                *)

LEMMA HeadsPrime ==
    ASSUME skips' = skips
    PROVE  /\ Wire = pending \cup Readable(Whole) /\ Wire' = pending' \cup Readable(Whole')
           /\ Distinct(pending, Whole)' <=> Distinct(pending', Whole')
           /\ InOrder(pending, Whole)' <=> InOrder(pending', Whole')
           /\ Framed(Whole)' <=> Framed(Whole')
  <1>1. Heads' = Heads
    BY DEF Heads
  <1>2. Wire = pending \cup Readable(Whole) /\ Wire' = pending' \cup Readable(Whole')
    BY <1>1 DEF Wire, Whole, Readable, Marks
  <1>3. Distinct(pending, Whole)' <=> Distinct(pending', Whole')
    BY <1>1 DEF Distinct, ReadableAt, Marks
  <1>4. InOrder(pending, Whole)' <=> InOrder(pending', Whole')
    BY <1>1 DEF InOrder, ReadableAt, Marks
  <1>5. Framed(Whole)' <=> Framed(Whole')
    BY DEF Framed
  <1> QED
    BY <1>2, <1>3, <1>4, <1>5

LEMMA WholeType ==
    ASSUME TypeInv
    PROVE  /\ Whole \in Seq(Byte) /\ Len(buf) \in Nat /\ Len(stream) \in Nat
           /\ Len(Whole) = Len(buf) + Len(stream)
           /\ \A i \in 1..Len(buf) : Whole[i] = buf[i] /\ Whole[i] # End
           /\ \A i \in 1..Len(stream) : Whole[i + Len(buf)] = stream[i]
           /\ \A i \in 1..Len(Whole) : Whole[i] \in Byte
  <1>1. buf \in Seq(Byte) /\ stream \in Seq(Byte) /\ \A i \in 1..Len(buf) : buf[i] # End
    BY DEF TypeInv
  <1>2. Len(buf) \in Nat /\ Len(stream) \in Nat
    BY <1>1, LenProperties
  <1>3. /\ Whole \in Seq(Byte) /\ Len(Whole) = Len(buf) + Len(stream)
        /\ \A i \in 1..Len(buf) + Len(stream) :
              Whole[i] = IF i <= Len(buf) THEN buf[i] ELSE stream[i - Len(buf)]
    BY <1>1, ConcatProperties DEF Whole
  <1>4. \A i \in 1..Len(buf) : Whole[i] = buf[i] /\ Whole[i] # End
    BY <1>1, <1>2, <1>3
  <1>5. ASSUME NEW i \in 1..Len(stream)
        PROVE  Whole[i + Len(buf)] = stream[i]
    <2>1. i + Len(buf) \in 1..Len(buf) + Len(stream) /\ ~(i + Len(buf) <= Len(buf))
          /\ (i + Len(buf)) - Len(buf) = i
      BY <1>2
    <2> QED
      BY <1>3, <2>1
  <1>6. \A i \in 1..Len(Whole) : Whole[i] \in Byte
    BY <1>3, ElementOfSeq
  <1> QED
    BY <1>2, <1>3, <1>4, <1>5, <1>6

(* Bytes that are read, or dropped, cost at most one reply.                *)
LEMMA Disposed ==
    ASSUME TypeInv, Distinct(pending, Whole), InOrder(pending, Whole),
           UNCHANGED <<pending, skips>>, Whole' \in Seq(Byte),
           NEW n, Suffix(Whole', Whole, n),
           NEW k, OnlyAt(Whole, n, k)
    PROVE  /\ Distinct(pending, Whole)' /\ InOrder(pending, Whole)'
           /\ IF k \in 2..n + 1 /\ ReadableAt(Whole, k)
                THEN Whole[k] \in Link!Deliverable /\ Wire' = Wire \ {Whole[k]}
                ELSE Wire' = Wire
  <1>1. Whole \in Seq(Byte) /\ pending \in SUBSET Link!Reply
    BY WholeType DEF TypeInv
  <1>2. Distinct(pending, Whole') /\ InOrder(pending, Whole')
    BY <1>1, SuffixKeeps
  <1>3. OneLess(pending, Whole, Whole', n, k)
    BY <1>1, SuffixLoses
  <1> QED
    BY <1>2, <1>3, HeadsPrime DEF Link!Deliverable, OneLess

LEMMA SkipByteStep ==
    ASSUME IInv, SkipByte
    PROVE  IInv' /\ Wire' = Wire
  <1>1. TypeInv /\ stream # <<>> /\ buf = <<>> /\ skips /\ Head(stream) # Start
        /\ stream' = Tail(stream) /\ UNCHANGED <<pending, buf, frame, request, up, calm, skips>>
    BY DEF IInv, SkipByte
  <1>2. Whole = stream /\ Whole' = stream' /\ stream \in Seq(Byte) /\ stream' \in Seq(Byte)
    BY <1>1, ConcatEmptySeq, HeadTailProperties DEF Whole, TypeInv
  <1>3. Head(stream) = stream[1] /\ Len(stream) \in Nat \ {0} /\ Suffix(Whole', Whole, 1)
    BY <1>1, <1>2, HeadTailProperties, LenProperties DEF Suffix
  <1>4. OnlyAt(Whole, 1, 1)
    BY <1>1, <1>2, <1>3 DEF OnlyAt, ReadableAt, Heads
  <1>5. Distinct(pending, Whole)' /\ InOrder(pending, Whole)' /\ Wire' = Wire
    BY <1>1, <1>2, <1>3, <1>4, Disposed DEF IInv
  <1>6. ~Framed(Whole)
    BY <1>1, <1>2, <1>3 DEF Framed
  <1>7. TypeInv'
    BY <1>1, <1>2 DEF TypeInv
  <1> QED
    BY <1>1, <1>5, <1>6, <1>7 DEF IInv

\* While the line is calm, a read has at most the beginning of a frame.
LEMMA FramedBuf ==
    ASSUME TypeInv, Framed(Whole)
    PROVE  /\ Len(buf) <= 2
           /\ Len(buf) >= 1 => buf[1] = Start
           /\ Len(buf) = 2 => buf[2] \in Link!Reply
  <1> USE WholeType
  <1>1. Len(buf) >= 1 => Whole[1] = Start /\ 2 \in 1..Len(Whole) /\ Whole[2] \in Link!Reply
    <2> SUFFICES ASSUME Len(buf) >= 1
                 PROVE  Whole[1] = Start /\ 2 \in 1..Len(Whole) /\ Whole[2] \in Link!Reply
      OBVIOUS
    <2>1. 1 \in 1..Len(Whole) /\ Whole # <<>>
      BY EmptySeq
    <2> QED
      BY <2>1, BytesAssumption, ReplyType DEF Framed, Marks
  <1>2. Len(buf) >= 2 => 3 \in 1..Len(Whole) /\ Whole[3] = End
    <2> SUFFICES ASSUME Len(buf) >= 2
                 PROVE  3 \in 1..Len(Whole) /\ Whole[3] = End
      OBVIOUS
    <2>1. 2 \in 1..Len(Whole) /\ Whole[2] # Start /\ Whole[2] # End
      BY <1>1, ReplyType DEF Marks
    <2>2. 2 + 1 \in 1..Len(Whole) /\ Whole[2 + 1] = End
      BY <2>1 DEF Framed
    <2> QED
      BY <2>2
  <1>3. ~(Len(buf) >= 3)
    BY <1>2
  <1>4. Len(buf) \in Nat
    OBVIOUS
  <1>5. Len(buf) <= 2
    BY <1>3, <1>4
  <1>6. \A i \in 1..Len(buf) : Whole[i] = buf[i]
    OBVIOUS
  <1>7. /\ Len(buf) >= 1 => 1 \in 1..Len(buf)
        /\ Len(buf) = 2 => 2 \in 1..Len(buf) /\ Len(buf) >= 1
    <2>1. \A n \in Nat : (n >= 1 => 1 \in 1..n) /\ (n = 2 => 2 \in 1..n /\ n >= 1)
      OBVIOUS
    <2> QED
      BY <1>4, <2>1
  <1> QED
    BY <1>1, <1>5, <1>6, <1>7

LEMMA FramedSuffix ==
    ASSUME NEW s \in Seq(Byte), NEW t \in Seq(Byte), Framed(s), Suffix(t, s, 3)
    PROVE  Framed(t)
  <1>1. Len(s) \in Nat /\ Len(t) \in Nat /\ Len(s) >= 3 /\ Len(t) = Len(s) - 3
        /\ s # <<>> /\ \A i \in 1..Len(t) : t[i] = s[i + 3]
    BY LenProperties, EmptySeq DEF Suffix
  <1>2. s[1] = Start /\ s[2] \in Link!Reply /\ s[3] = End
    <2>1. 1 \in 1..Len(s) /\ s[1] = Start /\ s[1] # End /\ s[1] \notin Link!Reply
      BY <1>1, BytesAssumption, ReplyType DEF Framed, Marks
    <2>2. 2 \in 1..Len(s) /\ s[1 + 1] \in Link!Reply
      BY <1>1, <2>1 DEF Framed
    <2>3. s[2] # Start /\ s[2] # End
      BY <2>2, ReplyType DEF Marks
    <2>4. s[2 + 1] = End
      BY <1>1, <2>2, <2>3 DEF Framed
    <2> QED
      BY <2>1, <2>2, <2>4
  <1>3. Len(t) >= 1 => s[4] = Start /\ 5 \in 1..Len(s) /\ s[5] \in Link!Reply
    BY <1>1, <1>2, BytesAssumption, ReplyType DEF Framed, Marks
  <1>4. t # <<>> => t[1] = Start
    BY <1>1, <1>3, EmptySeq
  <1>5. ASSUME NEW i \in 1..Len(t)
        PROVE  \/ t[i] = Start /\ i + 1 \in 1..Len(t) /\ t[i + 1] \in Link!Reply
               \/ /\ t[i] \in Link!Reply /\ i > 1 /\ t[i - 1] = Start
                  /\ i + 1 \in 1..Len(t) /\ t[i + 1] = End
               \/ t[i] = End /\ i > 2 /\ t[i - 1] \in Link!Reply /\ (i < Len(t) => t[i + 1] = Start)
    <2>1. i + 3 \in 1..Len(s) /\ t[i] = s[i + 3]
          /\ (i > 1 => t[i - 1] = s[(i + 3) - 1]) /\ (i < Len(t) => t[i + 1] = s[(i + 3) + 1])
      BY <1>1
    <2>2. CASE s[i + 3] = Start /\ (i + 3) + 1 \in 1..Len(s) /\ s[(i + 3) + 1] \in Link!Reply
      BY <1>1, <2>1, <2>2
    <2>3. CASE /\ s[i + 3] \in Link!Reply /\ s[(i + 3) - 1] = Start
               /\ (i + 3) + 1 \in 1..Len(s) /\ s[(i + 3) + 1] = End
      <3>1. i > 1
        BY <1>1, <1>3, <2>3, ReplyType DEF Marks
      <3> QED
        BY <1>1, <2>1, <2>3, <3>1
    <2>4. CASE s[i + 3] = End /\ s[(i + 3) - 1] \in Link!Reply /\ (i + 3 < Len(s) => s[(i + 3) + 1] = Start)
      <3>1. i > 2
        BY <1>1, <1>3, <2>4, ReplyType, BytesAssumption DEF Marks
      <3> QED
        BY <1>1, <2>1, <2>4, <3>1
    <2> QED
      BY <1>1, <2>1, <2>2, <2>3, <2>4 DEF Framed
  <1> QED
    BY <1>4, <1>5 DEF Framed

\* The next byte goes from the stream to the buffer.
LEMMA ByteMoved ==
    ASSUME NEW b \in Seq(Byte), NEW s \in Seq(Byte), s # <<>>
    PROVE  /\ Append(b, Head(s)) \in Seq(Byte) /\ Tail(s) \in Seq(Byte)
           /\ Append(b, Head(s)) \o Tail(s) = b \o s
  <1>1. Head(s) \in Byte /\ Tail(s) \in Seq(Byte) /\ Append(b, Head(s)) \in Seq(Byte)
    BY HeadTailProperties, AppendProperties
  <1>2. Append(b, Head(s)) = b \o <<Head(s)>> /\ <<Head(s)>> \in Seq(Byte)
    BY <1>1, AppendIsConcat
  <1>3. <<Head(s)>> \o Tail(s) = s
    OBVIOUS
  <1>4. (b \o <<Head(s)>>) \o Tail(s) = b \o (<<Head(s)>> \o Tail(s))
    BY <1>1, <1>2, ConcatAssociative
  <1> QED
    BY <1>1, <1>2, <1>3, <1>4

LEMMA FirstDropped ==
    ASSUME NEW b \in Seq(Byte), NEW s \in Seq(Byte), b # <<>>
    PROVE  Tail(b) \in Seq(Byte) /\ Suffix(Tail(b) \o s, b \o s, 1)
  <1>1. Tail(b) \in Seq(Byte) /\ Len(Tail(b)) = Len(b) - 1
        /\ \A i \in 1..Len(Tail(b)) : Tail(b)[i] = b[i + 1]
    BY HeadTailProperties
  <1>2. Len(b) \in Nat \ {0} /\ Len(s) \in Nat
    BY EmptySeq, LenProperties
  <1>3. /\ Len(b \o s) = Len(b) + Len(s)
        /\ \A i \in 1..Len(b) + Len(s) :
              (b \o s)[i] = IF i <= Len(b) THEN b[i] ELSE s[i - Len(b)]
    BY ConcatProperties
  <1>4. /\ Len(Tail(b) \o s) = Len(Tail(b)) + Len(s)
        /\ \A i \in 1..Len(Tail(b)) + Len(s) :
              (Tail(b) \o s)[i] = IF i <= Len(Tail(b)) THEN Tail(b)[i] ELSE s[i - Len(Tail(b))]
    BY <1>1, ConcatProperties
  <1>5. ASSUME NEW i \in 1..Len(Tail(b) \o s)
        PROVE  (Tail(b) \o s)[i] = (b \o s)[i + 1]
    <2>1. i \in Nat /\ i + 1 \in 1..Len(b) + Len(s) /\ i \in 1..Len(Tail(b)) + Len(s)
      BY <1>1, <1>2, <1>4
    <2>2. CASE i <= Len(b) - 1
      BY <1>1, <1>2, <1>3, <1>4, <2>1, <2>2
    <2>3. CASE i > Len(b) - 1
      <3>1. ~(i <= Len(Tail(b))) /\ ~(i + 1 <= Len(b)) /\ i - Len(Tail(b)) = (i + 1) - Len(b)
        BY <1>1, <1>2, <2>1, <2>3
      <3> QED
        BY <1>3, <1>4, <2>1, <3>1
    <2> QED
      BY <1>2, <2>1, <2>2, <2>3
  <1> QED
    BY <1>1, <1>2, <1>3, <1>4, <1>5 DEF Suffix

LEMMA KeepByteStep ==
    ASSUME IInv, KeepByte
    PROVE  IInv' /\ Wire' = Wire
  <1>1. TypeInv /\ stream # <<>> /\ Head(stream) # End /\ stream' = Tail(stream)
        /\ request # None /\ UNCHANGED <<pending, frame, request, up, calm, skips>>
    BY DEF IInv, KeepByte
  <1>2. stream \in Seq(Byte) /\ buf \in Seq(Byte) /\ Len(buf) \in Nat
    BY <1>1, LenProperties DEF TypeInv
  <1>3. Head(stream) \in Byte
    BY <1>1, <1>2, HeadTailProperties
  <1>4. CASE Len(buf) # 4
    <2>1. buf' = Append(buf, Head(stream))
      BY <1>4 DEF KeepByte
    <2>2. Whole' = Whole /\ stream' \in Seq(Byte) /\ buf' \in Seq(Byte)
      BY <1>1, <1>2, <2>1, ByteMoved DEF Whole
    <2>3. \A i \in 1..Len(buf') : buf'[i] # End
      BY <1>1, <1>2, <1>3, <2>1, AppendProperties DEF TypeInv
    <2>4. TypeInv'
      BY <1>1, <2>2, <2>3 DEF TypeInv
    <2> QED
      BY <1>1, <2>2, <2>4, HeadsPrime DEF IInv
  <1>5. CASE Len(buf) = 4
    <2>1. buf' = Append(Tail(buf), Head(stream)) /\ buf # <<>>
      BY <1>5, EmptySeq DEF KeepByte
    <2>2. Tail(buf) \in Seq(Byte) /\ Suffix(Tail(buf) \o stream, Whole, 1)
      BY <1>2, <2>1, FirstDropped DEF Whole
    <2>3. Whole' = Tail(buf) \o stream /\ stream' \in Seq(Byte) /\ buf' \in Seq(Byte)
      BY <1>1, <1>2, <2>1, <2>2, ByteMoved DEF Whole
    <2>4. Whole' \in Seq(Byte)
      BY <1>2, <2>2, <2>3, ConcatProperties
    <2>5. ~ReadableAt(Whole, 2)
      <3>1. Whole[2 + 1] # End
        BY <1>1, <1>5, WholeType
      <3> QED
        BY <3>1 DEF ReadableAt
    <2>6. OnlyAt(Whole, 1, 1)
      BY <2>5 DEF OnlyAt
    <2>7. Distinct(pending, Whole)' /\ InOrder(pending, Whole)' /\ Wire' = Wire
      BY <1>1, <2>2, <2>3, <2>4, <2>6, Disposed DEF IInv
    <2>8. \A i \in 1..Len(buf') : buf'[i] # End
      <3>1. Len(Tail(buf)) \in Nat /\ \A i \in 1..Len(Tail(buf)) : Tail(buf)[i] # End
        <4>1. Len(Tail(buf)) = Len(buf) - 1 /\ \A i \in 1..Len(Tail(buf)) : Tail(buf)[i] = buf[i + 1]
          BY <1>2, <2>1, HeadTailProperties
        <4>2. \A i \in 1..4 : buf[i] # End
          BY <1>1, <1>5 DEF TypeInv
        <4>3. Len(Tail(buf)) = 3
          BY <1>5, <4>1
        <4>4. ASSUME NEW i \in 1..Len(Tail(buf)) PROVE Tail(buf)[i] # End
          <5>1. Tail(buf)[i] = buf[i + 1]
            BY <4>1
          <5>2. i \in 1..3
            BY <4>3
          <5>3. i + 1 \in 1..4
            BY <5>2
          <5> QED
            BY <4>2, <5>1, <5>3
        <4> QED
          BY <4>3, <4>4
      <3> QED
        BY <1>1, <1>3, <2>1, <2>2, <3>1, AppendProperties
    <2>9. TypeInv'
      BY <1>1, <2>3, <2>8 DEF TypeInv
    <2>10. ~Framed(Whole)
      BY <1>1, <1>5, FramedBuf
    <2> QED
      BY <1>1, <2>7, <2>9, <2>10 DEF IInv
  <1> QED
    BY <1>4, <1>5

(* The frame that a read returns is the next reply to arrive.  If it       *)
(* returns none, the line has done harm, and to one reply at most.         *)
LEMMA EndFrameStep ==
    ASSUME IInv, EndFrame
    PROVE  /\ IInv'
           /\ frame' # None => frame' \in Link!Deliverable /\ Wire' = Wire \ {frame'}
           /\ frame' = None => ~calm /\ Wire' \in Link!AllButOne
  <1>1. TypeInv /\ stream # <<>> /\ Head(stream) = End /\ request # None
        /\ frame' = Decoded(buf) /\ request' = None /\ buf' = <<>> /\ stream' = Tail(stream)
        /\ UNCHANGED <<pending, up, calm, skips>>
    BY DEF IInv, EndFrame
  <1>2. stream \in Seq(Byte) /\ buf \in Seq(Byte) /\ Len(buf) \in Nat
    BY <1>1, LenProperties DEF TypeInv
  <1>3. /\ stream' \in Seq(Byte) /\ Len(stream') = Len(stream) - 1 /\ Len(stream) \in Nat \ {0}
        /\ \A i \in 1..Len(stream') : stream'[i] = stream[i + 1]
        /\ stream[1] = End
    BY <1>1, <1>2, HeadTailProperties, EmptySeq
  <1>4. Whole' = stream'
    BY <1>1, <1>3, ConcatEmptySeq DEF Whole
  <1>5. Whole \in Seq(Byte) /\ Len(Whole) = Len(buf) + Len(stream)
        /\ \A i \in 1..Len(stream) : Whole[i + Len(buf)] = stream[i]
    BY <1>1, WholeType
  <1>6. Whole[Len(buf) + 1] = End /\ Len(buf) + 1 \in 1..Len(Whole)
    BY <1>2, <1>3, <1>5
  <1>7. Suffix(Whole', Whole, Len(buf) + 1)
    <2>1. ASSUME NEW i \in 1..Len(stream')
          PROVE  stream'[i] = Whole[i + (Len(buf) + 1)]
      <3>1. i + 1 \in 1..Len(stream) /\ (i + 1) + Len(buf) = i + (Len(buf) + 1)
        BY <1>2, <1>3
      <3> QED
        BY <1>3, <1>5, <3>1
    <2> QED
      BY <1>2, <1>3, <1>4, <1>5, <2>1 DEF Suffix
  <1>8. OnlyAt(Whole, Len(buf) + 1, Len(buf))
    <2> SUFFICES ASSUME NEW i \in 2..(Len(buf) + 1) + 1, ReadableAt(Whole, i)
                 PROVE  i = Len(buf)
      BY DEF OnlyAt
    <2>1. i + 1 \in 1..Len(Whole) /\ Whole[i + 1] = End /\ Whole[i] # End /\ Whole[i - 1] # End
      BY <1>5, <1>2, <1>3, ReplyType DEF ReadableAt, Marks
    <2>2. ~(i + 1 \in 1..Len(buf))
      BY <1>1, <2>1, WholeType
    <2>3. i # Len(buf) + 1 /\ i - 1 # Len(buf) + 1
      BY <1>6, <2>1
    <2> QED
      BY <1>2, <2>2, <2>3
  <1>9. /\ Distinct(pending, Whole)' /\ InOrder(pending, Whole)'
        /\ IF Len(buf) \in 2..(Len(buf) + 1) + 1 /\ ReadableAt(Whole, Len(buf))
             THEN Whole[Len(buf)] \in Link!Deliverable /\ Wire' = Wire \ {Whole[Len(buf)]}
             ELSE Wire' = Wire
    BY <1>1, <1>3, <1>4, <1>7, <1>8, Disposed DEF IInv
  <1>10. frame' # None => /\ Len(buf) = 2 /\ ReadableAt(Whole, 2) /\ frame' = Whole[2]
                          /\ frame' \in Link!Reply
    <2> SUFFICES ASSUME frame' # None
                 PROVE  /\ Len(buf) = 2 /\ ReadableAt(Whole, 2) /\ frame' = Whole[2]
                        /\ frame' \in Link!Reply
      OBVIOUS
    <2>1. Len(buf) = 2 /\ buf[1] \in Heads /\ buf[2] \notin Marks /\ frame' = buf[2]
      BY <1>1 DEF Decoded
    <2>2. Whole[1] = buf[1] /\ Whole[2] = buf[2] /\ buf[2] \in Byte
      BY <1>1, <1>2, <2>1, WholeType, ElementOfSeq
    <2>3. Whole[2 + 1] = End /\ 2 \in 2..Len(Whole) - 1
      BY <1>3, <1>5, <1>6, <2>1
    <2>4. ReadableAt(Whole, 2)
      <3>1. Whole[2 - 1] = Whole[1]
        OBVIOUS
      <3> QED
        BY <2>1, <2>2, <2>3, <3>1 DEF ReadableAt
    <2> QED
      BY <2>1, <2>2, <2>4 DEF Byte
  <1>11. TypeInv'
    BY <1>1, <1>3, <1>10, EmptySeq DEF TypeInv
  <1>12. Framed(Whole) => /\ Len(buf) + 1 = 3 /\ frame' # None /\ Framed(Whole')
    <2> SUFFICES ASSUME Framed(Whole)
                 PROVE  /\ Len(buf) + 1 = 3 /\ frame' # None /\ Framed(Whole')
      OBVIOUS
    <2>1. Len(buf) + 1 > 2
      BY <1>2, <1>6, ReplyType, BytesAssumption DEF Framed, Marks
    <2>2. Len(buf) = 2 /\ buf[1] = Start /\ buf[2] \in Link!Reply
      <3>1. /\ Len(buf) <= 2 /\ (Len(buf) >= 1 => buf[1] = Start)
            /\ (Len(buf) = 2 => buf[2] \in Link!Reply)
        BY <1>1, FramedBuf
      <3>2. Len(buf) = 2
        <4>1. Len(buf) \in Nat
          BY <1>2
        <4>2. Len(buf) <= 2
          BY <3>1
        <4>3. \A n \in Nat : n + 1 > 2 /\ n <= 2 => n = 2
          OBVIOUS
        <4> QED
          BY <2>1, <4>1, <4>2, <4>3
      <3> QED
        BY <3>1, <3>2
    <2>3. frame' = buf[2]
      BY <1>1, <2>2, ReplyType DEF Decoded
    <2>4. Len(buf) + 1 = 3
      BY <2>2
    <2>5. Framed(Whole')
      BY <1>3, <1>4, <1>5, <1>7, <2>4, FramedSuffix
    <2> QED
      BY <2>2, <2>3, <2>4, <2>5, RangeAssumption
  <1>13. IInv'
    BY <1>1, <1>9, <1>11, <1>12, HeadsPrime DEF IInv
  <1>14. frame' # None => frame' \in Link!Deliverable /\ Wire' = Wire \ {frame'}
    <2> SUFFICES ASSUME frame' # None
                 PROVE  frame' \in Link!Deliverable /\ Wire' = Wire \ {frame'}
      OBVIOUS
    <2>1. Len(buf) = 2 /\ ReadableAt(Whole, Len(buf)) /\ frame' = Whole[Len(buf)]
      BY <1>10
    <2>2. Len(buf) \in 2..(Len(buf) + 1) + 1
      BY <2>1
    <2> QED
      BY <1>9, <2>1, <2>2
  <1>15. frame' = None => ~calm
    BY <1>1, <1>12 DEF IInv
  <1>16. Wire' \in Link!AllButOne
    BY <1>9 DEF Link!AllButOne
  <1> QED
    BY <1>13, <1>14, <1>15, <1>16

\* A read that fails drops what it has read.
LEMMA BufferDropped ==
    ASSUME IInv, buf' = <<>>, UNCHANGED <<pending, stream, skips>>
    PROVE  /\ Distinct(pending, Whole)' /\ InOrder(pending, Whole)' /\ Whole' = stream
           /\ Wire' \in Link!AllButOne
  <1>1. TypeInv /\ stream \in Seq(Byte) /\ buf \in Seq(Byte) /\ Len(buf) \in Nat
    BY LenProperties DEF IInv, TypeInv
  <1>2. Whole' = stream /\ Whole' \in Seq(Byte)
    BY <1>1, ConcatEmptySeq DEF Whole
  <1>3. Whole \in Seq(Byte) /\ Len(Whole) = Len(buf) + Len(stream) /\ Len(stream) \in Nat
        /\ \A i \in 1..Len(stream) : Whole[i + Len(buf)] = stream[i]
    BY <1>1, WholeType
  <1>4. Suffix(Whole', Whole, Len(buf))
    BY <1>1, <1>2, <1>3 DEF Suffix
  <1>5. \A i \in 2..Len(buf) + 1 : ReadableAt(Whole, i) => i \in {Len(buf), Len(buf) + 1}
    <2> SUFFICES ASSUME NEW i \in 2..Len(buf) + 1, ReadableAt(Whole, i)
                 PROVE  i \in {Len(buf), Len(buf) + 1}
      OBVIOUS
    <2>1. Whole[i + 1] = End
      BY DEF ReadableAt
    <2>2. ~(i + 1 \in 1..Len(buf))
      BY <1>1, <2>1, WholeType
    <2> QED
      BY <1>1, <2>2
  <1>6. ~(ReadableAt(Whole, Len(buf)) /\ ReadableAt(Whole, Len(buf) + 1))
    BY DEF ReadableAt, Marks
  <1> DEFINE k == IF ReadableAt(Whole, Len(buf)) THEN Len(buf) ELSE Len(buf) + 1
  <1>7. OnlyAt(Whole, Len(buf), k)
    BY <1>5, <1>6 DEF OnlyAt
  <1>8. /\ Distinct(pending, Whole)' /\ InOrder(pending, Whole)'
        /\ IF k \in 2..Len(buf) + 1 /\ ReadableAt(Whole, k)
             THEN Whole[k] \in Link!Deliverable /\ Wire' = Wire \ {Whole[k]}
             ELSE Wire' = Wire
    <2> HIDE DEF k
    <2> QED
      BY <1>1, <1>2, <1>4, <1>7, Disposed DEF IInv
  <1>9. Wire' \in Link!AllButOne
    <2> HIDE DEF k
    <2> QED
      BY <1>8 DEF Link!AllButOne
  <1> QED
    BY <1>2, <1>8, <1>9

LEMMA TimedOutStep ==
    ASSUME IInv, TimedOut
    PROVE  IInv' /\ Wire' \in Link!AllButOne /\ (calm => \A r \in Wire : ~r.own)
  <1>1. /\ TypeInv /\ request # None /\ (calm => stream = <<>> /\ \A r \in pending : ~r.own)
        /\ request' = None /\ buf' = <<>>
        /\ UNCHANGED <<pending, stream, frame, up, calm, skips>>
    BY DEF IInv, TimedOut
  <1>2. /\ Distinct(pending, Whole)' /\ InOrder(pending, Whole)' /\ Whole' = stream
        /\ Wire' \in Link!AllButOne
    BY <1>1, BufferDropped
  <1>3. TypeInv'
    BY <1>1, EmptySeq DEF TypeInv
  <1>4. stream = <<>> => Framed(stream) /\ Wire = pending
    <2> SUFFICES ASSUME stream = <<>>
                 PROVE  Framed(stream) /\ Wire = pending
      OBVIOUS
    <2>1. Framed(stream)
      BY EmptySeq DEF Framed
    <2>2. Len(Whole) = Len(buf) /\ Len(buf) \in Nat /\ \A i \in 1..Len(buf) : Whole[i] # End
      <3>1. Len(stream) = 0
        BY EmptySeq
      <3>2. /\ Len(Whole) = Len(buf) + Len(stream) /\ Len(buf) \in Nat
            /\ \A i \in 1..Len(buf) : Whole[i] # End
        BY <1>1, WholeType
      <3> QED
        BY <3>1, <3>2
    <2>3. Readable(Whole) = {}
      BY <2>2 DEF Readable
    <2> QED
      BY <2>1, <2>3 DEF Wire, Whole
  <1> QED
    BY <1>1, <1>2, <1>3, <1>4, HeadsPrime DEF IInv

LEMMA IoErrorStep ==
    ASSUME IInv, IoError
    PROVE  IInv' /\ Wire' \in Link!AllButOne
  <1>1. /\ TypeInv /\ ~up /\ request' = None /\ buf' = <<>>
        /\ UNCHANGED <<pending, stream, frame, up, calm, skips>>
    BY DEF IInv, IoError
  <1>2. TypeInv'
    BY <1>1, EmptySeq DEF TypeInv
  <1> QED
    BY <1>1, <1>2, BufferDropped, HeadsPrime DEF IInv

-----------------------------------------------------------------------------
(* The steps of the client and the line.                                   *)

Aged(r) == [addr |-> r.addr, kind |-> r.kind, own |-> FALSE]

LEMMA AgedIs ==
    ASSUME NEW r \in Link!Reply
    PROVE  /\ [r EXCEPT !.own = FALSE] = Aged(r)
           /\ Aged(r) \in Link!Reply /\ Aged(r).own = FALSE
           /\ Aged(r).addr = r.addr /\ Aged(r).kind = r.kind
  <1> DEFINE x == [r EXCEPT !.own = FALSE]
  <1>1. x \in Link!Reply /\ x.addr = r.addr /\ x.kind = r.kind /\ x.own = FALSE
    BY DEF Link!Reply
  <1> HIDE DEF x
  <1>2. x = Aged(r)
    BY <1>1 DEF Link!Reply, Aged
  <1> QED
    BY <1>1, <1>2 DEF x

LEMMA OutdatedIs ==
    ASSUME NEW w \in SUBSET Link!Reply
    PROVE  /\ Link!Outdated(w) = {Aged(r) : r \in w}
           /\ Link!Outdated(w) \subseteq Link!Reply
           /\ \A r \in Link!Outdated(w) : r.own = FALSE /\ \E q \in w : r = Aged(q)
  <1>1. Link!Outdated(w) = {Aged(r) : r \in w}
    BY DEF Link!Outdated, Aged
  <1>2. \A r \in Link!Outdated(w) : \E q \in w : r = Aged(q)
    BY <1>1
  <1>3. ASSUME NEW r \in Link!Outdated(w)
        PROVE  r \in Link!Reply /\ r.own = FALSE
    <2>1. PICK q \in w : r = Aged(q)
      BY <1>2
    <2> QED
      BY <2>1, AgedIs
  <1> QED
    BY <1>1, <1>2, <1>3

LEMMA WireType ==
    ASSUME TypeInv
    PROVE  Wire \in SUBSET Link!Reply
  <1>1. Wire = pending \cup Readable(Whole)
    BY DEF Wire, Whole
  <1> QED
    BY <1>1, WholeType, ReadableIs DEF TypeInv

LEMMA AskStep ==
    ASSUME IInv, NEW a \in Link!Address, NEW k \in Link!Kinds, Ask(a, k)
    PROVE  IInv' /\ Link!Send(a, k)
  <1>1. /\ TypeInv /\ up /\ request = None /\ buf = <<>>
        /\ \A r, q \in Wire : r.addr = q.addr /\ r.kind = q.kind => r = q
        /\ request' = [addr |-> a, kind |-> k] /\ frame' = None
        /\ pending' = Link!Outdated(pending) \cup Link!Answers(a, k)
        /\ stream' = [i \in DOMAIN stream |->
                        IF stream[i] \in Marks THEN stream[i]
                                               ELSE [stream[i] EXCEPT !.own = FALSE]]
        /\ UNCHANGED <<buf, up, calm, skips>>
    BY DEF IInv, Ask, OneReplyEach, TypeInv
  <1>2. /\ stream \in Seq(Byte) /\ Len(stream) \in Nat /\ DOMAIN stream = 1..Len(stream)
        /\ \A i \in 1..Len(stream) : stream[i] \in Byte
    BY <1>1, LenProperties, ElementOfSeq DEF TypeInv
  <1>3. \A i \in 1..Len(stream) :
           /\ stream[i] \in Marks => stream'[i] = stream[i]
           /\ stream[i] \notin Marks => /\ stream[i] \in Link!Reply /\ stream'[i] \in Link!Reply
                                       /\ stream'[i] = Aged(stream[i])
    <2> SUFFICES ASSUME NEW i \in 1..Len(stream)
                 PROVE  /\ stream[i] \in Marks => stream'[i] = stream[i]
                        /\ stream[i] \notin Marks =>
                              /\ stream[i] \in Link!Reply /\ stream'[i] \in Link!Reply
                              /\ stream'[i] = Aged(stream[i])
      OBVIOUS
    <2>1. stream'[i] = IF stream[i] \in Marks THEN stream[i] ELSE [stream[i] EXCEPT !.own = FALSE]
      BY <1>1, <1>2
    <2>2. stream[i] \notin Marks => stream[i] \in Link!Reply
      BY <1>2 DEF Byte
    <2> QED
      BY <2>1, <2>2, AgedIs
  <1>4. stream' \in Seq(Byte) /\ Len(stream') = Len(stream)
    <2>1. DOMAIN stream' = 1..Len(stream) /\ stream' = [i \in DOMAIN stream' |-> stream'[i]]
      BY <1>1, <1>2
    <2>2. stream' \in [1..Len(stream) -> Byte]
      BY <1>2, <1>3, <2>1 DEF Byte
    <2> QED
      BY <1>2, <2>2, SeqDef
  <1>5. Whole = stream /\ Whole' = stream'
    BY <1>1, <1>2, <1>4, ConcatEmptySeq DEF Whole
  <1>6. \A i \in 1..Len(stream) : /\ stream'[i] \in Marks <=> stream[i] \in Marks
                                  /\ stream[i] \in Marks => stream'[i] = stream[i]
    <2>1. \A r \in Link!Reply : r \notin Marks
      BY ReplyType
    <2> QED
      BY <1>3, <2>1
  <1>7. \A j : ReadableAt(stream', j) <=> ReadableAt(stream, j)
    <2> SUFFICES ASSUME NEW j \in 2..Len(stream) - 1
                 PROVE  ReadableAt(stream', j) <=> ReadableAt(stream, j)
      BY <1>4 DEF ReadableAt
    <2>1. j \in 1..Len(stream) /\ j - 1 \in 1..Len(stream) /\ j + 1 \in 1..Len(stream)
      BY <1>2
    <2>2. Heads \subseteq Marks /\ End \in Marks
      BY ReplyType DEF Marks
    <2>3. stream'[j] \in Marks <=> stream[j] \in Marks
      BY <1>6, <2>1
    <2>4. stream'[j - 1] \in Heads <=> stream[j - 1] \in Heads
      BY <1>6, <2>1, <2>2
    <2>5. stream'[j + 1] = End <=> stream[j + 1] = End
      BY <1>6, <2>1, <2>2
    <2> QED
      BY <1>4, <2>3, <2>4, <2>5 DEF ReadableAt
  <1>8. \A j : ReadableAt(stream, j) =>
           /\ j \in 2..Len(stream) /\ stream[j] \in Link!Reply
           /\ stream'[j] = Aged(stream[j])
           /\ stream'[j] \in Link!Reply /\ stream'[j].own = FALSE
    <2> SUFFICES ASSUME NEW j, ReadableAt(stream, j)
                 PROVE  /\ j \in 2..Len(stream) /\ stream[j] \in Link!Reply
                        /\ stream'[j] = Aged(stream[j])
                        /\ stream'[j] \in Link!Reply /\ stream'[j].own = FALSE
      OBVIOUS
    <2>1. j \in 2..Len(stream) /\ stream[j] \in Link!Reply
      BY <1>2, ReadableIs
    <2>2. stream[j] \notin Marks /\ j \in 1..Len(stream)
      BY <1>2, <2>1 DEF ReadableAt
    <2> QED
      BY <1>3, <2>1, <2>2, AgedIs
  <1>9. Readable(stream') = Link!Outdated(Readable(stream))
    <2>1. \A r : r \in Readable(stream') <=> \E j \in 2..Len(stream') : ReadableAt(stream', j) /\ r = stream'[j]
      BY <1>4, ReadableIs
    <2>2. \A r : r \in Readable(stream) <=> \E j \in 2..Len(stream) : ReadableAt(stream, j) /\ r = stream[j]
      BY <1>2, ReadableIs
    <2>3. \A r : r \in Readable(stream') <=> \E q \in Readable(stream) : r = Aged(q)
      BY <1>4, <1>7, <1>8, <2>1, <2>2
    <2>4. Readable(stream) \in SUBSET Link!Reply
      BY <1>2, ReadableIs
    <2>5. Link!Outdated(Readable(stream)) = {Aged(r) : r \in Readable(stream)}
      BY <2>4, OutdatedIs
    <2> QED
      BY <2>3, <2>5
  <1>10. Wire = pending \cup Readable(stream) /\ Wire' = pending' \cup Readable(stream')
    BY <1>1, <1>5, HeadsPrime
  <1>11. Wire' = Link!Outdated(Wire) \cup Link!Answers(a, k)
    BY <1>1, <1>9, <1>10 DEF Link!Outdated
  <1>12. pending' \subseteq Link!Reply
    <2>1. Link!Outdated(pending) \subseteq Link!Reply
      BY <1>1, OutdatedIs DEF TypeInv
    <2>2. Link!Answers(a, k) \subseteq Link!Reply
      <3>1. [addr |-> a, kind |-> k, own |-> TRUE] \in Link!Reply
        BY DEF Link!Reply
      <3> QED
        BY <3>1 DEF Link!Answers
    <2> QED
      BY <1>1, <2>1, <2>2
  <1>13. TypeInv'
    BY <1>1, <1>4, <1>12, RangeAssumption DEF TypeInv, Link!Request
  <1>14. Distinct(pending', stream')
    <2>1. \A r, q \in Wire : Aged(r) = Aged(q) => r = q
      <3> SUFFICES ASSUME NEW r \in Wire, NEW q \in Wire, Aged(r) = Aged(q) PROVE r = q
        OBVIOUS
      <3>1. r \in Link!Reply /\ q \in Link!Reply
        BY <1>1, WireType
      <3>2. r.addr = q.addr /\ r.kind = q.kind
        BY <3>1, AgedIs
      <3> QED
        BY <1>1, <3>2
    <2>2. \A j \in 2..Len(stream') : ReadableAt(stream', j) =>
             /\ j \in 2..Len(stream) /\ ReadableAt(stream, j) /\ stream[j] \in Wire
             /\ stream'[j] = Aged(stream[j]) /\ stream'[j].own = FALSE
      BY <1>2, <1>7, <1>8, <1>10, ReadableIs
    <2>3. \A r \in Link!Outdated(pending) : \E q \in pending : r = Aged(q)
      BY <1>1, OutdatedIs DEF TypeInv
    <2>4. \A r \in Link!Answers(a, k) : r.own = TRUE
      BY DEF Link!Answers
    <2>5. \A r \in pending' : \A j \in 2..Len(stream') : ReadableAt(stream', j) => r # stream'[j]
      <3> SUFFICES ASSUME NEW r \in pending', NEW j \in 2..Len(stream'),
                          ReadableAt(stream', j), r = stream'[j]
                   PROVE  FALSE
        OBVIOUS
      <3>1. r \notin Link!Answers(a, k)
        BY <2>2, <2>4
      <3>2. PICK q \in pending : r = Aged(q)
        <4>1. pending' = Link!Outdated(pending) \cup Link!Answers(a, k)
          BY <1>1
        <4>2. r \in Link!Outdated(pending)
          BY <3>1, <4>1
        <4> QED
          BY <2>3, <4>2
      <3>3. q = stream[j]
        <4>1. q \in Wire /\ stream[j] \in Wire /\ Aged(q) = Aged(stream[j])
          BY <1>10, <2>2, <3>2
        <4> QED
          BY <2>1, <4>1
      <3> QED
        BY <1>5, <2>2, <3>3 DEF IInv, Distinct
    <2>6. \A i, j \in 2..Len(stream') :
             ReadableAt(stream', i) /\ ReadableAt(stream', j) /\ stream'[i] = stream'[j] => i = j
      <3> SUFFICES ASSUME NEW i \in 2..Len(stream'), NEW j \in 2..Len(stream'),
                          ReadableAt(stream', i), ReadableAt(stream', j), stream'[i] = stream'[j]
                   PROVE  i = j
        OBVIOUS
      <3>1. stream[i] = stream[j]
        BY <2>1, <2>2
      <3> QED
        BY <1>5, <2>2, <3>1 DEF IInv, Distinct
    <2> QED
      BY <2>5, <2>6 DEF Distinct
  <1>15. InOrder(pending', stream')
    BY <1>7, <1>8 DEF InOrder
  <1>16. Framed(stream) => Framed(stream')
    <2> SUFFICES ASSUME Framed(stream)
                 PROVE  Framed(stream')
      OBVIOUS
    <2>1. \A i \in 1..Len(stream) : /\ stream[i] \in Link!Reply => stream'[i] \in Link!Reply
                                    /\ stream[i] = Start => stream'[i] = Start
                                    /\ stream[i] = End => stream'[i] = End
      BY <1>3, ReplyType DEF Marks
    <2>2. stream' # <<>> => stream # <<>> /\ 1 \in 1..Len(stream)
      BY <1>2, <1>4, EmptySeq
    <2>3. stream' # <<>> => stream'[1] = Start
      <3>1. stream # <<>> => stream[1] = Start
        BY DEF Framed
      <3> QED
        BY <2>1, <2>2, <3>1
    <2>4. ASSUME NEW i \in 1..Len(stream')
          PROVE  \/ stream'[i] = Start /\ i + 1 \in 1..Len(stream') /\ stream'[i + 1] \in Link!Reply
                 \/ /\ stream'[i] \in Link!Reply /\ i > 1 /\ stream'[i - 1] = Start
                    /\ i + 1 \in 1..Len(stream') /\ stream'[i + 1] = End
                 \/ /\ stream'[i] = End /\ i > 2 /\ stream'[i - 1] \in Link!Reply
                    /\ (i < Len(stream') => stream'[i + 1] = Start)
      <3>1. i \in 1..Len(stream) /\ (i > 1 => i - 1 \in 1..Len(stream))
            /\ (i < Len(stream) => i + 1 \in 1..Len(stream)) /\ Len(stream') = Len(stream)
        BY <1>2, <1>4
      <3>2. \/ stream[i] = Start /\ i + 1 \in 1..Len(stream) /\ stream[i + 1] \in Link!Reply
            \/ /\ stream[i] \in Link!Reply /\ i > 1 /\ stream[i - 1] = Start
               /\ i + 1 \in 1..Len(stream) /\ stream[i + 1] = End
            \/ /\ stream[i] = End /\ i > 2 /\ stream[i - 1] \in Link!Reply
               /\ (i < Len(stream) => stream[i + 1] = Start)
        BY <3>1 DEF Framed
      <3>3. CASE stream[i] = Start /\ i + 1 \in 1..Len(stream) /\ stream[i + 1] \in Link!Reply
        BY <2>1, <3>1, <3>3
      <3>4. CASE /\ stream[i] \in Link!Reply /\ i > 1 /\ stream[i - 1] = Start
                 /\ i + 1 \in 1..Len(stream) /\ stream[i + 1] = End
        BY <2>1, <3>1, <3>4
      <3>5. CASE /\ stream[i] = End /\ i > 2 /\ stream[i - 1] \in Link!Reply
                 /\ (i < Len(stream) => stream[i + 1] = Start)
        <4>1. i > 1
          BY <3>5
        <4> QED
          BY <2>1, <3>1, <3>5, <4>1
      <3> QED
        BY <3>2, <3>3, <3>4, <3>5
    <2> QED
      BY <2>3, <2>4 DEF Framed
  <1>17. IInv'
    BY <1>1, <1>5, <1>13, <1>14, <1>15, <1>16, HeadsPrime DEF IInv
  <1>18. Link!Send(a, k)
    BY <1>1, <1>11 DEF Link!Send
  <1> QED
    BY <1>17, <1>18

\* What the line makes of the answer r: r itself at most once, and no end
\* byte in front, which could mend the frame before.
Remains(t, r) ==
    /\ t \in Seq(Byte)
    /\ t # <<>> => t[1] # End
    /\ \A m \in 1..Len(t) : t[m] \notin Marks => t[m] = r
    /\ \A m, n \in 1..Len(t) : t[m] \notin Marks /\ t[n] \notin Marks => m = n

LEMMA CleanIs ==
    ASSUME NEW r \in Link!Reply
    PROVE  /\ Clean(r) \in Seq(Byte) /\ Len(Clean(r)) = 3 /\ Clean(r) # <<>>
           /\ Clean(r)[1] = Start /\ Clean(r)[2] = r /\ Clean(r)[3] = End
           /\ Remains(Clean(r), r)
  <1>1. Start \in Byte /\ r \in Byte /\ End \in Byte
    BY DEF Byte, Marks
  <1>2. /\ Clean(r) \in Seq(Byte) /\ Len(Clean(r)) = 3 /\ Clean(r) # <<>>
        /\ Clean(r)[1] = Start /\ Clean(r)[2] = r /\ Clean(r)[3] = End
    BY <1>1 DEF Clean
  <1>3. \A m \in 1..3 : Clean(r)[m] \notin Marks => m = 2
    BY <1>2 DEF Marks
  <1> QED
    BY <1>2, <1>3, BytesAssumption DEF Remains

LEMMA DamagedIs ==
    ASSUME NEW r \in Link!Reply, NEW t \in Damaged(r)
    PROVE  Remains(t, r)
  <1> USE CleanIs
  <1>1. \A m \in 1..3 : Clean(r)[m] \in Byte /\ (Clean(r)[m] \notin Marks => m = 2)
    BY DEF Marks, Byte
  <1>2. ASSUME NEW i \in 1..3, t = RemoveAt(Clean(r), i), t[1] # End
        PROVE  Remains(t, r)
    <2>1. /\ SubSeq(Clean(r), 1, i - 1) \in Seq(Byte) /\ SubSeq(Clean(r), i + 1, 3) \in Seq(Byte)
          /\ Len(SubSeq(Clean(r), 1, i - 1)) = i - 1 /\ Len(SubSeq(Clean(r), i + 1, 3)) = 3 - i
          /\ \A m \in 1..i - 1 : SubSeq(Clean(r), 1, i - 1)[m] = Clean(r)[m]
          /\ \A m \in 1..3 - i : SubSeq(Clean(r), i + 1, 3)[m] = Clean(r)[i + m]
      BY <1>1, SubSeqProperties
    <2>2. t = SubSeq(Clean(r), 1, i - 1) \o SubSeq(Clean(r), i + 1, 3)
      BY <1>2 DEF RemoveAt
    <2>3. /\ t \in Seq(Byte) /\ Len(t) = 2
          /\ \A m \in 1..2 : t[m] = IF m <= i - 1 THEN Clean(r)[m] ELSE Clean(r)[m + 1]
      BY <2>1, <2>2, ConcatProperties
    <2>4. \A m \in 1..2 : t[m] \notin Marks => t[m] = r /\ (IF m <= i - 1 THEN m = 2 ELSE m = 1)
      BY <1>1, <2>3
    <2>5. \A m, n \in 1..2 : t[m] \notin Marks /\ t[n] \notin Marks => m = n
      BY <2>4
    <2> QED
      BY <1>2, <2>3, <2>4, <2>5 DEF Remains
  <1>3. ASSUME NEW i \in 1..3, NEW b \in Marks, t = ReplaceAt(Clean(r), i, b), t[1] # End
        PROVE  Remains(t, r)
    <2>1. b \in Byte
      BY DEF Byte
    <2>2. /\ t \in Seq(Byte) /\ Len(t) = 3
          /\ \A m \in 1..3 : t[m] = IF m = i THEN b ELSE Clean(r)[m]
      BY <1>3, <2>1, ExceptSeq DEF ReplaceAt
    <2> QED
      BY <1>1, <1>3, <2>2 DEF Remains
  <1>4. CASE t = <<>>
    BY <1>4, EmptySeq DEF Remains
  <1> QED
    BY <1>2, <1>3, <1>4 DEF Damaged

\* What r leaves on the line does not touch what is there already.
LEMMA ReadableBehind ==
    ASSUME NEW s \in Seq(Byte), NEW t, NEW r, Remains(t, r)
    PROVE  /\ s \o t \in Seq(Byte) /\ Len(s \o t) = Len(s) + Len(t)
           /\ \A i \in 2..Len(s) : /\ (s \o t)[i] = s[i]
                                   /\ ReadableAt(s \o t, i) <=> ReadableAt(s, i)
           /\ \A i \in 2..Len(s \o t) : i > Len(s) /\ ReadableAt(s \o t, i) => (s \o t)[i] = r
           /\ \A i, j \in 2..Len(s \o t) :
                 i > Len(s) /\ j > Len(s) /\ ReadableAt(s \o t, i) /\ ReadableAt(s \o t, j) => i = j
  <1>1. /\ t \in Seq(Byte) /\ (t # <<>> => t[1] # End)
        /\ \A m \in 1..Len(t) : t[m] \notin Marks => t[m] = r
        /\ \A m, n \in 1..Len(t) : t[m] \notin Marks /\ t[n] \notin Marks => m = n
    BY DEF Remains
  <1>2. Len(s) \in Nat /\ Len(t) \in Nat
    BY <1>1, LenProperties
  <1> DEFINE w == s \o t
  <1>3. /\ w \in Seq(Byte) /\ Len(w) = Len(s) + Len(t)
        /\ \A i \in 1..Len(s) + Len(t) : w[i] = IF i <= Len(s) THEN s[i] ELSE t[i - Len(s)]
    BY <1>1, ConcatProperties
  <1> HIDE DEF w
  <1>4. \A i \in 1..Len(s) : i \in 1..Len(w) /\ w[i] = s[i]
    BY <1>2, <1>3
  <1>5. \A i \in 1..Len(w) : i > Len(s) => i - Len(s) \in 1..Len(t) /\ w[i] = t[i - Len(s)]
    BY <1>2, <1>3
  <1>6. ASSUME NEW i \in 2..Len(s)
        PROVE  w[i] = s[i] /\ (ReadableAt(w, i) <=> ReadableAt(s, i))
    <2>1. i \in 1..Len(s) /\ i - 1 \in 1..Len(s) /\ w[i] = s[i] /\ w[i - 1] = s[i - 1]
      BY <1>2, <1>4
    <2>2. CASE i < Len(s)
      <3>1. i + 1 \in 1..Len(s) /\ w[i + 1] = s[i + 1] /\ i \in 2..Len(s) - 1 /\ i \in 2..Len(w) - 1
        BY <1>2, <1>3, <1>4, <2>2
      <3> QED
        BY <2>1, <3>1 DEF ReadableAt
    <2>3. CASE i = Len(s)
      <3>1. ~ReadableAt(s, i)
        BY <1>2, <2>3 DEF ReadableAt
      <3>2. CASE i + 1 \in 1..Len(w)
        <4>1. i + 1 > Len(s) /\ (i + 1) - Len(s) = 1
          BY <1>2, <2>3
        <4>2. 1 \in 1..Len(t) /\ w[i + 1] = t[1]
          BY <1>5, <3>2, <4>1
        <4>3. t # <<>>
          BY <4>2, EmptySeq
        <4> QED
          BY <1>1, <2>1, <3>1, <4>2, <4>3 DEF ReadableAt
      <3>3. CASE i + 1 \notin 1..Len(w)
        <4>1. i \notin 2..Len(w) - 1
          BY <1>2, <1>3, <3>3
        <4> QED
          BY <2>1, <3>1, <4>1 DEF ReadableAt
      <3> QED
        BY <3>2, <3>3
    <2> QED
      BY <1>2, <2>2, <2>3
  <1>7. \A i \in 2..Len(w) : i > Len(s) /\ ReadableAt(w, i) => w[i] = r
    BY <1>1, <1>5 DEF ReadableAt
  <1>8. ASSUME NEW i \in 2..Len(w), NEW j \in 2..Len(w), i > Len(s), j > Len(s),
               ReadableAt(w, i), ReadableAt(w, j)
        PROVE  i = j
    <2>1. i - Len(s) \in 1..Len(t) /\ j - Len(s) \in 1..Len(t)
          /\ t[i - Len(s)] \notin Marks /\ t[j - Len(s)] \notin Marks
      <3>1. i \in 1..Len(w) /\ j \in 1..Len(w)
        BY <1>2, <1>3
      <3>2. /\ i - Len(s) \in 1..Len(t) /\ w[i] = t[i - Len(s)]
            /\ j - Len(s) \in 1..Len(t) /\ w[j] = t[j - Len(s)]
        BY <1>5, <1>8, <3>1
      <3>3. w[i] \notin Marks /\ w[j] \notin Marks
        BY <1>8 DEF ReadableAt
      <3> QED
        BY ONLY <3>2, <3>3
    <2>2. i - Len(s) = j - Len(s)
      BY <1>1, <2>1
    <2> QED
      BY <1>2, <2>2
  <1> QED
    BY <1>3, <1>6, <1>7, <1>8 DEF w

\* It is the turn of the answer r: outdated ones come first.
Due(p, r) == r \in p /\ (r.own => \A q \in p : q.addr = r.addr => q.own)

\* What is under way when the remains t of the answer r follow s: r is
\* either among it, or lost, but not if t is r unharmed.
Arrives(p, s, t, r) ==
    /\ (p \ {r}) \cup Readable(s \o t) \in {p \cup Readable(s), (p \cup Readable(s)) \ {r}}
    /\ t = Clean(r) => (p \ {r}) \cup Readable(s \o t) = p \cup Readable(s)

LEMMA ArrivedKeeps ==
    ASSUME NEW p \in SUBSET Link!Reply, NEW s \in Seq(Byte), NEW t, NEW r, Remains(t, r),
           Due(p, r), Distinct(p, s), InOrder(p, s)
    PROVE  Distinct(p \ {r}, s \o t) /\ InOrder(p \ {r}, s \o t) /\ Arrives(p, s, t, r)
  <1> DEFINE w == s \o t
  <1>1. /\ w \in Seq(Byte) /\ Len(w) = Len(s) + Len(t) /\ Len(s) \in Nat /\ Len(t) \in Nat
        /\ \A i \in 2..Len(s) : w[i] = s[i] /\ (ReadableAt(w, i) <=> ReadableAt(s, i))
        /\ \A i \in 2..Len(w) : i > Len(s) /\ ReadableAt(w, i) => w[i] = r
        /\ \A i, j \in 2..Len(w) :
              i > Len(s) /\ j > Len(s) /\ ReadableAt(w, i) /\ ReadableAt(w, j) => i = j
    BY ReadableBehind, LenProperties DEF Remains
  <1> HIDE DEF w
  <1>2. r \in p /\ (r.own => \A q \in p : q.addr = r.addr => q.own)
    BY DEF Due
  <1>3. \A i \in 2..Len(w) : i \in 2..Len(s) \/ i > Len(s)
    BY <1>1
  <1>4. \A i \in 2..Len(s) : ReadableAt(s, i) => r # s[i]
    BY <1>2 DEF Distinct
  <1>5. Distinct(p \ {r}, w)
    <2>1. \A q \in p \ {r} : \A i \in 2..Len(w) : ReadableAt(w, i) => q # w[i]
      BY <1>1, <1>2, <1>3 DEF Distinct
    <2>2. \A i, j \in 2..Len(w) :
             ReadableAt(w, i) /\ ReadableAt(w, j) /\ w[i] = w[j] => i = j
      BY <1>1, <1>3, <1>4 DEF Distinct
    <2> QED
      BY <2>1, <2>2 DEF Distinct
  <1>6. InOrder(p \ {r}, w)
    <2> SUFFICES ASSUME NEW i \in 2..Len(w), ReadableAt(w, i), w[i].own
                 PROVE  /\ \A q \in p \ {r} : q.addr = w[i].addr => q.own
                        /\ \A j \in i + 1..Len(w) :
                              ReadableAt(w, j) /\ w[j].addr = w[i].addr => w[j].own
      BY DEF InOrder
    <2>1. CASE i > Len(s)
      <3>1. w[i] = r
        BY <1>1, <2>1
      <3>2. \A j \in i + 1..Len(w) : ~ReadableAt(w, j)
        BY <1>1, <2>1
      <3> QED
        BY <1>2, <3>1, <3>2
    <2>2. CASE i \in 2..Len(s)
      <3>1. ReadableAt(s, i) /\ w[i] = s[i]
        BY <1>1, <2>2
      <3>2. \A q \in p : q.addr = s[i].addr => q.own
        BY <2>2, <3>1 DEF InOrder
      <3>3. ASSUME NEW j \in i + 1..Len(w), ReadableAt(w, j), w[j].addr = w[i].addr
            PROVE  w[j].own
        <4>1. CASE j > Len(s)
          <5>1. j \in 2..Len(w)
            BY <1>1
          <5> QED
            BY <1>1, <1>2, <3>1, <3>2, <3>3, <4>1, <5>1
        <4>2. CASE ~(j > Len(s))
          <5>1. j \in i + 1..Len(s) /\ j \in 2..Len(s)
            BY <1>1, <4>2
          <5> QED
            BY <1>1, <2>2, <3>1, <3>3, <5>1 DEF InOrder
        <4> QED
          BY <4>1, <4>2
      <3> QED
        BY <3>1, <3>2, <3>3
    <2> QED
      BY <1>3, <2>1, <2>2
  <1>7. /\ \A q : q \in Readable(w) <=> \E i \in 2..Len(w) : ReadableAt(w, i) /\ q = w[i]
        /\ \A q : q \in Readable(s) <=> \E i \in 2..Len(s) : ReadableAt(s, i) /\ q = s[i]
    BY <1>1, ReadableIs
  <1>8. Readable(s) \subseteq Readable(w)
    <2>1. \A i \in 2..Len(s) : i \in 2..Len(w)
      BY <1>1
    <2> QED
      BY <1>1, <1>7, <2>1
  <1>9. Readable(w) \subseteq Readable(s) \cup {r}
    BY <1>1, <1>3, <1>7
  <1>10. r \notin Readable(s)
    BY <1>4, <1>7
  <1>11. t = Clean(r) => r \in Readable(w)
    <2> SUFFICES ASSUME t = Clean(r)
                 PROVE  r \in Readable(w)
      OBVIOUS
    <2>1. Len(t) = 3 /\ t[1] = Start /\ t[2] = r /\ t[3] = End /\ t \in Seq(Byte) /\ r \notin Marks
      BY <1>2, CleanIs, ReplyType
    <2>2. \A i \in 1..Len(s) + 3 : w[i] = IF i <= Len(s) THEN s[i] ELSE t[i - Len(s)]
      <3>1. s \in Seq(Byte) /\ t \in Seq(Byte)
        BY <2>1
      <3>2. \A i \in 1..Len(s) + Len(t) : w[i] = IF i <= Len(s) THEN s[i] ELSE t[i - Len(s)]
        BY ONLY <3>1, ConcatProperties DEF w
      <3>3. Len(t) = 3
        BY <2>1
      <3> QED
        BY ONLY <3>2, <3>3
    <2>3. w[Len(s) + 1] = t[1] /\ w[Len(s) + 2] = t[2] /\ w[Len(s) + 3] = t[3]
      <3>1. Len(s) \in Nat
        BY <1>1
      <3>2. \A n \in Nat : \A k \in {1, 2, 3} :
               n + k \in 1..n + 3 /\ ~(n + k <= n) /\ (n + k) - n = k
        OBVIOUS
      <3> QED
        BY ONLY <2>2, <3>1, <3>2
    <2>4. ReadableAt(w, Len(s) + 2)
      <3>1. Len(s) + 2 \in 2..Len(w) - 1 /\ (Len(s) + 2) - 1 = Len(s) + 1
            /\ (Len(s) + 2) + 1 = Len(s) + 3
        BY <1>1, <2>1
      <3> QED
        BY <2>1, <2>3, <3>1, ReplyType DEF ReadableAt
    <2> QED
      BY <1>7, <2>1, <2>3, <2>4, <1>1, ReadableIs
  <1> QED
    BY <1>2, <1>5, <1>6, <1>8, <1>9, <1>10, <1>11 DEF w, Arrives

LEMMA FramedBehind ==
    ASSUME NEW s \in Seq(Byte), NEW r \in Link!Reply, Framed(s)
    PROVE  Framed(s \o Clean(r))
  <1> PICK t : t = Clean(r)
    OBVIOUS
  <1> DEFINE w == s \o t
  <1>1. Len(s) \in Nat /\ Len(w) = Len(s) + 3
        /\ \A i \in 1..Len(s) + 3 : w[i] = IF i <= Len(s) THEN s[i] ELSE t[i - Len(s)]
    <2>1. t \in Seq(Byte) /\ Len(t) = 3 /\ Len(s) \in Nat
      BY CleanIs, LenProperties
    <2>2. /\ Len(w) = Len(s) + Len(t)
          /\ \A i \in 1..Len(s) + Len(t) : w[i] = IF i <= Len(s) THEN s[i] ELSE t[i - Len(s)]
      BY <2>1, ConcatProperties
    <2> HIDE DEF w
    <2> QED
      BY <2>1, <2>2
  <1> HIDE DEF w
  <1>2. /\ \A i \in 1..Len(s) : i \in 1..Len(w) /\ w[i] = s[i]
        /\ w[Len(s) + 1] = Start /\ w[Len(s) + 2] = r /\ w[Len(s) + 3] = End
    <2>1. /\ (Len(s) + 1) - Len(s) = 1 /\ (Len(s) + 2) - Len(s) = 2 /\ (Len(s) + 3) - Len(s) = 3
      BY <1>1
    <2> QED
      BY <1>1, <2>1, CleanIs
  <1>3. w[1] = Start
    <2>1. CASE s = <<>>
      <3>1. Len(s) + 1 = 1
        BY <2>1, EmptySeq
      <3> QED
        BY <1>2, <3>1
    <2>2. CASE s # <<>>
      <3>1. 1 \in 1..Len(s) /\ s[1] = Start
        BY <2>2, EmptySeq DEF Framed
      <3> QED
        BY <1>2, <3>1
    <2> QED
      BY <2>1, <2>2
  <1>4. ASSUME NEW i \in 1..Len(w)
        PROVE  \/ w[i] = Start /\ i + 1 \in 1..Len(w) /\ w[i + 1] \in Link!Reply
               \/ /\ w[i] \in Link!Reply /\ i > 1 /\ w[i - 1] = Start
                  /\ i + 1 \in 1..Len(w) /\ w[i + 1] = End
               \/ /\ w[i] = End /\ i > 2 /\ w[i - 1] \in Link!Reply
                  /\ (i < Len(w) => w[i + 1] = Start)
    <2>1. CASE i \in 1..Len(s)
      <3>1. \/ s[i] = Start /\ i + 1 \in 1..Len(s) /\ s[i + 1] \in Link!Reply
            \/ /\ s[i] \in Link!Reply /\ i > 1 /\ s[i - 1] = Start
               /\ i + 1 \in 1..Len(s) /\ s[i + 1] = End
            \/ /\ s[i] = End /\ i > 2 /\ s[i - 1] \in Link!Reply
               /\ (i < Len(s) => s[i + 1] = Start)
        BY <2>1 DEF Framed
      <3>2. CASE s[i] = Start /\ i + 1 \in 1..Len(s) /\ s[i + 1] \in Link!Reply
        BY <1>2, <2>1, <3>2
      <3>3. CASE /\ s[i] \in Link!Reply /\ i > 1 /\ s[i - 1] = Start
                 /\ i + 1 \in 1..Len(s) /\ s[i + 1] = End
        <4>1. i - 1 \in 1..Len(s)
          BY <1>1, <2>1, <3>3
        <4> QED
          BY <1>2, <2>1, <3>3, <4>1
      <3>4. CASE /\ s[i] = End /\ i > 2 /\ s[i - 1] \in Link!Reply
                 /\ (i < Len(s) => s[i + 1] = Start)
        <4>1. i - 1 \in 1..Len(s) /\ (i < Len(s) => i + 1 \in 1..Len(s))
              /\ (~(i < Len(s)) => i = Len(s))
          BY <1>1, <2>1, <3>4
        <4> QED
          BY <1>2, <2>1, <3>4, <4>1
      <3> QED
        BY <3>1, <3>2, <3>3, <3>4
    <2>2. CASE i = Len(s) + 1
      <3>1. i + 1 = Len(s) + 2 /\ i + 1 \in 1..Len(w)
        BY <1>1, <2>2
      <3> QED
        BY <1>2, <2>2, <3>1
    <2>3. CASE i = Len(s) + 2
      <3>1. i > 1 /\ i - 1 = Len(s) + 1 /\ i + 1 = Len(s) + 3 /\ i + 1 \in 1..Len(w)
        BY <1>1, <2>3
      <3> QED
        BY <1>2, <2>3, <3>1
    <2>4. CASE i = Len(s) + 3
      <3>1. i > 2 /\ i - 1 = Len(s) + 2 /\ ~(i < Len(w))
        BY <1>1, <2>4
      <3> QED
        BY <1>2, <2>4, <3>1
    <2> QED
      BY <1>1, <2>1, <2>2, <2>3, <2>4
  <1> QED
    BY <1>3, <1>4 DEF Framed, w

(* Between the modules and the reader a reply is delayed, or lost.         *)
LEMMA TransmitStep ==
    ASSUME IInv, Transmit
    PROVE  /\ IInv'
           /\ Wire' = Wire \/ (Lossy /\ ~calm /\ \E r \in Wire : Wire' = Wire \ {r})
  <1>0. PICK r \in pending :
           /\ r.own => \A q \in pending : q.addr = r.addr => q.own
           /\ pending' = pending \ {r}
           /\ \E t \in {Clean(r)} \cup (IF Lossy /\ ~calm THEN Damaged(r) ELSE {}) :
                 stream' = stream \o t
           /\ UNCHANGED <<buf, frame, request, up, calm, skips>>
    BY DEF Transmit
  <1>1. PICK t \in {Clean(r)} \cup (IF Lossy /\ ~calm THEN Damaged(r) ELSE {}) :
           stream' = stream \o t
    BY <1>0
  <1>2. TypeInv /\ r \in Link!Reply /\ stream \in Seq(Byte) /\ buf \in Seq(Byte)
        /\ Whole \in Seq(Byte) /\ pending \in SUBSET Link!Reply
    BY WholeType DEF IInv, TypeInv
  <1>3. Remains(t, r) /\ (t = Clean(r) \/ (Lossy /\ ~calm))
    <2>1. CASE t = Clean(r)
      BY <1>2, <2>1, CleanIs
    <2>2. CASE Lossy /\ ~calm /\ t \in Damaged(r)
      BY <1>2, <2>2, DamagedIs
    <2> QED
      BY <2>1, <2>2
  <1>4. stream' \in Seq(Byte) /\ Whole' = Whole \o t
    <2>1. t \in Seq(Byte)
      BY <1>3 DEF Remains
    <2>2. stream \o t \in Seq(Byte)
      BY <1>2, <2>1, ConcatProperties
    <2>3. buf \o (stream \o t) = (buf \o stream) \o t
      <3>1. buf \in Seq(Byte) /\ stream \in Seq(Byte) /\ t \in Seq(Byte)
        BY <1>2, <2>1
      <3> QED
        BY ONLY <3>1, ConcatAssociative
    <2> QED
      BY <1>0, <1>1, <2>2, <2>3 DEF Whole
  <1>5. /\ Distinct(pending', Whole') /\ InOrder(pending', Whole')
        /\ pending' \cup Readable(Whole') \in
              {pending \cup Readable(Whole), (pending \cup Readable(Whole)) \ {r}}
        /\ t = Clean(r) => pending' \cup Readable(Whole') = pending \cup Readable(Whole)
    <2>1. Due(pending, r)
      BY <1>0 DEF Due
    <2>2. Distinct(pending, Whole) /\ InOrder(pending, Whole)
      BY DEF IInv
    <2>3. /\ Distinct(pending \ {r}, Whole \o t) /\ InOrder(pending \ {r}, Whole \o t)
          /\ Arrives(pending, Whole, t, r)
      BY <1>2, <1>3, <2>1, <2>2, ArrivedKeeps
    <2> QED
      BY <1>0, <1>4, <2>3 DEF Arrives
  <1>6. TypeInv'
    BY <1>0, <1>2, <1>4 DEF TypeInv
  <1>7. calm /\ Framed(Whole) => Framed(Whole')
    BY <1>2, <1>3, <1>4, FramedBehind
  <1>8. IInv'
    BY <1>0, <1>5, <1>6, <1>7, HeadsPrime DEF IInv
  <1>9. Wire' \in {Wire, Wire \ {r}} /\ (t = Clean(r) => Wire' = Wire) /\ r \in Wire
    BY <1>0, <1>5, HeadsPrime
  <1>10. Wire' = Wire \/ (Lossy /\ ~calm /\ \E q \in Wire : Wire' = Wire \ {q})
    <2>1. CASE t = Clean(r)
      BY <1>9, <2>1
    <2>2. CASE Lossy /\ ~calm
      BY <1>9, <2>2
    <2> QED
      BY <1>3, <2>1, <2>2
  <1> QED
    BY <1>8, <1>10

LEMMA BabbleStep ==
    ASSUME IInv, Babble
    PROVE  IInv' /\ Wire' = Wire
  <1>1. PICK b \in {Start, Noise} : stream' = Append(stream, b)
    BY DEF Babble
  <1>2. ~calm /\ UNCHANGED <<pending, buf, frame, request, up, calm, skips>>
    BY DEF Babble
  <1>3. TypeInv /\ stream \in Seq(Byte) /\ buf \in Seq(Byte) /\ Whole \in Seq(Byte)
    BY WholeType DEF IInv, TypeInv
  <1>4. b \in Byte /\ b \in Marks /\ b # End
    BY BytesAssumption DEF Byte, Marks
  <1>5. <<b>> \in Seq(Byte) /\ Len(<<b>>) = 1 /\ <<b>>[1] = b
    BY <1>4
  <1>6. Remains(<<b>>, None)
    BY <1>4, <1>5 DEF Remains
  <1>7. stream' \in Seq(Byte) /\ stream' = stream \o <<b>> /\ Whole' = Whole \o <<b>>
    BY <1>1, <1>2, <1>3, <1>4, <1>5, AppendProperties, AppendIsConcat, ConcatAssociative DEF Whole
  <1>8. /\ Whole' \in Seq(Byte) /\ Len(Whole') = Len(Whole) + 1 /\ Len(Whole) \in Nat
        /\ \A i \in 2..Len(Whole) : /\ Whole'[i] = Whole[i]
                                    /\ ReadableAt(Whole', i) <=> ReadableAt(Whole, i)
    BY <1>3, <1>5, <1>6, <1>7, ReadableBehind, LenProperties
  <1>9. \A i \in 2..Len(Whole') : ReadableAt(Whole', i) => i \in 2..Len(Whole)
    BY <1>8 DEF ReadableAt
  <1>10. \A i \in 2..Len(Whole) : i \in 2..Len(Whole')
    BY <1>8
  <1>11. Readable(Whole') = Readable(Whole)
    <2>1. \A q : q \in Readable(Whole') <=> \E i \in 2..Len(Whole') : ReadableAt(Whole', i) /\ q = Whole'[i]
      BY <1>8, ReadableIs
    <2>2. \A q : q \in Readable(Whole) <=> \E i \in 2..Len(Whole) : ReadableAt(Whole, i) /\ q = Whole[i]
      BY <1>3, ReadableIs
    <2> QED
      BY <1>8, <1>9, <1>10, <2>1, <2>2
  <1>12. Distinct(pending, Whole')
    BY <1>8, <1>9 DEF IInv, Distinct
  <1>13. InOrder(pending, Whole')
    <2> SUFFICES ASSUME NEW i \in 2..Len(Whole'), ReadableAt(Whole', i), Whole'[i].own
                 PROVE  /\ \A q \in pending : q.addr = Whole'[i].addr => q.own
                        /\ \A j \in i + 1..Len(Whole') :
                              ReadableAt(Whole', j) /\ Whole'[j].addr = Whole'[i].addr => Whole'[j].own
      BY DEF InOrder
    <2>1. i \in 2..Len(Whole) /\ Whole'[i] = Whole[i] /\ ReadableAt(Whole, i)
      BY <1>8, <1>9
    <2>2. \A j \in i + 1..Len(Whole') : ReadableAt(Whole', j) =>
             /\ j \in i + 1..Len(Whole) /\ Whole'[j] = Whole[j] /\ ReadableAt(Whole, j)
      <3> SUFFICES ASSUME NEW j \in i + 1..Len(Whole'), ReadableAt(Whole', j)
                   PROVE  /\ j \in i + 1..Len(Whole) /\ Whole'[j] = Whole[j]
                          /\ ReadableAt(Whole, j)
        OBVIOUS
      <3>1. j \in 2..Len(Whole')
        BY <1>8
      <3>2. j \in 2..Len(Whole)
        BY <1>9, <3>1
      <3> QED
        BY <1>8, <3>2
    <2> QED
      BY <2>1, <2>2 DEF IInv, InOrder
  <1>14. TypeInv'
    BY <1>2, <1>3, <1>7 DEF TypeInv
  <1> QED
    BY <1>2, <1>11, <1>12, <1>13, <1>14, HeadsPrime DEF IInv

\* There are finitely many replies.
LEMMA RepliesFinite == IsFiniteSet(Link!Reply)
  <1> DEFINE S == (Link!Address \X Link!Kinds) \X BOOLEAN
             f == [x \in S |-> [addr |-> x[1][1], kind |-> x[1][2], own |-> x[2]]]
  <1>1. IsFiniteSet(Link!Address) /\ IsFiniteSet(Link!Kinds) /\ IsFiniteSet(BOOLEAN)
    <2>1. IsFiniteSet(Link!Address)
      BY RangeAssumption, FS_Interval DEF Link!Address
    <2>2. IsFiniteSet({"probe", "serial", "manufacturer"} \cup {"values", "system", "management"})
      <3>1. \A x, y, z : IsFiniteSet({x, y, z})
        <4> TAKE x, y, z
        <4>1. IsFiniteSet({x} \cup {y})
          BY FS_Singleton, FS_AddElement
        <4>2. IsFiniteSet(({x} \cup {y}) \cup {z})
          BY <4>1, FS_AddElement
        <4>3. ({x} \cup {y}) \cup {z} = {x, y, z}
          OBVIOUS
        <4> QED
          BY <4>2, <4>3
      <3>2. IsFiniteSet({"probe", "serial", "manufacturer"})
            /\ IsFiniteSet({"values", "system", "management"})
        BY <3>1
      <3> QED
        BY <3>2, FS_Union
    <2>3. Link!Kinds = {"probe", "serial", "manufacturer"} \cup {"values", "system", "management"}
      BY DEF Link!Kinds
    <2>4. IsFiniteSet({TRUE} \cup {FALSE}) /\ BOOLEAN = {TRUE} \cup {FALSE}
      BY FS_Singleton, FS_AddElement
    <2> QED
      BY <2>1, <2>2, <2>3, <2>4
  <1>2. IsFiniteSet(S)
    BY <1>1, FS_Product
  <1>3. f \in Surjection(S, Link!Reply)
    <2>1. f \in [S -> Link!Reply]
      BY DEF Link!Reply
    <2>2. ASSUME NEW r \in Link!Reply
          PROVE  \E x \in S : f[x] = r
      <3>1. <<<<r.addr, r.kind>>, r.own>> \in S
        BY DEF Link!Reply
      <3>2. f[<<<<r.addr, r.kind>>, r.own>>] = r
        BY <3>1 DEF Link!Reply
      <3> QED
        BY <3>1, <3>2
    <2> QED
      BY <2>1, <2>2 DEF Surjection
  <1> QED
    BY <1>2, <1>3, FS_Surjection

LEMMA EmptyLine ==
    /\ <<>> \in Seq(Byte) /\ Readable(<<>>) = {} /\ Framed(<<>>) /\ <<>> \o <<>> = <<>>
    /\ \A p : InOrder(p, <<>>)
    /\ \A p : Distinct(p, <<>>)
  <1>1. <<>> \in Seq(Byte) /\ Len(<<>>) = 0
    BY EmptySeq
  <1>2. <<>> \o <<>> = <<>>
    BY <1>1, ConcatEmptySeq
  <1>3. Readable(<<>>) = {} /\ Framed(<<>>)
    BY <1>1 DEF Readable, Framed
  <1>4. /\ \A p : InOrder(p, <<>>)
        /\ \A p : Distinct(p, <<>>)
    BY <1>1 DEF InOrder, Distinct
  <1> QED
    BY <1>1, <1>2, <1>3, <1>4

LEMMA OpenLinkStep ==
    ASSUME IInv, OpenLink
    PROVE  IInv' /\ Link!OpenLink
  <1>1. /\ TypeInv /\ request = None /\ buf = <<>> /\ buf' = <<>> /\ stream' = <<>> /\ up' = TRUE
        /\ pending' \in {w \in SUBSET Link!Outdated(Wire) : Cardinality(w) <= BridgeKeeps}
        /\ UNCHANGED <<buf, frame, request, calm, skips>>
    BY DEF IInv, TypeInv, OpenLink
  <1>2. Whole' = <<>>
    BY <1>1, EmptyLine DEF Whole
  <1>3. pending' \subseteq Link!Reply
    BY <1>1, WireType, OutdatedIs
  <1>4. Wire' = pending'
    BY <1>1, <1>2, EmptyLine, HeadsPrime
  <1>5. BridgeKeeps = 0 => Wire' = {}
    <2>1. IsFiniteSet(pending')
      BY <1>3, RepliesFinite, FS_Subset
    <2>2. Cardinality(pending') \in Nat
      BY <2>1, FS_CardinalityType
    <2>3. BridgeKeeps = 0 => Cardinality(pending') = 0
      <3>1. \A n \in Nat : n <= 0 => n = 0
        OBVIOUS
      <3> QED
        BY <1>1, <2>2, <3>1
    <2> QED
      BY <1>4, <2>1, <2>3, FS_EmptySet
  <1>6. TypeInv'
    BY <1>1, <1>3, EmptyLine DEF TypeInv
  <1>7. IInv'
    <2>1. Distinct(pending', Whole') /\ InOrder(pending', Whole') /\ Framed(Whole')
      BY <1>2, <1>3, EmptyLine
    <2> QED
      BY <1>1, <1>6, <2>1, HeadsPrime DEF IInv
  <1>8. Link!OpenLink
    <2>1. request' = None /\ up' = TRUE
      BY <1>1
    <2>2. CASE BridgeKeeps = 0
      BY <1>5, <2>1, <2>2 DEF Link!OpenLink
    <2>3. CASE BridgeKeeps # 0
      <3>1. Wire' \in {w \in SUBSET Link!Outdated(Wire) : Cardinality(w) <= BridgeKeeps}
        BY <1>1, <1>4
      <3>2. \A w : Link!Cardinality(w) = Cardinality(w)
        BY DEF Link!Cardinality, Cardinality
      <3> QED
        BY <2>1, <2>3, <3>1, <3>2 DEF Link!OpenLink
    <2> QED
      BY <2>2, <2>3
  <1> QED
    BY <1>7, <1>8

\* A step that touches no byte.
LEMMA ByteFree ==
    ASSUME IInv, UNCHANGED <<pending, stream, buf, frame, request, skips>>,
           up' \in BOOLEAN, calm' \in BOOLEAN,
           calm' /\ (up' \/ request # None) => Framed(Whole)
    PROVE  IInv' /\ Wire' = Wire
  <1>1. Whole' = Whole
    BY DEF Whole
  <1>2. TypeInv'
    BY DEF IInv, TypeInv
  <1> QED
    BY <1>1, <1>2, HeadsPrime DEF IInv

LEMMA InitInv == Init => IInv /\ Link!LinkInit
  <1> SUFFICES ASSUME Init
               PROVE  IInv /\ Link!LinkInit
    OBVIOUS
  <1>1. /\ pending = {} /\ stream = <<>> /\ buf = <<>> /\ frame = None /\ request = None
        /\ up = FALSE /\ calm = FALSE /\ skips \in BOOLEAN
    BY DEF Init
  <1>2. Whole = <<>> /\ Wire = {}
    BY <1>1, EmptyLine DEF Whole, Wire
  <1>3. TypeInv
    <2>1. \A i \in 1..Len(buf) : FALSE
      BY <1>1, EmptySeq
    <2> QED
      BY <1>1, <2>1, EmptyLine DEF TypeInv
  <1>4. Distinct(pending, Whole) /\ InOrder(pending, Whole)
    BY <1>1, <1>2, EmptyLine
  <1> QED
    BY <1>1, <1>2, <1>3, <1>4 DEF IInv, Link!LinkInit

-----------------------------------------------------------------------------
(* Every step of the reader, the client or the line is one of the link, or *)
(* none, and preserves the invariant.                                      *)
LEMMA StepInv ==
    ASSUME IInv, [Next]_vars
    PROVE  IInv' /\ [Link!LinkNext]_<<Link!link, calm>>
  <1> DEFINE still == UNCHANGED <<Wire, request, up, calm>>
  <1>1. still => [Link!LinkNext]_<<Link!link, calm>>
    BY DEF Link!link
  <1>2. ASSUME NEW q \in Asked, Ask(q[1], q[2])
        PROVE  IInv' /\ [Link!LinkNext]_<<Link!link, calm>>
    <2>1. q[1] \in Link!Address /\ q[2] \in Link!Kinds
      BY BytesAssumption
    <2>2. IInv' /\ Link!Send(q[1], q[2])
      BY <1>2, <2>1, AskStep
    <2>3. UNCHANGED <<up, calm>>
      BY <1>2 DEF Ask
    <2> QED
      BY <2>1, <2>2, <2>3 DEF Link!LinkNext
  <1>3. CASE SkipByte
    BY <1>1, <1>3, SkipByteStep DEF SkipByte
  <1>4. CASE KeepByte
    BY <1>1, <1>4, KeepByteStep DEF KeepByte
  <1>5. CASE EndFrame
    <2>1. IInv' /\ request # None /\ request' = None /\ UNCHANGED <<up, calm>>
      BY <1>5, EndFrameStep DEF EndFrame
    <2>2. CASE frame' = None
      <3>1. Link!Garbled
        BY <1>5, <2>1, <2>2, EndFrameStep DEF Link!Garbled
      <3> QED
        BY <2>1, <3>1 DEF Link!LinkNext, Link!RequestFails
    <2>3. CASE frame' # None
      <3>1. frame' \in Link!Deliverable /\ Wire' = Wire \ {frame'} /\ frame' \in Wire
        BY <1>5, <2>3, EndFrameStep DEF Link!Deliverable
      <3>2. Link!Answered(frame') \/ Link!Unparsed
        BY <2>1, <3>1 DEF Link!Answered, Link!Unparsed
      <3> QED
        BY <2>1, <3>1, <3>2 DEF Link!LinkNext, Link!RequestFails
    <2> QED
      BY <2>2, <2>3
  <1>6. CASE TimedOut
    <2>1. IInv' /\ Link!TimedOut /\ UNCHANGED <<up, calm>>
      BY <1>6, TimedOutStep DEF TimedOut, Link!TimedOut
    <2> QED
      BY <2>1 DEF Link!LinkNext, Link!RequestFails
  <1>7. CASE IoError
    <2>1. IInv' /\ Link!IoError /\ UNCHANGED <<up, calm>>
      BY <1>7, IoErrorStep DEF IoError, Link!IoError
    <2> QED
      BY <2>1 DEF Link!LinkNext, Link!RequestFails
  <1>8. CASE OpenLink
    <2>1. IInv' /\ Link!OpenLink /\ UNCHANGED calm
      BY <1>8, OpenLinkStep DEF OpenLink
    <2> QED
      BY <2>1 DEF Link!LinkNext
  <1>9. CASE Transmit
    <2>1. IInv' /\ UNCHANGED <<request, up, calm>>
      BY <1>9, TransmitStep DEF Transmit
    <2>2. CASE Wire' = Wire
      BY <1>1, <2>1, <2>2
    <2>3. CASE Lossy /\ ~calm /\ \E r \in Wire : Wire' = Wire \ {r}
      BY <2>1, <2>3 DEF Link!LinkNext, Link!LoseReply
    <2> QED
      BY <1>9, <2>1, <2>2, <2>3, TransmitStep
  <1>10. CASE Babble
    BY <1>1, <1>10, BabbleStep DEF Babble
  <1>11. CASE LinkDown
    <2>1. ~calm /\ up /\ up' = FALSE /\ UNCHANGED <<pending, stream, buf, frame, request, calm, skips>>
      BY <1>11 DEF LinkDown
    <2>2. IInv' /\ Wire' = Wire
      BY <2>1, ByteFree DEF IInv, TypeInv
    <2> QED
      BY <2>1, <2>2 DEF Link!LinkNext, Link!LinkDown
  <1>12. CASE BecomeCalm
    <2>1. ~calm /\ stream = <<>> /\ buf = <<>> /\ calm' = TRUE
          /\ UNCHANGED <<pending, stream, buf, frame, request, up, skips>>
      BY <1>12 DEF BecomeCalm
    <2>2. Framed(Whole)
      BY <2>1, EmptyLine DEF Whole
    <2>3. IInv' /\ Wire' = Wire
      BY <2>1, <2>2, ByteFree DEF IInv, TypeInv
    <2> QED
      BY <2>1, <2>3 DEF Link!LinkNext, Link!BecomeCalm, Link!link
  <1>13. CASE UNCHANGED vars
    <2>1. UNCHANGED <<pending, stream, buf, frame, request, up, calm, skips>>
      BY <1>13 DEF vars
    <2>2. IInv' /\ Wire' = Wire
      BY <2>1, ByteFree DEF IInv, TypeInv
    <2> QED
      BY <1>1, <2>1, <2>2
  <1> QED
    BY <1>2, <1>3, <1>4, <1>5, <1>6, <1>7, <1>8, <1>9, <1>10, <1>11, <1>12, <1>13
       DEF Next, Reader

(* Whatever happens to single bytes, at the level of frames the reader is  *)
(* the link that all that is proved of the sessions rests on               *)
(* (read_raw_frame in protocol.rs, readln in transport.py).                *)
THEOREM ImplementsLinkAlways == Spec => ImplementsLink
  <1> QED
    BY InitInv, StepInv, PTL DEF Spec, ImplementsLink, Link!LinkSpec

(* A frame that a read returns is a whole reply whose turn it is, never    *)
(* the remains of one reply completed by bytes of another.                 *)
THEOREM ReadsWholeRepliesAlways == Spec => ReadsWholeReplies
  <1>1. ASSUME IInv, [Next]_vars, frame' \notin {None, frame}
        PROVE  frame' \in Link!Deliverable /\ Wire' = Wire \ {frame'}
    <2>1. CASE EndFrame
      BY <1>1, <2>1, EndFrameStep
    <2>2. CASE ~EndFrame
      BY <1>1, <2>2 DEF Next, Reader, Ask, SkipByte, KeepByte, TimedOut, IoError, OpenLink,
                        Transmit, Babble, LinkDown, BecomeCalm, vars
    <2> QED
      BY <2>1, <2>2
  <1>2. IInv /\ [Next]_vars =>
           [frame' \notin {None, frame} =>
               frame' \in Link!Deliverable /\ Wire' = Wire \ {frame'}]_vars
    BY <1>1
  <1> QED
    BY <1>2, InitInv, StepInv, PTL DEF Spec, ReadsWholeReplies
-----------------------------------------------------------------------------
\* What the client can still be given to read: each answer that is owed is
\* three bytes to come.
ToRead == 4 * Cardinality(pending) + Len(stream)

LEMMA PendingFinite ==
    ASSUME TypeInv
    PROVE  /\ IsFiniteSet(pending) /\ Cardinality(pending) \in Nat
           /\ Len(stream) \in Nat /\ ToRead \in Nat
  <1>1. IsFiniteSet(pending) /\ Cardinality(pending) \in Nat
    BY RepliesFinite, FS_Subset, FS_CardinalityType DEF TypeInv
  <1>2. Len(stream) \in Nat
    BY DEF TypeInv
  <1> QED
    BY <1>1, <1>2 DEF ToRead

\* A reader that takes a byte.
LEMMA ByteTaken ==
    ASSUME TypeInv, stream # <<>>, stream' = Tail(stream), pending' = pending
    PROVE  ToRead' < ToRead
  <1>1. Len(Tail(stream)) = Len(stream) - 1 /\ Len(stream) \in Nat
    BY HeadTailProperties DEF TypeInv
  <1>2. Cardinality(pending) \in Nat
    BY PendingFinite
  <1> DEFINE k == Cardinality(pending)
             n == Len(stream)
  <1>3. ToRead' = 4 * k + (n - 1)
    BY <1>1 DEF ToRead
  <1>4. ToRead = 4 * k + n
    BY DEF ToRead
  <1> HIDE DEF k, n
  <1> QED
    BY <1>1, <1>2, <1>3, <1>4 DEF k, n

\* On a calm line a module transmits the three bytes of its answer.
LEMMA AnswerSent ==
    ASSUME TypeInv, Transmit, calm
    PROVE  ToRead' < ToRead
  <1>1. PICK r \in pending : /\ pending' = pending \ {r} /\ stream' = stream \o Clean(r)
    BY DEF Transmit
  <1>2. r \in Byte /\ Clean(r) \in Seq(Byte) /\ Len(Clean(r)) = 3
    BY <1>1, CleanIs DEF TypeInv, Byte
  <1>3. Len(stream \o Clean(r)) = Len(stream) + 3
    <2>1. stream \in Seq(Byte) /\ Clean(r) \in Seq(Byte)
      BY <1>2 DEF TypeInv
    <2>2. Len(stream \o Clean(r)) = Len(stream) + Len(Clean(r))
      BY ONLY <2>1, ConcatProperties
    <2> QED
      BY <1>2, <2>2
  <1>4. Cardinality(pending \ {r}) = Cardinality(pending) - 1
    BY PendingFinite, FS_RemoveElement
  <1>5. Cardinality(pending) \in Nat /\ Len(stream) \in Nat
    BY PendingFinite
  <1> DEFINE k == Cardinality(pending)
             n == Len(stream)
  <1>6. ToRead' = 4 * (k - 1) + (n + 3)
    BY <1>1, <1>3, <1>4 DEF ToRead
  <1>7. ToRead = 4 * k + n
    BY DEF ToRead
  <1>8. k \in Nat /\ n \in Nat
    BY <1>5
  <1> HIDE DEF k, n
  <1> QED
    BY <1>6, <1>7, <1>8

(* On a line without faults each step either ends the read that is going   *)
(* on or leaves less to read, so a read cannot go on for ever as long as   *)
(* the bytes come or time out (read_raw_frame, readln).                    *)
THEOREM ReadRunsDown ==
    Spec => /\ [](ToRead \in Nat)
            /\ [][calm /\ request # None /\ request' # None => ToRead' < ToRead]_vars
  <1>1. IInv => ToRead \in Nat
    BY PendingFinite DEF IInv
  <1>2. ASSUME IInv, Next, ~UNCHANGED vars, calm, request # None, request' # None
        PROVE  ToRead' < ToRead
    <2>1. \/ SkipByte \/ KeepByte \/ Transmit
      BY <1>2 DEF Next, Reader, Ask, EndFrame, TimedOut, IoError, OpenLink, Babble, LinkDown,
                  BecomeCalm
    <2>2. CASE SkipByte \/ KeepByte
      BY <1>2, <2>2, ByteTaken DEF SkipByte, KeepByte, IInv
    <2>3. CASE Transmit
      BY <1>2, <2>3, AnswerSent DEF IInv
    <2> QED
      BY <2>1, <2>2, <2>3
  <1>3. IInv /\ [Next]_vars =>
           [calm /\ request # None /\ request' # None => ToRead' < ToRead]_vars
    BY <1>2
  <1> QED
    BY <1>1, <1>3, InitInv, StepInv, PTL DEF Spec
=============================================================================
