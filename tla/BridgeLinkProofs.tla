---------------------------- MODULE BridgeLinkProofs ----------------------------
(***************************************************************************)
(* That the bridge is a lossy channel in order, that it skips nothing as   *)
(* long as no frame is cut, and that its transactions are complete, for    *)
(* every frame size, number of answers, capacity and set of faults.        *)
(*                                                                         *)
(* The invariant counts bytes.  Whatever was asked determines the stream   *)
(* of answers, and the bytes under way are a piece of it: what the bridge  *)
(* has read ends where its unfinished frame begins, that ends where the    *)
(* bytes on the connection begin, and those end where the server's unsent  *)
(* bytes begin.                                                            *)
(***************************************************************************)
EXTENDS BridgeLink, TLAPS

\* The t-th byte of the stream that a sequence of frame numbers makes.
Byte(numbers, t) ==
  <<numbers[((t - 1) \div FRAME_SIZE) + 1], ((t - 1) % FRAME_SIZE) + 1>>

\* These bytes are those of the stream that follow the first from ones.
Carries(bytes, numbers, from) ==
  /\ bytes \in Seq(Nat \X Nat)
  /\ from + Len(bytes) <= FRAME_SIZE * Len(numbers)
  /\ \A k \in 1 .. Len(bytes) : bytes[k] = Byte(numbers, from + k)

Rising(s) == \A i, j \in 1 .. Len(s) : i < j => s[i] < s[j]

\* A sequence of messages, numbered in their order on the bus.
Numbered(s) == s \in Seq(Nat \ {0}) /\ Rising(s)

--------------------------------------------------------------------------------
(* Numbers *)

\* Division by a positive number, with its remainder.
LEMMA Quotient ==
  ASSUME NEW b \in Nat \ {0}, NEW q \in Nat, NEW r \in Nat, r < b
  PROVE  (b * q + r) \div b = q /\ (b * q + r) % b = r
  OBVIOUS

\* The block of size b that holds place t, and the place in it.
LEMMA Place ==
  ASSUME NEW b \in Nat \ {0}, NEW n \in Nat, NEW t \in 1 .. b * n
  PROVE  /\ (t - 1) \div b \in 0 .. n - 1
         /\ (t - 1) % b \in 0 .. b - 1
         /\ t = b * ((t - 1) \div b) + ((t - 1) % b) + 1
<1> DEFINE q == (t - 1) \div b
           r == (t - 1) % b
<1>1. q \in Int /\ r \in 0 .. b - 1 /\ t - 1 = b * q + r
  OBVIOUS
<1>2. q >= 0
  BY <1>1
<1>3. q < n
  <2>1. SUFFICES ASSUME q >= n PROVE FALSE
    BY <1>1
  <2>2. b * q >= b * n
    BY <1>1, <2>1
  <2> QED BY <1>1, <2>2
<1> QED BY <1>1, <1>2, <1>3

\* Blocks one after the other.
LEMMA NextBlock ==
  ASSUME NEW b \in Nat, NEW n \in Nat
  PROVE  b * (n + 1) = b * n + b /\ b * n \in Nat
  OBVIOUS

LEMMA Monotone ==
  ASSUME NEW b \in Nat \ {0}, NEW m \in Nat, NEW n \in Nat
  PROVE  /\ (b * m <= b * n) <=> m <= n
         /\ (b * m = b * n) <=> m = n
         /\ (b * m < b * n) <=> m < n
  OBVIOUS
LEMMA Constants == FRAME_SIZE \in Nat \ {0} /\ ANSWERS \in Nat \ {0}
  BY BridgeAssumption

LEMMA Cancel ==
  ASSUME NEW b \in Nat \ {0}, NEW m \in Nat, NEW n \in Nat, b * m = b * n
  PROVE  m = n
  BY Monotone

--------------------------------------------------------------------------------
(* Pieces of a stream *)

\* Nothing, at any place of the stream.
LEMMA CarriesNothing ==
  ASSUME NEW s \in Seq(Nat), NEW p \in Nat, p <= FRAME_SIZE * Len(s)
  PROVE  Carries(<<>>, s, p)
  BY Constants DEF Carries

\* A piece that is cut in two is two pieces.
LEMMA CarriesCut ==
  ASSUME NEW s \in Seq(Nat), NEW p \in Nat, NEW b, Carries(b, s, p), NEW n \in 0 .. Len(b)
  PROVE  /\ Carries(First(b, n), s, p) /\ Len(First(b, n)) = n
         /\ Carries(After(b, n), s, p + n) /\ Len(After(b, n)) = Len(b) - n
<1>1. b \in Seq(Nat \X Nat) /\ Len(b) \in Nat /\ FRAME_SIZE * Len(s) \in Nat
  BY Constants DEF Carries
<1>2. /\ First(b, n) \in Seq(Nat \X Nat) /\ Len(First(b, n)) = n
      /\ \A k \in 1 .. n : First(b, n)[k] = b[k]
  BY <1>1 DEF First
<1>3. /\ After(b, n) \in Seq(Nat \X Nat) /\ Len(After(b, n)) = Len(b) - n
      /\ \A k \in 1 .. Len(b) - n : After(b, n)[k] = b[n + k]
  BY <1>1 DEF After
<1>4. p + Len(b) <= FRAME_SIZE * Len(s)
      /\ \A k \in 1 .. Len(b) : b[k] = Byte(s, p + k)
  BY DEF Carries
<1>5. ASSUME NEW k \in 1 .. n
      PROVE  First(b, n)[k] = Byte(s, p + k)
  <2>1. k \in 1 .. Len(b)
    BY <1>1
  <2> QED BY <2>1, <1>2, <1>4
<1>6. ASSUME NEW k \in 1 .. Len(b) - n
      PROVE  After(b, n)[k] = Byte(s, (p + n) + k)
  <2>1. After(b, n)[k] = Byte(s, p + (n + k))
    <3>1. n + k \in 1 .. Len(b)
      BY <1>1
    <3>2. After(b, n)[k] = b[n + k]
      BY <1>3
    <3>3. b[n + k] = Byte(s, p + (n + k))
      BY <1>4, <3>1
    <3> QED BY <3>2, <3>3
  <2>2. p + (n + k) = (p + n) + k
    BY <1>1
  <2> QED BY <2>1, <2>2
<1> QED BY <1>1, <1>2, <1>3, <1>4, <1>5, <1>6 DEF Carries

\* Two pieces, the second where the first ends, are one.
LEMMA CarriesJoin ==
  ASSUME NEW s \in Seq(Nat), NEW p \in Nat, NEW b, NEW c,
         Carries(b, s, p), Carries(c, s, p + Len(b))
  PROVE  Carries(b \o c, s, p) /\ Len(b \o c) = Len(b) + Len(c)
<1>1. /\ b \in Seq(Nat \X Nat) /\ c \in Seq(Nat \X Nat)
      /\ Len(b) \in Nat /\ Len(c) \in Nat /\ FRAME_SIZE * Len(s) \in Nat
  BY Constants DEF Carries
<1>2. /\ b \o c \in Seq(Nat \X Nat) /\ Len(b \o c) = Len(b) + Len(c)
      /\ \A k \in 1 .. Len(b) + Len(c) :
           (b \o c)[k] = IF k <= Len(b) THEN b[k] ELSE c[k - Len(b)]
  BY <1>1
<1>3. /\ \A k \in 1 .. Len(b) : b[k] = Byte(s, p + k)
      /\ \A k \in 1 .. Len(c) : c[k] = Byte(s, (p + Len(b)) + k)
      /\ (p + Len(b)) + Len(c) <= FRAME_SIZE * Len(s)
  BY DEF Carries
<1>4. ASSUME NEW k \in 1 .. Len(b) + Len(c)
      PROVE  (b \o c)[k] = Byte(s, p + k)
  <2>1. CASE k <= Len(b)
    BY <1>1, <1>2, <1>3, <2>1
  <2>2. CASE k > Len(b)
    <3>1. k - Len(b) \in 1 .. Len(c) /\ (p + Len(b)) + (k - Len(b)) = p + k
      BY <1>1, <2>2
    <3>2. (b \o c)[k] = c[k - Len(b)]
      BY <1>1, <1>2, <2>2
    <3> QED BY <1>3, <3>1, <3>2
  <2> QED BY <1>1, <2>1, <2>2
<1> QED BY <1>1, <1>2, <1>3, <1>4 DEF Carries

\* A piece of a stream stays one when the stream goes on.
LEMMA CarriesOn ==
  ASSUME NEW s \in Seq(Nat), NEW more \in Seq(Nat), Len(s) <= Len(more),
         \A i \in 1 .. Len(s) : more[i] = s[i],
         NEW p \in Nat, NEW b, Carries(b, s, p)
  PROVE  Carries(b, more, p)
<1>1. /\ b \in Seq(Nat \X Nat) /\ Len(b) \in Nat
      /\ p + Len(b) <= FRAME_SIZE * Len(s)
      /\ \A k \in 1 .. Len(b) : b[k] = Byte(s, p + k)
  BY DEF Carries
<1>n. Len(s) \in Nat /\ Len(more) \in Nat /\ FRAME_SIZE * Len(s) \in Nat
      /\ FRAME_SIZE * Len(more) \in Nat
  BY Constants
<1>2. FRAME_SIZE * Len(s) <= FRAME_SIZE * Len(more)
  BY <1>n, Constants, Monotone
<1>3. ASSUME NEW k \in 1 .. Len(b)
      PROVE  b[k] = Byte(more, p + k)
  <2>1. p + k \in 1 .. FRAME_SIZE * Len(s)
    BY <1>1, <1>n
  <2> DEFINE q == ((p + k) - 1) \div FRAME_SIZE
  <2>2. q \in 0 .. Len(s) - 1
    BY <1>n, <2>1, Place, Constants
  <2> HIDE DEF q
  <2>3. q + 1 \in 1 .. Len(s)
    BY <2>2, <1>n
  <2>4. Byte(more, p + k) = Byte(s, p + k)
    BY <2>3 DEF Byte, q
  <2> QED BY <2>4, <1>1
<1>4. p + Len(b) <= FRAME_SIZE * Len(more)
  BY <1>1, <1>n, <1>2
<1> QED BY <1>1, <1>3, <1>4 DEF Carries

\* A stream is a piece of itself.
LEMMA StreamCarries ==
  ASSUME NEW s \in Seq(Nat)
  PROVE  Carries(Stream(s), s, 0) /\ Len(Stream(s)) = FRAME_SIZE * Len(s)
<1>1. FRAME_SIZE * Len(s) \in Nat
  BY Constants
<1>2. ASSUME NEW t \in 1 .. FRAME_SIZE * Len(s)
      PROVE  Byte(s, t) \in Nat \X Nat
  <2> DEFINE q == (t - 1) \div FRAME_SIZE
             r == (t - 1) % FRAME_SIZE
  <2>1. q \in 0 .. Len(s) - 1 /\ r \in 0 .. FRAME_SIZE - 1
    <3>1. Len(s) \in Nat
      OBVIOUS
    <3> QED BY <3>1, Place, Constants
  <2> HIDE DEF q, r
  <2>2. q + 1 \in 1 .. Len(s) /\ r + 1 \in Nat
    BY <2>1, Constants
  <2>3. <<s[q + 1], r + 1>> \in Nat \X Nat
    BY <2>2
  <2> QED BY <2>3 DEF Byte, q, r
<1>3. Stream(s) = [t \in 1 .. FRAME_SIZE * Len(s) |-> Byte(s, t)]
  BY DEF Stream, Byte
<1>4. Stream(s) \in Seq(Nat \X Nat) /\ Len(Stream(s)) = FRAME_SIZE * Len(s)
  BY <1>1, <1>2, <1>3
<1>5. \A t \in 1 .. Len(Stream(s)) : Stream(s)[t] = Byte(s, 0 + t)
  BY <1>1, <1>3, <1>4
<1> QED BY <1>1, <1>4, <1>5 DEF Carries

\* The k-th byte of the j-th frame of a stream.
LEMMA ByteInFrame ==
  ASSUME NEW s, NEW j \in Nat \ {0}, NEW k \in 1 .. FRAME_SIZE
  PROVE  Byte(s, FRAME_SIZE * (j - 1) + k) = <<s[j], k>>
<1>1. j - 1 \in Nat /\ k - 1 \in Nat /\ k - 1 < FRAME_SIZE
  BY Constants
<1>2. /\ (FRAME_SIZE * (j - 1) + (k - 1)) \div FRAME_SIZE = j - 1
      /\ (FRAME_SIZE * (j - 1) + (k - 1)) % FRAME_SIZE = k - 1
  BY <1>1, Quotient, Constants
<1>3. (FRAME_SIZE * (j - 1) + k) - 1 = FRAME_SIZE * (j - 1) + (k - 1)
  BY <1>1, Constants
<1>4. (j - 1) + 1 = j /\ (k - 1) + 1 = k
  OBVIOUS
<1> QED BY <1>2, <1>3, <1>4 DEF Byte

\* A frame is the piece of its stream that begins where the frames before end.
LEMMA BytesCarried ==
  ASSUME NEW s \in Seq(Nat), NEW j \in 1 .. Len(s)
  PROVE  /\ Carries(Bytes(s[j]), s, FRAME_SIZE * (j - 1))
         /\ Len(Bytes(s[j])) = FRAME_SIZE
<1>1. Bytes(s[j]) \in Seq(Nat \X Nat) /\ Len(Bytes(s[j])) = FRAME_SIZE
  BY Constants DEF Bytes
<1>2. FRAME_SIZE * (j - 1) + FRAME_SIZE <= FRAME_SIZE * Len(s)
  <2>1. j - 1 \in Nat /\ (j - 1) + 1 = j /\ j <= Len(s) /\ j \in Nat /\ Len(s) \in Nat
    OBVIOUS
  <2>2. FRAME_SIZE * (j - 1) + FRAME_SIZE = FRAME_SIZE * j
    BY <2>1, NextBlock, Constants
  <2> QED BY <2>1, <2>2, Monotone, Constants
<1>3. \A k \in 1 .. FRAME_SIZE : Bytes(s[j])[k] = Byte(s, FRAME_SIZE * (j - 1) + k)
  BY ByteInFrame DEF Bytes
<1> QED BY <1>1, <1>2, <1>3 DEF Carries

\* A frame's bytes that are read out of step are no frame, and those read in step
\* are the frame that was sent.
LEMMA FrameRead ==
  ASSUME NEW s \in Seq(Nat \ {0}), NEW p \in Nat, NEW b, Carries(b, s, p),
         Len(b) = FRAME_SIZE
  PROVE  /\ WellFormed(b) =>
              \E j \in 1 .. Len(s) : p = FRAME_SIZE * (j - 1) /\ FrameOf(b) = s[j]
         /\ \A j \in 1 .. Len(s) :
              p = FRAME_SIZE * (j - 1) =>
                b[1][1] = s[j] /\ FrameOf(b) = s[j] /\ WellFormed(b)
<1>1. /\ b \in Seq(Nat \X Nat) /\ p + FRAME_SIZE <= FRAME_SIZE * Len(s)
      /\ \A k \in 1 .. FRAME_SIZE : b[k] = Byte(s, p + k)
  BY DEF Carries
<1>2. ASSUME WellFormed(b)
      PROVE  \E j \in 1 .. Len(s) : p = FRAME_SIZE * (j - 1) /\ FrameOf(b) = s[j]
  <2> DEFINE q == ((p + 1) - 1) \div FRAME_SIZE
             r == ((p + 1) - 1) % FRAME_SIZE
  <2>1. p + 1 \in 1 .. FRAME_SIZE * Len(s)
    BY <1>1, Constants
  <2>2. /\ q \in 0 .. Len(s) - 1 /\ r \in 0 .. FRAME_SIZE - 1
        /\ p + 1 = FRAME_SIZE * q + r + 1
    BY <2>1, Place, Constants
  <2>3. b[1] = <<s[q + 1], r + 1>>
    BY <1>1, Constants DEF Byte
  <2>4. FrameOf(b) = b[1][1] /\ b = Bytes(b[1][1])
    BY <1>2 DEF WellFormed, FrameOf
  <2>5. b[1] = <<b[1][1], 1>>
    BY <2>4, Constants DEF Bytes
  <2> HIDE DEF q, r
  <2>6. r + 1 = 1 /\ FrameOf(b) = s[q + 1]
    BY <2>3, <2>4, <2>5
  <2>7. p = FRAME_SIZE * q
    BY <2>2, <2>6, Constants
  <2>8. q + 1 \in 1 .. Len(s) /\ (q + 1) - 1 = q
    BY <2>2
  <2> QED BY <2>6, <2>7, <2>8
<1>3. ASSUME NEW j \in 1 .. Len(s), p = FRAME_SIZE * (j - 1)
      PROVE  b[1][1] = s[j] /\ FrameOf(b) = s[j] /\ WellFormed(b)
  <2>0. j \in Nat \ {0}
    OBVIOUS
  <2>1. \A k \in 1 .. FRAME_SIZE : b[k] = <<s[j], k>>
    BY <2>0, <1>1, <1>3, ByteInFrame
  <2>2. b[1][1] = s[j]
    BY <2>1, Constants
  <2>3. b = [k \in 1 .. Len(b) |-> b[k]]
    BY <1>1
  <2>4. b = Bytes(s[j])
    BY <2>1, <2>3 DEF Bytes
  <2> QED BY <2>2, <2>4 DEF FrameOf, WellFormed
<1> QED BY <1>2, <1>3
\* The first byte of a frame tells whose it is.
LEMMA FrameHead ==
  ASSUME NEW s \in Seq(Nat \ {0}), NEW j \in 1 .. Len(s), NEW b,
         Carries(b, s, FRAME_SIZE * (j - 1)), Len(b) = FRAME_SIZE
  PROVE  b[1][1] = s[j]
<1>1. j \in Nat \ {0} /\ j - 1 \in Nat
  OBVIOUS
<1>2. \A k \in 1 .. FRAME_SIZE : b[k] = Byte(s, FRAME_SIZE * (j - 1) + k)
  BY DEF Carries
<1>3. \A k \in 1 .. FRAME_SIZE : Byte(s, FRAME_SIZE * (j - 1) + k) = <<s[j], k>>
  BY <1>1, ByteInFrame
<1>4. 1 \in 1 .. FRAME_SIZE
  BY Constants
<1> QED BY <1>2, <1>3, <1>4

--------------------------------------------------------------------------------
(* The stream of answers *)

\* The j-th answer to a sequence of messages.
Answer(messages, j) ==
  ANSWERS * (messages[((j - 1) \div ANSWERS) + 1] - 1) + ((j - 1) % ANSWERS) + 1

\* ANSWERS frames for each message.
LEMMA AnswersAre ==
  ASSUME NEW a \in Seq(Nat \ {0})
  PROVE  /\ AnswersToAll(a) \in Seq(Nat \ {0})
         /\ Len(AnswersToAll(a)) = ANSWERS * Len(a)
         /\ \A j \in 1 .. ANSWERS * Len(a) : AnswersToAll(a)[j] = Answer(a, j)
<1>1. Len(a) \in Nat /\ ANSWERS * Len(a) \in Nat
  BY Constants
<1>2. ASSUME NEW j \in 1 .. ANSWERS * Len(a)
      PROVE  /\ AnswersTo(a[((j - 1) \div ANSWERS) + 1])[((j - 1) % ANSWERS) + 1]
                  = Answer(a, j)
             /\ Answer(a, j) \in Nat \ {0}
  <2> DEFINE q == (j - 1) \div ANSWERS
             r == (j - 1) % ANSWERS
  <2>1. q \in 0 .. Len(a) - 1 /\ r \in 0 .. ANSWERS - 1
    BY <1>1, Place, Constants
  <2> HIDE DEF q, r
  <2>2. q + 1 \in 1 .. Len(a) /\ r + 1 \in 1 .. ANSWERS
    BY <1>1, <2>1, Constants
  <2>3. a[q + 1] \in Nat \ {0}
    BY <2>2
  <2>4. AnswersTo(a[q + 1])[r + 1] = ANSWERS * (a[q + 1] - 1) + (r + 1)
    BY <2>2 DEF AnswersTo
  <2>5. a[q + 1] - 1 \in Nat /\ ANSWERS * (a[q + 1] - 1) \in Nat
    <3>1. a[q + 1] - 1 \in Nat
      BY <2>3
    <3> QED BY <3>1, Constants
  <2>6. /\ ANSWERS * (a[q + 1] - 1) + (r + 1) = ANSWERS * (a[q + 1] - 1) + r + 1
        /\ ANSWERS * (a[q + 1] - 1) + r + 1 \in Nat \ {0}
    BY <2>1, <2>5
  <2>7. Answer(a, j) = ANSWERS * (a[q + 1] - 1) + r + 1
    BY DEF Answer, q, r
  <2> QED BY <2>4, <2>6, <2>7 DEF q, r
<1>3. AnswersToAll(a) = [j \in 1 .. ANSWERS * Len(a) |-> Answer(a, j)]
  BY <1>2 DEF AnswersToAll
<1> QED BY <1>1, <1>2, <1>3

\* They are numbered in the order of the messages, and none occurs twice.
LEMMA AnswersRise ==
  ASSUME NEW a, Numbered(a)
  PROVE  \A i, j \in 1 .. ANSWERS * Len(a) : i < j => Answer(a, i) < Answer(a, j)
<1> SUFFICES ASSUME NEW i \in 1 .. ANSWERS * Len(a), NEW j \in 1 .. ANSWERS * Len(a), i < j
             PROVE  Answer(a, i) < Answer(a, j)
  OBVIOUS
<1> DEFINE q == (i - 1) \div ANSWERS
           r == (i - 1) % ANSWERS
           u == (j - 1) \div ANSWERS
           v == (j - 1) % ANSWERS
<1>1. a \in Seq(Nat \ {0}) /\ Len(a) \in Nat /\ Rising(a)
  BY DEF Numbered
<1>2. /\ q \in 0 .. Len(a) - 1 /\ r \in 0 .. ANSWERS - 1 /\ i = ANSWERS * q + r + 1
      /\ u \in 0 .. Len(a) - 1 /\ v \in 0 .. ANSWERS - 1 /\ j = ANSWERS * u + v + 1
  BY <1>1, Place, Constants
<1>3. /\ Answer(a, i) = ANSWERS * (a[q + 1] - 1) + r + 1
      /\ Answer(a, j) = ANSWERS * (a[u + 1] - 1) + v + 1
  BY DEF Answer
<1> HIDE DEF q, r, u, v
<1>4. /\ q + 1 \in 1 .. Len(a) /\ u + 1 \in 1 .. Len(a)
      /\ a[q + 1] \in Nat \ {0} /\ a[u + 1] \in Nat \ {0}
  BY <1>1, <1>2
<1>5. q <= u
  <2>1. SUFFICES ASSUME q >= u + 1 PROVE FALSE
    BY <1>2
  <2>2. ANSWERS * (u + 1) <= ANSWERS * q /\ ANSWERS * (u + 1) = ANSWERS * u + ANSWERS
    BY <1>2, <2>1, Monotone, NextBlock, Constants
  <2> QED BY <1>2, <2>2, Constants
<1>6. CASE q = u
  <2>1. r < v
    BY <1>2, <1>6, Constants
  <2>2. ANSWERS * (a[q + 1] - 1) \in Nat
    BY <1>4, Constants
  <2> QED BY <1>2, <1>3, <1>6, <2>1, <2>2
<1>7. CASE q < u
  <2> DEFINE x == a[q + 1] - 1
             y == a[u + 1] - 1
  <2>1. a[q + 1] < a[u + 1]
    BY <1>1, <1>2, <1>4, <1>7 DEF Rising
  <2>2. x \in Nat /\ y \in Nat /\ x + 1 <= y
    BY <1>4, <2>1
  <2> HIDE DEF x, y
  <2>3. /\ ANSWERS * (x + 1) <= ANSWERS * y /\ ANSWERS * (x + 1) = ANSWERS * x + ANSWERS
        /\ ANSWERS * x \in Nat /\ ANSWERS * y \in Nat
    BY <2>2, Monotone, NextBlock, Constants
  <2>4. ANSWERS * x + r + 1 < ANSWERS * y + v + 1
    BY <1>2, <2>3, Constants
  <2> QED BY <1>3, <2>4 DEF x, y
<1> QED BY <1>2, <1>5, <1>6, <1>7

\* A further message adds answers at the end.
LEMMA AnswersGrow ==
  ASSUME NEW a \in Seq(Nat \ {0}), NEW m \in Nat \ {0}
  PROVE  /\ Append(a, m) \in Seq(Nat \ {0}) /\ Len(Append(a, m)) = Len(a) + 1
         /\ \A i \in 1 .. Len(a) : Append(a, m)[i] = a[i]
         /\ Len(AnswersToAll(Append(a, m))) = Len(AnswersToAll(a)) + ANSWERS
         /\ \A j \in 1 .. Len(AnswersToAll(a)) :
              AnswersToAll(Append(a, m))[j] = AnswersToAll(a)[j]
<1> DEFINE b == Append(a, m)
<1>1. /\ b \in Seq(Nat \ {0}) /\ Len(b) = Len(a) + 1 /\ Len(a) \in Nat
      /\ \A i \in 1 .. Len(a) : b[i] = a[i]
  OBVIOUS
<1> HIDE DEF b
<1>2. ANSWERS * Len(b) = ANSWERS * Len(a) + ANSWERS /\ ANSWERS * Len(a) \in Nat
  BY <1>1, NextBlock, Constants
<1>3. /\ Len(AnswersToAll(a)) = ANSWERS * Len(a) /\ Len(AnswersToAll(b)) = ANSWERS * Len(b)
      /\ \A j \in 1 .. ANSWERS * Len(a) : AnswersToAll(a)[j] = Answer(a, j)
      /\ \A j \in 1 .. ANSWERS * Len(b) : AnswersToAll(b)[j] = Answer(b, j)
  BY <1>1, AnswersAre
<1>4. ASSUME NEW j \in 1 .. ANSWERS * Len(a)
      PROVE  AnswersToAll(b)[j] = AnswersToAll(a)[j]
  <2> DEFINE q == (j - 1) \div ANSWERS
  <2>1. q \in 0 .. Len(a) - 1
    BY <1>1, Place, Constants
  <2> HIDE DEF q
  <2>2. q + 1 \in 1 .. Len(a)
    BY <1>1, <2>1
  <2>3. Answer(b, j) = Answer(a, j)
    BY <1>1, <2>2 DEF Answer, q
  <2>4. j \in 1 .. ANSWERS * Len(b)
    BY <1>2, Constants
  <2> QED BY <1>3, <2>3, <2>4
<1> QED BY <1>1, <1>2, <1>3, <1>4 DEF b

\* What the server replies to the next message follows its earlier replies.
LEMMA RepliesCarried ==
  ASSUME NEW a \in Seq(Nat \ {0}), NEW h \in Nat, h < Len(a)
  PROVE  /\ Carries(Replies(a[h + 1]), AnswersToAll(a), FRAME_SIZE * (ANSWERS * h))
         /\ Len(Replies(a[h + 1])) = FRAME_SIZE * ANSWERS
<1> DEFINE m == a[h + 1]
           s == AnswersToAll(a)
           base == ANSWERS * h
<1>1. m \in Nat \ {0} /\ Len(a) \in Nat /\ h + 1 <= Len(a) /\ h + 1 \in Nat
  OBVIOUS
<1>2. /\ AnswersTo(m) \in Seq(Nat) /\ Len(AnswersTo(m)) = ANSWERS
      /\ \A k \in 1 .. ANSWERS : AnswersTo(m)[k] = ANSWERS * (m - 1) + k
  <2> DEFINE before == ANSWERS * (m - 1)
  <2>1. m - 1 \in Nat /\ ANSWERS \in Nat
    BY <1>1, Constants
  <2>2. before \in Nat
    BY <2>1, NextBlock
  <2>3. AnswersTo(m) = [k \in 1 .. ANSWERS |-> before + k]
    BY DEF AnswersTo
  <2> HIDE DEF before
  <2>4. \A k \in 1 .. ANSWERS : before + k \in Nat
    BY <2>2
  <2>5. /\ AnswersTo(m) \in Seq(Nat) /\ Len(AnswersTo(m)) = ANSWERS
        /\ \A k \in 1 .. ANSWERS : AnswersTo(m)[k] = before + k
    BY <2>1, <2>3, <2>4
  <2> QED BY <2>5 DEF before
<1>3. /\ s \in Seq(Nat \ {0}) /\ Len(s) = ANSWERS * Len(a)
      /\ \A j \in 1 .. ANSWERS * Len(a) : s[j] = Answer(a, j)
  BY AnswersAre
<1>4. /\ ANSWERS * (h + 1) = base + ANSWERS /\ base \in Nat
      /\ ANSWERS * (h + 1) <= ANSWERS * Len(a)
  BY <1>1, NextBlock, Monotone, Constants
<1>5. ASSUME NEW k \in 1 .. ANSWERS
      PROVE  s[base + k] = AnswersTo(m)[k] /\ base + k \in 1 .. Len(s)
  <2>1. base + k \in 1 .. ANSWERS * Len(a)
    BY <1>1, <1>4, Constants
  <2>2. /\ (ANSWERS * h + (k - 1)) \div ANSWERS = h
        /\ (ANSWERS * h + (k - 1)) % ANSWERS = k - 1
    <3>1. k - 1 \in Nat /\ k - 1 < ANSWERS
      BY Constants
    <3> QED BY <3>1, Quotient, Constants
  <2>3. (base + k) - 1 = ANSWERS * h + (k - 1)
    BY <1>4
  <2>4. Answer(a, base + k) = ANSWERS * (m - 1) + (k - 1) + 1
    BY <2>2, <2>3 DEF Answer
  <2>5. ANSWERS * (m - 1) + (k - 1) + 1 = ANSWERS * (m - 1) + k
    BY <1>1, Constants
  <2> QED BY <1>2, <1>3, <2>1, <2>4, <2>5
<1> HIDE DEF m, s, base
<1>6. /\ Carries(Stream(AnswersTo(m)), AnswersTo(m), 0)
      /\ Len(Stream(AnswersTo(m))) = FRAME_SIZE * ANSWERS
  BY <1>2, StreamCarries
<1>7. /\ FRAME_SIZE * ANSWERS \in Nat /\ FRAME_SIZE * base \in Nat
      /\ FRAME_SIZE * base + FRAME_SIZE * ANSWERS = FRAME_SIZE * (base + ANSWERS)
      /\ FRAME_SIZE * (base + ANSWERS) <= FRAME_SIZE * Len(s)
  <2>1. base + ANSWERS \in Nat /\ Len(s) \in Nat /\ base + ANSWERS <= Len(s)
    BY <1>1, <1>3, <1>4, Constants
  <2> QED BY <1>4, <2>1, Monotone, Constants
<1>8. ASSUME NEW t \in 1 .. FRAME_SIZE * ANSWERS
      PROVE  Stream(AnswersTo(m))[t] = Byte(s, FRAME_SIZE * base + t)
  <2> DEFINE q == (t - 1) \div FRAME_SIZE
             r == (t - 1) % FRAME_SIZE
  <2>1. q \in 0 .. ANSWERS - 1 /\ r \in 0 .. FRAME_SIZE - 1 /\ t = FRAME_SIZE * q + r + 1
    BY Place, Constants
  <2>2. Stream(AnswersTo(m))[t] = <<AnswersTo(m)[q + 1], r + 1>>
    BY <1>2 DEF Stream
  <2> HIDE DEF q, r
  <2>3. q + 1 \in 1 .. ANSWERS /\ r + 1 \in 1 .. FRAME_SIZE
    BY <2>1, Constants
  <2>4. s[base + (q + 1)] = AnswersTo(m)[q + 1]
    BY <1>5, <2>3
  <2>5. FRAME_SIZE * ((base + (q + 1)) - 1) + (r + 1) = FRAME_SIZE * base + t
    <3>1. (base + (q + 1)) - 1 = base + q
      BY <1>4, <2>1
    <3>2. FRAME_SIZE * (base + q) = FRAME_SIZE * base + FRAME_SIZE * q
      BY <1>4, <2>1, Constants
    <3> QED BY <2>1, <3>1, <3>2, <1>7, Constants
  <2>6. base + (q + 1) \in Nat \ {0}
    BY <1>4, <2>1
  <2>7. Byte(s, FRAME_SIZE * ((base + (q + 1)) - 1) + (r + 1)) = <<s[base + (q + 1)], r + 1>>
    BY <2>3, <2>6, ByteInFrame
  <2> QED BY <2>2, <2>4, <2>5, <2>7
<1>9. Stream(AnswersTo(m)) \in Seq(Nat \X Nat)
  BY <1>6 DEF Carries
<1>10. Carries(Stream(AnswersTo(m)), s, FRAME_SIZE * base)
  BY <1>6, <1>7, <1>8, <1>9 DEF Carries
<1> QED BY <1>6, <1>10 DEF Replies, m, s, base
--------------------------------------------------------------------------------
(* The place of the last published answer *)

PositionIn(e, b) ==
  IF b = <<>> \/ Last(b) \notin Range(e) THEN 0
  ELSE CHOOSE j \in DOMAIN e : e[j] = Last(b)

\* Where no answer occurs twice, there is one place for it.
LEMMA PositionIs ==
  ASSUME NEW e \in Seq(Nat), Rising(e), NEW b, b # <<>>,
         NEW j \in 1 .. Len(e), e[j] = Last(b)
  PROVE  PositionIn(e, b) = j
<1>1. DOMAIN e = 1 .. Len(e) /\ Len(e) \in Nat /\ \A i \in 1 .. Len(e) : e[i] \in Nat
  OBVIOUS
<1>2. Last(b) \in Range(e)
  BY <1>1 DEF Range
<1>3. \A i \in DOMAIN e : e[i] = Last(b) => i = j
  <2> SUFFICES ASSUME NEW i \in 1 .. Len(e), e[i] = e[j], i # j PROVE FALSE
    BY <1>1
  <2>1. i < j \/ j < i
    BY <1>1
  <2> QED BY <1>1, <2>1 DEF Rising
<1>4. (CHOOSE i \in DOMAIN e : e[i] = Last(b)) = j
  BY <1>1, <1>3
<1> QED BY <1>2, <1>4 DEF PositionIn

\* It stays when the stream goes on.
LEMMA PositionStays ==
  ASSUME NEW e \in Seq(Nat), NEW more \in Seq(Nat), Rising(more), Len(e) <= Len(more),
         \A i \in 1 .. Len(e) : more[i] = e[i], NEW b,
         b # <<>> => PositionIn(e, b) \in 1 .. Len(e) /\ e[PositionIn(e, b)] = Last(b)
  PROVE  PositionIn(more, b) = PositionIn(e, b)
<1>1. CASE b = <<>>
  BY <1>1 DEF PositionIn
<1>2. CASE b # <<>>
  <2> DEFINE p == PositionIn(e, b)
  <2>1. p \in 1 .. Len(e) /\ e[p] = Last(b)
    BY <1>2
  <2> HIDE DEF p
  <2>2. p \in 1 .. Len(more) /\ more[p] = Last(b)
    BY <2>1
  <2>3. PositionIn(more, b) = p
    BY <1>2, <2>2, PositionIs
  <2> QED BY <2>3 DEF p
<1> QED BY <1>1, <1>2

--------------------------------------------------------------------------------
(* The invariant *)

Ordered ==
  /\ next \in Nat \ {0} /\ Numbered(asked) /\ Numbered(udp)
  /\ \A i \in 1 .. Len(asked) : asked[i] < next
  /\ \A j \in 1 .. Len(udp) : udp[j] < next
  /\ \A i \in 1 .. Len(asked), j \in 1 .. Len(udp) : asked[i] < udp[j]

\* The server's end of the stream has not been given up.
Alive == stage \notin {"closing", "left"}

\* Of the answers, read bytes are behind the bridge: they were made frames of or
\* dropped.  The server has answered handled messages.
Answering(read, handled) ==
  /\ Carries(chunks, Expected, read)
  /\ Carries(down, Expected, read + Len(chunks))
  /\ Carries(srvOut, Expected, read + Len(chunks) + Len(down))
  /\ handled <= Len(asked)
  /\ Alive => read + Len(chunks) + Len(down) + Len(srvOut)
                = FRAME_SIZE * (ANSWERS * handled)

\* The messages not yet handled are on their way to the server.
Asking(handled) ==
  Alive =>
    /\ Carries(srvIn, asked, FRAME_SIZE * handled)
    /\ Carries(up, asked, FRAME_SIZE * handled + Len(srvIn))
    /\ FRAME_SIZE * handled + Len(srvIn) + Len(up) = FRAME_SIZE * Len(asked)

\* The frames in hand follow each other, the first after done bytes.
Holding(done, read) ==
  /\ frames \in Seq(Seq(Nat \X Nat))
  /\ \A i \in 1 .. Len(frames) :
       /\ Len(frames[i]) = FRAME_SIZE
       /\ Carries(frames[i], Expected, done + FRAME_SIZE * (i - 1))
  /\ done + FRAME_SIZE * Len(frames) <= read
  /\ pc # "forward" \/ ~split => done + FRAME_SIZE * Len(frames) = read

\* What is published lies before them, and nothing is left out before a cut.
Published(done) ==
  /\ bus \in Seq(Nat)
  /\ Position \in 0 .. Len(Expected)
  /\ bus = <<>> => Position = 0
  /\ bus # <<>> => Position > 0 /\ Expected[Position] = Last(bus)
  /\ FRAME_SIZE * Position <= done
  /\ ~split => /\ Len(bus) <= Len(Expected)
               /\ \A j \in 1 .. Len(bus) : bus[j] = Expected[j]
               /\ pc # "stopped" => done = FRAME_SIZE * Len(bus)

\* Between transactions nothing is under way, unless one ended too early.
Complete(read) ==
  /\ split => late
  /\ ~late /\ pc \in {"connect", "register", "udp", "forward"} =>
       read = FRAME_SIZE * Len(Expected)

Flow(done, read, handled) ==
  /\ Answering(read, handled)
  /\ Asking(handled)
  /\ Holding(done, read)
  /\ Published(done)
  /\ Complete(read)

Flows == \E done, read, handled \in Nat : Flow(done, read, handled)

BInv ==
  /\ TypeOK
  /\ Ordered
  /\ chunks # <<>> => pc \in {"first", "drain"}
  /\ Flows

\* The stream of answers in a state.
LEMMA ExpectedIs ==
  ASSUME NEW a, Numbered(a)
  PROVE  /\ AnswersToAll(a) \in Seq(Nat \ {0}) /\ AnswersToAll(a) \in Seq(Nat)
         /\ Len(AnswersToAll(a)) = ANSWERS * Len(a)
         /\ Len(a) \in Nat /\ Len(AnswersToAll(a)) \in Nat
         /\ Rising(AnswersToAll(a))
<1>1. a \in Seq(Nat \ {0}) /\ Len(a) \in Nat
  BY DEF Numbered
<1>2. /\ AnswersToAll(a) \in Seq(Nat \ {0})
      /\ Len(AnswersToAll(a)) = ANSWERS * Len(a)
      /\ \A j \in 1 .. ANSWERS * Len(a) : AnswersToAll(a)[j] = Answer(a, j)
  BY <1>1, AnswersAre
<1>3. \A i, j \in 1 .. ANSWERS * Len(a) : i < j => Answer(a, i) < Answer(a, j)
  BY AnswersRise
<1>4. AnswersToAll(a) \in Seq(Nat)
  BY <1>2
<1>5. Rising(AnswersToAll(a))
  BY <1>2, <1>3 DEF Rising
<1> QED BY <1>1, <1>2, <1>4, <1>5, Constants

\* The parts of the invariant, for steps that do not concern them.
LEMMA AnsweringKept ==
  ASSUME NEW read, NEW handled, Answering(read, handled),
         UNCHANGED <<chunks, down, srvOut, asked, stage>>
  PROVE  Answering(read, handled)'
  BY DEF Answering, Alive, Expected

LEMMA AskingKept ==
  ASSUME NEW handled, Asking(handled), UNCHANGED <<srvIn, up, asked, stage>>
  PROVE  Asking(handled)'
  BY DEF Asking, Alive

LEMMA HoldingKept ==
  ASSUME NEW done, NEW read, Holding(done, read),
         UNCHANGED <<frames, asked, pc, split>>
  PROVE  Holding(done, read)'
  BY DEF Holding, Expected

LEMMA PublishedKept ==
  ASSUME NEW done, Published(done), UNCHANGED <<bus, asked, pc, split>>
  PROVE  Published(done)'
  BY DEF Published, Expected, Position

LEMMA CompleteKept ==
  ASSUME NEW read, Complete(read), UNCHANGED <<asked, pc, split, late>>
  PROVE  Complete(read)'
  BY DEF Complete, Expected

\* The invariant holds at the start.
LEMMA BInvInit == Init => BInv
<1> SUFFICES ASSUME Init PROVE BInv
  OBVIOUS
<1>1. asked = <<>> /\ Numbered(asked) /\ Len(asked) = 0
  BY DEF Init, Numbered, Rising
<1>2. Expected \in Seq(Nat) /\ Len(Expected) = 0
  BY <1>1, ExpectedIs, Constants DEF Expected
<1>3. FRAME_SIZE * 0 = 0 /\ ANSWERS * 0 = 0
  BY Constants
<1>4. Carries(<<>>, Expected, 0) /\ Carries(<<>>, asked, 0)
  <2>1. asked \in Seq(Nat)
    BY <1>1
  <2>2. 0 <= FRAME_SIZE * Len(Expected) /\ 0 <= FRAME_SIZE * Len(asked)
    BY <1>1, <1>2, <1>3
  <2>3. Carries(<<>>, Expected, 0)
    <3> DEFINE e == Expected
    <3>1. e \in Seq(Nat) /\ 0 <= FRAME_SIZE * Len(e)
      BY <1>2, <2>2
    <3> HIDE DEF e
    <3>2. Carries(<<>>, e, 0)
      BY <3>1, CarriesNothing
    <3> QED BY <3>2 DEF e
  <2>4. Carries(<<>>, asked, 0)
    BY <2>1, <2>2, CarriesNothing
  <2> QED BY <2>3, <2>4
<1>5. TypeOK
  BY BridgeAssumption DEF Init, TypeOK, ConnectionInit
<1>6. Ordered
  BY <1>1 DEF Init, Ordered, Numbered, Rising
<1>7. Answering(0, 0)
  BY <1>1, <1>3, <1>4 DEF Init, Answering
<1>8. Asking(0)
  BY <1>1, <1>3, <1>4 DEF Init, Asking
<1>9. Holding(0, 0)
  BY <1>3 DEF Init, Holding
<1>10. Published(0)
  BY <1>2, <1>3 DEF Init, Published, Position
<1>11. Complete(0)
  BY <1>2, <1>3 DEF Init, Complete
<1>12. Flow(0, 0, 0)
  BY <1>7, <1>8, <1>9, <1>10, <1>11 DEF Flow
<1> QED BY <1>5, <1>6, <1>12 DEF BInv, Flows, Init
--------------------------------------------------------------------------------
(* Types and order *)

\* What the parts of the invariant say of lengths.
LEMMA Lengths ==
  ASSUME BInv
  PROVE  /\ chunks \in Seq(Nat \X Nat) /\ Len(chunks) \in Nat
         /\ down \in Seq(Nat \X Nat) /\ Len(down) \in Nat
         /\ srvOut \in Seq(Nat \X Nat) /\ Len(srvOut) \in Nat
         /\ frames \in Seq(Seq(Nat \X Nat)) /\ Len(frames) \in Nat
         /\ Alive => /\ srvIn \in Seq(Nat \X Nat) /\ Len(srvIn) \in Nat
                     /\ up \in Seq(Nat \X Nat) /\ Len(up) \in Nat
<1>1. PICK done, read, handled \in Nat : Flow(done, read, handled)
  BY DEF BInv, Flows
<1> QED BY <1>1 DEF Flow, Answering, Asking, Holding, Carries

\* A read from a stream takes what it takes from its front.
LEMMA ReadLength ==
  ASSUME NEW b \in Seq(Nat \X Nat), NEW c \in Seq(Nat \X Nat), NEW n \in 0 .. Len(c)
  PROVE  /\ b \o First(c, n) \in Seq(Nat \X Nat)
         /\ Len(b \o First(c, n)) = Len(b) + n
<1>1. First(c, n) \in Seq(Nat \X Nat) /\ Len(First(c, n)) = n
  BY DEF First
<1> DEFINE d == First(c, n)
<1>2. /\ d \in Seq(Nat \X Nat) /\ Len(d) = n
      /\ b \in Seq(Nat \X Nat) /\ Len(b) \in Nat /\ Len(d) \in Nat
  BY <1>1
<1> HIDE DEF d
<1>3. b \o d \in Seq(Nat \X Nat) /\ Len(b \o d) = Len(b) + Len(d)
  BY <1>2
<1> QED BY <1>2, <1>3 DEF d

\* Taking from a sequence of messages, and adding at its end.
LEMMA NumberedTail ==
  ASSUME NEW s, Numbered(s), s # <<>>
  PROVE  /\ Numbered(Tail(s)) /\ Len(Tail(s)) = Len(s) - 1 /\ Head(s) = s[1]
         /\ \A i \in 1 .. Len(s) - 1 : Tail(s)[i] = s[i + 1] /\ i + 1 \in 1 .. Len(s)
         /\ 1 \in 1 .. Len(s) /\ s[1] \in Nat \ {0} /\ s \in Seq(Nat \ {0})
<1>1. s \in Seq(Nat \ {0}) /\ Len(s) \in Nat \ {0}
  BY DEF Numbered
<1>2. /\ Tail(s) \in Seq(Nat \ {0}) /\ Len(Tail(s)) = Len(s) - 1
      /\ \A i \in 1 .. Len(s) - 1 : Tail(s)[i] = s[i + 1] /\ i + 1 \in 1 .. Len(s)
  BY <1>1
<1>3. Rising(Tail(s))
  BY <1>1, <1>2 DEF Numbered, Rising
<1> QED BY <1>1, <1>2, <1>3 DEF Numbered

LEMMA NumberedAppend ==
  ASSUME NEW s, Numbered(s), NEW m \in Nat \ {0}, \A i \in 1 .. Len(s) : s[i] < m
  PROVE  /\ Numbered(Append(s, m)) /\ Len(Append(s, m)) = Len(s) + 1
         /\ \A i \in 1 .. Len(s) : Append(s, m)[i] = s[i]
         /\ Append(s, m)[Len(s) + 1] = m
<1> DEFINE t == Append(s, m)
<1>1. /\ s \in Seq(Nat \ {0}) /\ Len(s) \in Nat
      /\ \A i \in 1 .. Len(s) : s[i] \in Nat \ {0}
  BY DEF Numbered
<1>2. /\ t \in Seq(Nat \ {0}) /\ Len(t) = Len(s) + 1 /\ t[Len(s) + 1] = m
      /\ \A i \in 1 .. Len(s) : t[i] = s[i]
  BY <1>1
<1> HIDE DEF t
<1>3. ASSUME NEW i \in 1 .. Len(t), NEW j \in 1 .. Len(t), i < j
      PROVE  t[i] < t[j]
  <2>1. i \in 1 .. Len(s) /\ t[i] = s[i]
    BY <1>1, <1>2, <1>3
  <2>2. CASE j = Len(s) + 1
    BY <1>2, <2>1, <2>2
  <2>3. CASE j # Len(s) + 1
    <3>1. j \in 1 .. Len(s) /\ t[j] = s[j]
      BY <1>1, <1>2, <2>3
    <3> QED BY <1>3, <2>1, <3>1 DEF Numbered, Rising
  <2> QED BY <2>2, <2>3
<1>4. Numbered(t)
  BY <1>2, <1>3 DEF Numbered, Rising
<1> QED BY <1>2, <1>4 DEF t

\* Every step keeps the types.
LEMMA TypeStep ==
  ASSUME BInv, [Next]_vars
  PROVE  TypeOK'
<1> USE DEF TypeOK
<1>0. TypeOK /\ Ordered
  BY DEF BInv
<1>1. CASE Publish
  <2>1. udp \in Seq(Nat)
    BY <1>0 DEF Ordered, Numbered
  <2>2. Len(udp') <= UdpCapacity
    BY <1>0, <1>1, <2>1, BridgeAssumption DEF Publish
  <2> QED BY <1>0, <1>1, <2>2, BridgeAssumption DEF Publish, bridge, server, connection
<1>2. CASE Connect \/ ConnectRefused \/ Register \/ EndTransaction
  BY <1>0, <1>2
  DEF Connect, ConnectRefused, Register, EndTransaction, server, connection
<1>3. CASE SkipUnsupported \/ Ask
  <2>1. Len(udp') <= UdpCapacity
    <3>1. udp \in Seq(Nat) /\ udp # <<>> /\ udp' = Tail(udp)
      BY <1>0, <1>3 DEF Ordered, Numbered, SkipUnsupported, Ask
    <3> QED BY <1>0, <3>1, BridgeAssumption
  <2> QED BY <1>0, <1>3, <2>1 DEF SkipUnsupported, Ask, bridge, server, connection
<1>4. CASE Receive
  <2>1. PICK n \in 1 .. FRAME_SIZE - Len(chunks) :
          /\ n <= Len(down)
          /\ LET read == chunks \o First(down, n) IN
             IF Len(read) = FRAME_SIZE
             THEN frames' = Append(frames, read) /\ chunks' = <<>> /\ pc' = AfterFrame
             ELSE chunks' = read /\ UNCHANGED <<frames, pc>>
    BY <1>4 DEF Receive
  <2> DEFINE read == chunks \o First(down, n)
  <2>2. /\ read \in Seq(Nat \X Nat) /\ Len(read) = Len(chunks) + n
        /\ Len(chunks) \in Nat /\ Len(read) <= FRAME_SIZE
        /\ frames \in Seq(Seq(Nat \X Nat))
    BY <2>1, Lengths, ReadLength, Constants
  <2>3. /\ \/ /\ Len(read) = FRAME_SIZE /\ frames' = Append(frames, read)
              /\ chunks' = <<>> /\ pc' = "drain"
           \/ chunks' = read /\ Len(read) # FRAME_SIZE /\ UNCHANGED <<frames, pc>>
        /\ UNCHANGED <<next, udp, srvIn, srvOut, stage>>
    BY <1>4, <2>1 DEF AfterFrame, Receive, server, connection
  <2> HIDE DEF read
  <2>4. Len(chunks') < FRAME_SIZE
    <3>1. chunks' = <<>> \/ (chunks' = read /\ Len(read) # FRAME_SIZE)
      BY <2>3
    <3>2. Len(<<>>) = 0
      OBVIOUS
    <3>3. Len(read) \in Nat /\ Len(read) <= FRAME_SIZE
      <4>1. Len(read) = Len(chunks) + n /\ Len(chunks) \in Nat /\ Len(read) <= FRAME_SIZE
        BY <2>2, Zenon
      <4> QED BY <4>1, Constants
    <3> QED BY <3>1, <3>2, <3>3, Constants
  <2>5. \A i \in DOMAIN frames' : Len(frames'[i]) = FRAME_SIZE
    <3>1. CASE frames' = frames
      BY <1>0, <3>1
    <3>2. CASE Len(read) = FRAME_SIZE /\ frames' = Append(frames, read)
      <4> DEFINE B == Nat \X Nat
      <4>0. frames \in Seq(Seq(B)) /\ read \in Seq(B)
        BY <2>2
      <4> HIDE DEF B
      <4>1. /\ DOMAIN frames' = 1 .. Len(frames) + 1 /\ Len(frames) \in Nat
            /\ \A i \in 1 .. Len(frames) : frames'[i] = frames[i]
            /\ frames'[Len(frames) + 1] = read /\ DOMAIN frames = 1 .. Len(frames)
        BY <4>0, <3>2
      <4> QED BY <1>0, <3>2, <4>1
    <3> QED BY <2>3, <3>1, <3>2
  <2>6. pc' \in {"first", "drain"} /\ (frames' # <<>> => pc' \in {"drain", "forward"})
    BY <1>0, <1>4, <2>3 DEF Receive
  <2> QED BY <1>0, <2>3, <2>4, <2>5, <2>6
<1>5. CASE DrainTimeout
  BY <1>0, <1>5, Constants DEF DrainTimeout, server, connection
<1>6. CASE ForwardFrame \/ DropMalformed
  <2>1. frames' \in {Tail(frames), <<>>} /\ frames # <<>> /\ pc' = "forward"
    BY <1>6 DEF ForwardFrame, DropMalformed
  <2>2. \A i \in DOMAIN frames' : Len(frames'[i]) = FRAME_SIZE
    <3>1. frames \in Seq(Seq(Nat \X Nat))
      BY Lengths
    <3>2. /\ DOMAIN Tail(frames) = 1 .. Len(frames) - 1 /\ DOMAIN frames = 1 .. Len(frames)
          /\ \A i \in 1 .. Len(frames) - 1 :
               Tail(frames)[i] = frames[i + 1] /\ i + 1 \in 1 .. Len(frames)
      BY <2>1, <3>1
    <3>3. CASE frames' = Tail(frames)
      BY <1>0, <3>2, <3>3
    <3>4. CASE frames' = <<>>
      BY <3>4
    <3> QED BY <2>1, <3>3, <3>4
  <2> QED BY <1>0, <1>6, <2>1, <2>2 DEF ForwardFrame, DropMalformed, server, connection
<1>7. CASE ServerGone \/ BridgeStops
  BY <1>0, <1>7, Constants DEF ServerGone, BridgeStops, server, connection
<1>8. CASE Starting \/ AcceptBridge
  BY <1>0, <1>8
  DEF Starting, AcceptBridge, SetUp, StartNetwork, CreateServerSocket, BindServerSocket,
      Listen, StartTransport, Accept, bridge
<1>9. CASE StartingFails
  BY <1>0, <1>9
  DEF StartingFails, SetUpFails, StartNetworkFails, CreateServerSocketFails,
      BindOrListenFails, AcceptFails, StartTransportFails, GiveUp, bridge
<1>10. CASE LeaveLoop \/ CloseConnection
  BY <1>0, <1>10, Constants
  DEF LeaveLoop, DetachTransport, CloseConnection, CloseSockets, bridge
<1>11. CASE ServerReceive
  <2>1. Len(srvIn') < FRAME_SIZE
    <3>1. Alive
      BY <1>11 DEF ServerReceive, Alive
    <3>2. PICK n \in 1 .. FRAME_SIZE - Len(srvIn) :
            /\ n <= Len(up)
            /\ LET read == srvIn \o First(up, n) IN
               IF Len(read) = FRAME_SIZE THEN srvIn' = <<>> ELSE srvIn' = read
      BY <1>11 DEF ServerReceive
    <3>3. /\ Len(srvIn \o First(up, n)) = Len(srvIn) + n
          /\ Len(srvIn) \in Nat
      BY <3>1, <3>2, Lengths, ReadLength
    <3>4. Len(<<>>) = 0
      OBVIOUS
    <3>5. CASE Len(srvIn \o First(up, n)) = FRAME_SIZE
      BY <3>2, <3>4, <3>5, Constants
    <3>6. CASE Len(srvIn \o First(up, n)) # FRAME_SIZE
      <4>1. srvIn' = srvIn \o First(up, n)
        BY <3>2, <3>6
      <4> QED BY <3>2, <3>3, <3>6, <4>1, Constants
    <3> QED BY <3>5, <3>6
  <2> QED BY <1>0, <1>11, <2>1 DEF ServerReceive, bridge, connection
<1>12. CASE ServerSend
  BY <1>0, <1>12 DEF ServerSend, bridge, connection
<1>13. CASE UNCHANGED vars
  BY <1>0, <1>13 DEF vars, bridge, server, connection
<1> QED BY <1>1, <1>2, <1>3, <1>4, <1>5, <1>6, <1>7, <1>8, <1>9, <1>10, <1>11, <1>12, <1>13
        DEF Next, Bridge, Server

\* Messages are asked in the order of their numbers, each once.
LEMMA OrderStep ==
  ASSUME BInv, [Next]_vars
  PROVE  Ordered'
<1>0. /\ next \in Nat \ {0} /\ Numbered(asked) /\ Numbered(udp)
      /\ \A i \in 1 .. Len(asked) : asked[i] < next
      /\ \A j \in 1 .. Len(udp) : udp[j] < next
      /\ \A i \in 1 .. Len(asked), j \in 1 .. Len(udp) : asked[i] < udp[j]
      /\ asked \in Seq(Nat \ {0}) /\ udp \in Seq(Nat \ {0})
      /\ Len(asked) \in Nat /\ Len(udp) \in Nat
  BY DEF BInv, Ordered, Numbered
<1>1. CASE Publish
  <2>1. next' = next + 1 /\ asked' = asked /\ udp' \in {udp, Append(udp, next)}
    BY <1>1 DEF Publish, bridge
  <2>2. CASE udp' = udp
    BY <1>0, <2>1, <2>2 DEF Ordered
  <2>3. CASE udp' = Append(udp, next)
    <3>1. /\ Numbered(udp') /\ Len(udp') = Len(udp) + 1
          /\ \A j \in 1 .. Len(udp) : udp'[j] = udp[j]
          /\ udp'[Len(udp) + 1] = next
      BY <1>0, <2>3, NumberedAppend
    <3>n. /\ \A j \in 1 .. Len(udp) : udp[j] \in Nat
          /\ \A i \in 1 .. Len(asked) : asked[i] \in Nat
      BY <1>0
    <3>2. ASSUME NEW j \in 1 .. Len(udp') PROVE udp'[j] < next'
      <4>0. Len(udp) \in Nat /\ Len(udp') = Len(udp) + 1
        BY <1>0, <3>1, Zenon
      <4>1. j \in 1 .. Len(udp) \/ j = Len(udp) + 1
        BY <4>0
      <4>2. udp'[j] \in Nat /\ udp'[j] <= next
        BY <1>0, <3>1, <3>n, <4>1
      <4> QED BY <1>0, <2>1, <4>2
    <3>3. ASSUME NEW i \in 1 .. Len(asked), NEW j \in 1 .. Len(udp')
          PROVE  asked[i] < udp'[j]
      <4>0. Len(udp) \in Nat /\ Len(udp') = Len(udp) + 1
        BY <1>0, <3>1, Zenon
      <4>1. j \in 1 .. Len(udp) \/ j = Len(udp) + 1
        BY <4>0
      <4> QED BY <1>0, <3>1, <4>1
    <3> QED BY <1>0, <2>1, <3>1, <3>2, <3>3 DEF Ordered
  <2> QED BY <2>1, <2>2, <2>3
<1>2. CASE SkipUnsupported \/ Ask
  <2>1. udp # <<>> /\ udp' = Tail(udp) /\ next' = next
        /\ asked' \in {asked, Append(asked, Head(udp))}
    BY <1>2 DEF SkipUnsupported, Ask, bridge
  <2>2. /\ Numbered(udp') /\ Len(udp') = Len(udp) - 1 /\ Head(udp) = udp[1]
        /\ \A i \in 1 .. Len(udp) - 1 : udp'[i] = udp[i + 1] /\ i + 1 \in 1 .. Len(udp)
        /\ 1 \in 1 .. Len(udp) /\ udp[1] \in Nat \ {0}
    BY <1>0, <2>1, NumberedTail
  <2>3. CASE asked' = asked
    BY <1>0, <2>1, <2>2, <2>3 DEF Ordered
  <2>4. CASE asked' = Append(asked, Head(udp))
    <3>1. /\ Numbered(asked') /\ Len(asked') = Len(asked) + 1
          /\ \A i \in 1 .. Len(asked) : asked'[i] = asked[i]
          /\ asked'[Len(asked) + 1] = udp[1]
      <4>1. \A i \in 1 .. Len(asked) : asked[i] < udp[1]
        BY <1>0, <2>2
      <4>2. asked' = Append(asked, udp[1])
        BY <2>2, <2>4
      <4> QED BY <1>0, <2>2, <4>1, <4>2, NumberedAppend
    <3>2. ASSUME NEW j \in 1 .. Len(udp') PROVE udp[1] < udp'[j]
      <4>1. j \in 1 .. Len(udp) - 1
        BY <2>2
      <4>2. udp'[j] = udp[j + 1] /\ j + 1 \in 1 .. Len(udp) /\ 1 < j + 1
        BY <2>2, <4>1
      <4> QED BY <1>0, <2>2, <4>2 DEF Numbered, Rising
    <3>3. ASSUME NEW i \in 1 .. Len(asked'), NEW j \in 1 .. Len(udp')
          PROVE  asked'[i] < udp'[j]
      <4>1. i \in 1 .. Len(asked) \/ i = Len(asked) + 1
        BY <1>0, <3>1
      <4>2. CASE i = Len(asked) + 1
        BY <3>1, <3>2, <4>2
      <4>3. CASE i \in 1 .. Len(asked)
        <5>1. j \in 1 .. Len(udp) - 1
          BY <2>2
        <5>2. udp'[j] = udp[j + 1] /\ j + 1 \in 1 .. Len(udp)
          BY <2>2, <5>1
        <5> QED BY <1>0, <3>1, <4>3, <5>2
      <4> QED BY <4>1, <4>2, <4>3
    <3>4. ASSUME NEW i \in 1 .. Len(asked') PROVE asked'[i] < next
      <4>1. i \in 1 .. Len(asked) \/ i = Len(asked) + 1
        BY <1>0, <3>1
      <4> QED BY <1>0, <2>2, <3>1, <4>1
    <3> QED BY <1>0, <2>1, <2>2, <3>1, <3>3, <3>4 DEF Ordered
  <2> QED BY <2>1, <2>3, <2>4
<1>3. CASE UNCHANGED <<next, udp, asked>>
  BY <1>0, <1>3 DEF Ordered
<1> QED BY <1>1, <1>2, <1>3
        DEF Next, Bridge, Server, Connect, ConnectRefused, Register, Receive, DrainTimeout,
            ForwardFrame, DropMalformed, EndTransaction, ServerGone, BridgeStops, Starting,
            AcceptBridge, ServerReceive, ServerSend, CloseConnection, StartingFails,
            LeaveLoop, vars, bridge
--------------------------------------------------------------------------------
(* The bytes under way *)

\* The numbers of a state, and where its pieces lie.
LEMMA Numbers ==
  ASSUME BInv, NEW done \in Nat, NEW read \in Nat, NEW handled \in Nat,
         Flow(done, read, handled)
  PROVE  /\ asked \in Seq(Nat \ {0}) /\ asked \in Seq(Nat) /\ Len(asked) \in Nat
         /\ Expected \in Seq(Nat \ {0}) /\ Expected \in Seq(Nat) /\ Rising(Expected)
         /\ Len(Expected) = ANSWERS * Len(asked) /\ Len(Expected) \in Nat
         /\ Len(chunks) \in Nat /\ Len(down) \in Nat /\ Len(srvOut) \in Nat
         /\ Len(frames) \in Nat /\ Len(bus) \in Nat /\ Position \in Nat
         /\ FRAME_SIZE * Len(Expected) \in Nat /\ FRAME_SIZE * Len(frames) \in Nat
         /\ read + Len(chunks) <= FRAME_SIZE * Len(Expected)
         /\ read + Len(chunks) + Len(down) <= FRAME_SIZE * Len(Expected)
<1>1. Numbered(asked) /\ asked \in Seq(Nat \ {0})
  BY DEF BInv, Ordered, Numbered
<1>2. /\ Expected \in Seq(Nat \ {0}) /\ Expected \in Seq(Nat) /\ Rising(Expected)
      /\ Len(Expected) = ANSWERS * Len(asked) /\ Len(Expected) \in Nat
      /\ Len(asked) \in Nat
  BY <1>1, ExpectedIs DEF Expected
<1>3. /\ Len(chunks) \in Nat /\ Len(down) \in Nat /\ Len(srvOut) \in Nat
      /\ Len(frames) \in Nat
  BY Lengths
<1>4. bus \in Seq(Nat) /\ Position \in 0 .. Len(Expected)
  BY DEF Flow, Published
<1>5. /\ read + Len(chunks) <= FRAME_SIZE * Len(Expected)
      /\ read + Len(chunks) + Len(down) <= FRAME_SIZE * Len(Expected)
  BY DEF Flow, Answering, Carries
<1>6. asked \in Seq(Nat) /\ Len(bus) \in Nat /\ Position \in Nat
  BY <1>1, <1>2, <1>4
<1>7. FRAME_SIZE * Len(Expected) \in Nat /\ FRAME_SIZE * Len(frames) \in Nat
  BY <1>2, <1>3, Constants
<1> QED BY <1>1, <1>2, <1>3, <1>5, <1>6, <1>7

\* Steps that touch neither bytes nor messages asked.
LEMMA FlowIdle ==
  ASSUME BInv, Publish \/ SkipUnsupported \/ UNCHANGED vars
  PROVE  Flows'
<1>1. PICK done, read, handled \in Nat : Flow(done, read, handled)
  BY DEF BInv, Flows
<1>2. /\ UNCHANGED <<chunks, down, srvOut, asked, stage>> /\ UNCHANGED <<srvIn, up, asked, stage>>
      /\ UNCHANGED <<frames, asked, pc, split>> /\ UNCHANGED <<bus, asked, pc, split>>
      /\ UNCHANGED <<asked, pc, split, late>>
  BY DEF Publish, SkipUnsupported, vars, bridge, server, connection
<1>3. Flow(done, read, handled)'
  BY <1>1, <1>2, AnsweringKept, AskingKept, HoldingKept, PublishedKept, CompleteKept
  DEF Flow
<1> QED BY <1>3 DEF Flows

\* The bridge's start, and its return to the datagrams.
LEMMA FlowTurn ==
  ASSUME BInv, Connect \/ ConnectRefused \/ Register \/ EndTransaction
  PROVE  Flows'
<1>1. PICK done, read, handled \in Nat : Flow(done, read, handled)
  BY DEF BInv, Flows
<1>2. /\ UNCHANGED <<chunks, down, srvOut, asked, stage>> /\ UNCHANGED <<srvIn, up, asked, stage>>
      /\ UNCHANGED <<frames, bus, split, late>>
  BY DEF Connect, ConnectRefused, Register, EndTransaction, server, connection
<1>3. Answering(read, handled)' /\ Asking(handled)'
  BY <1>1, <1>2, AnsweringKept, AskingKept DEF Flow
<1>4. Complete(read)'
  BY <1>1, <1>2
  DEF Flow, Complete, Expected, Connect, ConnectRefused, Register, EndTransaction
<1>5. Expected' = Expected /\ Position' = Position
  BY <1>2 DEF Expected, Position
<1>6. CASE Connect \/ ConnectRefused \/ Register
  <2>1. pc # "forward" /\ pc' # "forward" /\ pc # "stopped"
    BY <1>6 DEF Connect, ConnectRefused, Register
  <2>2. Holding(done, read)' /\ Published(done)'
    BY <1>1, <1>2, <1>5, <2>1 DEF Flow, Holding, Published
  <2> QED BY <1>3, <1>4, <2>2 DEF Flow, Flows
<1>7. CASE EndTransaction
  <2>1. frames = <<>> /\ pc = "forward" /\ pc' = "udp"
    BY <1>7 DEF EndTransaction
  <2>2. /\ done + FRAME_SIZE * Len(frames) <= read
        /\ ~split => done + FRAME_SIZE * Len(frames) = read
    BY <1>1, <2>1 DEF Flow, Holding
  <2>3. FRAME_SIZE * Len(frames) = 0
    BY <2>1, Constants
  <2>4. done <= read /\ (~split => done = read) /\ read + FRAME_SIZE * Len(frames) = read
    BY <2>2, <2>3
  <2>5. Holding(read, read)'
    BY <1>1, <1>2, <2>1, <2>4 DEF Flow, Holding
  <2>6. FRAME_SIZE * Position <= read
    <3>1. FRAME_SIZE * Position <= done /\ FRAME_SIZE * Position \in Nat
      BY <1>1, Numbers, Constants DEF Flow, Published
    <3> QED BY <2>4, <3>1
  <2>7. Published(read)'
    BY <1>1, <1>2, <1>5, <2>1, <2>4, <2>6 DEF Flow, Published
  <2> QED BY <1>3, <1>4, <2>5, <2>7 DEF Flow, Flows
<1> QED BY <1>6, <1>7

\* A message is asked: the stream of answers goes on.
LEMMA FlowAsk ==
  ASSUME BInv, Ask
  PROVE  Flows'
<1>1. PICK done, read, handled \in Nat : Flow(done, read, handled)
  BY DEF BInv, Flows
<1> DEFINE m == Head(udp)
           E == Expected
           F == Expected'
<1>2. /\ m \in Nat \ {0} /\ asked' = Append(asked, m)
      /\ UNCHANGED <<chunks, down, srvOut, srvIn, stage, frames, bus, split, late>>
      /\ pc = "udp" /\ pc' \in {"first", "stopped"}
      /\ Alive => up' = up \o Bytes(m)
  BY NumberedTail DEF Ask, BInv, Ordered, server, connection, Alive
<1>3. /\ asked \in Seq(Nat \ {0}) /\ asked \in Seq(Nat) /\ Len(asked) \in Nat
      /\ E \in Seq(Nat) /\ Len(E) \in Nat
      /\ FRAME_SIZE * Len(E) \in Nat
  BY <1>1, Numbers
<1>4. /\ asked' \in Seq(Nat \ {0}) /\ Len(asked') = Len(asked) + 1
      /\ \A i \in 1 .. Len(asked) : asked'[i] = asked[i]
      /\ Len(F) = Len(E) + ANSWERS
      /\ \A j \in 1 .. Len(E) : F[j] = E[j]
  BY <1>2, <1>3, AnswersGrow DEF Expected
<1>5. asked' \in Seq(Nat) /\ asked'[Len(asked) + 1] = m
  BY <1>2, <1>3, <1>4
<1>6. Numbered(asked')
  BY OrderStep DEF Next, Bridge, Ordered
<1>7. F \in Seq(Nat) /\ Rising(F) /\ Len(F) = ANSWERS * Len(asked')
  BY <1>6, ExpectedIs DEF Expected
<1>8. Len(E) <= Len(F) /\ Len(asked) <= Len(asked')
  BY <1>3, <1>4, Constants
<1> HIDE DEF m, E, F
<1>9. ASSUME NEW b, NEW p \in Nat, Carries(b, E, p) PROVE Carries(b, F, p)
  BY <1>3, <1>4, <1>7, <1>8, <1>9, CarriesOn
<1>10. Answering(read, handled)'
  <2>1. /\ Carries(chunks, F, read)
        /\ Carries(down, F, read + Len(chunks))
        /\ Carries(srvOut, F, read + Len(chunks) + Len(down))
    <3>1. /\ Carries(chunks, E, read)
          /\ Carries(down, E, read + Len(chunks))
          /\ Carries(srvOut, E, read + Len(chunks) + Len(down))
      BY <1>1 DEF Flow, Answering, E
    <3>2. /\ read + Len(chunks) \in Nat
          /\ read + Len(chunks) + Len(down) \in Nat
      BY Lengths
    <3> QED BY <1>9, <3>1, <3>2
  <2>2. handled <= Len(asked')
    BY <1>1, <1>3, <1>4 DEF Flow, Answering
  <2> QED BY <1>1, <1>2, <2>1, <2>2 DEF Flow, Answering, Alive, F
<1>11. Asking(handled)'
  <2> SUFFICES ASSUME Alive PROVE Asking(handled)'
    BY <1>2 DEF Asking, Alive
  <2>1. /\ Carries(srvIn, asked, FRAME_SIZE * handled)
        /\ Carries(up, asked, FRAME_SIZE * handled + Len(srvIn))
        /\ FRAME_SIZE * handled + Len(srvIn) + Len(up) = FRAME_SIZE * Len(asked)
    BY <1>1 DEF Flow, Asking
  <2>2. FRAME_SIZE * handled \in Nat /\ Len(srvIn) \in Nat /\ Len(up) \in Nat
        /\ FRAME_SIZE * handled + Len(srvIn) \in Nat
    <3>1. Len(srvIn) \in Nat /\ Len(up) \in Nat
      BY Lengths
    <3> QED BY <3>1, Constants
  <2>3. /\ Carries(srvIn, asked', FRAME_SIZE * handled)
        /\ Carries(up, asked', FRAME_SIZE * handled + Len(srvIn))
    BY <1>3, <1>4, <1>5, <1>8, <2>1, <2>2, CarriesOn
  <2>4. Carries(Bytes(m), asked', FRAME_SIZE * Len(asked)) /\ Len(Bytes(m)) = FRAME_SIZE
    <3>1. Len(asked) + 1 \in 1 .. Len(asked') /\ (Len(asked) + 1) - 1 = Len(asked)
      BY <1>3, <1>4
    <3> QED BY <1>5, <3>1, BytesCarried
  <2>5. /\ Carries(up', asked', FRAME_SIZE * handled + Len(srvIn))
        /\ Len(up') = Len(up) + FRAME_SIZE
    <3>1. Carries(Bytes(m), asked', (FRAME_SIZE * handled + Len(srvIn)) + Len(up))
      BY <2>1, <2>4
    <3>2. /\ Carries(up \o Bytes(m), asked', FRAME_SIZE * handled + Len(srvIn))
          /\ Len(up \o Bytes(m)) = Len(up) + Len(Bytes(m))
      BY <1>5, <2>2, <2>3, <3>1, CarriesJoin
    <3>3. up' = up \o Bytes(m)
      BY <1>2
    <3> QED BY <2>4, <3>2, <3>3
  <2>6. FRAME_SIZE * handled + Len(srvIn) + Len(up') = FRAME_SIZE * Len(asked')
    <3>1. FRAME_SIZE * (Len(asked) + 1) = FRAME_SIZE * Len(asked) + FRAME_SIZE
      BY <1>3, NextBlock, Constants
    <3> QED BY <1>4, <2>1, <2>2, <2>5, <3>1, Constants
  <2> QED BY <1>2, <2>3, <2>5, <2>6 DEF Asking
<1>12. Holding(done, read)'
  <2>1. /\ frames \in Seq(Seq(Nat \X Nat))
        /\ \A i \in 1 .. Len(frames) :
             /\ Len(frames[i]) = FRAME_SIZE
             /\ Carries(frames[i], E, done + FRAME_SIZE * (i - 1))
        /\ done + FRAME_SIZE * Len(frames) = read
        /\ done + FRAME_SIZE * Len(frames) <= read
    BY <1>1, <1>2 DEF Flow, Holding, E
  <2>2. ASSUME NEW i \in 1 .. Len(frames)
        PROVE  Carries(frames[i], F, done + FRAME_SIZE * (i - 1))
    <3>1. FRAME_SIZE * (i - 1) \in Nat
      <4>1. i - 1 \in Nat
        OBVIOUS
      <4> QED BY <4>1, Constants
    <3>2. done + FRAME_SIZE * (i - 1) \in Nat
      BY <3>1
    <3> QED BY <1>9, <2>1, <3>2
  <2> QED BY <1>2, <2>1, <2>2 DEF Holding, F
<1>13. Published(done)'
  <2>1. /\ bus \in Seq(Nat) /\ Position \in 0 .. Len(E)
        /\ bus = <<>> => Position = 0
        /\ bus # <<>> => Position > 0 /\ E[Position] = Last(bus)
        /\ FRAME_SIZE * Position <= done
        /\ ~split => /\ Len(bus) <= Len(E)
                     /\ \A j \in 1 .. Len(bus) : bus[j] = E[j]
                     /\ done = FRAME_SIZE * Len(bus)
    BY <1>1, <1>2 DEF Flow, Published, E
  <2>2. Position = PositionIn(E, bus) /\ Position' = PositionIn(F, bus)
    BY <1>2 DEF Position, PositionIn, E, F
  <2>3. bus # <<>> => PositionIn(E, bus) \in 1 .. Len(E) /\ E[PositionIn(E, bus)] = Last(bus)
    BY <1>3, <2>1, <2>2
  <2>4. Position' = Position
    BY <1>3, <1>4, <1>7, <1>8, <2>2, <2>3, PositionStays
  <2>5. Position' \in 0 .. Len(F)
    BY <1>3, <1>4, <2>1, <2>4, Constants
  <2>6. bus # <<>> => Position' > 0 /\ F[Position'] = Last(bus)
    <3> SUFFICES ASSUME bus # <<>>
                 PROVE  Position' > 0 /\ F[Position'] = Last(bus)
      OBVIOUS
    <3>1. PICK place \in 1 .. Len(E) : place = Position /\ E[place] = Last(bus)
      BY <1>3, <2>1
    <3>2. F[place] = E[place] /\ place > 0
      BY <1>4, <3>1
    <3> QED BY <2>4, <3>1, <3>2
  <2>7. ~split => /\ Len(bus) <= Len(F)
                  /\ \A j \in 1 .. Len(bus) : bus[j] = F[j]
    <3> SUFFICES ASSUME ~split
                 PROVE  /\ Len(bus) <= Len(F)
                        /\ \A j \in 1 .. Len(bus) : bus[j] = F[j]
      OBVIOUS
    <3>1. /\ Len(bus) \in Nat /\ Len(bus) <= Len(E)
          /\ \A j \in 1 .. Len(bus) : bus[j] = E[j]
      BY <2>1
    <3>2. Len(bus) <= Len(F)
      BY <1>3, <1>4, <1>8, <3>1
    <3>3. ASSUME NEW j \in 1 .. Len(bus)
          PROVE  bus[j] = F[j]
      <4>1. j \in 1 .. Len(E)
        BY <1>3, <3>1
      <4> QED BY <1>4, <3>1, <4>1
    <3> QED BY <3>2, <3>3
  <2> QED BY <1>2, <2>1, <2>4, <2>5, <2>6, <2>7 DEF Published, F
<1>14. Complete(read)'
  BY <1>1, <1>2 DEF Flow, Complete
<1> QED BY <1>10, <1>11, <1>12, <1>13, <1>14 DEF Flow, Flows
\* Bytes are read, and a frame when it is whole.
LEMMA FlowReceive ==
  ASSUME BInv, Receive
  PROVE  Flows'
<1>1. PICK done, read, handled \in Nat : Flow(done, read, handled)
  BY DEF BInv, Flows
<1>2. PICK n \in 1 .. FRAME_SIZE - Len(chunks) :
        /\ n <= Len(down) /\ down' = After(down, n)
        /\ LET got == chunks \o First(down, n) IN
           IF Len(got) = FRAME_SIZE
           THEN frames' = Append(frames, got) /\ chunks' = <<>> /\ pc' = AfterFrame
           ELSE chunks' = got /\ UNCHANGED <<frames, pc>>
  BY DEF Receive
<1> DEFINE got == chunks \o First(down, n)
           E == Expected
<1>3. /\ UNCHANGED <<asked, srvOut, srvIn, up, stage, bus, split, late>>
      /\ pc \in {"first", "drain"} /\ Expected' = Expected /\ Position' = Position
  BY DEF Receive, server, connection, Expected, Position
<1>4. /\ Len(chunks) \in Nat /\ Len(down) \in Nat /\ Len(frames) \in Nat
      /\ Len(srvOut) \in Nat
      /\ E \in Seq(Nat) /\ FRAME_SIZE * Len(frames) \in Nat /\ FRAME_SIZE * Len(E) \in Nat
      /\ read + Len(chunks) + Len(down) <= FRAME_SIZE * Len(E)
  BY <1>1, Numbers
<1>5. /\ Carries(chunks, E, read)
      /\ Carries(down, E, read + Len(chunks))
      /\ Carries(srvOut, E, read + Len(chunks) + Len(down))
      /\ handled <= Len(asked)
      /\ Alive => read + Len(chunks) + Len(down) + Len(srvOut)
                    = FRAME_SIZE * (ANSWERS * handled)
  BY <1>1 DEF Flow, Answering
<1>6. n \in 0 .. Len(down) /\ n \in Nat /\ read + Len(chunks) \in Nat
  BY <1>2, <1>4
<1> HIDE DEF E
<1>7. /\ Carries(First(down, n), E, read + Len(chunks)) /\ Len(First(down, n)) = n
      /\ Carries(down', E, read + Len(chunks) + n) /\ Len(down') = Len(down) - n
  <2> DEFINE p == read + Len(chunks)
  <2>1. p \in Nat /\ Carries(down, E, p)
    BY <1>5, <1>6
  <2> HIDE DEF p
  <2>2. /\ Carries(First(down, n), E, p) /\ Len(First(down, n)) = n
        /\ Carries(After(down, n), E, p + n) /\ Len(After(down, n)) = Len(down) - n
    BY <1>4, <1>6, <2>1, CarriesCut
  <2> QED BY <1>2, <2>2 DEF p
<1>8. Carries(got, E, read) /\ Len(got) = Len(chunks) + n
  <2> DEFINE f == First(down, n)
  <2>1. Carries(chunks, E, read) /\ Carries(f, E, read + Len(chunks)) /\ Len(f) = n
    BY <1>5, <1>7
  <2> HIDE DEF f
  <2>2. Carries(chunks \o f, E, read) /\ Len(chunks \o f) = Len(chunks) + Len(f)
    BY <1>4, <2>1, CarriesJoin
  <2> QED BY <2>1, <2>2 DEF f
<1> HIDE DEF got
<1>14. read + Len(got) <= FRAME_SIZE * Len(E)
  BY <1>8 DEF Carries
<1>15. Len(chunks) \in Nat /\ Len(down) \in Nat /\ Len(srvOut) \in Nat
  BY <1>4
<1>9. Asking(handled)'
  BY <1>1, <1>3, AskingKept DEF Flow
<1>10. /\ frames \in Seq(Seq(Nat \X Nat))
       /\ \A i \in 1 .. Len(frames) :
            /\ Len(frames[i]) = FRAME_SIZE
            /\ Carries(frames[i], E, done + FRAME_SIZE * (i - 1))
       /\ done + FRAME_SIZE * Len(frames) = read
  BY <1>1, <1>3 DEF Flow, Holding, E
<1>11. ASSUME pc' \in {"first", "drain"} PROVE Published(done)' /\ Complete(read)'
  BY <1>1, <1>3, <1>11 DEF Flow, Published, Complete
<1>12. CASE Len(got) = FRAME_SIZE
  <2>1. frames' = Append(frames, got) /\ chunks' = <<>> /\ pc' = "drain"
    BY <1>2, <1>12 DEF AfterFrame, got
  <2> DEFINE r == read + FRAME_SIZE
  <2>2. /\ r \in Nat /\ Len(chunks') = 0 /\ r <= FRAME_SIZE * Len(E)
        /\ read + Len(chunks) + n = r
    <3>1. Len(chunks') = 0
      BY <2>1
    <3>2. Len(chunks) + n = FRAME_SIZE /\ read + FRAME_SIZE <= FRAME_SIZE * Len(E)
      BY <1>8, <1>12, <1>14
    <3>3. r \in Nat
      BY Constants
    <3>4. read + Len(chunks) + n = r
      BY <1>15, <3>2
    <3> QED BY <3>1, <3>2, <3>3, <3>4
  <2> HIDE DEF r
  <2>3. /\ r + Len(chunks') = r
        /\ r + Len(chunks') + Len(down') = read + Len(chunks) + Len(down)
    <3>1. Len(down') = Len(down) - n
      BY <1>7
    <3> QED BY <1>15, <2>2, <3>1
  <2>4. Answering(r, handled)'
    <3>1. Carries(chunks', E, r)
      BY <1>4, <2>1, <2>2, CarriesNothing
    <3>2. Carries(down', E, r + Len(chunks'))
      BY <1>7, <2>2, <2>3
    <3>3. Carries(srvOut', E, r + Len(chunks') + Len(down'))
      BY <1>3, <1>5, <2>3
    <3>4. Alive' => r + Len(chunks') + Len(down') + Len(srvOut')
                     = FRAME_SIZE * (ANSWERS * handled)
      BY <1>3, <1>5, <2>3 DEF Alive
    <3> QED BY <1>3, <1>5, <3>1, <3>2, <3>3, <3>4 DEF Answering, E
  <2>5. Holding(done, r)'
    <3>1. got \in Seq(Nat \X Nat)
      BY <1>8 DEF Carries
    <3> DEFINE B == Seq(Nat \X Nat)
    <3>2. frames \in Seq(B) /\ got \in B
      BY <1>10, <3>1
    <3> HIDE DEF B
    <3>3. /\ frames' \in Seq(B) /\ Len(frames') = Len(frames) + 1
          /\ \A i \in 1 .. Len(frames) : frames'[i] = frames[i]
          /\ frames'[Len(frames) + 1] = got
      BY <2>1, <3>2
    <3>4. done + FRAME_SIZE * Len(frames') = r
      <4>1. FRAME_SIZE * (Len(frames) + 1) = FRAME_SIZE * Len(frames) + FRAME_SIZE
        BY <1>4, NextBlock, Constants
      <4> QED BY <1>4, <1>10, <3>3, <4>1, Constants DEF r
    <3>5. ASSUME NEW i \in 1 .. Len(frames')
          PROVE  /\ Len(frames'[i]) = FRAME_SIZE
                 /\ Carries(frames'[i], E, done + FRAME_SIZE * (i - 1))
      <4>1. i \in 1 .. Len(frames) \/ i = Len(frames) + 1
        BY <1>4, <3>3
      <4>2. CASE i \in 1 .. Len(frames)
        BY <1>10, <3>3, <4>2
      <4>3. CASE i = Len(frames) + 1
        <5>1. i - 1 = Len(frames) /\ frames'[i] = got
          BY <1>4, <3>3, <4>3
        <5> QED BY <1>8, <1>10, <1>12, <5>1
      <4> QED BY <4>1, <4>2, <4>3
    <3>6. r <= r
      BY <2>2
    <3> QED BY <1>3, <3>3, <3>4, <3>5, <3>6 DEF Holding, B, E
  <2>6. Published(done)' /\ Complete(r)'
    BY <1>1, <1>3, <2>1 DEF Flow, Published, Complete
  <2> QED BY <1>9, <2>2, <2>4, <2>5, <2>6 DEF Flow, Flows
<1>13. CASE Len(got) # FRAME_SIZE
  <2>1. chunks' = got /\ UNCHANGED <<frames, pc>>
    BY <1>2, <1>13 DEF got
  <2>2. /\ read + Len(chunks') = read + Len(chunks) + n
        /\ read + Len(chunks') + Len(down') = read + Len(chunks) + Len(down)
    <3>1. Len(chunks') = Len(chunks) + n
      BY <1>8, <2>1
    <3>2. Len(down') = Len(down) - n
      BY <1>7
    <3> QED BY <1>15, <3>1, <3>2
  <2>3. Answering(read, handled)'
    <3>1. Carries(chunks', E, read)
      BY <1>8, <2>1
    <3>2. Carries(down', E, read + Len(chunks'))
      BY <1>7, <2>2
    <3>3. Carries(srvOut', E, read + Len(chunks') + Len(down'))
      BY <1>3, <1>5, <2>2
    <3>4. Alive' => read + Len(chunks') + Len(down') + Len(srvOut')
                     = FRAME_SIZE * (ANSWERS * handled)
      BY <1>3, <1>5, <2>2 DEF Alive
    <3> QED BY <1>3, <1>5, <3>1, <3>2, <3>3, <3>4 DEF Answering, E
  <2>4. Holding(done, read)'
    BY <1>1, <1>3, <2>1, HoldingKept DEF Flow
  <2>5. Published(done)' /\ Complete(read)'
    BY <1>3, <1>11, <2>1
  <2> QED BY <1>9, <2>3, <2>4, <2>5 DEF Flow, Flows
<1> QED BY <1>12, <1>13

\* The unfinished frame is dropped, and with it the bytes read of it.
LEMMA ChunksDropped ==
  ASSUME BInv, NEW done \in Nat, NEW read \in Nat, NEW handled \in Nat,
         Flow(done, read, handled), NEW r \in Nat, r = read + Len(chunks),
         chunks' = <<>>, UNCHANGED <<asked, down, srvOut, stage>>
  PROVE  Answering(r, handled)'
<1> DEFINE E == Expected
<1>1. /\ Len(chunks) \in Nat /\ E \in Seq(Nat) /\ r <= FRAME_SIZE * Len(E)
      /\ Len(down) \in Nat /\ Len(srvOut) \in Nat
  BY Numbers
<1>2. /\ Carries(down, E, r) /\ Carries(srvOut, E, r + Len(down))
      /\ handled <= Len(asked)
      /\ Alive => r + Len(down) + Len(srvOut) = FRAME_SIZE * (ANSWERS * handled)
  BY DEF Flow, Answering
<1>3. Len(chunks') = 0
  OBVIOUS
<1> HIDE DEF E
<1>4. r + Len(chunks') = r
  BY <1>3
<1>5. Carries(chunks', E, r)
  BY <1>1, <1>3, CarriesNothing
<1>6. Expected' = E
  BY DEF Expected, E
<1>7. Carries(down', E, r + Len(chunks'))
  BY <1>2, <1>4
<1>8. r + Len(chunks') + Len(down') = r + Len(down)
  BY <1>4
<1>9. Carries(srvOut', E, r + Len(chunks') + Len(down'))
  BY <1>2, <1>8
<1>10. Alive' => r + Len(chunks') + Len(down') + Len(srvOut')
                  = FRAME_SIZE * (ANSWERS * handled)
  BY <1>2, <1>8 DEF Alive
<1> QED BY <1>2, <1>5, <1>6, <1>7, <1>9, <1>10 DEF Answering

\* The time limit: either the server has answered everything, or a history
\* variable says what was left behind.
LEMMA FlowTimeout ==
  ASSUME BInv, DrainTimeout
  PROVE  Flows'
<1>1. PICK done, read, handled \in Nat : Flow(done, read, handled)
  BY DEF BInv, Flows
<1>r. PICK r \in Nat : r = read + Len(chunks)
  BY Lengths
<1> DEFINE E == Expected
<1>2. /\ UNCHANGED <<asked, down, srvOut, srvIn, up, stage, frames, bus>>
      /\ chunks' = <<>> /\ pc = "drain" /\ pc' = "forward" /\ stage = "serving"
      /\ split' = (split \/ chunks # <<>>) /\ late' = (late \/ ~ServerIdle)
      /\ down = <<>>
      /\ Expected' = Expected /\ Position' = Position
  BY DEF DrainTimeout, server, connection, Expected, Position
<1>3. /\ Len(chunks) \in Nat /\ Len(E) \in Nat /\ Len(asked) \in Nat /\ Len(frames) \in Nat
      /\ Len(bus) \in Nat /\ Len(E) = ANSWERS * Len(asked)
      /\ FRAME_SIZE * Len(frames) \in Nat /\ FRAME_SIZE * Len(E) \in Nat
      /\ Len(chunks) < FRAME_SIZE /\ chunks \in Seq(Nat \X Nat)
  BY <1>1, Numbers, Lengths DEF BInv, TypeOK
<1>4. read <= r /\ (chunks = <<>> => r = read)
  BY <1>3, <1>r
<1>5. Answering(r, handled)' /\ Asking(handled)'
  BY <1>1, <1>2, <1>r, ChunksDropped, AskingKept DEF Flow
<1>6. /\ done + FRAME_SIZE * Len(frames) = read
      /\ ~split => done = FRAME_SIZE * Len(bus)
      /\ split => late
  BY <1>1, <1>2 DEF Flow, Holding, Published, Complete
<1>7. ServerIdle => r = FRAME_SIZE * Len(E)
  <2> SUFFICES ASSUME ServerIdle PROVE r = FRAME_SIZE * Len(E)
    OBVIOUS
  <2>1. Alive /\ srvIn = <<>> /\ up = <<>> /\ srvOut = <<>>
    BY <1>2 DEF ServerIdle, Alive
  <2>2. /\ r + Len(down) + Len(srvOut) = FRAME_SIZE * (ANSWERS * handled)
        /\ FRAME_SIZE * handled + Len(srvIn) + Len(up) = FRAME_SIZE * Len(asked)
    BY <1>1, <1>r, <2>1 DEF Flow, Answering, Asking
  <2>3. Len(down) = 0 /\ Len(srvOut) = 0 /\ Len(srvIn) = 0 /\ Len(up) = 0
    BY <1>2, <2>1
  <2>4. FRAME_SIZE * handled = FRAME_SIZE * Len(asked) /\ r = FRAME_SIZE * (ANSWERS * handled)
    <3>1. FRAME_SIZE * handled \in Nat
      BY Constants
    <3> QED BY <1>4, <2>2, <2>3, <3>1
  <2>5. handled = Len(asked)
    BY <1>3, <2>4, Cancel, Constants
  <2> QED BY <1>3, <2>4, <2>5
<1>8. ServerIdle /\ ~split => chunks = <<>>
  <2> SUFFICES ASSUME ServerIdle, ~split PROVE chunks = <<>>
    OBVIOUS
  <2>1. /\ FRAME_SIZE * Len(bus) + FRAME_SIZE * Len(frames) + Len(chunks)
             = FRAME_SIZE * Len(E)
    BY <1>r, <1>6, <1>7
  <2> DEFINE k == Len(bus) + Len(frames)
             c == Len(chunks)
             l == Len(E)
  <2>2. /\ k \in Nat /\ c \in Nat /\ l \in Nat /\ c < FRAME_SIZE
        /\ FRAME_SIZE * k + c = FRAME_SIZE * l
    BY <1>3, <2>1, Constants
  <2> HIDE DEF k, c, l
  <2>3. c = 0
    <3>1. (FRAME_SIZE * k + c) % FRAME_SIZE = c
      BY <2>2, Quotient, Constants
    <3>2. (FRAME_SIZE * l + 0) % FRAME_SIZE = 0
      BY <2>2, Quotient, Constants
    <3>3. FRAME_SIZE * l + 0 = FRAME_SIZE * l
      BY <2>2, Constants
    <3> QED BY <2>2, <3>1, <3>2, <3>3
  <2> QED BY <1>3, <2>3 DEF c
<1>9. Holding(done, r)'
  <2>1. done + FRAME_SIZE * Len(frames) <= r
    BY <1>3, <1>4, <1>6
  <2>2. ~split' => done + FRAME_SIZE * Len(frames) = r
    BY <1>2, <1>4, <1>6
  <2>3. /\ frames \in Seq(Seq(Nat \X Nat))
        /\ \A i \in 1 .. Len(frames) :
             /\ Len(frames[i]) = FRAME_SIZE
             /\ Carries(frames[i], E, done + FRAME_SIZE * (i - 1))
    BY <1>1 DEF Flow, Holding
  <2>4. frames' = frames /\ pc' = "forward" /\ Expected' = E
    BY <1>2
  <2> HIDE DEF E
  <2>5. \A i \in 1 .. Len(frames') :
             /\ Len(frames'[i]) = FRAME_SIZE
             /\ Carries(frames'[i], Expected', done + FRAME_SIZE * (i - 1))
    BY <2>3, <2>4
  <2>6. /\ frames' \in Seq(Seq(Nat \X Nat))
        /\ done + FRAME_SIZE * Len(frames') <= r
        /\ pc' # "forward" \/ ~split' => done + FRAME_SIZE * Len(frames') = r
    BY <2>1, <2>2, <2>3, <2>4
  <2> QED BY <2>5, <2>6 DEF Holding
<1>10. Published(done)'
  BY <1>1, <1>2 DEF Flow, Published
<1>11. Complete(r)'
  <2>1. split' => late'
    BY <1>2, <1>6, <1>8
  <2>2. ~late' => r = FRAME_SIZE * Len(E)
    BY <1>2, <1>7
  <2>3. Expected' = E
    BY <1>2
  <2> HIDE DEF E
  <2>4. ~late' => r = FRAME_SIZE * Len(Expected')
    BY <2>2, <2>3
  <2> QED BY <2>1, <2>4 DEF Complete
<1> QED BY <1>4, <1>5, <1>9, <1>10, <1>11 DEF Flow, Flows
\* A frame leaves the bridge's hand.
LEMMA HoldingTail ==
  ASSUME BInv, NEW done \in Nat, NEW read \in Nat, NEW handled \in Nat,
         Flow(done, read, handled), frames # <<>>, pc = "forward",
         frames' = Tail(frames), UNCHANGED <<pc, asked, split>>
  PROVE  /\ Holding(done + FRAME_SIZE, read)'
         /\ Len(Head(frames)) = FRAME_SIZE /\ Carries(Head(frames), Expected, done)
         /\ done + FRAME_SIZE <= FRAME_SIZE * Len(Expected)
<1> DEFINE E == Expected
           n == Len(frames)
           B == Seq(Nat \X Nat)
<1>1. /\ frames \in Seq(B)
      /\ \A i \in 1 .. n : /\ Len(frames[i]) = FRAME_SIZE
                           /\ Carries(frames[i], E, done + FRAME_SIZE * (i - 1))
      /\ done + FRAME_SIZE * n <= read
      /\ ~split => done + FRAME_SIZE * n = read
  BY DEF Flow, Holding
<1> HIDE DEF E, B
<1>2. /\ n \in Nat \ {0} /\ frames' \in Seq(B) /\ Len(frames') = n - 1
      /\ Head(frames) = frames[1]
      /\ \A i \in 1 .. n - 1 : frames'[i] = frames[i + 1] /\ i + 1 \in 1 .. n
  BY <1>1
<1>3. Len(Head(frames)) = FRAME_SIZE /\ Carries(Head(frames), E, done)
  <2>1. 1 \in 1 .. n /\ done + FRAME_SIZE * (1 - 1) = done
    BY <1>2, Constants
  <2> QED BY <1>1, <1>2, <2>1
<1>4. done + FRAME_SIZE <= FRAME_SIZE * Len(E)
  BY <1>3 DEF Carries
<1>5. (done + FRAME_SIZE) + FRAME_SIZE * Len(frames') = done + FRAME_SIZE * n
  <2>1. /\ n - 1 \in Nat /\ (n - 1) + 1 = n
    BY <1>2
  <2>2. FRAME_SIZE * n = FRAME_SIZE * (n - 1) + FRAME_SIZE /\ FRAME_SIZE * (n - 1) \in Nat
    BY <2>1, NextBlock, Constants
  <2> QED BY <1>2, <2>2, Constants
<1>6. ASSUME NEW i \in 1 .. Len(frames')
      PROVE  /\ Len(frames'[i]) = FRAME_SIZE
             /\ Carries(frames'[i], E, (done + FRAME_SIZE) + FRAME_SIZE * (i - 1))
  <2>1. frames'[i] = frames[i + 1] /\ i + 1 \in 1 .. n
    BY <1>2
  <2>2. done + FRAME_SIZE * ((i + 1) - 1) = (done + FRAME_SIZE) + FRAME_SIZE * (i - 1)
    <3>1. i - 1 \in Nat /\ (i + 1) - 1 = i /\ (i - 1) + 1 = i
      BY <1>2
    <3>2. FRAME_SIZE * i = FRAME_SIZE * (i - 1) + FRAME_SIZE /\ FRAME_SIZE * (i - 1) \in Nat
      BY <3>1, NextBlock, Constants
    <3> QED BY <3>1, <3>2, Constants
  <2> QED BY <1>1, <2>1, <2>2
<1>7. Expected' = E
  BY DEF Expected, E
<1>8. Holding(done + FRAME_SIZE, read)'
  BY <1>1, <1>2, <1>5, <1>6, <1>7 DEF Holding, B
<1> QED BY <1>3, <1>4, <1>8 DEF E

\* What is published is an answer that comes after the last one, and as long as
\* nothing was cut it is the next one.
LEMMA ForwardNext ==
  ASSUME BInv, NEW done \in Nat, NEW read \in Nat, NEW handled \in Nat,
         Flow(done, read, handled), ForwardFrame
  PROVE  \E j \in 1 .. Len(Expected) :
           /\ done = FRAME_SIZE * (j - 1)
           /\ Position < j /\ bus' = Append(bus, Expected[j]) /\ Position' = j
           /\ ~split => j = Len(bus) + 1
           /\ bus' # <<>> /\ Last(bus') = Expected[j] /\ Len(bus') = Len(bus) + 1
<1> DEFINE E == Expected
<1>1. /\ frames # <<>> /\ pc = "forward" /\ frames' = Tail(frames)
      /\ UNCHANGED <<pc, asked, split>> /\ WellFormed(Head(frames))
      /\ bus' = Append(bus, FrameOf(Head(frames))) /\ Expected' = Expected
  BY DEF ForwardFrame, Expected
<1>2. Len(Head(frames)) = FRAME_SIZE /\ Carries(Head(frames), E, done)
  BY <1>1, HoldingTail
<1>3. /\ E \in Seq(Nat \ {0}) /\ E \in Seq(Nat) /\ Rising(E) /\ Len(E) \in Nat
      /\ Position \in Nat /\ Len(bus) \in Nat
  BY Numbers
<1>4. /\ bus \in Seq(Nat) /\ FRAME_SIZE * Position <= done
      /\ ~split => done = FRAME_SIZE * Len(bus)
  BY <1>1 DEF Flow, Published
<1> HIDE DEF E
<1>5. PICK j \in 1 .. Len(E) : done = FRAME_SIZE * (j - 1) /\ FrameOf(Head(frames)) = E[j]
  BY <1>1, <1>2, <1>3, FrameRead
<1>6. j - 1 \in Nat /\ E[j] \in Nat /\ j \in Nat
  BY <1>3
<1>7. Position <= j - 1
  BY <1>3, <1>4, <1>5, <1>6, Monotone, Constants
<1>8. ~split => j - 1 = Len(bus)
  BY <1>3, <1>4, <1>5, <1>6, Cancel, Constants
<1>9. /\ bus' = Append(bus, E[j]) /\ Len(bus') = Len(bus) + 1
      /\ bus' # <<>> /\ Last(bus') = E[j]
  BY <1>1, <1>3, <1>4, <1>5, <1>6 DEF Last
<1>10. PositionIn(E, bus') = j
  BY <1>3, <1>9, PositionIs
<1>11. Position' = j
  BY <1>1, <1>10 DEF Position, PositionIn, E
<1>12. Position < j /\ (~split => j = Len(bus) + 1)
  BY <1>3, <1>6, <1>7, <1>8
<1> QED BY <1>5, <1>9, <1>11, <1>12 DEF E

LEMMA FlowForward ==
  ASSUME BInv, ForwardFrame
  PROVE  Flows'
<1>1. PICK done, read, handled \in Nat : Flow(done, read, handled)
  BY DEF BInv, Flows
<1>2. /\ UNCHANGED <<chunks, down, srvOut, asked, stage>> /\ UNCHANGED <<srvIn, up, asked, stage>>
      /\ UNCHANGED <<pc, split, late>> /\ frames # <<>> /\ pc = "forward"
      /\ frames' = Tail(frames) /\ Expected' = Expected
  BY DEF ForwardFrame, server, connection, Expected
<1>3. Answering(read, handled)' /\ Asking(handled)'
  BY <1>1, <1>2, AnsweringKept, AskingKept DEF Flow
<1>4. Holding(done + FRAME_SIZE, read)'
  BY <1>1, <1>2, HoldingTail
<1>5. Complete(read)'
  BY <1>1, <1>2, CompleteKept DEF Flow
<1>6. Published(done + FRAME_SIZE)'
  <2> DEFINE E == Expected
  <2>1. PICK j \in 1 .. Len(E) :
          /\ done = FRAME_SIZE * (j - 1)
          /\ Position < j /\ bus' = Append(bus, E[j]) /\ Position' = j
          /\ ~split => j = Len(bus) + 1
          /\ bus' # <<>> /\ Last(bus') = E[j] /\ Len(bus') = Len(bus) + 1
    BY <1>1, ForwardNext
  <2>2. /\ E \in Seq(Nat) /\ Len(E) \in Nat /\ Len(bus) \in Nat
    BY <1>1, Numbers
  <2>3. /\ bus \in Seq(Nat)
        /\ ~split => \A i \in 1 .. Len(bus) : bus[i] = E[i]
    BY <1>1 DEF Flow, Published
  <2> HIDE DEF E
  <2>4. FRAME_SIZE * j = done + FRAME_SIZE /\ done + FRAME_SIZE \in Nat
    <3>1. j - 1 \in Nat /\ (j - 1) + 1 = j
      BY <2>2
    <3> QED BY <2>1, <3>1, NextBlock, Constants
  <2>5. E[j] \in Nat
    BY <2>2
  <2>6. /\ bus' \in Seq(Nat)
        /\ \A i \in 1 .. Len(bus) : bus'[i] = bus[i]
        /\ bus'[Len(bus) + 1] = E[j]
    BY <2>1, <2>3, <2>5
  <2>7. ASSUME ~split
        PROVE  /\ Len(bus') <= Len(E)
               /\ \A i \in 1 .. Len(bus') : bus'[i] = E[i]
               /\ done + FRAME_SIZE = FRAME_SIZE * Len(bus')
    <3>1. Len(bus') = j
      BY <2>1, <2>7
    <3>2. ASSUME NEW i \in 1 .. Len(bus') PROVE bus'[i] = E[i]
      <4>0. Len(bus) \in Nat /\ Len(bus') = Len(bus) + 1
        BY <2>1, <2>2, Zenon
      <4>1. i \in 1 .. Len(bus) \/ i = Len(bus) + 1
        BY <4>0
      <4> QED BY <2>1, <2>3, <2>6, <2>7, <4>1
    <3> QED BY <2>2, <2>4, <3>1, <3>2
  <2>8. Position' \in 0 .. Len(E) /\ Position' > 0
    BY <2>1, <2>2
  <2>9. FRAME_SIZE * Position' <= done + FRAME_SIZE
    BY <2>1, <2>4
  <2> QED BY <1>2, <2>1, <2>6, <2>7, <2>8, <2>9 DEF Published, E
<1>7. done + FRAME_SIZE \in Nat
  BY Constants
<1> QED BY <1>3, <1>4, <1>5, <1>6, <1>7 DEF Flow, Flows

\* Malformed bytes are dropped only after a cut: before one the frames in hand
\* are the next answers.
LEMMA FlowDrop ==
  ASSUME BInv, DropMalformed
  PROVE  Flows'
<1>1. PICK done, read, handled \in Nat : Flow(done, read, handled)
  BY DEF BInv, Flows
<1>2. /\ UNCHANGED <<chunks, down, srvOut, asked, stage>> /\ UNCHANGED <<srvIn, up, asked, stage>>
      /\ UNCHANGED <<pc, split, late, bus>> /\ frames # <<>> /\ pc = "forward"
      /\ frames' \in {Tail(frames), <<>>} /\ ~WellFormed(Head(frames))
      /\ Expected' = Expected /\ Position' = Position
  BY DEF DropMalformed, server, connection, Expected, Position
<1>3. Answering(read, handled)' /\ Asking(handled)' /\ Complete(read)'
  BY <1>1, <1>2, AnsweringKept, AskingKept, CompleteKept DEF Flow
<1>n. /\ Expected \in Seq(Nat \ {0}) /\ Len(Expected) \in Nat /\ Len(bus) \in Nat
      /\ Len(frames) \in Nat /\ Position \in Nat
      /\ frames \in Seq(Seq(Nat \X Nat))
  BY <1>1, Numbers, Lengths
<1>h. /\ Len(Head(frames)) = FRAME_SIZE /\ Carries(Head(frames), Expected, done)
      /\ done + FRAME_SIZE <= FRAME_SIZE * Len(Expected)
  <2> DEFINE E == Expected
             B == Nat \X Nat
  <2>1. /\ \A i \in 1 .. Len(frames) :
             Len(frames[i]) = FRAME_SIZE /\ Carries(frames[i], E, done + FRAME_SIZE * (i - 1))
        /\ frames \in Seq(Seq(B))
    BY <1>1 DEF Flow, Holding
  <2> HIDE DEF E, B
  <2>2. 1 \in 1 .. Len(frames) /\ Head(frames) = frames[1] /\ done + FRAME_SIZE * (1 - 1) = done
    BY <1>2, <2>1, Constants
  <2>3. Len(Head(frames)) = FRAME_SIZE /\ Carries(Head(frames), E, done)
    BY <2>1, <2>2
  <2>4. done + FRAME_SIZE <= FRAME_SIZE * Len(E)
    BY <2>3 DEF Carries
  <2> QED BY <2>3, <2>4 DEF E
<1>4. split
  <2> SUFFICES ASSUME ~split PROVE FALSE
    OBVIOUS
  <2>1. done = FRAME_SIZE * Len(bus)
    BY <1>1, <1>2 DEF Flow, Published
  <2>2. FRAME_SIZE * (Len(bus) + 1) <= FRAME_SIZE * Len(Expected)
    BY <1>n, <1>h, <2>1, NextBlock, Constants
  <2> DEFINE j == Len(bus) + 1
             l == Len(Expected)
  <2>3. j \in Nat \ {0} /\ l \in Nat /\ FRAME_SIZE * j <= FRAME_SIZE * l /\ j - 1 = Len(bus)
    BY <1>n, <2>2
  <2> HIDE DEF j, l
  <2>4. j <= l
    BY <2>3, Monotone, Constants
  <2>5. j \in 1 .. l /\ done = FRAME_SIZE * (j - 1)
    BY <2>1, <2>3, <2>4
  <2>6. WellFormed(Head(frames))
    BY <1>n, <1>h, <2>5, FrameRead DEF l
  <2> QED BY <1>2, <2>6
<1>5. CASE frames' = Tail(frames)
  <2>1. Holding(done + FRAME_SIZE, read)'
    BY <1>1, <1>2, <1>5, HoldingTail
  <2>2. FRAME_SIZE * Position <= done + FRAME_SIZE
    <3>1. FRAME_SIZE * Position <= done /\ FRAME_SIZE * Position \in Nat
      BY <1>1, <1>n, Constants DEF Flow, Published
    <3> QED BY <3>1, Constants
  <2>3. Published(done + FRAME_SIZE)'
    BY <1>1, <1>2, <1>4, <2>2 DEF Flow, Published
  <2>4. done + FRAME_SIZE \in Nat
    BY Constants
  <2> QED BY <1>3, <2>1, <2>3, <2>4 DEF Flow, Flows
<1>6. CASE frames' = <<>>
  <2>1. done <= read
    <3>1. done + FRAME_SIZE * Len(frames) <= read /\ FRAME_SIZE * Len(frames) \in Nat
      BY <1>1, <1>n, Constants DEF Flow, Holding
    <3> QED BY <3>1
  <2>2. Len(frames') = 0 /\ FRAME_SIZE * 0 = 0 /\ done + 0 = done
    BY <1>6, Constants
  <2>3. done + FRAME_SIZE * Len(frames') = done
    BY <2>2
  <2>4. Holding(done, read)'
    BY <1>2, <1>4, <1>6, <2>1, <2>2, <2>3 DEF Holding
  <2>5. Published(done)'
    BY <1>1, <1>2 DEF Flow, Published
  <2> QED BY <1>3, <2>4, <2>5 DEF Flow, Flows
<1> QED BY <1>2, <1>5, <1>6

\* The bridge ends: what it has in hand is lost.
LEMMA FlowStop ==
  ASSUME BInv, ServerGone \/ BridgeStops
  PROVE  Flows'
<1>1. PICK done, read, handled \in Nat : Flow(done, read, handled)
  BY DEF BInv, Flows
<1>r. PICK r \in Nat : r = read + Len(chunks)
  BY Lengths
<1>2. /\ UNCHANGED <<asked, down, srvOut, srvIn, up, stage, bus, split, late>>
      /\ chunks' = <<>> /\ frames' = <<>> /\ pc' = "stopped"
      /\ Expected' = Expected /\ Position' = Position
  <2>1. /\ UNCHANGED <<asked, down, srvOut, srvIn, up, stage, bus, split, late>>
        /\ chunks' = <<>> /\ frames' = <<>> /\ pc' = "stopped"
    BY DEF ServerGone, BridgeStops, server, connection
  <2>2. Expected' = Expected
    BY <2>1 DEF Expected
  <2>3. Position' = Position
    BY <2>1, <2>2 DEF Position
  <2> QED BY <2>1, <2>2, <2>3
<1>3. Answering(r, handled)' /\ Asking(handled)'
  BY <1>1, <1>2, <1>r, ChunksDropped, AskingKept DEF Flow
<1>4. Len(frames') = 0 /\ FRAME_SIZE * 0 = 0 /\ r + 0 = r /\ r <= r
  BY <1>2, Constants
<1>5. r + FRAME_SIZE * Len(frames') = r
  BY <1>4
<1>6. Holding(r, r)'
  BY <1>2, <1>4, <1>5 DEF Holding
<1>7. FRAME_SIZE * Position <= r
  <2>1. /\ FRAME_SIZE * Position \in Nat /\ FRAME_SIZE * Len(frames) \in Nat
        /\ Len(chunks) \in Nat
    BY <1>1, Numbers, Constants
  <2>2. FRAME_SIZE * Position <= done /\ done + FRAME_SIZE * Len(frames) <= read
    BY <1>1 DEF Flow, Published, Holding
  <2> QED BY <1>r, <2>1, <2>2
<1>8. Published(r)'
  BY <1>1, <1>2, <1>7 DEF Flow, Published
<1>9. Complete(r)'
  BY <1>1, <1>2 DEF Flow, Complete
<1> QED BY <1>3, <1>6, <1>8, <1>9 DEF Flow, Flows
--------------------------------------------------------------------------------
(* The server's end *)

\* Setting up leaves the stream alone: what the bridge sends before accept waits.
LEMMA FlowStart ==
  ASSUME BInv, Starting \/ AcceptBridge
  PROVE  Flows'
<1>1. PICK done, read, handled \in Nat : Flow(done, read, handled)
  BY DEF BInv, Flows
<1>2. /\ UNCHANGED <<chunks, down, srvOut, asked, srvIn, up>>
      /\ UNCHANGED <<frames, asked, pc, split>> /\ UNCHANGED <<bus, asked, pc, split>>
      /\ UNCHANGED <<asked, pc, split, late>> /\ Alive
  BY DEF Starting, AcceptBridge, SetUp, StartNetwork, CreateServerSocket,
         BindServerSocket, Listen, StartTransport, Accept, bridge, Alive
<1>3. Answering(read, handled)'
  BY <1>1, <1>2 DEF Flow, Answering, Expected
<1>4. Asking(handled)'
  BY <1>1, <1>2 DEF Flow, Asking
<1>5. Holding(done, read)' /\ Published(done)' /\ Complete(read)'
  BY <1>1, <1>2, HoldingKept, PublishedKept, CompleteKept DEF Flow
<1> QED BY <1>3, <1>4, <1>5 DEF Flow, Flows

\* Giving up before the loop, leaving it, closing: unsent answers are lost, and
\* those on the way may be.
LEMMA FlowEnd ==
  ASSUME BInv, StartingFails \/ LeaveLoop \/ CloseConnection
  PROVE  Flows'
<1>1. PICK done, read, handled \in Nat : Flow(done, read, handled)
  BY DEF BInv, Flows
<1> DEFINE E == Expected
<1>2. /\ UNCHANGED <<frames, asked, pc, split>> /\ UNCHANGED <<bus, asked, pc, split>>
      /\ UNCHANGED <<asked, pc, split, late>> /\ chunks' = chunks
      /\ ~Alive' /\ srvOut' = <<>> /\ down' \in {down, <<>>} /\ Expected' = E
  <2>1. CASE StartingFails
    BY <2>1
    DEF StartingFails, SetUpFails, StartNetworkFails, CreateServerSocketFails,
        BindOrListenFails, AcceptFails, StartTransportFails, GiveUp, Disconnect, bridge,
        Alive, Expected, BInv, TypeOK
  <2>2. CASE LeaveLoop
    BY <2>2 DEF LeaveLoop, DetachTransport, bridge, Alive, Expected
  <2>3. CASE CloseConnection
    BY <2>3 DEF CloseConnection, CloseSockets, Disconnect, bridge, Alive, Expected, BInv, TypeOK
  <2> QED BY <2>1, <2>2, <2>3
<1>3. /\ E \in Seq(Nat) /\ Len(chunks) \in Nat /\ Len(down) \in Nat
      /\ read + Len(chunks) <= FRAME_SIZE * Len(E)
      /\ read + Len(chunks) + Len(down) <= FRAME_SIZE * Len(E)
  BY <1>1, Numbers
<1>4. Carries(chunks, E, read) /\ Carries(down, E, read + Len(chunks)) /\ handled <= Len(asked)
  BY <1>1 DEF Flow, Answering
<1> HIDE DEF E
<1>5. read + Len(chunks) \in Nat /\ read + Len(chunks) + Len(down') \in Nat
      /\ read + Len(chunks) + Len(down') <= FRAME_SIZE * Len(E)
  <2>1. CASE down' = down
    BY <1>3, <2>1
  <2>2. CASE down' = <<>>
    <3>1. Len(down') = 0
      BY <2>2
    <3> QED BY <1>3, <3>1
  <2> QED BY <1>2, <2>1, <2>2
<1>6. Carries(down', E, read + Len(chunks))
  BY <1>2, <1>3, <1>4, <1>5, CarriesNothing
<1>7. Carries(srvOut', E, read + Len(chunks) + Len(down'))
  BY <1>2, <1>3, <1>5, CarriesNothing
<1>8. Answering(read, handled)'
  BY <1>2, <1>4, <1>6, <1>7 DEF Answering
<1>9. Asking(handled)'
  BY <1>2 DEF Asking
<1>10. Holding(done, read)' /\ Published(done)' /\ Complete(read)'
  BY <1>1, <1>2, HoldingKept, PublishedKept, CompleteKept DEF Flow
<1> QED BY <1>8, <1>9, <1>10 DEF Flow, Flows

\* The server reads, and answers a message when its frame is whole.
LEMMA FlowServerReceive ==
  ASSUME BInv, ServerReceive
  PROVE  Flows'
<1>1. PICK done, read, handled \in Nat : Flow(done, read, handled)
  BY DEF BInv, Flows
<1>2. PICK n \in 1 .. FRAME_SIZE - Len(srvIn) :
        /\ n <= Len(up) /\ up' = After(up, n)
        /\ LET got == srvIn \o First(up, n) IN
           IF Len(got) = FRAME_SIZE
           THEN srvIn' = <<>> /\ srvOut' = Replies(got[1][1])
           ELSE srvIn' = got /\ UNCHANGED srvOut
  BY DEF ServerReceive
<1> DEFINE got == srvIn \o First(up, n)
           a == asked
           E == Expected
           q == FRAME_SIZE * handled
<1>3. /\ UNCHANGED <<frames, asked, pc, split>> /\ UNCHANGED <<bus, asked, pc, split>>
      /\ UNCHANGED <<asked, pc, split, late>> /\ UNCHANGED <<chunks, down, stage>>
      /\ Alive /\ Alive' /\ srvOut = <<>> /\ Expected' = E
  BY DEF ServerReceive, bridge, connection, Alive, Expected
<1>4. Holding(done, read)' /\ Published(done)' /\ Complete(read)'
  BY <1>1, <1>3, HoldingKept, PublishedKept, CompleteKept DEF Flow
<1>5. /\ a \in Seq(Nat \ {0}) /\ a \in Seq(Nat) /\ Len(a) \in Nat
      /\ E = AnswersToAll(a)
  BY <1>1, Numbers DEF Expected
<1>6. /\ Len(srvIn) \in Nat /\ Len(up) \in Nat /\ Len(chunks) \in Nat /\ Len(down) \in Nat
  BY <1>3, Lengths
<1>7. /\ Carries(srvIn, a, q) /\ Carries(up, a, q + Len(srvIn))
      /\ q + Len(srvIn) + Len(up) = FRAME_SIZE * Len(a) /\ q \in Nat
  BY <1>1, <1>3, Constants DEF Flow, Asking
<1>8. /\ Carries(chunks, E, read) /\ Carries(down, E, read + Len(chunks))
      /\ Carries(srvOut, E, read + Len(chunks) + Len(down))
      /\ handled <= Len(a)
      /\ read + Len(chunks) + Len(down) = FRAME_SIZE * (ANSWERS * handled)
  <2>1. Len(srvOut) = 0
    BY <1>3
  <2>2. /\ Carries(chunks, E, read) /\ Carries(down, E, read + Len(chunks))
        /\ Carries(srvOut, E, read + Len(chunks) + Len(down))
        /\ handled <= Len(a)
        /\ read + Len(chunks) + Len(down) + Len(srvOut) = FRAME_SIZE * (ANSWERS * handled)
    BY <1>1, <1>3 DEF Flow, Answering
  <2>3. read + Len(chunks) + Len(down) + Len(srvOut) = read + Len(chunks) + Len(down)
    BY <1>6, <2>1
  <2> QED BY <2>2, <2>3
<1> HIDE DEF E, a, q
<1>9. n \in 0 .. Len(up) /\ n \in Nat /\ q + Len(srvIn) \in Nat
  BY <1>2, <1>6, <1>7
<1>10. /\ Carries(First(up, n), a, q + Len(srvIn)) /\ Len(First(up, n)) = n
       /\ Carries(up', a, q + Len(srvIn) + n) /\ Len(up') = Len(up) - n
  <2> DEFINE p == q + Len(srvIn)
  <2>1. p \in Nat /\ Carries(up, a, p)
    BY <1>7, <1>9
  <2> HIDE DEF p
  <2>2. /\ Carries(First(up, n), a, p) /\ Len(First(up, n)) = n
        /\ Carries(After(up, n), a, p + n) /\ Len(After(up, n)) = Len(up) - n
    BY <1>5, <1>9, <2>1, CarriesCut
  <2> QED BY <1>2, <2>2 DEF p
<1>11. Carries(got, a, q) /\ Len(got) = Len(srvIn) + n
  <2> DEFINE f == First(up, n)
  <2>1. Carries(f, a, q + Len(srvIn)) /\ Len(f) = n
    BY <1>10
  <2> HIDE DEF f
  <2>2. Carries(srvIn \o f, a, q) /\ Len(srvIn \o f) = Len(srvIn) + Len(f)
    <3>1. PICK numbers \in Seq(Nat), from \in Nat : numbers = a /\ from = q
      BY <1>5, <1>7
    <3>2. Carries(srvIn, numbers, from) /\ Carries(f, numbers, from + Len(srvIn))
      BY <1>7, <2>1, <3>1
    <3>3. Carries(srvIn \o f, numbers, from) /\ Len(srvIn \o f) = Len(srvIn) + Len(f)
      BY <3>2, CarriesJoin
    <3> QED BY <3>1, <3>3
  <2> QED BY <2>1, <2>2 DEF f
<1>12. CASE Len(got) = FRAME_SIZE
  <2>1. srvIn' = <<>> /\ srvOut' = Replies(got[1][1])
    BY <1>2, <1>12
  <2> HIDE DEF got
  <2> DEFINE h == handled + 1
  <2>2. h \in Nat /\ h - 1 = handled /\ FRAME_SIZE * h = q + FRAME_SIZE
    BY NextBlock, Constants DEF q
  <2>3. FRAME_SIZE * h <= FRAME_SIZE * Len(a)
    <3>1. q + Len(got) <= FRAME_SIZE * Len(a)
      BY <1>11 DEF Carries
    <3> QED BY <1>12, <2>2, <3>1
  <2>4. h <= Len(a)
    BY <1>5, <2>2, <2>3, Monotone, Constants
  <2>5. h \in 1 .. Len(a) /\ handled < Len(a) /\ handled + 1 = h
    BY <1>5, <2>2, <2>4
  <2>6. got[1][1] = a[h]
    <3>1. q = FRAME_SIZE * (h - 1)
      BY <2>2 DEF q
    <3>2. /\ a \in Seq(Nat \ {0}) /\ q \in Nat /\ h \in 1 .. Len(a)
          /\ Carries(got, a, q) /\ Len(got) = FRAME_SIZE
      BY <1>5, <1>7, <1>11, <1>12, <2>5
    <3> HIDE DEF h
    <3>3. PICK numbers \in Seq(Nat \ {0}), m \in Nat,
               bytes \in Seq(Nat \X Nat) :
            numbers = a /\ m = h /\ bytes = got
      <4>1. got \in Seq(Nat \X Nat)
        BY <3>2 DEF Carries
      <4> QED BY <2>5, <3>2, <4>1
    <3>4. /\ m \in 1 .. Len(numbers) /\ Len(bytes) = FRAME_SIZE
          /\ Carries(bytes, numbers, FRAME_SIZE * (m - 1))
      BY <3>1, <3>2, <3>3
    <3>5. bytes[1][1] = numbers[m]
      BY <3>4, FrameHead
    <3> QED BY <3>3, <3>5
  <2>7. /\ Carries(srvOut', E, FRAME_SIZE * (ANSWERS * handled))
        /\ Len(srvOut') = FRAME_SIZE * ANSWERS
    BY <1>5, <2>1, <2>5, <2>6, RepliesCarried
  <2>8. FRAME_SIZE * (ANSWERS * handled) + FRAME_SIZE * ANSWERS = FRAME_SIZE * (ANSWERS * h)
    <3> DEFINE x == ANSWERS * handled
    <3>1. ANSWERS * h = x + ANSWERS /\ x \in Nat
      BY NextBlock, Constants
    <3> HIDE DEF x
    <3>2. FRAME_SIZE * (x + ANSWERS) = FRAME_SIZE * x + FRAME_SIZE * ANSWERS
      BY <3>1, Constants
    <3> QED BY <3>1, <3>2 DEF x
  <2> HIDE DEF h
  <2>9. Answering(read, h)'
    <3>1. /\ Carries(chunks', E, read) /\ Carries(down', E, read + Len(chunks'))
          /\ Carries(srvOut', E, read + Len(chunks') + Len(down'))
      BY <1>3, <1>8, <2>7
    <3>2. read + Len(chunks') + Len(down') + Len(srvOut') = FRAME_SIZE * (ANSWERS * h)
      <4>1. read + Len(chunks') + Len(down') = FRAME_SIZE * (ANSWERS * handled)
        BY <1>3, <1>8
      <4> QED BY <2>7, <2>8, <4>1
    <3>3. h <= Len(asked')
      BY <1>3, <2>4 DEF a
    <3> QED BY <1>3, <3>1, <3>2, <3>3 DEF Answering
  <2>10. Asking(h)'
    <3>1. Len(srvIn') = 0 /\ FRAME_SIZE * h \in Nat
      BY <2>1, <2>2, Constants
    <3>2. Carries(srvIn', a, FRAME_SIZE * h)
      BY <1>5, <2>1, <2>3, <3>1, CarriesNothing
    <3>3. q + Len(srvIn) + n = FRAME_SIZE * h + Len(srvIn')
      <4>1. Len(srvIn) + n = FRAME_SIZE
        BY <1>11, <1>12
      <4> QED BY <1>6, <1>7, <1>9, <2>2, <3>1, <4>1
    <3>4. FRAME_SIZE * h + Len(srvIn') + Len(up') = FRAME_SIZE * Len(a)
      <4>1. Len(up') = Len(up) - n
        BY <1>10
      <4>2. (q + Len(srvIn) + n) + Len(up') = q + Len(srvIn) + Len(up)
        BY <1>6, <1>7, <1>9, <4>1
      <4> QED BY <1>7, <3>3, <4>2
    <3>5. Carries(up', a, FRAME_SIZE * h + Len(srvIn'))
      BY <1>10, <3>3
    <3> QED BY <1>3, <3>2, <3>4, <3>5 DEF Asking, a
  <2> QED BY <1>4, <2>2, <2>9, <2>10 DEF Flow, Flows
<1>13. CASE Len(got) # FRAME_SIZE
  <2>1. srvIn' = got /\ srvOut' = srvOut
    BY <1>2, <1>13
  <2> HIDE DEF got
  <2>2. Answering(read, handled)'
    BY <1>1, <1>3, <2>1, AnsweringKept DEF Flow
  <2>3. Asking(handled)'
    <3>1. Carries(srvIn', a, q)
      BY <1>11, <2>1
    <3>2. Len(srvIn') = Len(srvIn) + n /\ Len(up') = Len(up) - n
      BY <1>10, <1>11, <2>1
    <3>3. /\ q + Len(srvIn') = q + Len(srvIn) + n
          /\ q + Len(srvIn') + Len(up') = q + Len(srvIn) + Len(up)
      BY <1>6, <1>7, <1>9, <3>2
    <3>4. Carries(up', a, q + Len(srvIn'))
      BY <1>10, <3>3
    <3>5. q + Len(srvIn') + Len(up') = FRAME_SIZE * Len(a)
      BY <1>7, <3>3
    <3> QED BY <1>3, <3>1, <3>4, <3>5 DEF Asking, a, q
  <2> QED BY <1>4, <2>2, <2>3 DEF Flow, Flows
<1> QED BY <1>12, <1>13

\* The server sends some bytes of an answer.
LEMMA FlowServerSend ==
  ASSUME BInv, ServerSend
  PROVE  Flows'
<1>1. PICK done, read, handled \in Nat : Flow(done, read, handled)
  BY DEF BInv, Flows
<1> DEFINE E == Expected
           b == read + Len(chunks)
<1>2. /\ UNCHANGED <<frames, asked, pc, split>> /\ UNCHANGED <<bus, asked, pc, split>>
      /\ UNCHANGED <<asked, pc, split, late>> /\ UNCHANGED <<srvIn, up, asked, stage>>
      /\ chunks' = chunks /\ Alive /\ Alive' /\ srvOut # <<>> /\ Expected' = E
  BY DEF ServerSend, bridge, connection, Alive, Expected
<1>3. Asking(handled)' /\ Holding(done, read)' /\ Published(done)' /\ Complete(read)'
  BY <1>1, <1>2, AskingKept, HoldingKept, PublishedKept, CompleteKept DEF Flow
<1>4. /\ Len(chunks) \in Nat /\ Len(down) \in Nat /\ Len(srvOut) \in Nat
      /\ srvOut \in Seq(Nat \X Nat) /\ E \in Seq(Nat)
  BY <1>1, Numbers, Lengths
<1>5. PICK n \in 1 .. ((Len(srvOut) - 1) % FRAME_SIZE) + 1 :
        down' = down \o First(srvOut, n) /\ srvOut' = After(srvOut, n)
  BY DEF ServerSend
<1>6. n \in 0 .. Len(srvOut)
  <2>1. Len(srvOut) - 1 \in Nat
    BY <1>2, <1>4
  <2>2. (Len(srvOut) - 1) % FRAME_SIZE \in Nat /\ (Len(srvOut) - 1) % FRAME_SIZE <= Len(srvOut) - 1
    BY <2>1, Constants
  <2> QED BY <1>4, <2>2
<1>7. /\ Carries(chunks, E, read) /\ Carries(down, E, b)
      /\ Carries(srvOut, E, b + Len(down))
      /\ handled <= Len(asked)
      /\ b + Len(down) + Len(srvOut) = FRAME_SIZE * (ANSWERS * handled)
  BY <1>1, <1>2 DEF Flow, Answering
<1>8. b \in Nat /\ b + Len(down) \in Nat
  BY <1>4
<1> HIDE DEF E
<1>9. /\ Carries(First(srvOut, n), E, b + Len(down)) /\ Len(First(srvOut, n)) = n
      /\ Carries(srvOut', E, b + Len(down) + n) /\ Len(srvOut') = Len(srvOut) - n
  <2> DEFINE p == b + Len(down)
  <2>1. p \in Nat /\ Carries(srvOut, E, p)
    BY <1>7, <1>8
  <2> HIDE DEF p
  <2>2. /\ Carries(First(srvOut, n), E, p) /\ Len(First(srvOut, n)) = n
        /\ Carries(After(srvOut, n), E, p + n) /\ Len(After(srvOut, n)) = Len(srvOut) - n
    BY <1>4, <1>6, <2>1, CarriesCut
  <2> QED BY <1>5, <2>2 DEF p
<1>10. Carries(down', E, b) /\ Len(down') = Len(down) + n
  <2> DEFINE f == First(srvOut, n)
             p == b
  <2>1. Carries(f, E, p + Len(down)) /\ Len(f) = n /\ Carries(down, E, p) /\ p \in Nat
    BY <1>7, <1>8, <1>9
  <2> HIDE DEF f, p
  <2>2. Carries(down \o f, E, p) /\ Len(down \o f) = Len(down) + Len(f)
    <3>1. PICK numbers \in Seq(Nat), from \in Nat : numbers = E /\ from = p
      BY <1>4, <2>1
    <3>2. Carries(down, numbers, from) /\ Carries(f, numbers, from + Len(down))
      BY <2>1, <3>1
    <3>3. Carries(down \o f, numbers, from) /\ Len(down \o f) = Len(down) + Len(f)
      BY <3>2, CarriesJoin
    <3> QED BY <3>1, <3>3
  <2> QED BY <1>5, <2>1, <2>2 DEF f, p
<1>11. /\ b + Len(down') = b + Len(down) + n
       /\ b + Len(down') + Len(srvOut') = b + Len(down) + Len(srvOut)
  <2>1. n \in Nat
    BY <1>6
  <2>2. Len(down') = Len(down) + n /\ Len(srvOut') = Len(srvOut) - n
    BY <1>9, <1>10
  <2>3. b \in Nat
    BY <1>8
  <2> HIDE DEF b
  <2> QED BY <1>4, <2>1, <2>2, <2>3
<1>12. /\ Carries(srvOut', E, b + Len(down'))
       /\ b + Len(down') + Len(srvOut') = FRAME_SIZE * (ANSWERS * handled)
  BY <1>7, <1>9, <1>11
<1>13. Answering(read, handled)'
  BY <1>2, <1>7, <1>10, <1>12 DEF Answering
<1> QED BY <1>3, <1>13 DEF Flow, Flows

--------------------------------------------------------------------------------
(* The results *)

\* Sequences with the same elements are the same.
LEMMA SameSequence ==
  ASSUME NEW s \in Seq(Nat), NEW t \in Seq(Nat), Len(s) = Len(t),
         \A i \in 1 .. Len(t) : s[i] = t[i]
  PROVE  s = t
<1>1. s = [i \in 1 .. Len(s) |-> s[i]]
  OBVIOUS
<1>2. t = [i \in 1 .. Len(t) |-> t[i]]
  OBVIOUS
<1> QED BY <1>1, <1>2

\* An unfinished frame is in hand only while the bridge reads.
LEMMA ChunksStep ==
  ASSUME BInv, [Next]_vars
  PROVE  chunks' # <<>> => pc' \in {"first", "drain"}
<1>1. chunks # <<>> => pc \in {"first", "drain"}
  BY DEF BInv
<1>2. CASE Receive
  BY <1>2 DEF Receive, AfterFrame
<1>3. CASE ~Receive
  BY <1>1, <1>3
  DEF Next, Bridge, Server, Publish, SkipUnsupported, Ask, Connect, ConnectRefused,
      Register, DrainTimeout, ForwardFrame, DropMalformed, EndTransaction, ServerGone,
      BridgeStops, Starting, AcceptBridge, ServerReceive, ServerSend, CloseConnection,
      StartingFails, LeaveLoop, vars, bridge
<1> QED BY <1>2, <1>3

LEMMA BInvStep == BInv /\ [Next]_vars => BInv'
<1> SUFFICES ASSUME BInv, [Next]_vars PROVE BInv'
  OBVIOUS
<1>1. TypeOK' /\ Ordered' /\ (chunks' # <<>> => pc' \in {"first", "drain"})
  BY TypeStep, OrderStep, ChunksStep
<1>2. Flows'
  BY FlowIdle, FlowTurn, FlowAsk, FlowReceive, FlowTimeout, FlowForward, FlowDrop,
     FlowStop, FlowStart, FlowEnd, FlowServerReceive, FlowServerSend
  DEF Next, Bridge, Server
<1> QED BY <1>1, <1>2 DEF BInv

LEMMA BInvAlways == Spec => []BInv
  BY BInvInit, BInvStep, PTL DEF Spec

\* Queues, frames and unfinished frames keep their sizes, for every size of a frame
\* and whatever fails or ends.
THEOREM TypeCorrect == Spec => []TypeOK
<1>1. BInv => TypeOK
  BY DEF BInv
<1> QED BY <1>1, BInvAlways, PTL

\* Until the time limit strikes in the middle of a frame, the published answers are
\* the first ones expected: none is skipped, however late it came.
THEOREM NothingSkipped == Spec => []NoAnswerSkipped
<1>1. BInv => NoAnswerSkipped
  <2> SUFFICES ASSUME BInv, ~split PROVE IsPrefix(bus, Expected)
    BY DEF NoAnswerSkipped
  <2>1. PICK done, read, handled \in Nat : Flow(done, read, handled)
    BY DEF BInv, Flows
  <2>2. /\ bus \in Seq(Nat) /\ Len(bus) <= Len(Expected)
        /\ \A j \in 1 .. Len(bus) : bus[j] = Expected[j]
    BY <2>1 DEF Flow, Published
  <2>3. Expected \in Seq(Nat) /\ Len(bus) \in Nat /\ Len(Expected) \in Nat
    BY <2>1, Numbers
  <2> DEFINE E == Expected
  <2> HIDE DEF E
  <2>4. SubSeq(bus, 1, Len(bus)) = SubSeq(E, 1, Len(bus))
    BY <2>2, <2>3 DEF E
  <2> QED BY <2>2, <2>4 DEF IsPrefix, E
<1> QED BY <1>1, BInvAlways, PTL

\* While the server is never silent for the time limit in mid-answer, the bridge
\* looks at the next message only after it has published all answers to the last.
THEOREM TransactionsComplete == Spec => []TransactionComplete
<1>1. BInv => TransactionComplete
  <2> SUFFICES ASSUME BInv, pc = "udp", ~late PROVE bus = Expected
    BY DEF TransactionComplete
  <2>1. PICK done, read, handled \in Nat : Flow(done, read, handled)
    BY DEF BInv, Flows
  <2>2. ~split /\ read = FRAME_SIZE * Len(Expected)
    BY <2>1 DEF Flow, Complete
  <2>3. /\ bus \in Seq(Nat) /\ Len(bus) <= Len(Expected)
        /\ \A j \in 1 .. Len(bus) : bus[j] = Expected[j]
        /\ done = FRAME_SIZE * Len(bus)
        /\ done + FRAME_SIZE * Len(frames) = read
    BY <2>1, <2>2 DEF Flow, Published, Holding
  <2>4. Expected \in Seq(Nat) /\ Len(bus) \in Nat /\ Len(Expected) \in Nat
    BY <2>1, Numbers
  <2>5. frames = <<>>
    BY DEF BInv, TypeOK
  <2>6. FRAME_SIZE * Len(bus) = FRAME_SIZE * Len(Expected)
    <3>1. FRAME_SIZE * Len(frames) = 0 /\ FRAME_SIZE * Len(bus) + 0 = FRAME_SIZE * Len(bus)
      BY <2>4, <2>5, Constants
    <3> QED BY <2>2, <2>3, <3>1
  <2>7. Len(bus) = Len(Expected)
    BY <2>4, <2>6, Cancel, Constants
  <2> DEFINE E == Expected
  <2>8. E \in Seq(Nat) /\ Len(bus) = Len(E) /\ \A j \in 1 .. Len(E) : bus[j] = E[j]
    BY <2>3, <2>4, <2>7
  <2> HIDE DEF E
  <2>9. bus = E
    <3>1. bus \in Seq(Nat)
      BY <2>3
    <3> QED BY <2>8, <3>1, SameSequence
  <2> QED BY <2>9 DEF E
<1> QED BY <1>1, BInvAlways, PTL

\* Bridge, connection and server together are a lossy channel from the server's
\* answers to the bus: whatever is late, cut, lost or ended, each answer is
\* published at most once, in order, and nothing else is.
THEOREM ChannelRefinement == Spec => ImplementsChannel
<1>1. Init => Channel!Init
  <2> SUFFICES ASSUME Init PROVE Channel!Init
    OBVIOUS
  <2>1. asked = <<>> /\ Numbered(asked) /\ Len(asked) = 0 /\ bus = <<>>
    BY DEF Init, Numbered, Rising
  <2>2. Expected \in Seq(Nat) /\ Len(Expected) = ANSWERS * 0
    BY <2>1, ExpectedIs DEF Expected
  <2>3. Expected = <<>>
    BY <2>2, Constants
  <2> QED BY <2>1, <2>3 DEF Channel!Init, Position
<1>2. BInv /\ [Next]_vars => [Channel!Next]_(Channel!vars)
  <2> SUFFICES ASSUME BInv, [Next]_vars PROVE [Channel!Next]_(Channel!vars)
    OBVIOUS
  <2>1. PICK done, read, handled \in Nat : Flow(done, read, handled)
    BY DEF BInv, Flows
  <2>2. CASE UNCHANGED <<asked, bus>>
    BY <2>2 DEF Channel!vars, Expected, Position
  <2>3. CASE Ask
    <3> DEFINE E == Expected
               F == Expected'
    <3>1. udp # <<>> /\ asked' = Append(asked, Head(udp)) /\ bus' = bus
      BY <2>3 DEF Ask
    <3>2. Head(udp) \in Nat \ {0} /\ Numbered(asked) /\ asked \in Seq(Nat \ {0})
      BY <3>1, NumberedTail DEF BInv, Ordered, Numbered
    <3>3. Numbered(asked')
      BY OrderStep DEF Ordered
    <3>4. /\ F \in Seq(Nat) /\ Rising(F) /\ E \in Seq(Nat)
          /\ Len(F) \in Nat /\ Len(E) \in Nat
      BY <3>2, <3>3, ExpectedIs DEF Expected
    <3>5. Len(F) = Len(E) + ANSWERS /\ \A j \in 1 .. Len(E) : F[j] = E[j]
      BY <3>1, <3>2, AnswersGrow DEF Expected
    <3>6. bus # <<>> => Position \in 1 .. Len(E) /\ E[Position] = Last(bus)
      BY <2>1, <3>4 DEF Flow, Published
    <3>7. Position = PositionIn(E, bus) /\ Position' = PositionIn(F, bus)
      BY <3>1 DEF Position, PositionIn
    <3> HIDE DEF E, F
    <3>8. Len(E) <= Len(F) /\ Len(F) > Len(E)
      BY <3>4, <3>5, Constants
    <3>9. Position' = Position
      BY <3>4, <3>5, <3>6, <3>7, <3>8, PositionStays
    <3>10. SubSeq(F, 1, Len(E)) = E
      BY <3>4, <3>5, <3>8
    <3> QED BY <3>1, <3>8, <3>9, <3>10 DEF Channel!Next, Channel!Send, E, F
  <2>4. CASE ForwardFrame
    <3>1. asked' = asked /\ Expected' = Expected
      BY <2>4 DEF ForwardFrame, Expected
    <3>2. PICK j \in 1 .. Len(Expected) :
            Position < j /\ bus' = Append(bus, Expected[j]) /\ Position' = j
      BY <2>1, <2>4, ForwardNext
    <3>3. Position \in Nat /\ Len(Expected) \in Nat
      BY <2>1, Numbers
    <3>4. j \in Position + 1 .. Len(Expected)
      BY <3>2, <3>3
    <3> QED BY <3>1, <3>2, <3>4 DEF Channel!Next, Channel!Receive
  <2> QED BY <2>2, <2>3, <2>4
          DEF Next, Bridge, Server, Publish, SkipUnsupported, Connect, ConnectRefused,
              Register, Receive, DrainTimeout, DropMalformed, EndTransaction, ServerGone,
              BridgeStops, Starting, AcceptBridge, ServerReceive, ServerSend,
              CloseConnection, StartingFails, LeaveLoop, vars, bridge
<1> QED BY <1>1, <1>2, BInvAlways, PTL DEF Spec, ImplementsChannel, Channel!Spec
===============================================================================
