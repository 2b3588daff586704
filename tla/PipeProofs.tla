----------------------------- MODULE PipeProofs -----------------------------
(***************************************************************************)
(* Proof that a pipe is a byte stream, for every capacity, any readers and   *)
(* writers on any CPUs, and any data.                                        *)
(***************************************************************************)
EXTENDS Pipe, TLAPS

USE PipeAssumption

-----------------------------------------------------------------------------
(* The ring *)

\* A position less than two turns from the start of an array of c elements.
Wrap(a, c) == IF a < c THEN a ELSE a - c

\* The % of CircularBuffer's position updates is one subtraction at most.
LEMMA ModOnce ==
    ASSUME NEW c \in Nat \ {0}, NEW a \in 0 .. 2 * c - 1
    PROVE  a % c = Wrap(a, c) /\ Wrap(a, c) \in 0 .. c - 1
<1>1. CASE a < c
      BY <1>1 DEF Wrap
<1>2. CASE a >= c
      BY <1>2 DEF Wrap
<1> QED
      BY <1>1, <1>2

\* Going k elements on and then j more is going k + j on.
LEMMA WrapTwice ==
    ASSUME NEW c \in Nat \ {0}, NEW r \in 0 .. c - 1, NEW n \in 0 .. c, NEW k \in 0 .. n
    PROVE  /\ Wrap(Wrap(r + k, c) + (n - k), c) = Wrap(r + n, c)
           /\ \A i \in 1 .. n - k : Wrap(Wrap(r + k, c) + i - 1, c) = Wrap(r + (k + i) - 1, c)
      BY DEF Wrap

\* The elements of the second of two sequences in their concatenation.
LEMMA SecondPart ==
    ASSUME NEW S, NEW x \in Seq(S), NEW y \in Seq(S), NEW i \in Nat,
           i - Len(x) \in 1 .. Len(y)
    PROVE  (x \o y)[i] = y[i - Len(x)]
      OBVIOUS

\* A sequence without its first k elements.
Rest(s, k) == [i \in 1 .. Len(s) - k |-> s[k + i]]

\* What SubSeq leaves of a sequence when its first k elements are taken.
LEMMA RestOf ==
    ASSUME NEW S, NEW s \in Seq(S), NEW k \in 0 .. Len(s)
    PROVE  SubSeq(s, k + 1, Len(s)) = Rest(s, k)
<1> DEFINE u == SubSeq(s, k + 1, Len(s))
<1>1. u \in Seq(S) /\ Len(u) = Len(s) - k
      OBVIOUS
<1>2. \A i \in 1 .. Len(s) - k : u[i] = s[k + i]
      OBVIOUS
<1>3. u = [i \in 1 .. Len(s) - k |-> u[i]]
  <2> HIDE DEF u
  <2> QED
      BY <1>1
<1> HIDE DEF u
<1>4. u = [i \in 1 .. Len(s) - k |-> s[k + i]]
      BY <1>2, <1>3
<1> QED
      BY <1>4 DEF u, Rest

\* A sequence that agrees with another one as far as that goes begins with it.
LEMMA FirstOf ==
    ASSUME NEW S, NEW s \in Seq(S), NEW u \in Seq(S), Len(u) \in 0 .. Len(s),
           \A i \in 1 .. Len(u) : s[i] = u[i]
    PROVE  SubSeq(s, 1, Len(u)) = u
<1> DEFINE v == SubSeq(s, 1, Len(u))
<1>1. v \in Seq(S) /\ Len(v) = Len(u)
      OBVIOUS
<1>2. \A i \in 1 .. Len(u) : v[i] = s[i]
      OBVIOUS
<1> HIDE DEF v
<1>3. v = u
      BY <1>1, <1>2
<1> QED
      BY <1>3 DEF v

Rings == [data : [0 .. Capacity - 1 -> Byte], read_pos : 0 .. Capacity - 1,
          write_pos : 0 .. Capacity - 1, count : 0 .. Capacity]

\* What CircularBuffer's fields say of each other: write_pos is redundant.
RingOk(b) ==
    /\ b \in Rings
    /\ b.write_pos = (b.read_pos + b.count) % Capacity

\* Where the i-th oldest byte of a ring is.
At(b, i) == Wrap(b.read_pos + i - 1, Capacity)

\* The contents of a ring, byte by byte (CBContents).
LEMMA ContentsAre ==
    ASSUME NEW b, b \in Rings
    PROVE  /\ CBContents(b, Capacity) \in Seq(Byte)
           /\ Len(CBContents(b, Capacity)) = b.count
           /\ CBContents(b, Capacity) = [i \in 1 .. b.count |-> b.data[At(b, i)]]
           /\ \A i \in 1 .. b.count : At(b, i) \in 0 .. Capacity - 1
<1>1. b.count \in 0 .. Capacity /\ b.read_pos \in 0 .. Capacity - 1
      /\ b.data \in [0 .. Capacity - 1 -> Byte] /\ Capacity \in Nat \ {0}
      BY DEF Rings
<1>2. ASSUME NEW i \in 1 .. b.count
      PROVE  (b.read_pos + i - 1) % Capacity = At(b, i) /\ At(b, i) \in 0 .. Capacity - 1
  <2>1. b.read_pos + i - 1 \in 0 .. 2 * Capacity - 1
        BY <1>1
  <2> QED
        BY <1>1, <2>1, ModOnce, Zenon DEF At
<1>3. CBContents(b, Capacity) = [i \in 1 .. b.count |-> b.data[At(b, i)]]
      BY <1>2 DEF CBContents
<1>4. \A i \in 1 .. b.count : b.data[At(b, i)] \in Byte
      BY <1>1, <1>2
<1> DEFINE C == [i \in 1 .. b.count |-> b.data[At(b, i)]]
<1>5. C \in [1 .. b.count -> Byte]
      BY <1>4
<1>6. C \in Seq(Byte) /\ Len(C) = b.count
  <2> HIDE DEF C
  <2>1. b.count \in Nat
        BY <1>1
  <2> QED
        BY <1>5, <2>1
<1> QED
      BY <1>2, <1>3, <1>6, Zenon

\* A new pipe: CircularBuffer::new.
LEMMA NewRing ==
    RingOk(CBNew(Capacity, Zero)) /\ CBContents(CBNew(Capacity, Zero), Capacity) = << >>
<1> DEFINE b == CBNew(Capacity, Zero)
<1>1. b \in Rings /\ b.count = 0 /\ b.read_pos = 0 /\ b.write_pos = 0
      BY DEF CBNew, Rings
<1>2. RingOk(b)
      BY <1>1, ModOnce DEF RingOk
<1>3. CBContents(b, Capacity) \in Seq(Byte) /\ Len(CBContents(b, Capacity)) = 0
      BY <1>1, ContentsAre
<1> QED
      BY <1>2, <1>3

\* CircularBuffer::read takes the oldest bytes out, in order, wherever they lie.
LEMMA ReadOldest ==
    ASSUME NEW b, RingOk(b), b.count # 0, NEW n \in Nat \ {0}
    PROVE  /\ RingOk(CBAfterRead(b, Capacity, n))
           /\ \E k \in 1 .. Len(CBContents(b, Capacity)) :
                /\ CBBytes(b, Capacity, n) = SubSeq(CBContents(b, Capacity), 1, k)
                /\ CBContents(CBAfterRead(b, Capacity, n), Capacity) =
                     SubSeq(CBContents(b, Capacity), k + 1, Len(CBContents(b, Capacity)))
<1> DEFINE c == CBContents(b, Capacity)
           k == CBLeast(n, b.count)
           d == CBAfterRead(b, Capacity, n)
           f == CBLeast(Capacity - b.read_pos, k)
<1>1. b.count \in 1 .. Capacity /\ b.read_pos \in 0 .. Capacity - 1
      /\ b.write_pos \in 0 .. Capacity - 1
      /\ b.data \in [0 .. Capacity - 1 -> Byte] /\ Capacity \in Nat \ {0} /\ b \in Rings
      BY DEF Rings, RingOk
<1>2. k \in 1 .. b.count
      BY <1>1 DEF CBLeast
<1>3. /\ c \in Seq(Byte) /\ Len(c) = b.count
      /\ c = [i \in 1 .. b.count |-> b.data[At(b, i)]]
      BY <1>1, ContentsAre
<1>4. d = [b EXCEPT !.read_pos = (@ + k) % Capacity, !.count = @ - k]
  <2>1. k # 0
        BY <1>2
  <2> QED
        BY <2>1, Zenon DEF CBAfterRead
<1>5. (b.read_pos + k) % Capacity
        = Wrap(b.read_pos + k, Capacity) /\ Wrap(b.read_pos + k, Capacity) \in 0 .. Capacity - 1
  <2>1. b.read_pos + k \in 0 .. 2 * Capacity - 1
        BY <1>1, <1>2, SMTT(30)
  <2> QED
        BY <1>1, <2>1, ModOnce, Zenon
<1>6. /\ d \in Rings /\ d.count = b.count - k /\ d.data = b.data
      /\ d.read_pos = (b.read_pos + k) % Capacity /\ d.write_pos = b.write_pos
  <2> HIDE DEF k, d
  <2>1. /\ d.data = b.data /\ d.read_pos = (b.read_pos + k) % Capacity
        /\ d.write_pos = b.write_pos /\ d.count = b.count - k
        /\ d = [data |-> b.data, read_pos |-> (b.read_pos + k) % Capacity,
                write_pos |-> b.write_pos, count |-> b.count - k]
        BY <1>1, <1>4, Zenon DEF Rings
  <2>2. (b.read_pos + k) % Capacity \in 0 .. Capacity - 1 /\ b.count - k \in 0 .. Capacity
        BY <1>1, <1>2, <1>5
  <2> QED
        BY <1>1, <2>1, <2>2 DEF Rings
<1>7. b.write_pos = Wrap(b.read_pos + b.count, Capacity)
  <2>1. b.read_pos + b.count \in 0 .. 2 * Capacity - 1
        BY <1>1
  <2> QED
        BY <1>1, <2>1, ModOnce, Zenon DEF RingOk
<1>8. /\ Wrap(Wrap(b.read_pos + k, Capacity) + (b.count - k), Capacity)
           = Wrap(b.read_pos + b.count, Capacity)
      /\ \A i \in 1 .. b.count - k :
           Wrap(Wrap(b.read_pos + k, Capacity) + i - 1, Capacity)
             = Wrap(b.read_pos + (k + i) - 1, Capacity)
  <2> HIDE DEF k
  <2>1. k \in 0 .. b.count /\ b.count \in 0 .. Capacity
        BY <1>1, <1>2
  <2> QED
        BY <1>1, <2>1, WrapTwice, ZenonT(30)
<1> HIDE DEF k, d, c, f
<1>a. RingOk(d)
  <2>1. d.read_pos + d.count \in 0 .. 2 * Capacity - 1
        BY <1>6 DEF Rings
  <2>2. (d.read_pos + d.count) % Capacity = Wrap(d.read_pos + d.count, Capacity)
        BY <1>1, <2>1, ModOnce, Zenon
  <2>3. d.write_pos = (d.read_pos + d.count) % Capacity
        BY <1>5, <1>6, <1>7, <1>8, <2>2, Zenon
  <2> QED
        BY <1>6, <2>3 DEF RingOk
<1>9. CBContents(d, Capacity) = SubSeq(c, k + 1, Len(c))
  <2>1. CBContents(d, Capacity) = [i \in 1 .. d.count |-> d.data[At(d, i)]]
        BY <1>6, ContentsAre
  <2>2. ASSUME NEW i \in 1 .. b.count - k PROVE At(d, i) = At(b, k + i)
        BY <1>5, <1>6, <1>8, Zenon DEF At
  <2>3. SubSeq(c, k + 1, Len(c)) = [i \in 1 .. b.count - k |-> c[k + i]]
    <3>1. k \in 0 .. Len(c)
          BY <1>2, <1>3
    <3>2. SubSeq(c, k + 1, Len(c)) = Rest(c, k)
          BY <1>3, <3>1, RestOf, Zenon
    <3> QED
          BY <1>3, <3>2, Zenon DEF Rest
  <2>4. ASSUME NEW i \in 1 .. b.count - k PROVE c[k + i] = b.data[At(b, k + i)]
        BY <1>1, <1>2, <1>3
  <2>5. ASSUME NEW i \in 1 .. b.count - k PROVE d.data[At(d, i)] = c[k + i]
        BY <1>6, <2>2, <2>4, Zenon
  <2> QED
        BY <1>6, <2>1, <2>3, <2>5, Zenon
<1>10. CBBytes(b, Capacity, n) = SubSeq(c, 1, k)
  <2>1. f \in 0 .. k /\ (f = k \/ f = Capacity - b.read_pos)
        BY <1>1, <1>2 DEF f, CBLeast
  <2> DEFINE x == [i \in 1 .. f |-> b.data[b.read_pos + i - 1]]
             y == [i \in 1 .. k - f |-> b.data[i - 1]]
  <2>2. CBBytes(b, Capacity, n) = x \o y
        BY DEF CBBytes, f, k
  <2>3. x \in Seq(Byte) /\ Len(x) = f
    <3>2. ASSUME NEW i \in 1 .. f PROVE b.data[b.read_pos + i - 1] \in Byte
      <4>1. b.read_pos + i - 1 \in 0 .. Capacity - 1
            BY <1>1, <1>2, <2>1 DEF f, CBLeast
      <4> QED
            BY <1>1, <4>1
    <3>1. x \in [1 .. f -> Byte]
          BY <3>2, Zenon
    <3>3. f \in Nat
          BY <1>1, <1>2, <2>1
    <3> HIDE DEF x
    <3> QED
          BY <3>1, <3>3
  <2>4. y \in Seq(Byte) /\ Len(y) = k - f
    <3>1. y \in [1 .. k - f -> Byte]
          BY <1>1, <1>2, <2>1
    <3>2. k - f \in Nat
          BY <1>1, <1>2, <2>1
    <3> QED
          BY <3>1, <3>2, SMTT(30)
  <2>5. SubSeq(c, 1, k) = [i \in 1 .. k |-> c[i]]
        BY <1>1, <1>2, <1>3
  <2>6. Len(x \o y) = k /\ x \o y \in Seq(Byte)
        BY <1>1, <1>2, <2>1, <2>3, <2>4
  <2>7. ASSUME NEW i \in 1 .. k PROVE (x \o y)[i] = c[i]
    <3>1. c[i] = b.data[At(b, i)]
          BY <1>1, <1>2, <1>3
    <3>2. CASE i <= f
      <4>1. (x \o y)[i] = x[i] /\ x[i] = b.data[b.read_pos + i - 1]
            BY <2>1, <2>3, <2>4, <3>2
      <4>2. b.read_pos + i - 1 < Capacity
            BY <1>1, <1>2, <3>2 DEF f, CBLeast
      <4> QED
            BY <3>1, <4>1, <4>2, Zenon DEF At, Wrap
    <3>3. CASE i > f
      <4>1. f = Capacity - b.read_pos
            BY <1>2, <2>1, <3>3
      <4>2. i - f \in 1 .. k - f
            BY <1>1, <1>2, <2>1, <3>3
      <4>3. (x \o y)[i] = y[i - f]
        <5> HIDE DEF x, y
        <5>1. i \in Nat /\ i - Len(x) \in 1 .. Len(y)
              BY <1>2, <2>3, <2>4, <4>2
        <5>2. (x \o y)[i] = y[i - Len(x)]
              BY <2>3, <2>4, <5>1, SecondPart, ZenonT(30)
        <5> QED
              BY <2>3, <5>2, Zenon
      <4>4. y[i - f] = b.data[i - f - 1]
            BY <4>2
      <4>5. At(b, i) = i - f - 1
            BY <1>1, <1>2, <3>3, <4>1 DEF At, Wrap
      <4> QED
            BY <3>1, <4>3, <4>4, <4>5, Zenon
    <3> QED
          BY <1>2, <2>1, <3>2, <3>3
  <2> HIDE DEF x, y
  <2>8. x \o y = [i \in 1 .. k |-> (x \o y)[i]]
    <3> DEFINE z == x \o y
    <3>1. z \in Seq(Byte) /\ Len(z) = k
          BY <2>6
    <3> HIDE DEF z
    <3>2. z = [i \in 1 .. k |-> z[i]]
          BY <3>1
    <3> QED
          BY <3>2, Zenon DEF z
  <2> QED
        BY <2>2, <2>5, <2>7, <2>8, Zenon
<1> QED
      BY <1>2, <1>3, <1>a, <1>9, <1>10, Zenon DEF d, c

\* Of the k bytes of a write the first f go to slot w and on, the others to the
\* start of the array: a slot that is not written, and the one of the j-th byte.
Kept(x, w, f, k) == ~(w <= x /\ x < w + f) /\ ~(x < k - f)
Written(x, j, w, f, k) ==
    \/ w <= x /\ x < w + f /\ x - w + 1 = j
    \/ ~(w <= x /\ x < w + f) /\ x < k - f /\ f + x + 1 = j

\* Where the bytes of a write of k to a ring with n go: the slots of the i-th byte
\* already there and of the j-th new one, and the position after them.
WriteFits(c, r, n, k, w, f) ==
    /\ \A i \in 1 .. n : Kept(Wrap(r + i - 1, c), w, f, k)
    /\ \A j \in 1 .. k : Written(Wrap(r + (n + j) - 1, c), j, w, f, k)
    /\ w \in 0 .. c - 1 /\ f \in 1 .. k
    /\ w + k \in 0 .. 2 * c - 1 /\ r + (n + k) \in 0 .. 2 * c - 1
    /\ Wrap(w + k, c) = Wrap(r + (n + k), c) /\ Wrap(w + k, c) \in 0 .. c - 1

\* The two ranges write() copies to are free, and meet the order of the bytes.
LEMMA WriteSlots ==
    ASSUME NEW c \in Nat \ {0}, NEW r \in 0 .. c - 1, NEW n \in 0 .. c - 1,
           NEW k \in 1 .. c - n, NEW w, w = Wrap(r + n, c),
           NEW f, f = CBLeast(c - w, k)
    PROVE  WriteFits(c, r, n, k, w, f)
<1>1. r + n < c \/ r + n >= c
      OBVIOUS
<1>2. (r + n < c => w = r + n) /\ (r + n >= c => w = r + n - c)
      BY DEF Wrap
<1>3. w \in 0 .. c - 1
      BY <1>1, <1>2
<1>4. (c - w < k => f = c - w) /\ (c - w >= k => f = k)
      BY <1>3 DEF CBLeast
<1>5. f \in 1 .. k
      BY <1>3, <1>4
<1>6. ASSUME NEW i \in 1 .. n PROVE Kept(Wrap(r + i - 1, c), w, f, k)
      BY <1>1, <1>2, <1>3, <1>4 DEF Wrap, Kept
<1>7. ASSUME NEW j \in 1 .. k PROVE Written(Wrap(r + (n + j) - 1, c), j, w, f, k)
      BY <1>1, <1>2, <1>3, <1>4 DEF Wrap, Written
<1>8. w + k \in 0 .. 2 * c - 1 /\ r + (n + k) \in 0 .. 2 * c - 1
      BY <1>3, SMTT(30)
<1>9. Wrap(w + k, c) = Wrap(r + (n + k), c) /\ Wrap(w + k, c) \in 0 .. c - 1
      BY <1>1, <1>2, <1>3 DEF Wrap
<1> QED
      BY <1>3, <1>5, <1>6, <1>7, <1>8, <1>9 DEF WriteFits

\* CircularBuffer::write adds the first bytes of s behind those that are there,
\* and takes no more than there is room for.
LEMMA WriteAppends ==
    ASSUME NEW b, RingOk(b), b.count # Capacity, NEW s \in Seq(Byte), s # << >>
    PROVE  LET d == CBAfterWrite(b, Capacity, s)
               k == CBTaken(b, Capacity, s)
               old == CBContents(b, Capacity)
               new == CBContents(d, Capacity)
           IN  /\ RingOk(d)
               /\ k > 0 /\ Len(new) = Len(old) + k /\ Len(new) <= Capacity
               /\ new \in Seq(Byte)
               /\ SubSeq(new, 1, Len(old)) = old
               /\ \A j \in 1 .. k : new[Len(old) + j] = s[j]
<1> DEFINE d == CBAfterWrite(b, Capacity, s)
           k == CBTaken(b, Capacity, s)
           w == b.write_pos
           f == CBLeast(Capacity - w, k)
           old == CBContents(b, Capacity)
           new == CBContents(d, Capacity)
           data == [i \in 0 .. Capacity - 1 |->
                      IF w <= i /\ i < w + f THEN s[i - w + 1]
                      ELSE IF i < k - f THEN s[f + i + 1]
                      ELSE b.data[i]]
<1>1. b.count \in 0 .. Capacity - 1 /\ b.read_pos \in 0 .. Capacity - 1
      /\ b.write_pos \in 0 .. Capacity - 1
      /\ b.data \in [0 .. Capacity - 1 -> Byte] /\ Capacity \in Nat \ {0} /\ b \in Rings
      BY DEF Rings, RingOk
<1>2. Len(s) \in Nat \ {0}
      OBVIOUS
<1>3. k \in 1 .. Capacity - b.count /\ k <= Len(s)
      BY <1>1, <1>2 DEF CBTaken, CBLeast
<1>4. w = Wrap(b.read_pos + b.count, Capacity)
  <2>1. b.read_pos + b.count \in 0 .. 2 * Capacity - 1
        BY <1>1
  <2> QED
        BY <1>1, <2>1, ModOnce, Zenon DEF RingOk
<1>5. d = [data |-> data, read_pos |-> b.read_pos, write_pos |-> (w + k) % Capacity,
           count |-> b.count + k]
  <2>1. k # 0
        BY <1>3
  <2> QED
        BY <2>1, Zenon DEF CBAfterWrite
<1> HIDE DEF k, w, f
<1>6. /\ \A i \in 1 .. b.count : Kept(Wrap(b.read_pos + i - 1, Capacity), w, f, k)
      /\ \A j \in 1 .. k :
           Written(Wrap(b.read_pos + (b.count + j) - 1, Capacity), j, w, f, k)
      /\ w \in 0 .. Capacity - 1 /\ f \in 1 .. k
      /\ w + k \in 0 .. 2 * Capacity - 1
      /\ b.read_pos + (b.count + k) \in 0 .. 2 * Capacity - 1
      /\ Wrap(w + k, Capacity) = Wrap(b.read_pos + (b.count + k), Capacity)
      /\ Wrap(w + k, Capacity) \in 0 .. Capacity - 1
  <2>1. f = CBLeast(Capacity - w, k)
        BY DEF f
  <2>2. WriteFits(Capacity, b.read_pos, b.count, k, w, f)
        BY <1>1, <1>3, <1>4, <2>1, WriteSlots, Zenon
  <2> QED
        BY <2>2, Zenon DEF WriteFits
<1>7. data \in [0 .. Capacity - 1 -> Byte]
  <2>1. ASSUME NEW i \in 0 .. Capacity - 1, w <= i /\ i < w + f PROVE s[i - w + 1] \in Byte
    <3>1. i - w + 1 \in 1 .. Len(s)
          BY <1>2, <1>3, <1>6, <2>1
    <3> QED
          BY <3>1
  <2>2. ASSUME NEW i \in 0 .. Capacity - 1, i < k - f PROVE s[f + i + 1] \in Byte
    <3>1. f + i + 1 \in 1 .. Len(s)
          BY <1>1, <1>2, <1>3, <1>6, <2>2
    <3> QED
          BY <3>1
  <2>3. \A i \in 0 .. Capacity - 1 : b.data[i] \in Byte
        BY <1>1
  <2> QED
        BY <2>1, <2>2, <2>3, Zenon
<1>8. (w + k) % Capacity = Wrap(w + k, Capacity)
      /\ (b.read_pos + (b.count + k)) % Capacity = Wrap(b.read_pos + (b.count + k), Capacity)
      BY <1>1, <1>6, ModOnce, Zenon
<1> HIDE DEF d, data
<1>9. /\ d.data = data /\ d.read_pos = b.read_pos /\ d.write_pos = (w + k) % Capacity
      /\ d.count = b.count + k /\ d \in Rings
  <2>1. b.count + k \in 0 .. Capacity
        BY <1>1, <1>3
  <2>2. (w + k) % Capacity \in 0 .. Capacity - 1
        BY <1>6, <1>8
  <2> QED
        BY <1>1, <1>5, <1>7, <2>1, <2>2 DEF Rings
<1>10. RingOk(d)
      BY <1>6, <1>8, <1>9, Zenon DEF RingOk
<1>11. /\ old \in Seq(Byte) /\ Len(old) = b.count
       /\ old = [i \in 1 .. b.count |-> b.data[At(b, i)]]
       /\ \A i \in 1 .. b.count : At(b, i) \in 0 .. Capacity - 1
      BY <1>1, ContentsAre
<1>12. /\ new \in Seq(Byte) /\ Len(new) = d.count
       /\ new = [i \in 1 .. d.count |-> d.data[At(d, i)]]
       /\ \A i \in 1 .. d.count : At(d, i) \in 0 .. Capacity - 1
      BY <1>9, ContentsAre
<1>13. \A i : At(d, i) = At(b, i)
      BY <1>9, Zenon DEF At
<1> HIDE DEF old, new
<1>14. ASSUME NEW i \in 1 .. Len(old) PROVE new[i] = old[i]
  <2>1. i \in 1 .. d.count /\ i \in 1 .. b.count
        BY <1>1, <1>3, <1>9, <1>11
  <2>2. new[i] = data[At(b, i)] /\ old[i] = b.data[At(b, i)] /\ At(b, i) \in 0 .. Capacity - 1
        BY <1>9, <1>11, <1>12, <1>13, <2>1
  <2>3. ~(w <= At(b, i) /\ At(b, i) < w + f) /\ ~(At(b, i) < k - f)
        BY <1>6, <2>1, Zenon DEF At, Kept
  <2>4. data[At(b, i)] = b.data[At(b, i)]
        BY <2>2, <2>3, Zenon DEF data
  <2> QED
        BY <2>2, <2>4
<1>15. ASSUME NEW j \in 1 .. k PROVE new[Len(old) + j] = s[j]
  <2> DEFINE x == At(b, b.count + j)
  <2>1. b.count + j \in 1 .. d.count
        BY <1>1, <1>3, <1>9
  <2>2. new[Len(old) + j] = data[x] /\ x \in 0 .. Capacity - 1
        BY <1>9, <1>11, <1>12, <1>13, <2>1
  <2>3. \/ w <= x /\ x < w + f /\ x - w + 1 = j
        \/ ~(w <= x /\ x < w + f) /\ x < k - f /\ f + x + 1 = j
        BY <1>6, Zenon DEF At, Written
  <2> HIDE DEF x
  <2>4. data[x] = IF w <= x /\ x < w + f THEN s[x - w + 1]
                  ELSE IF x < k - f THEN s[f + x + 1] ELSE b.data[x]
        BY <2>2, Zenon DEF data
  <2>5. data[x] = s[j]
        BY <2>3, <2>4
  <2> QED
        BY <2>2, <2>5
<1>16. Len(new) = Len(old) + k /\ Len(new) <= Capacity /\ Len(old) \in 0 .. Len(new) /\ k > 0
      BY <1>1, <1>3, <1>9, <1>11, <1>12
<1>17. SubSeq(new, 1, Len(old)) = old
      BY <1>11, <1>12, <1>14, <1>16, FirstOf, ZenonT(30)
<1> QED
      BY <1>10, <1>12, <1>15, <1>16, <1>17, Zenon DEF d, k, old, new

-----------------------------------------------------------------------------
(* The inductive invariant, and the refinement *)

Places == {"idle", "register", "check", "transfer", "wake", "asleep"}

\* The buffer is a ring, and a task in a call holds its end open: the handle of
\* the call keeps drop away.
PipeInv ==
    /\ RingOk(buffer)
    /\ open \in [Ends -> BOOLEAN]
    /\ pc \in [Tasks -> Places]
    /\ \A t \in Tasks : pc[t] # "idle" => open[EndOf(t)]

\* A step that moves one task of an open end leaves the places right.
LEMMA Moves ==
    ASSUME PipeInv, NEW t \in Tasks, NEW l \in Places, Goto(t, l),
           open[EndOf(t)], UNCHANGED open
    PROVE  /\ pc' \in [Tasks -> Places]
           /\ \A u \in Tasks : pc'[u] # "idle" => open'[EndOf(u)]
      BY DEF PipeInv, Goto

\* All other steps leave the stream alone: registration, looking, waking, sleeping,
\* stealing.
LEMMA OtherSteps ==
    ASSUME PipeInv, NEW t \in Tasks,
           \/ Repoll(t) \/ IdlePoll(t) \/ Register(t) \/ Check(t) \/ Retry(t) \/ Wake(t)
           \/ Call(t) \/ PollReadiness(t) \/ Spurious(t) \/ Migrate(t)
    PROVE  PipeInv' /\ UNCHANGED <<buffer, open, out, ended, broken>>
<1>1. UNCHANGED <<buffer, open, out, ended, broken>>
      BY DEF Repoll, IdlePoll, Register, Check, Retry, Wake, Call, PollReadiness,
             Spurious, Migrate
<1>2. UNCHANGED pc \/ \E l \in Places : Goto(t, l) /\ open[EndOf(t)]
  <2>1. CASE Repoll(t) \/ Register(t) \/ Check(t) \/ Retry(t) \/ Wake(t)
    <3>1. open[EndOf(t)]
          BY <2>1, Zenon DEF PipeInv, Repoll, Register, Check, Retry, Wake
    <3>2. \E l \in Places : Goto(t, l)
          BY <2>1 DEF Places, Repoll, Register, Check, Retry, Wake
    <3> QED
          BY <3>1, <3>2
  <2>2. CASE IdlePoll(t) \/ PollReadiness(t) \/ Spurious(t) \/ Migrate(t)
        BY <2>2 DEF IdlePoll, PollReadiness, Spurious, Migrate
  <2>3. CASE Call(t)
        BY <2>3 DEF Call, Places
  <2> QED
        BY <2>1, <2>2, <2>3
<1>3. CASE UNCHANGED pc
      BY <1>1, <1>3 DEF PipeInv, RingOk
<1>4. CASE \E l \in Places : Goto(t, l) /\ open[EndOf(t)]
  <2>1. PICK l \in Places : Goto(t, l) /\ open[EndOf(t)]
        BY <1>4
  <2>2. /\ pc' \in [Tasks -> Places]
        /\ \A u \in Tasks : pc'[u] # "idle" => open'[EndOf(u)]
        BY <1>1, <2>1, Moves
  <2> QED
        BY <1>1, <2>2 DEF PipeInv, RingOk
<1> QED
      BY <1>1, <1>2, <1>3, <1>4

\* A read takes the oldest bytes out of the stream.
LEMMA ReadIsGet ==
    ASSUME PipeInv, NEW t \in Tasks, Read(t)
    PROVE  PipeInv' /\ \E n \in 1 .. Len(CBContents(buffer, Capacity)) : Stream!Get(n)
<1>1. open["read"] /\ open[EndOf(t)]
      BY DEF PipeInv, Read, EndOf
<1>2. PICK n \in 1 .. MaxRead :
         out' = CBBytes(buffer, Capacity, n) /\ buffer' = CBAfterRead(buffer, Capacity, n)
      BY DEF Read
<1>3. buffer.count # 0 /\ RingOk(buffer) /\ n \in Nat \ {0}
      BY DEF Read, CBIsEmpty, PipeInv
<1>4. /\ RingOk(buffer')
      /\ \E k \in 1 .. Len(CBContents(buffer, Capacity)) :
           /\ out' = SubSeq(CBContents(buffer, Capacity), 1, k)
           /\ CBContents(buffer', Capacity) =
                SubSeq(CBContents(buffer, Capacity), k + 1, Len(CBContents(buffer, Capacity)))
      BY <1>2, <1>3, ReadOldest, Zenon
<1>5. UNCHANGED <<open, ended, broken>> /\ Goto(t, "wake")
      BY DEF Read
<1>6. /\ pc' \in [Tasks -> Places]
      /\ \A u \in Tasks : pc'[u] # "idle" => open'[EndOf(u)]
  <2>1. "wake" \in Places
        BY DEF Places
  <2> QED
        BY <1>1, <1>5, <2>1, Moves
<1>7. PipeInv'
  <2>1. RingOk(buffer)'
        BY <1>4 DEF RingOk
  <2> QED
        BY <1>5, <1>6, <2>1 DEF PipeInv
<1>8. CBContents(buffer, Capacity)' = CBContents(buffer', Capacity)
      BY DEF CBContents
<1> QED
      BY <1>1, <1>4, <1>5, <1>7, <1>8, Zenon DEF Stream!Get

\* A write makes the stream longer at its end, and no longer than the buffer.
LEMMA WriteIsPut ==
    ASSUME PipeInv, NEW t \in Tasks, Write(t)
    PROVE  PipeInv' /\ Stream!Put
<1>1. open["write"] /\ open[EndOf(t)]
  <2>1. t \notin Readers
        BY DEF Write
  <2> QED
        BY <2>1, Zenon DEF PipeInv, Write, EndOf
<1>2. PICK s \in Chunks : buffer' = CBAfterWrite(buffer, Capacity, s)
      BY DEF Write
<1>3. buffer.count # Capacity /\ RingOk(buffer) /\ s \in Seq(Byte) /\ s # << >>
      BY DEF Write, CBIsFull, PipeInv
<1> DEFINE old == CBContents(buffer, Capacity)
           new == CBContents(buffer', Capacity)
           k == CBTaken(buffer, Capacity, s)
<1>4. /\ RingOk(buffer') /\ k > 0 /\ Len(new) = Len(old) + k /\ Len(new) <= Capacity
      /\ new \in Seq(Byte) /\ SubSeq(new, 1, Len(old)) = old
      BY <1>2, <1>3, WriteAppends, Zenon
<1>5. Len(old) < Len(new)
  <2>1. Len(old) \in Nat /\ k \in Int
    <3>1. buffer.count \in Nat /\ Len(s) \in Nat
          BY <1>3 DEF RingOk, Rings
    <3>2. Len(old) = buffer.count
          BY <1>3, ContentsAre DEF RingOk
    <3> QED
          BY <3>1, <3>2 DEF CBTaken, CBLeast
  <2> HIDE DEF old, new, k
  <2> QED
        BY <1>4, <2>1
<1>6. UNCHANGED <<open, out, ended, broken>> /\ Goto(t, "wake")
      BY DEF Write
<1>7. /\ pc' \in [Tasks -> Places]
      /\ \A u \in Tasks : pc'[u] # "idle" => open'[EndOf(u)]
  <2>1. "wake" \in Places
        BY DEF Places
  <2> QED
        BY <1>1, <1>6, <2>1, Moves
<1>8. PipeInv'
  <2>1. RingOk(buffer)'
        BY <1>4 DEF RingOk
  <2> QED
        BY <1>6, <1>7, <2>1 DEF PipeInv
<1>9. CBContents(buffer, Capacity)' = new
      BY DEF CBContents
<1> QED
      BY <1>1, <1>4, <1>5, <1>6, <1>8, <1>9, Zenon DEF Stream!Put

\* End-of-file is reported on a drained stream whose write end is gone, a broken
\* pipe only when the read end is.
LEMMA EndsAreReported ==
    ASSUME PipeInv, NEW t \in Tasks, ReadEof(t) \/ WriteBroken(t)
    PROVE  PipeInv' /\ (Stream!EndOfFile \/ Stream!Broken)
<1>1. UNCHANGED <<buffer, open, out>> /\ Goto(t, "idle") /\ open[EndOf(t)]
      BY DEF ReadEof, WriteBroken, PipeInv
<1>2. PipeInv'
  <2>1. "idle" \in Places
        BY DEF Places
  <2>2. /\ pc' \in [Tasks -> Places]
        /\ \A u \in Tasks : pc'[u] # "idle" => open'[EndOf(u)]
        BY <1>1, <2>1, Moves
  <2> QED
        BY <1>1, <2>2 DEF PipeInv, RingOk
<1>3. CBContents(buffer, Capacity)' = CBContents(buffer, Capacity)
      BY <1>1 DEF CBContents
<1>4. ASSUME ReadEof(t) PROVE Stream!EndOfFile
  <2>1. CBContents(buffer, Capacity) = << >>
    <3>1. buffer.count = 0 /\ buffer \in Rings
          BY <1>4 DEF ReadEof, CBIsEmpty, PipeInv, RingOk
    <3>2. CBContents(buffer, Capacity) \in Seq(Byte) /\ Len(CBContents(buffer, Capacity)) = 0
          BY <3>1, ContentsAre
    <3> QED
          BY <3>2
  <2>2. open["read"]
        BY <1>1, <1>4 DEF ReadEof, EndOf
  <2> QED
        BY <1>1, <1>3, <1>4, <2>1, <2>2 DEF ReadEof, Stream!EndOfFile
<1>5. ASSUME WriteBroken(t) PROVE Stream!Broken
  <2>1. open["write"]
        BY <1>1, <1>5 DEF WriteBroken, EndOf
  <2> QED
        BY <1>1, <1>3, <1>5, <2>1 DEF WriteBroken, Stream!Broken
<1> QED
      BY <1>2, <1>4, <1>5

\* The drop of the last handle of an end closes it; nobody is in a call there.
LEMMA DropIsClose ==
    ASSUME PipeInv, NEW e \in Ends, DropEnd(e)
    PROVE  PipeInv' /\ Stream!Close
<1>1. UNCHANGED <<buffer, pc, out, ended, broken>>
      /\ open' = [open EXCEPT ![e] = FALSE]
      BY DEF DropEnd
<1>2. PipeInv'
  <2>1. open' \in [Ends -> BOOLEAN]
        BY <1>1 DEF PipeInv
  <2>2. ASSUME NEW t \in Tasks, pc'[t] # "idle" PROVE open'[EndOf(t)]
    <3>1. EndOf(t) # e /\ EndOf(t) \in Ends /\ open[EndOf(t)]
          BY <1>1, <2>2 DEF DropEnd, PipeInv, EndOf, Ends
    <3> QED
          BY <1>1, <3>1 DEF PipeInv
  <2> QED
        BY <1>1, <2>1, <2>2 DEF PipeInv, RingOk
<1>3. CBContents(buffer, Capacity)' = CBContents(buffer, Capacity)
      BY <1>1 DEF CBContents
<1>4. \/ open'["write"] = FALSE /\ open'["read"] = open["read"]
      \/ open'["read"] = FALSE /\ open'["write"] = open["write"]
      BY <1>1, Zenon DEF PipeInv, Ends
<1> QED
      BY <1>1, <1>2, <1>3, <1>4, Zenon DEF Stream!Close

\* wake_all changes nothing a reader or a writer sees of the stream.
LEMMA WakeAllIsSilent ==
    ASSUME PipeInv, NEW e \in Ends, WakeAll(e)
    PROVE  PipeInv' /\ UNCHANGED <<buffer, open, out, ended, broken>>
      BY DEF WakeAll, PipeInv, RingOk

\* A step that leaves the pipe's state alone leaves the stream alone.
LEMMA SilentSteps ==
    ASSUME UNCHANGED <<buffer, open, out, ended, broken>>
    PROVE  UNCHANGED Stream!vars
      BY DEF Stream!vars, CBContents

\* Every step keeps the invariant, and is a step of the stream or none.
LEMMA StepRefines ==
    ASSUME PipeInv, [Next]_vars
    PROVE  PipeInv' /\ [Stream!Next]_(Stream!vars)
<1>1. ASSUME NEW t \in Tasks,
             Step(t) \/ Call(t) \/ PollReadiness(t) \/ Spurious(t) \/ Migrate(t)
      PROVE  PipeInv' /\ [Stream!Next]_(Stream!vars)
  <2>1. CASE Read(t)
        BY <2>1, ReadIsGet DEF Stream!Next
  <2>2. CASE Write(t)
        BY <2>2, WriteIsPut DEF Stream!Next
  <2>3. CASE ReadEof(t) \/ WriteBroken(t)
        BY <2>3, EndsAreReported DEF Stream!Next
  <2>4. CASE \/ Repoll(t) \/ IdlePoll(t) \/ Register(t) \/ Check(t) \/ Retry(t) \/ Wake(t)
             \/ Call(t) \/ PollReadiness(t) \/ Spurious(t) \/ Migrate(t)
        BY <2>4, OtherSteps, SilentSteps
  <2> QED
        BY <1>1, <2>1, <2>2, <2>3, <2>4 DEF Step
<1>2. ASSUME NEW e \in Ends, DropEnd(e)
      PROVE  PipeInv' /\ [Stream!Next]_(Stream!vars)
      BY <1>2, DropIsClose DEF Stream!Next
<1>3. ASSUME NEW e \in Ends, WakeAll(e)
      PROVE  PipeInv' /\ [Stream!Next]_(Stream!vars)
      BY <1>3, WakeAllIsSilent, SilentSteps
<1>4. ASSUME UNCHANGED vars
      PROVE  PipeInv' /\ [Stream!Next]_(Stream!vars)
  <2>1. UNCHANGED <<buffer, open, pc, out, ended, broken>>
        BY <1>4 DEF vars
  <2>2. PipeInv'
        BY <2>1 DEF PipeInv, RingOk
  <2> QED
        BY <2>1, <2>2, SilentSteps
<1> QED
      BY <1>1, <1>2, <1>3, <1>4 DEF Next

\* A pipe implements a bounded stream of bytes (pipe.rs, circular_buffer.rs): every
\* byte written comes out once and in order, across the wrap-around of the ring and
\* any interleaving of readers, writers, drops and steals; end-of-file comes only
\* after the last byte, and a broken pipe only once no reader is left.
THEOREM PipeIsByteStream == Spec => IsByteStream
<1>1. Init => PipeInv /\ Stream!Init
  <2> SUFFICES ASSUME Init PROVE PipeInv /\ Stream!Init
        OBVIOUS
  <2>1. RingOk(buffer) /\ CBContents(buffer, Capacity) = << >>
        BY NewRing DEF Init
  <2>2. pc \in [Tasks -> Places] /\ open \in [Ends -> BOOLEAN]
        BY DEF Init, Places
  <2>3. \A t \in Tasks : pc[t] # "idle" => open[EndOf(t)]
        BY DEF Init
  <2>4. open["write"] = TRUE /\ open["read"] = TRUE /\ out = << >>
        /\ ended = FALSE /\ broken = FALSE
        BY DEF Init, Ends
  <2> QED
        BY <2>1, <2>2, <2>3, <2>4 DEF PipeInv, Stream!Init
<1>2. PipeInv /\ [Next]_vars => PipeInv' /\ [Stream!Next]_(Stream!vars)
      BY StepRefines
<1> QED
      BY <1>1, <1>2, PTL DEF Spec, IsByteStream, Stream!Spec
=============================================================================
