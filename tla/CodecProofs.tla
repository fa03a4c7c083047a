------------------------------ MODULE CodecProofs ------------------------------
(***************************************************************************)
(* Proofs about the wire format, for any names, tokens, endpoints and      *)
(* registries: what one side writes the other reads, the lists that do not *)
(* fit included.                                                           *)
(***************************************************************************)
EXTENDS Codec, SequenceTheorems, WellFoundedInduction, TLAPS

-----------------------------------------------------------------------------
(* Numbers. *)

\* A set of numbers has a least element: what holds at 0, and at every number if it holds
\* before, is proved by looking at the first number where it would not.
LEMMA Least ==
    ASSUME NEW S \in SUBSET Nat, S # {}
    PROVE  \E x \in S : \A y \in S : x <= y
<1>1. PICK x \in S : \A y \in S : ~ (<<y, x>> \in OpToRel(<, Nat))
    BY WFMin, NatLessThanWellFounded
<1>2. ASSUME NEW y \in S PROVE x =< y
    <2>1. <<y, x>> \notin {ss \in Nat \X Nat : ss[1] < ss[2]}
        BY <1>1 DEF OpToRel
    <2>2. x \in Nat /\ y \in Nat
        OBVIOUS
    <2>3. ~ (y < x)
        BY <2>1, <2>2
    <2> QED
        BY <2>2, <2>3
<1> QED
    BY <1>2

\* What is chosen from a set of one.
LEMMA Only == \A x : (CHOOSE y \in {x} : TRUE) = x
OBVIOUS

\* Division with remainder, by 2^8.
LEMMA Divided ==
    ASSUME NEW n \in Nat
    PROVE  n \div 256 \in Nat /\ n % 256 \in Nat /\ n % 256 < 256 /\ n = 256 * (n \div 256) + (n % 256)
OBVIOUS

\* A remainder is the only one.
LEMMA Remainder ==
    ASSUME NEW n \in Nat, NEW q \in Nat, NEW r \in Nat, r < 65536, n = 65536 * q + r
    PROVE  n % 65536 = r
OBVIOUS

\* Dividing twice by 2^8 is dividing by 2^16.
LEMMA Composed ==
    ASSUME NEW k \in Nat, NEW a \in Nat, NEW b \in Nat, NEW c \in Nat, NEW e \in Nat,
           b < 256, e < 256, k = 256 * a + b, a = 256 * c + e
    PROVE  k = 65536 * c + (256 * e + b) /\ 256 * e + b < 65536 /\ 256 * e + b \in Nat
OBVIOUS

\* The bytes of an integer make the integer, modulo 2^16.
LEMMA Int16Value ==
    ASSUME NEW k \in Nat
    PROVE  /\ Int16(k) \in Seq(Nat) /\ Value(Int16(k)) = k % Range16
           /\ k % Range16 \in 0 .. Range16 - 1
           /\ k < Range16 => k % Range16 = k
<1>1. PICK a \in Nat, b \in Nat : a = k \div 256 /\ b = k % 256 /\ b < 256 /\ k = 256 * a + b
    BY Divided
<1>2. PICK c \in Nat, e \in Nat : e = a % 256 /\ e < 256 /\ a = 256 * c + e
    BY <1>1, Divided
<1>3. Int16(k) = <<e, b>>
    BY <1>1, <1>2 DEF Int16
<1>4. k % Range16 \in 0 .. Range16 - 1 /\ (k < Range16 => k % Range16 = k)
    BY DEF Range16
<1>5. b < 256 /\ e < 256 /\ k = 256 * a + b /\ a = 256 * c + e
    BY <1>1, <1>2
<1>6. k = 65536 * c + (256 * e + b) /\ 256 * e + b < 65536 /\ 256 * e + b \in Nat
    BY <1>5, Composed
<1>7. k % 65536 = 256 * e + b
    BY <1>6, Remainder
<1>8. k % Range16 = 256 * e + b
    BY <1>7 DEF Range16
<1>9. Value(Int16(k)) = 256 * e + b /\ Int16(k) \in Seq(Nat)
    <2>1. e * 256 + b = 256 * e + b
        BY <1>1, <1>2
    <2> QED
        BY <1>3, <2>1 DEF Value
<1> QED
    BY <1>4, <1>8, <1>9

\* Swapping twice changes nothing.
LEMMA ReverseTwice ==
    ASSUME NEW S, NEW s \in Seq(S)
    PROVE  Reverse(s) \in Seq(S) /\ Len(Reverse(s)) = Len(s) /\ Reverse(Reverse(s)) = s
<1> DEFINE n == Len(s)
           r == Reverse(s)
<1>1. n \in Nat /\ s \in [1 .. n -> S]
    BY LenProperties
<1>2. r = [i \in 1 .. n |-> s[(n - i) + 1]]
    BY DEF Reverse
<1>3. r \in [1 .. n -> S]
    BY <1>1, <1>2
<1>4. r \in Seq(S) /\ Len(r) = n
    BY <1>1, <1>3
<1>5. Reverse(r) = [i \in 1 .. n |-> r[(n - i) + 1]]
    BY <1>4 DEF Reverse
<1>6. ASSUME NEW i \in 1 .. n PROVE r[(n - i) + 1] = s[i]
    <2>1. (n - i) + 1 \in 1 .. n /\ (n - ((n - i) + 1)) + 1 = i
        BY <1>1
    <2> QED
        BY <1>2, <2>1
<1>7. Reverse(r) = s
    BY <1>1, <1>5, <1>6
<1> QED
    BY <1>4, <1>7

\* The other host has the bytes of an integer as they were.
LEMMA Swapped ==
    ASSUME NEW S, NEW s \in Seq(S)
    PROVE  /\ byteswap(memcpy(memcpy(byteswap(s)))) = s
           /\ byteswap(memcpy(s)) = s /\ memcpy(memcpy(s)) = s
BY ReverseTwice DEF byteswap, memcpy

-----------------------------------------------------------------------------
(* Offsets. *)

\* The function that Offsets defines by recursion exists: there is one for the first k of
\* the fields, whatever k.
LEMMA OffsetsDefined ==
    ASSUME NEW fields, Len(fields) \in Nat
    PROVE  Offsets(fields) = [i \in 1 .. Len(fields) + 1 |->
               IF i = 1 THEN 0 ELSE Offsets(fields)[i - 1] + fields[i - 1].n]
<1> DEFINE n == Len(fields)
           Upto(k, f) == f = [i \in 1 .. k |-> IF i = 1 THEN 0 ELSE f[i - 1] + fields[i - 1].n]
           Missing == {k \in Nat : ~ \E f : Upto(k, f)}
<1>1. Missing = {}
    <2> SUFFICES ASSUME Missing # {} PROVE FALSE
        OBVIOUS
    <2>1. PICK k \in Missing : \A m \in Missing : k <= m
        BY Least
    <2>2. CASE k = 0
        <3>1. Upto(0, [i \in 1 .. 0 |-> 0])
            OBVIOUS
        <3> QED
            BY <2>1, <2>2, <3>1
    <2>3. CASE k # 0
        <3>5. k \in Nat
            BY <2>1
        <3>1. k \in Nat /\ k - 1 \in Nat /\ k - 1 \notin Missing
            <4> HIDE DEF Missing
            <4> QED
                BY <2>1, <2>3, <3>5
        <3>2. PICK f : Upto(k - 1, f)
            BY <3>1
        <3> DEFINE g == [i \in 1 .. k |-> IF i < k THEN f[i]
                                           ELSE IF i = 1 THEN 0 ELSE f[i - 1] + fields[i - 1].n]
        <3>3. ASSUME NEW i \in 1 .. k
              PROVE  g[i] = IF i = 1 THEN 0 ELSE g[i - 1] + fields[i - 1].n
            <4>1. i = 1 \/ (i - 1 \in 1 .. k /\ i - 1 < k)
                BY <3>1
            <4>2. i < k => f[i] = IF i = 1 THEN 0 ELSE f[i - 1] + fields[i - 1].n
                <5> SUFFICES ASSUME i < k PROVE i \in 1 .. k - 1
                    BY <3>2
                <5> QED
                    BY <3>1
            <4>3. i # 1 => g[i - 1] = f[i - 1]
                BY <4>1
            <4> QED
                BY <3>1, <4>2, <4>3
        <3>4. Upto(k, g)
            BY <3>3
        <3> QED
            BY <2>1, <3>4
    <2> QED
        BY <2>2, <2>3
<1>2. n + 1 \in Nat /\ n + 1 \notin Missing
    <2> HIDE DEF Missing
    <2> QED
        BY <1>1
<1>3. \E f : Upto(n + 1, f)
    BY <1>2
<1>4. Offsets(fields) = CHOOSE f : Upto(n + 1, f)
    BY DEF Offsets
<1>5. Upto(n + 1, Offsets(fields))
    BY <1>3, <1>4
<1> QED
    BY <1>5

\* A field without bytes holds the empty string.
Sized(x) == x.n \in Nat /\ (x.n = 0 => x.v = "")

\* A sequence of fields.
Body(fields) ==
    /\ Len(fields) \in Nat /\ DOMAIN fields = 1 .. Len(fields)
    /\ \A i \in 1 .. Len(fields) : Sized(fields[i])

\* The first field begins at 0, and each of the others where the one before it ends.
LEMMA OffsetsStep ==
    ASSUME NEW fields, Body(fields)
    PROVE  /\ Offsets(fields)[1] = 0
           /\ \A i \in 1 .. Len(fields) : Offsets(fields)[i + 1] = Offsets(fields)[i] + fields[i].n
           /\ \A i \in 1 .. Len(fields) + 1 : Offsets(fields)[i] \in Nat
<1> DEFINE n == Len(fields)
           at == Offsets(fields)
           Bad == {i \in 1 .. n + 1 : at[i] \notin Nat}
<1>1. n \in Nat /\ at = [i \in 1 .. n + 1 |-> IF i = 1 THEN 0 ELSE at[i - 1] + fields[i - 1].n]
    BY OffsetsDefined DEF Body
<1> HIDE DEF at
<1>2. at[1] = 0
    BY <1>1
<1>3. ASSUME NEW i \in 1 .. n PROVE at[i + 1] = at[i] + fields[i].n
    <2>1. i + 1 \in 1 .. n + 1 /\ i + 1 # 1 /\ (i + 1) - 1 = i
        BY <1>1
    <2> QED
        BY <1>1, <2>1
<1>4. Bad = {}
    <2> SUFFICES ASSUME Bad # {} PROVE FALSE
        OBVIOUS
    <2>1. Bad \in SUBSET Nat
        BY <1>1
    <2>2. PICK k \in Bad : \A m \in Bad : k <= m
        BY <2>1, Least
    <2>3. k \in 1 .. n + 1 /\ at[k] \notin Nat /\ k # 1
        BY <1>2
    <2>4. k - 1 \in 1 .. n /\ k - 1 \in 1 .. n + 1 /\ (k - 1) + 1 = k /\ ~ (k <= k - 1)
        BY <1>1, <2>3
    <2>5. at[k - 1] \in Nat
        BY <2>2, <2>4
    <2>6. at[k] = at[k - 1] + fields[k - 1].n
        BY <1>3, <2>4
    <2>7. fields[k - 1].n \in Nat
        BY <2>4 DEF Body, Sized
    <2> QED
        BY <2>3, <2>5, <2>6, <2>7
<1> QED
    BY <1>2, <1>3, <1>4 DEF at

\* A later field begins where an earlier one has ended.
LEMMA OffsetsGrow ==
    ASSUME NEW fields, Body(fields), NEW i \in 1 .. Len(fields), NEW j \in 1 .. Len(fields) + 1, i < j
    PROVE  Offsets(fields)[i] + fields[i].n <= Offsets(fields)[j]
<1> DEFINE n == Len(fields)
           at == Offsets(fields)
           Bad == {k \in i + 1 .. n + 1 : ~ (at[i + 1] <= at[k])}
<1>1. n \in Nat /\ (\A k \in 1 .. n : fields[k].n \in Nat)
    BY DEF Body, Sized
<1>2. /\ \A k \in 1 .. n : at[k + 1] = at[k] + fields[k].n
      /\ \A k \in 1 .. n + 1 : at[k] \in Nat
    BY OffsetsStep
<1> HIDE DEF at
<1>3. Bad = {}
    <2> SUFFICES ASSUME Bad # {} PROVE FALSE
        OBVIOUS
    <2>1. Bad \in SUBSET Nat
        BY <1>1
    <2>2. PICK k \in Bad : \A m \in Bad : k <= m
        BY <2>1, Least
    <2>3. k \in i + 1 .. n + 1 /\ ~ (at[i + 1] <= at[k]) /\ k \in Nat
        BY <2>1
    <2>4. i + 1 \in 1 .. n + 1 /\ at[i + 1] \in Nat
        BY <1>1, <1>2
    <2>5. k # i + 1
        BY <2>3, <2>4
    <2>6. /\ k - 1 \in i + 1 .. n + 1 /\ k - 1 \in 1 .. n /\ k - 1 \in 1 .. n + 1
          /\ (k - 1) + 1 = k /\ ~ (k <= k - 1)
        BY <1>1, <2>3, <2>5
    <2>7. at[i + 1] <= at[k - 1]
        BY <2>2, <2>6
    <2>8. at[k] = at[k - 1] + fields[k - 1].n /\ at[k - 1] \in Nat /\ fields[k - 1].n \in Nat
        BY <1>1, <1>2, <2>6
    <2> QED
        BY <2>3, <2>4, <2>7, <2>8
<1>4. j \in i + 1 .. n + 1
    BY <1>1
<1> QED
    BY <1>2, <1>3, <1>4 DEF at

\* The offsets of the first fields do not depend on those that follow, only on their sizes.
LEMMA OffsetsPrefix ==
    ASSUME NEW fields, NEW first, Body(fields), Body(first), Len(first) <= Len(fields),
           \A i \in 1 .. Len(first) : first[i].n = fields[i].n
    PROVE  \A i \in 1 .. Len(first) + 1 : Offsets(first)[i] = Offsets(fields)[i]
<1> DEFINE n == Len(first)
           at == Offsets(first)
           to == Offsets(fields)
           Bad == {k \in 1 .. n + 1 : at[k] # to[k]}
<1>1. n \in Nat /\ Len(fields) \in Nat /\ n <= Len(fields)
    BY DEF Body, Sized
<1>2. /\ at[1] = 0 /\ to[1] = 0
      /\ \A k \in 1 .. n : at[k + 1] = at[k] + first[k].n
      /\ \A k \in 1 .. Len(fields) : to[k + 1] = to[k] + fields[k].n
    BY OffsetsStep
<1> HIDE DEF at, to
<1>3. Bad = {}
    <2> SUFFICES ASSUME Bad # {} PROVE FALSE
        OBVIOUS
    <2>1. Bad \in SUBSET Nat
        BY <1>1
    <2>2. PICK k \in Bad : \A m \in Bad : k <= m
        BY <2>1, Least
    <2>3. k \in 1 .. n + 1 /\ at[k] # to[k] /\ k # 1
        BY <1>2
    <2>4. /\ k - 1 \in 1 .. n /\ k - 1 \in 1 .. n + 1 /\ k - 1 \in 1 .. Len(fields)
          /\ (k - 1) + 1 = k /\ ~ (k <= k - 1)
        BY <1>1, <2>3
    <2>5. at[k - 1] = to[k - 1]
        BY <2>2, <2>4
    <2> QED
        BY <1>2, <2>3, <2>4, <2>5
<1> QED
    BY <1>3 DEF at, to

-----------------------------------------------------------------------------
(* Reading. *)

\* Both in the datagram and in the buffer of who receives it.
Whether(d, end) == end <= d.size /\ end <= Buffer - Header

\* A text, with its number of bytes.
IsText(t) == t = [v |-> t.v, n |-> t.n] /\ t.n \in Nat /\ (t.n = 0 => t.v = "")

\* At the offset of a field its value is found, if it was received whole, and no other.
LEMMA ReadField ==
    ASSUME NEW fields, Body(fields), NEW d, d.body = Layout(fields), NEW i \in 1 .. Len(fields)
    PROVE  Read(d, Offsets(fields)[i], fields[i].n) =
               IF Whether(d, Offsets(fields)[i] + fields[i].n) THEN {fields[i].v} ELSE {}
<1> DEFINE n == Len(fields)
           at == Offsets(fields)
<1>1. n \in Nat /\ (\A k \in 1 .. n : fields[k].n \in Nat /\ at[k] \in Nat)
    <2>1. n \in Nat /\ (\A k \in 1 .. n : fields[k].n \in Nat)
        BY DEF Body, Sized
    <2>2. \A k \in 1 .. n + 1 : at[k] \in Nat
        BY OffsetsStep
    <2> HIDE DEF at
    <2> QED
        BY <2>1, <2>2
<1>2. DOMAIN d.body = 1 .. n
      /\ \A k \in 1 .. n : d.body[k].at = at[k] /\ d.body[k].v = fields[k].v /\ d.body[k].n = fields[k].n
    <2>1. d.body = [k \in 1 .. n |-> [at |-> at[k], v |-> fields[k].v, n |-> fields[k].n]]
        BY DEF Layout, Body
    <2> HIDE DEF at, n
    <2> QED
        BY <2>1
<1>3. ASSUME NEW j \in 1 .. n, at[j] = at[i], fields[j].n = fields[i].n PROVE fields[j].v = fields[i].v
    <2>1. CASE fields[i].n = 0
        BY <1>3, <2>1 DEF Body, Sized
    <2>2. CASE fields[i].n # 0
        <3>1. i \in 1 .. n + 1 /\ j \in 1 .. n + 1
            BY <1>1
        <3>2. ~ (i < j)
            <4> SUFFICES ASSUME i < j PROVE FALSE
                OBVIOUS
            <4>1. at[i] + fields[i].n <= at[j]
                BY <3>1, OffsetsGrow
            <4> HIDE DEF at
            <4> QED
                BY <1>1, <1>3, <2>2, <4>1
        <3>3. ~ (j < i)
            <4> SUFFICES ASSUME j < i PROVE FALSE
                OBVIOUS
            <4>1. at[j] + fields[j].n <= at[i]
                BY <3>1, OffsetsGrow
            <4> HIDE DEF at
            <4> QED
                BY <1>1, <1>3, <2>2, <4>1
        <3> QED
            BY <1>1, <3>2, <3>3
    <2> QED
        BY <2>1, <2>2
<1>4. Read(d, at[i], fields[i].n) =
          {d.body[k].v : k \in {j \in 1 .. n : /\ at[j] = at[i] /\ fields[j].n = fields[i].n
                                               /\ Whether(d, at[i] + fields[i].n)}}
    BY <1>2 DEF Read, Whether
<1> HIDE DEF at
<1> QED
    BY <1>2, <1>3, <1>4 DEF at

\* A text is read as it was written, and a number too.
LEMMA ReadTextField ==
    ASSUME NEW fields, Body(fields), NEW d, d.body = Layout(fields), NEW i \in 1 .. Len(fields),
           IsText(fields[i])
    PROVE  ReadText(d, Offsets(fields)[i], fields[i].n) =
               IF Whether(d, Offsets(fields)[i] + fields[i].n) THEN fields[i] ELSE Garbage(fields[i].n)
<1> DEFINE a == Offsets(fields)[i]
           n == fields[i].n
           r == Read(d, a, n)
<1>1. r = IF Whether(d, a + n) THEN {fields[i].v} ELSE {}
    BY ReadField
<1>2. ReadText(d, a, n) = IF r = {} THEN Garbage(n) ELSE [v |-> CHOOSE x \in r : TRUE, n |-> n]
    BY DEF ReadText
<1>3. CASE Whether(d, a + n)
    <2>1. r = {fields[i].v} /\ (CHOOSE x \in r : TRUE) = fields[i].v
        BY <1>1, <1>3, Only
    <2>2. fields[i] = [v |-> fields[i].v, n |-> n]
        BY DEF IsText
    <2> HIDE DEF r, a, n
    <2>3. ReadText(d, a, n) = fields[i]
        BY <1>2, <2>1, <2>2
    <2> QED
        BY <1>3, <2>3 DEF a, n
<1>4. CASE ~ Whether(d, a + n)
    BY <1>1, <1>2, <1>4
<1> QED
    BY <1>3, <1>4

\* A number of 16 bits is read modulo 2^16.
LEMMA Read16Field ==
    ASSUME NEW fields, Body(fields), NEW d, d.body = Layout(fields), NEW i \in 1 .. Len(fields),
           NEW k \in Nat, fields[i] = Field16(k)
    PROVE  Read16(d, Offsets(fields)[i]) =
               IF Whether(d, Offsets(fields)[i] + 2) THEN {k % Range16} ELSE {}
<1> DEFINE a == Offsets(fields)[i]
           x == memcpy(byteswap(Int16(k)))
<1>1. fields[i].n = 2 /\ fields[i].v = x
    BY DEF Field16
<1>2. Read(d, a, 2) = IF Whether(d, a + 2) THEN {x} ELSE {}
    BY <1>1, ReadField
<1>3. Value(byteswap(memcpy(x))) = k % Range16
    BY Int16Value, Swapped
<1> HIDE DEF a, x
<1>4. Read16(d, a) = IF Whether(d, a + 2) THEN {k % Range16} ELSE {}
    BY <1>2, <1>3 DEF Read16
<1> QED
    BY <1>4 DEF a

\* The length in the header is that of the body, modulo 2^16.
LEMMA PacketSpec ==
    ASSUME NEW to, NEW type, NEW length \in Nat, NEW size, NEW fields
    PROVE  LET d == Packet(to, type, length, size, fields)
           IN /\ d.to = to /\ d.type = type /\ d.size = size /\ d.body = Layout(fields)
              /\ LengthOf(d) = length % Range16
              /\ length < Range16 => LengthOf(d) = length
<1> DEFINE d == Packet(to, type, length, size, fields)
<1>1. /\ d.to = to /\ d.type = type /\ d.size = size /\ d.body = Layout(fields)
      /\ d.length = memcpy(byteswap(Int16(length)))
    BY DEF Packet
<1> HIDE DEF d
<1>2. LengthOf(d) = length % Range16 /\ (length < Range16 => LengthOf(d) = length)
    BY <1>1, Int16Value, Swapped DEF LengthOf
<1> QED
    BY <1>1, <1>2 DEF d

-----------------------------------------------------------------------------
(* Requests. *)

\* A number of 16 bits and a flag are fields.
LEMMA FieldSpec ==
    /\ \A k : Field16(k).n = 2 /\ Sized(Field16(k))
    /\ \A t : IsText(t) => Sized(t)
    /\ \A t \in Text \cup Token : IsText(t)
<1>1. \A k : Field16(k).n = 2 /\ Sized(Field16(k))
    BY DEF Field16, Sized
<1>2. \A t : IsText(t) => Sized(t)
    BY DEF IsText, Sized
<1>3. ASSUME NEW t \in Text \cup Token PROVE IsText(t)
    <2>1. t \in [v : STRING, n : Nat] /\ (t.n = 0 => t.v = "")
        BY ConstantsOK
    <2>2. t = [v |-> t.v, n |-> t.n] /\ t.n \in Nat
        BY <2>1
    <2> QED
        BY <2>1, <2>2 DEF IsText
<1> QED
    BY <1>1, <1>2, <1>3

\* A body of one, three or four fields.
One(f, a) == Len(f) = 1 /\ DOMAIN f = 1 .. 1 /\ f[1] = a
Three(f, a, b, c) == Len(f) = 3 /\ DOMAIN f = 1 .. 3 /\ f[1] = a /\ f[2] = b /\ f[3] = c
Four(f, a, b, c, d) ==
    Len(f) = 4 /\ DOMAIN f = 1 .. 4 /\ f[1] = a /\ f[2] = b /\ f[3] = c /\ f[4] = d

\* What tuples written out have.
LEMMA Tuples ==
    /\ \A a : One(<<a>>, a)
    /\ \A a, b, c : Three(<<a, b, c>>, a, b, c)
    /\ \A a, b, c, d : Four(<<a, b, c, d>>, a, b, c, d)
<1>1. ASSUME NEW a PROVE One(<<a>>, a)
    BY DEF One
<1>2. ASSUME NEW a, NEW b, NEW c PROVE Three(<<a, b, c>>, a, b, c)
    BY DEF Three
<1>3. ASSUME NEW a, NEW b, NEW c, NEW d PROVE Four(<<a, b, c, d>>, a, b, c, d)
    BY DEF Four
<1> QED
    BY <1>1, <1>2, <1>3

\* A login or a request of the list: the body is one text.
LEMMA OneField ==
    ASSUME NEW t, Sized(t), NEW f, One(f, t)
    PROVE  Body(f) /\ Offsets(f)[1] = 0 /\ Bytes(f) = t.n
<1>1. Len(f) = 1 /\ DOMAIN f = 1 .. 1 /\ f[1] = t
    BY DEF One
<1>2. t.n \in Nat
    BY DEF Sized
<1>3. Body(f)
    <2>1. \A i \in 1 .. Len(f) : i = 1
        BY <1>1
    <2>2. \A i \in 1 .. Len(f) : Sized(f[i])
        BY <1>1, <2>1
    <2>3. Len(f) \in Nat /\ DOMAIN f = 1 .. Len(f)
        BY <1>1
    <2> QED
        BY <2>2, <2>3 DEF Body
<1>4. Offsets(f)[1] = 0 /\ Offsets(f)[1 + 1] = Offsets(f)[1] + t.n
    <2>1. 1 \in 1 .. Len(f)
        BY <1>1
    <2> QED
        BY <1>1, <1>3, <2>1, OffsetsStep
<1>5. Bytes(f) = Offsets(f)[2]
    BY <1>1 DEF Bytes
<1> QED
    BY <1>2, <1>3, <1>4, <1>5

\* A call or an endpoint's name: three fields.
LEMMA ThreeFields ==
    ASSUME NEW a, NEW b, NEW c, NEW f, Three(f, a, b, c),
           Sized(a), Sized(b), Sized(c)
    PROVE  /\ Body(f) /\ Bytes(f) = a.n + b.n + c.n
           /\ Offsets(f)[1] = 0 /\ Offsets(f)[2] = a.n /\ Offsets(f)[3] = a.n + b.n
<1>1. Len(f) = 3 /\ DOMAIN f = 1 .. 3 /\ f[1] = a /\ f[2] = b /\ f[3] = c
    BY DEF Three
<1>2. a.n \in Nat /\ b.n \in Nat /\ c.n \in Nat
    BY DEF Sized
<1>3. Body(f)
    <2>1. \A i \in 1 .. Len(f) : Sized(f[i])
        <3>1. \A i \in 1 .. Len(f) : i = 1 \/ i = 2 \/ i = 3
            BY <1>1
        <3> QED
            BY <1>1, <3>1
    <2>2. Len(f) \in Nat /\ DOMAIN f = 1 .. Len(f)
        BY <1>1
    <2> QED
        BY <2>1, <2>2 DEF Body
<1>4. /\ Offsets(f)[1] = 0 /\ Offsets(f)[1 + 1] = Offsets(f)[1] + a.n
      /\ Offsets(f)[2 + 1] = Offsets(f)[2] + b.n /\ Offsets(f)[3 + 1] = Offsets(f)[3] + c.n
    <2>1. 1 \in 1 .. Len(f) /\ 2 \in 1 .. Len(f) /\ 3 \in 1 .. Len(f)
        BY <1>1
    <2> QED
        BY <1>1, <1>3, <2>1, OffsetsStep
<1>5. Bytes(f) = Offsets(f)[4]
    BY <1>1 DEF Bytes
<1> QED
    BY <1>2, <1>3, <1>4, <1>5

\* A consent: four fields.
LEMMA FourFields ==
    ASSUME NEW a, NEW b, NEW c, NEW d, NEW f, Four(f, a, b, c, d),
           Sized(a), Sized(b), Sized(c), Sized(d)
    PROVE  /\ Body(f) /\ Bytes(f) = a.n + b.n + c.n + d.n
           /\ Offsets(f)[1] = 0 /\ Offsets(f)[2] = a.n /\ Offsets(f)[3] = a.n + b.n
           /\ Offsets(f)[4] = a.n + b.n + c.n
<1>1. Len(f) = 4 /\ DOMAIN f = 1 .. 4 /\ f[1] = a /\ f[2] = b /\ f[3] = c /\ f[4] = d
    BY DEF Four
<1>2. a.n \in Nat /\ b.n \in Nat /\ c.n \in Nat /\ d.n \in Nat
    BY DEF Sized
<1>3. Body(f)
    <2>1. \A i \in 1 .. Len(f) : Sized(f[i])
        <3>1. \A i \in 1 .. Len(f) : i = 1 \/ i = 2 \/ i = 3 \/ i = 4
            BY <1>1
        <3> QED
            BY <1>1, <3>1
    <2>2. Len(f) \in Nat /\ DOMAIN f = 1 .. Len(f)
        BY <1>1
    <2> QED
        BY <2>1, <2>2 DEF Body
<1>4. /\ Offsets(f)[1] = 0 /\ Offsets(f)[1 + 1] = Offsets(f)[1] + a.n
      /\ Offsets(f)[2 + 1] = Offsets(f)[2] + b.n /\ Offsets(f)[3 + 1] = Offsets(f)[3] + c.n
      /\ Offsets(f)[4 + 1] = Offsets(f)[4] + d.n
    <2>1. 1 \in 1 .. Len(f) /\ 2 \in 1 .. Len(f) /\ 3 \in 1 .. Len(f) /\ 4 \in 1 .. Len(f)
        BY <1>1
    <2> QED
        BY <1>1, <1>3, <2>1, OffsetsStep
<1>5. Bytes(f) = Offsets(f)[5]
    BY <1>1 DEF Bytes
<1> QED
    BY <1>2, <1>3, <1>4, <1>5

\* The datagram of a request, which its reader has whole if it fits.
LEMMA RequestSpec ==
    ASSUME NEW r, NEW k \in Nat, k = Bytes(Payload(r)), k < Range16
    PROVE  LET d == MakeRequest(r)
           IN /\ d.to = "server" /\ d.type = r.type /\ d.size = k /\ d.body = Layout(Payload(r))
              /\ LengthOf(d) = k
              /\ Fits(Payload(r)) => \A e \in Nat : e <= k => Whether(d, e)
<1> DEFINE d == MakeRequest(r)
<1>1. /\ d.to = "server" /\ d.type = r.type /\ d.size = k /\ d.body = Layout(Payload(r))
      /\ LengthOf(d) = k
    BY PacketSpec DEF MakeRequest
<1> HIDE DEF d
<1>2. Fits(Payload(r)) => \A e \in Nat : e <= k => Whether(d, e)
    BY <1>1 DEF Fits, Whether, Header, Buffer
<1> QED
    BY <1>1, <1>2 DEF d

\* A login.
LEMMA LoginRead ==
    ASSUME NEW t, IsText(t), t.n < Range16
    PROVE  LET r == BindingAttribute(t)
           IN /\ Bytes(Payload(r)) = t.n
              /\ t.n = 0 => parseRequest(MakeRequest(r)) = BadRequest("Empty body")
              /\ t.n # 0 => parseRequest(MakeRequest(r)) \in
                                {BindingAttribute(t), BindingAttribute(Garbage(t.n))}
              /\ t.n # 0 /\ Fits(Payload(r)) => parseRequest(MakeRequest(r)) = r
<1> DEFINE r == BindingAttribute(t)
           f == Payload(r)
           d == MakeRequest(r)
<1>1. r.type = "BindingRequest" /\ r.clientName = t
    BY DEF BindingAttribute
<1>2. f = <<t>>
    BY <1>1 DEF Payload
<1>3. Body(f) /\ Offsets(f)[1] = 0 /\ Bytes(f) = t.n /\ f[1] = t /\ Len(f) = 1
    BY <1>2, Tuples, FieldSpec, OneField DEF One
<1>4. IsText(t) /\ t.n \in Nat
    BY DEF IsText
<1>5. /\ d.type = r.type /\ d.body = Layout(f) /\ LengthOf(d) = t.n
      /\ Fits(f) => \A e \in Nat : e <= t.n => Whether(d, e)
    BY <1>3, <1>4, RequestSpec
<1> HIDE DEF f, d, r
<1>6. ReadText(d, 0, t.n) = IF Whether(d, 0 + t.n) THEN t ELSE Garbage(t.n)
    <2>1. 1 \in 1 .. Len(f)
        BY <1>3
    <2> QED
        BY <1>3, <1>4, <1>5, <2>1, ReadTextField
<1>7. Rest(d, 0) = ReadText(d, 0, t.n)
    BY <1>4, <1>5 DEF Rest
<1>8. parseRequest(d) = IF t.n = 0 THEN BadRequest("Empty body") ELSE BindingAttribute(Rest(d, 0))
    BY <1>1, <1>5 DEF parseRequest
<1>9. Fits(f) => Whether(d, 0 + t.n)
    BY <1>4, <1>5
<1> QED
    BY <1>3, <1>6, <1>7, <1>8, <1>9 DEF r, d, f

\* A request of the list.
LEMMA ListRequestRead ==
    ASSUME NEW t, IsText(t), t.n < Range16
    PROVE  LET r == GetConnectedList(t)
           IN /\ Bytes(Payload(r)) = t.n
              /\ Fits(Payload(r)) => parseRequest(MakeRequest(r)) = r
<1> DEFINE r == GetConnectedList(t)
           f == Payload(r)
           d == MakeRequest(r)
<1>1. r.type = "GetConnectedList" /\ r.jwtToken = t
    BY DEF GetConnectedList
<1>2. f = <<t>>
    BY <1>1 DEF Payload
<1>3. Body(f) /\ Offsets(f)[1] = 0 /\ Bytes(f) = t.n /\ f[1] = t /\ Len(f) = 1
    BY <1>2, Tuples, FieldSpec, OneField DEF One
<1>4. IsText(t) /\ t.n \in Nat
    BY DEF IsText
<1>5. /\ d.type = r.type /\ d.body = Layout(f) /\ LengthOf(d) = t.n
      /\ Fits(f) => \A e \in Nat : e <= t.n => Whether(d, e)
    BY <1>3, <1>4, RequestSpec
<1> HIDE DEF f, d, r
<1>6. ReadText(d, 0, t.n) = IF Whether(d, 0 + t.n) THEN t ELSE Garbage(t.n)
    <2>1. 1 \in 1 .. Len(f)
        BY <1>3
    <2> QED
        BY <1>3, <1>4, <1>5, <2>1, ReadTextField
<1>7. Rest(d, 0) = ReadText(d, 0, t.n)
    BY <1>4, <1>5 DEF Rest
<1>8. parseRequest(d) = GetConnectedList(Rest(d, 0))
    BY <1>1, <1>5 DEF parseRequest
<1>9. Fits(f) => Whether(d, 0 + t.n)
    BY <1>4, <1>5
<1> QED
    BY <1>3, <1>6, <1>7, <1>8, <1>9 DEF r, d, f

\* A call.
LEMMA CallRead ==
    ASSUME NEW t, IsText(t), NEW u, IsText(u), 2 + t.n + u.n < Range16
    PROVE  LET r == ConnectToClientAttribute(t, u)
           IN /\ Bytes(Payload(r)) = 2 + t.n + u.n
              /\ Fits(Payload(r)) => parseRequest(MakeRequest(r)) = r
<1> DEFINE r == ConnectToClientAttribute(t, u)
           f == Payload(r)
           d == MakeRequest(r)
           k == 2 + t.n + u.n
<1>1. r.type = "ConnectToClient" /\ r.jwtToken = t /\ r.clientNameToConnect = u
    BY DEF ConnectToClientAttribute
<1>2. f = <<Field16(t.n), t, u>>
    BY <1>1 DEF Payload
<1>3. /\ Body(f) /\ Bytes(f) = k /\ Len(f) = 3 /\ f[1] = Field16(t.n) /\ f[2] = t /\ f[3] = u
      /\ Offsets(f)[1] = 0 /\ Offsets(f)[2] = 2 /\ Offsets(f)[3] = 2 + t.n
    BY <1>2, Tuples, FieldSpec, ThreeFields DEF Three
<1>4. IsText(t) /\ IsText(u) /\ t.n \in Nat /\ u.n \in Nat
    BY DEF IsText
<1>5. /\ d.type = r.type /\ d.body = Layout(f) /\ LengthOf(d) = k
      /\ Fits(f) => \A e \in Nat : e <= k => Whether(d, e)
    BY <1>3, <1>4, RequestSpec
<1> HIDE DEF f, d, r
<1>6. ASSUME Fits(f)
      PROVE  /\ Read16(d, 0) = {t.n} /\ ReadText(d, 2, t.n) = t /\ ReadText(d, 2 + t.n, u.n) = u
    <2>1. 1 \in 1 .. Len(f) /\ 2 \in 1 .. Len(f) /\ 3 \in 1 .. Len(f)
        BY <1>3
    <2>2. Whether(d, 0 + 2) /\ Whether(d, 2 + t.n) /\ Whether(d, 2 + t.n + u.n)
        BY <1>4, <1>5, <1>6
    <2>3. t.n % Range16 = t.n
        <3>1. t.n < Range16
            BY <1>4 DEF Range16
        <3> QED
            BY <1>4, <3>1, Int16Value
    <2>4. Read16(d, 0) = {t.n}
        <3>1. Read16(d, Offsets(f)[1]) =
                  IF Whether(d, Offsets(f)[1] + 2) THEN {t.n % Range16} ELSE {}
            BY <1>4, <1>3, <1>5, <2>1, Read16Field
        <3> QED
            BY <1>3, <2>2, <2>3, <3>1
    <2>5. ReadText(d, 2, t.n) = t
        BY <1>3, <1>4, <1>5, <2>1, <2>2, ReadTextField
    <2>6. ReadText(d, 2 + t.n, u.n) = u
        BY <1>3, <1>4, <1>5, <2>1, <2>2, ReadTextField
    <2> QED
        BY <2>4, <2>5, <2>6
<1>7. ASSUME Fits(f) PROVE parseRequest(d) = r
    <2>1. TokenSize(d) = t.n
        BY <1>6, <1>7, Only DEF TokenSize
    <2>2. Rest(d, 2 + t.n) = u
        <3>1. k - (2 + t.n) = u.n
            BY <1>4
        <3> QED
            BY <1>5, <1>6, <1>7, <3>1 DEF Rest
    <2>3. ~ (LengthOf(d) < 2 + 0) /\ ~ (LengthOf(d) < 2 + TokenSize(d) + 0)
        BY <1>4, <1>5, <2>1
    <2>4. parseRequest(d) = parseCall(d)
        BY <1>1, <1>5 DEF parseRequest
    <2>5. parseCall(d) = Checked(d, 0, ConnectToClientAttribute(t, u))
        BY <1>6, <1>7, <2>1, <2>2 DEF parseCall
    <2>6. Checked(d, 0, ConnectToClientAttribute(t, u)) = ConnectToClientAttribute(t, u)
        BY <2>3 DEF Checked
    <2> QED
        BY <2>4, <2>5, <2>6 DEF r
<1> QED
    BY <1>3, <1>7 DEF r, d, f

\* A consent.
LEMMA ConsentRead ==
    ASSUME NEW t, IsText(t), NEW u, IsText(u), NEW a \in BOOLEAN, 3 + t.n + u.n < Range16
    PROVE  LET r == ConnectConsent(t, u, a)
           IN /\ Bytes(Payload(r)) = 3 + t.n + u.n
              /\ Fits(Payload(r)) => parseRequest(MakeRequest(r)) = r
<1> DEFINE r == ConnectConsent(t, u, a)
           f == Payload(r)
           d == MakeRequest(r)
           k == 3 + t.n + u.n
           flag == [v |-> <<IF a THEN 1 ELSE 0>>, n |-> 1]
<1>1. r.type = "ConnectConsent" /\ r.jwtToken = t /\ r.targetName = u /\ r.isAccepted = a
    BY DEF ConnectConsent
<1>2. f = <<Field16(t.n), t, flag, u>>
    BY <1>1 DEF Payload
<1>3. flag.n = 1 /\ Sized(flag) /\ flag.v = <<IF a THEN 1 ELSE 0>>
    BY DEF Sized
<1>4. IsText(t) /\ IsText(u) /\ t.n \in Nat /\ u.n \in Nat
    BY DEF IsText
<1> HIDE DEF f, d, r, flag
<1>5. /\ Body(f) /\ Bytes(f) = k /\ Len(f) = 4
      /\ f[1] = Field16(t.n) /\ f[2] = t /\ f[3] = flag /\ f[4] = u
      /\ Offsets(f)[1] = 0 /\ Offsets(f)[2] = 2 /\ Offsets(f)[3] = 2 + t.n /\ Offsets(f)[4] = 3 + t.n
    <2>1. Four(f, Field16(t.n), t, flag, u)
        BY <1>2, Tuples
    <2>2. Sized(Field16(t.n)) /\ Sized(t) /\ Sized(u) /\ Field16(t.n).n = 2
        BY FieldSpec
    <2>3. /\ Body(f) /\ Bytes(f) = 2 + t.n + 1 + u.n
          /\ Offsets(f)[1] = 0 /\ Offsets(f)[2] = 2 /\ Offsets(f)[3] = 2 + t.n
          /\ Offsets(f)[4] = 2 + t.n + 1
        BY <1>3, <2>1, <2>2, FourFields
    <2>4. 2 + t.n + 1 = 3 + t.n /\ 2 + t.n + 1 + u.n = k
        BY <1>4
    <2> QED
        BY <2>1, <2>3, <2>4 DEF Four
<1>6. /\ d.type = r.type /\ d.body = Layout(f) /\ LengthOf(d) = k
      /\ Fits(f) => \A e \in Nat : e <= k => Whether(d, e)
    BY <1>4, <1>5, RequestSpec DEF d, f
<1>7. ASSUME Fits(f)
      PROVE  /\ Read16(d, 0) = {t.n} /\ ReadText(d, 2, t.n) = t
             /\ Read(d, 2 + t.n, 1) = {flag.v} /\ ReadText(d, 3 + t.n, u.n) = u
    <2>1. 1 \in 1 .. Len(f) /\ 2 \in 1 .. Len(f) /\ 3 \in 1 .. Len(f) /\ 4 \in 1 .. Len(f)
        BY <1>5
    <2>2. /\ Whether(d, 0 + 2) /\ Whether(d, 2 + t.n) /\ Whether(d, 2 + t.n + 1)
          /\ Whether(d, 3 + t.n + u.n)
        BY <1>4, <1>6, <1>7
    <2>3. t.n % Range16 = t.n
        <3>1. t.n < Range16
            BY <1>4 DEF Range16
        <3> QED
            BY <1>4, <3>1, Int16Value
    <2>4. Read16(d, 0) = {t.n}
        <3>1. Read16(d, Offsets(f)[1]) =
                  IF Whether(d, Offsets(f)[1] + 2) THEN {t.n % Range16} ELSE {}
            BY <1>4, <1>5, <1>6, <2>1, Read16Field
        <3> QED
            BY <1>5, <2>2, <2>3, <3>1
    <2>5. ReadText(d, 2, t.n) = t
        BY <1>4, <1>5, <1>6, <2>1, <2>2, ReadTextField
    <2>6. ReadText(d, 3 + t.n, u.n) = u
        BY <1>4, <1>5, <1>6, <2>1, <2>2, ReadTextField
    <2>7. Read(d, 2 + t.n, 1) = {flag.v}
        BY <1>3, <1>5, <1>6, <2>1, <2>2, ReadField
    <2> QED
        BY <2>4, <2>5, <2>6, <2>7
<1>8. ASSUME Fits(f) PROVE parseRequest(d) = r
    <2>1. TokenSize(d) = t.n
        BY <1>7, <1>8, Only DEF TokenSize
    <2>2. Rest(d, 3 + t.n) = u
        <3>1. k - (3 + t.n) = u.n
            BY <1>4
        <3> QED
            BY <1>6, <1>7, <1>8, <3>1 DEF Rest
    <2>3. ~ (LengthOf(d) < 2 + 1) /\ ~ (LengthOf(d) < 2 + TokenSize(d) + 1)
        BY <1>4, <1>6, <2>1
    <2>4. (Read(d, 2 + t.n, 1) # {<<0>>}) = a
        <3>1. CASE a
            <4>1. flag.v = <<1>> /\ <<1>> # <<0>>
                BY <1>3, <3>1
            <4>2. {flag.v} # {<<0>>}
                BY <4>1
            <4> QED
                BY <1>7, <1>8, <3>1, <4>2
        <3>2. CASE ~ a
            <4>1. flag.v = <<0>>
                BY <1>3, <3>2
            <4> QED
                BY <1>7, <1>8, <3>2, <4>1
        <3> QED
            BY <3>1, <3>2
    <2>5. parseRequest(d) = parseConsent(d)
        BY <1>1, <1>6 DEF parseRequest
    <2>6. parseConsent(d) = Checked(d, 1, ConnectConsent(t, u, a))
        BY <1>7, <1>8, <2>1, <2>2, <2>4 DEF parseConsent
    <2>7. Checked(d, 1, ConnectConsent(t, u, a)) = ConnectConsent(t, u, a)
        BY <2>3 DEF Checked
    <2> QED
        BY <2>5, <2>6, <2>7 DEF r
<1> QED
    BY <1>5, <1>8 DEF r, d, f

-----------------------------------------------------------------------------
(* Responses but for lists. *)

\* The names the server remembers, and its errors, are texts.
LEMMA NameSpec ==
    /\ \A x \in Name : IsText(x) /\ x.n < Range16
    /\ \A x \in {NotFound, Rejected, Unauthorized, InternalError} : IsText(x) /\ x.n < Range16
<1>1. ASSUME NEW x \in Name PROVE IsText(x) /\ x.n < Range16
    <2>1. x \in [v : STRING, n : 0 .. MaxUdp - Header] /\ (x.n = 0 => x.v = "")
        BY Zenon DEF Name
    <2>2. x.n \in 0 .. MaxUdp - Header /\ x = [v |-> x.v, n |-> x.n]
        BY <2>1, Zenon
    <2>3. x.n \in Nat /\ x.n < Range16
        <3>1. \A m \in 0 .. MaxUdp - Header : m \in Nat /\ m < Range16
            BY DEF MaxUdp, Header, Range16
        <3> QED
            BY <2>2, <3>1, Zenon
    <2> QED
        BY <2>1, <2>2, <2>3, Zenon DEF IsText
<1>3. IsText(NotFound) /\ NotFound.n = 16
    BY DEF NotFound, IsText
<1>4. IsText(Rejected) /\ Rejected.n = 27
    BY DEF Rejected, IsText
<1>5. IsText(Unauthorized) /\ Unauthorized.n = 38
    BY DEF Unauthorized, IsText
<1>6. IsText(InternalError) /\ InternalError.n = 21
    BY DEF InternalError, IsText
<1>7. 16 < Range16 /\ 27 < Range16 /\ 38 < Range16 /\ 21 < Range16
    BY DEF Range16
<1> QED
    BY <1>1, <1>3, <1>4, <1>5, <1>6, <1>7

\* The length in the header is that of the body, also where it was counted by hand.
LEMMA ResponseSpec ==
    ASSUME NEW r, r.type # "SuccessConnectedList", NEW k \in Nat, k = Bytes(Fields(r)), k < Range16,
           r.type = "Error" => k = r.error.n
    PROVE  LET d == parseStunMessageToRaw(r)
           IN /\ d.to = "client" /\ d.type = r.type /\ d.size = k /\ d.body = Layout(Fields(r))
              /\ LengthOf(d) = k
              /\ \A e \in Nat : e <= k /\ e <= 1004 => Whether(d, e)
              /\ Fits(Fields(r)) => k <= 1004
<1> DEFINE d == parseStunMessageToRaw(r)
<1>1. messageLength(r) = k
    <2>1. k % Range16 = k
        BY Int16Value
    <2> NotFound.n = 16 /\ Rejected.n = 27
        BY DEF NotFound, Rejected
    <2>2. CASE r.type = "Error" /\ r.error = NotFound
        <3>1. k = 16
            BY <2>2
        <3> QED
            BY <2>2, <3>1 DEF messageLength
    <2>3. CASE r.type = "Error" /\ r.error = Rejected
        <3>1. r.error # NotFound /\ k = 27
            BY <2>3
        <3> QED
            BY <2>3, <3>1 DEF messageLength
    <2>4. CASE ~ (r.type = "Error" /\ r.error = NotFound) /\ ~ (r.type = "Error" /\ r.error = Rejected)
        BY <2>1, <2>4 DEF messageLength
    <2> QED
        BY <2>2, <2>3, <2>4
<1>2. d = Packet("client", r.type, k, k, Fields(r))
    BY <1>1 DEF parseStunMessageToRaw
<1>3. /\ d.to = "client" /\ d.type = r.type /\ d.size = k /\ d.body = Layout(Fields(r))
      /\ LengthOf(d) = k
    BY <1>2, PacketSpec
<1> HIDE DEF d
<1>4. \A e \in Nat : e <= k /\ e <= 1004 => Whether(d, e)
    BY <1>3 DEF Whether, Header, Buffer
<1>5. Fits(Fields(r)) => k <= 1004
    BY DEF Fits, Header, Buffer
<1> QED
    BY <1>3, <1>4, <1>5 DEF d

\* Two fields and one more.
LEMMA TwoAndOne == ASSUME NEW a, NEW b, NEW c PROVE Three(<<a, b>> \o <<c>>, a, b, c)
<1>1. Len(<<a, b>> \o <<c>>) = 3 /\ DOMAIN (<<a, b>> \o <<c>>) = 1 .. 3
    OBVIOUS
<1>2. (<<a, b>> \o <<c>>)[1] = a /\ (<<a, b>> \o <<c>>)[2] = b /\ (<<a, b>> \o <<c>>)[3] = c
    OBVIOUS
<1> QED
    BY <1>1, <1>2 DEF Three

\* The bytes of a port and of an address are sequences.
LEMMA EndpointBytes ==
    ASSUME NEW e \in Endpoint
    PROVE  /\ e.address \in Seq(Byte) /\ e.port \in Seq(Byte)
           /\ e = [address |-> e.address, port |-> e.port]
<1>1. e \in [address : [1 .. 4 -> Byte], port : [1 .. 2 -> Byte]]
    BY ConstantsOK
<1>2. e.address \in [1 .. 4 -> Byte] /\ e.port \in [1 .. 2 -> Byte]
      /\ e = [address |-> e.address, port |-> e.port]
    BY <1>1
<1> HIDE DEF Byte
<1>3. \A n \in Nat : [1 .. n -> Byte] \subseteq Seq(Byte)
    BY SeqDef
<1> QED
    BY <1>2, <1>3

\* The two fields of an endpoint, and the text after it.
Introduces(f, e, t) == Three(f, [v |-> e.port, n |-> 2], [v |-> e.address, n |-> 4], t)

\* What the handlers write for an endpoint, its bytes swapped in one way or another.
LEMMA EndpointWritten ==
    ASSUME NEW e \in Endpoint, NEW t, NEW r, r.endpoint = e
    PROVE  Introduces(EndpointFields(r) \o <<t>>, e, t)
<1> DEFINE p == [v |-> e.port, n |-> 2]
           a == [v |-> e.address, n |-> 4]
<1>2. e.address \in Seq(Byte) /\ e.port \in Seq(Byte)
    BY EndpointBytes
<1>3. FieldPort(e) = p
    BY <1>2, ReverseTwice DEF FieldPort, memcpy, byteswap
<1>4. memcpy(AddressOf(r)) = e.address
    BY <1>2, ReverseTwice DEF AddressOf, memcpy, byteswap
<1>5. EndpointFields(r) = <<p, a>>
    BY <1>3, <1>4 DEF EndpointFields
<1> HIDE DEF p, a
<1>6. Three(EndpointFields(r) \o <<t>>, p, a, t)
    BY <1>5, TwoAndOne
<1> QED
    BY <1>6 DEF Introduces, p, a

\* Where the three fields are.
LEMMA EndpointFieldsSpec ==
    ASSUME NEW e, NEW t, IsText(t), NEW f, Introduces(f, e, t)
    PROVE  /\ Body(f) /\ Bytes(f) = 6 + t.n /\ Len(f) = 3 /\ f[3] = t
           /\ f[1] = [v |-> e.port, n |-> 2] /\ f[2] = [v |-> e.address, n |-> 4]
           /\ Offsets(f)[1] = 0 /\ Offsets(f)[2] = 2 /\ Offsets(f)[3] = 6
<1> DEFINE p == [v |-> e.port, n |-> 2]
           a == [v |-> e.address, n |-> 4]
<1>6. p.n = 2 /\ a.n = 4 /\ Sized(p) /\ Sized(a) /\ Sized(t) /\ t.n \in Nat
    <2>1. p.n = 2 /\ a.n = 4
        OBVIOUS
    <2>2. Sized(p) /\ Sized(a)
        BY <2>1 DEF Sized
    <2>3. Sized(t) /\ t.n \in Nat
        BY FieldSpec DEF Sized
    <2> QED
        BY <2>1, <2>2, <2>3
<1>8. Three(f, p, a, t)
    BY DEF Introduces
<1> HIDE DEF p, a
<1>9. /\ Body(f) /\ Bytes(f) = 2 + 4 + t.n
      /\ Offsets(f)[1] = 0 /\ Offsets(f)[2] = 2 /\ Offsets(f)[3] = 2 + 4
    BY <1>6, <1>8, ThreeFields
<1>10. Len(f) = 3 /\ f[1] = p /\ f[2] = a /\ f[3] = t
    BY <1>8 DEF Three
<1> QED
    BY <1>6, <1>9, <1>10 DEF p, a

\* The endpoint is read as it was meant, whatever follows it, and what follows if it fits.
LEMMA EndpointRead ==
    ASSUME NEW e \in Endpoint, NEW t, IsText(t), NEW r, r.endpoint = e, 6 + t.n < Range16,
           r.type # "SuccessConnectedList", r.type # "Error", Introduces(Fields(r), e, t)
    PROVE  LET d == parseStunMessageToRaw(r)
           IN /\ Bytes(Fields(r)) = 6 + t.n /\ d.type = r.type /\ ReadEndpoint(d) = e
              /\ Fits(Fields(r)) => Rest(d, 6) = t
<1> DEFINE f == Fields(r)
           d == parseStunMessageToRaw(r)
           k == 6 + t.n
<1>1. /\ Body(f) /\ Bytes(f) = k /\ Len(f) = 3 /\ f[3] = t
      /\ f[1] = [v |-> e.port, n |-> 2] /\ f[2] = [v |-> e.address, n |-> 4]
      /\ Offsets(f)[1] = 0 /\ Offsets(f)[2] = 2 /\ Offsets(f)[3] = 6
    BY EndpointFieldsSpec
<1>2. IsText(t) /\ t.n \in Nat
    BY DEF IsText
<1>3. /\ d.type = r.type /\ d.body = Layout(f) /\ LengthOf(d) = k
      /\ \A x \in Nat : x <= k /\ x <= 1004 => Whether(d, x)
      /\ Fits(f) => k <= 1004
    <2>1. k \in Nat /\ k = Bytes(Fields(r)) /\ k < Range16
        BY <1>1, <1>2
    <2>2. r.type # "SuccessConnectedList" /\ (r.type = "Error" => k = r.error.n)
        OBVIOUS
    <2> HIDE DEF k
    <2> QED
        BY <2>1, <2>2, ResponseSpec
<1> HIDE DEF d, f
<1>4. 1 \in 1 .. Len(f) /\ 2 \in 1 .. Len(f) /\ 3 \in 1 .. Len(f)
    BY <1>1
<1>5. Whether(d, 0 + 2) /\ Whether(d, 2 + 4) /\ (Fits(f) => Whether(d, 6 + t.n))
    BY <1>2, <1>3
<1>6. Read(d, 0, 2) = {e.port}
    <2>1. f[1].n = 2 /\ f[1].v = e.port
        BY <1>1
    <2>2. Read(d, Offsets(f)[1], f[1].n) =
              IF Whether(d, Offsets(f)[1] + f[1].n) THEN {f[1].v} ELSE {}
        BY <1>1, <1>3, <1>4, ReadField
    <2> QED
        BY <1>1, <1>5, <2>1, <2>2
<1>7. Read(d, 2, 4) = {e.address}
    <2>1. f[2].n = 4 /\ f[2].v = e.address
        BY <1>1
    <2>2. Read(d, Offsets(f)[2], f[2].n) =
              IF Whether(d, Offsets(f)[2] + f[2].n) THEN {f[2].v} ELSE {}
        BY <1>1, <1>3, <1>4, ReadField
    <2> QED
        BY <1>1, <1>5, <2>1, <2>2
<1>8. ReadEndpoint(d) = e
    <2>2. e.address \in Seq(Byte) /\ e.port \in Seq(Byte)
          /\ e = [address |-> e.address, port |-> e.port]
        BY EndpointBytes
    <2>3. byteswap(memcpy(e.port)) = e.port /\ makeStrAddress(memcpy(e.address)) = e.address
        BY <2>2, Swapped DEF makeStrAddress
    <2>4. ReadEndpoint(d) = [port |-> e.port, address |-> e.address]
        BY <1>6, <1>7, <2>3, Only DEF ReadEndpoint
    <2> QED
        BY <2>2, <2>4
<1>9. ASSUME Fits(f) PROVE Rest(d, 6) = t
    <2>1. k - 6 = t.n /\ IsText(f[3])
        BY <1>1, <1>2
    <2>2. ReadText(d, Offsets(f)[3], f[3].n) =
              IF Whether(d, Offsets(f)[3] + f[3].n) THEN f[3] ELSE Garbage(f[3].n)
        <3>1. Body(f) /\ d.body = Layout(f) /\ 3 \in 1 .. Len(f)
            BY <1>1, <1>3, <1>4
        <3>2. IsText(f[3])
            BY <2>1
        <3> QED
            BY <3>1, <3>2, ReadTextField, Zenon
    <2>3. ReadText(d, 6, t.n) = t
        BY <1>1, <1>5, <1>9, <2>2
    <2> QED
        BY <1>3, <2>1, <2>3 DEF Rest
<1> QED
    BY <1>1, <1>3, <1>8, <1>9 DEF d, f

\* A response of one text.
LEMMA TextRead ==
    ASSUME NEW t, IsText(t), NEW r, t.n < Range16, Fields(r) = <<t>>,
           r.type # "SuccessConnectedList", r.type = "Error" => r.error = t
    PROVE  LET d == parseStunMessageToRaw(r)
           IN /\ Bytes(Fields(r)) = t.n /\ d.type = r.type
              /\ Fits(Fields(r)) => Rest(d, 0) = t
<1> DEFINE f == Fields(r)
           d == parseStunMessageToRaw(r)
<1>1. Body(f) /\ Offsets(f)[1] = 0 /\ Bytes(f) = t.n /\ f[1] = t /\ Len(f) = 1
    <2>1. One(f, t) /\ Sized(t)
        BY Tuples, FieldSpec
    <2> HIDE DEF f
    <2>2. Body(f) /\ Offsets(f)[1] = 0 /\ Bytes(f) = t.n
        BY <2>1, OneField
    <2> QED
        BY <2>1, <2>2 DEF One
<1>2. t.n \in Nat /\ t.n = Bytes(Fields(r)) /\ (r.type = "Error" => t.n = r.error.n)
    BY <1>1 DEF IsText
<1>3. /\ d.type = r.type /\ d.body = Layout(f) /\ LengthOf(d) = t.n
      /\ \A x \in Nat : x <= t.n /\ x <= 1004 => Whether(d, x)
      /\ Fits(f) => t.n <= 1004
    BY <1>2, ResponseSpec
<1> HIDE DEF d, f
<1>4. ReadText(d, 0, t.n) = IF Whether(d, 0 + t.n) THEN t ELSE Garbage(t.n)
    <2>1. 1 \in 1 .. Len(f) /\ IsText(f[1])
        BY <1>1
    <2>2. ReadText(d, Offsets(f)[1], f[1].n) =
              IF Whether(d, Offsets(f)[1] + f[1].n) THEN f[1] ELSE Garbage(f[1].n)
        BY <1>1, <1>3, <2>1, ReadTextField
    <2> QED
        BY <1>1, <2>2
<1>5. Rest(d, 0) = ReadText(d, 0, t.n)
    BY <1>2, <1>3 DEF Rest
<1>6. Fits(f) => Whether(d, 0 + t.n)
    BY <1>2, <1>3
<1> QED
    BY <1>1, <1>3, <1>4, <1>5, <1>6 DEF d, f

-----------------------------------------------------------------------------
(* Lists as they are written. *)

\* Even and odd places.
LEMMA Places ==
    ASSUME NEW i \in Nat
    PROVE  /\ (2 * i) % 2 = 0 /\ (2 * i) \div 2 = i
           /\ (2 * i + 1) % 2 # 0 /\ (2 * i + 1) \div 2 = i
OBVIOUS

\* Every place after the first is that of a size or of a name.
LEMMA Halves ==
    ASSUME NEW n \in Nat, NEW j \in 2 .. 2 * n + 1
    PROVE  \E i \in 1 .. n : j = 2 * i \/ j = 2 * i + 1
<1>1. PICK i \in Nat : i = j \div 2 /\ (j = 2 * i \/ j = 2 * i + 1)
    OBVIOUS
<1>2. i \in 1 .. n
    BY <1>1
<1> QED
    BY <1>1, <1>2

\* The number of names, and each name after its size.
LEMMA ListFieldsSpec ==
    ASSUME NEW ns \in Seq(Name)
    PROVE  LET f == ListFields(ns)
           IN /\ Body(f) /\ Len(f) = 2 * Len(ns) + 1 /\ f[1] = Field16(Len(ns))
              /\ \A i \in 1 .. Len(ns) : /\ f[2 * i] = Field16(ns[i].n) /\ f[2 * i + 1] = ns[i]
                                         /\ ns[i].n \in Nat /\ ns[i].n < Range16
                                         /\ IsText(ns[i])
<1> DEFINE f == ListFields(ns)
           n == Len(ns)
<1>1. n \in Nat /\ \A i \in 1 .. n : ns[i] \in Name
    OBVIOUS
<1>2. f = [j \in 1 .. 2 * n + 1 |->
              IF j = 1 THEN Field16(n)
              ELSE IF j % 2 = 0 THEN Field16(ns[j \div 2].n) ELSE ns[j \div 2]]
    BY DEF ListFields
<1> HIDE DEF f
<1>3. DOMAIN f = 1 .. 2 * n + 1 /\ Len(f) = 2 * n + 1 /\ 2 * n + 1 \in Nat
    <2>1. 2 * n + 1 \in Nat
        BY <1>1
    <2>2. DOMAIN f = 1 .. 2 * n + 1
        BY <1>2, Zenon
    <2>3. f \in Seq(Range(f))
        <3> DEFINE m == 2 * n + 1
        <3>1. \A j \in DOMAIN f : f[j] \in Range(f)
            BY DEF Range
        <3>2. f = [j \in 1 .. m |-> f[j]]
            BY <1>2, Zenon
        <3> HIDE DEF m
        <3>3. f \in [1 .. m -> Range(f)]
            BY <2>2, <3>1, <3>2 DEF m
        <3> QED
            BY <2>1, <3>3, SeqDef DEF m
    <2> QED
        BY <2>1, <2>2, <2>3, LenProperties
<1>4. f[1] = Field16(n)
    BY <1>1, <1>2
<1>5. ASSUME NEW i \in 1 .. n
      PROVE  f[2 * i] = Field16(ns[i].n) /\ f[2 * i + 1] = ns[i]
    <2>1. /\ 2 * i \in 1 .. 2 * n + 1 /\ 2 * i + 1 \in 1 .. 2 * n + 1
          /\ 2 * i # 1 /\ 2 * i + 1 # 1 /\ i \in Nat
        BY <1>1
    <2>2. /\ (2 * i) % 2 = 0 /\ (2 * i) \div 2 = i
          /\ (2 * i + 1) % 2 # 0 /\ (2 * i + 1) \div 2 = i
        BY <2>1, Places
    <2>3. f[2 * i] = IF 2 * i = 1 THEN Field16(n)
                     ELSE IF (2 * i) % 2 = 0 THEN Field16(ns[(2 * i) \div 2].n)
                          ELSE ns[(2 * i) \div 2]
        BY <1>2, <2>1, Zenon
    <2>4. f[2 * i + 1] = IF 2 * i + 1 = 1 THEN Field16(n)
                         ELSE IF (2 * i + 1) % 2 = 0 THEN Field16(ns[(2 * i + 1) \div 2].n)
                              ELSE ns[(2 * i + 1) \div 2]
        BY <1>2, <2>1, Zenon
    <2> QED
        BY <2>1, <2>2, <2>3, <2>4, Zenon
<1>6. \A i \in 1 .. n : IsText(ns[i]) /\ ns[i].n \in Nat /\ ns[i].n < Range16
    <2> SUFFICES ASSUME NEW i \in 1 .. n
                 PROVE  IsText(ns[i]) /\ ns[i].n \in Nat /\ ns[i].n < Range16
        OBVIOUS
    <2>1. ns[i] \in Name
        BY <1>1
    <2>2. IsText(ns[i]) /\ ns[i].n < Range16
        BY <2>1, NameSpec
    <2> QED
        BY <2>2 DEF IsText
<1>7. \A j \in 1 .. Len(f) : Sized(f[j])
    <2> SUFFICES ASSUME NEW j \in 1 .. 2 * n + 1 PROVE Sized(f[j])
        BY <1>3
    <2>1. CASE j = 1
        BY <1>4, <2>1, FieldSpec
    <2>2. CASE j # 1
        <3>1. j \in 2 .. 2 * n + 1
            BY <1>1, <2>2
        <3>2. PICK i \in 1 .. n : j = 2 * i \/ j = 2 * i + 1
            BY <1>1, <3>1, Halves, Zenon
        <3>3. Sized(Field16(ns[i].n)) /\ Sized(ns[i])
            BY <1>6, FieldSpec, Zenon
        <3>4. f[2 * i] = Field16(ns[i].n) /\ f[2 * i + 1] = ns[i]
            BY <1>5, Zenon
        <3> QED
            BY <3>2, <3>3, <3>4, Zenon
    <2> QED
        BY <2>1, <2>2
<1>8. Body(f)
    BY <1>3, <1>7 DEF Body
<1> QED
    BY <1>3, <1>4, <1>5, <1>6, <1>8, Zenon DEF f

\* Where the first i names of a list end.
End(ns, i) == Offsets(ListFields(ns))[2 * i + 2]

\* Each name is read after its size, after the name before it.
LEMMA EndSteps ==
    ASSUME NEW ns \in Seq(Name)
    PROVE  /\ End(ns, 0) = 2
           /\ \A i \in 0 .. Len(ns) : End(ns, i) \in Nat
           /\ \A i \in 1 .. Len(ns) : End(ns, i) = End(ns, i - 1) + 2 + ns[i].n
           /\ Bytes(ListFields(ns)) = End(ns, Len(ns))
<1> DEFINE f == ListFields(ns)
           at == Offsets(f)
           n == Len(ns)
<1>1. /\ n \in Nat /\ Body(f) /\ Len(f) = 2 * n + 1 /\ f[1] = Field16(n)
      /\ \A i \in 1 .. n : f[2 * i] = Field16(ns[i].n) /\ f[2 * i + 1] = ns[i] /\ ns[i].n \in Nat
    BY ListFieldsSpec
<1>2. \A i \in 0 .. n : End(ns, i) = at[2 * i + 2]
    BY DEF End
<1>3. Bytes(f) = at[(2 * n + 1) + 1]
    BY <1>1 DEF Bytes
<1> HIDE DEF f
<1>4. /\ at[1] = 0
      /\ \A i \in 1 .. 2 * n + 1 : at[i + 1] = at[i] + f[i].n
      /\ \A i \in 1 .. 2 * n + 2 : at[i] \in Nat
    <2>1. /\ at[1] = 0
          /\ \A i \in 1 .. Len(f) : at[i + 1] = at[i] + f[i].n
          /\ \A i \in 1 .. Len(f) + 1 : at[i] \in Nat
        BY <1>1, OffsetsStep
    <2>2. Len(f) + 1 = 2 * n + 2
        BY <1>1
    <2> QED
        BY <1>1, <2>1, <2>2, Zenon
<1> HIDE DEF at
<1>5. End(ns, 0) = 2
    <2>1. f[1].n = 2
        BY <1>1, FieldSpec
    <2>2. 1 \in 1 .. 2 * n + 1 /\ 0 \in 0 .. n
        BY <1>1
    <2>3. at[1 + 1] = at[1] + 2
        BY <1>4, <2>1, <2>2
    <2> QED
        BY <1>2, <1>4, <2>2, <2>3
<1>6. \A i \in 0 .. n : End(ns, i) \in Nat
    <2> SUFFICES ASSUME NEW i \in 0 .. n PROVE at[2 * i + 2] \in Nat
        BY <1>2
    <2>1. 2 * i + 2 \in 1 .. 2 * n + 2
        BY <1>1
    <2> QED
        BY <1>4, <2>1
<1>7. ASSUME NEW i \in 1 .. n PROVE End(ns, i) = End(ns, i - 1) + 2 + ns[i].n
    <2>1. /\ 2 * i \in 1 .. 2 * n + 1 /\ 2 * i + 1 \in 1 .. 2 * n + 1
          /\ 2 * i \in 1 .. 2 * n + 2
          /\ (2 * i + 1) + 1 = 2 * i + 2 /\ 2 * (i - 1) + 2 = 2 * i
          /\ i \in 0 .. n /\ i - 1 \in 0 .. n
        BY <1>1
    <2>2. f[2 * i].n = 2 /\ f[2 * i + 1] = ns[i] /\ ns[i].n \in Nat
        BY <1>1, FieldSpec
    <2>3. at[2 * i + 1] = at[2 * i] + 2
        BY <1>4, <2>1, <2>2
    <2>4. at[(2 * i + 1) + 1] = at[2 * i + 1] + ns[i].n
        BY <1>4, <2>1, <2>2
    <2>5. at[2 * i] \in Nat
        BY <1>4, <2>1
    <2>6. End(ns, i) = at[2 * i + 2] /\ End(ns, i - 1) = at[2 * i]
        BY <1>2, <2>1
    <2> QED
        BY <2>1, <2>2, <2>3, <2>4, <2>5, <2>6
<1>8. Bytes(f) = End(ns, n)
    <2>1. (2 * n + 1) + 1 = 2 * n + 2 /\ n \in 0 .. n
        BY <1>1
    <2> QED
        BY <1>2, <1>3, <2>1
<1> QED
    BY <1>5, <1>6, <1>7, <1>8 DEF f

\* A name more makes a list longer, by two bytes at least.
LEMMA EndGrows ==
    ASSUME NEW ns \in Seq(Name), NEW i \in 0 .. Len(ns), NEW j \in 0 .. Len(ns), i <= j
    PROVE  End(ns, i) + (j - i) <= End(ns, j)
<1> DEFINE n == Len(ns)
           Bad == {k \in i .. n : ~ (End(ns, i) + (k - i) <= End(ns, k))}
<1>1. n \in Nat /\ (\A k \in 0 .. n : End(ns, k) \in Nat)
      /\ \A k \in 1 .. n : End(ns, k) = End(ns, k - 1) + 2 + ns[k].n
    BY EndSteps
<1>2. \A k \in 1 .. n : ns[k].n \in Nat
    BY ListFieldsSpec
<1>3. Bad = {}
    <2> SUFFICES ASSUME Bad # {} PROVE FALSE
        OBVIOUS
    <2>1. Bad \in SUBSET Nat
        BY <1>1
    <2>2. PICK k \in Bad : \A m \in Bad : k <= m
        BY <2>1, Least
    <2>3. k \in i .. n /\ ~ (End(ns, i) + (k - i) <= End(ns, k)) /\ k \in Nat
        BY <2>1
    <2>4. End(ns, i) \in Nat /\ i \in Nat
        BY <1>1
    <2>5. k # i
        BY <2>3, <2>4
    <2>6. /\ k - 1 \in i .. n /\ k \in 1 .. n /\ k - 1 \in 0 .. n /\ ~ (k <= k - 1)
        BY <1>1, <2>3, <2>5
    <2>7. End(ns, i) + ((k - 1) - i) <= End(ns, k - 1)
        BY <2>2, <2>6
    <2>8. End(ns, k) = End(ns, k - 1) + 2 + ns[k].n /\ End(ns, k - 1) \in Nat /\ ns[k].n \in Nat
        BY <1>1, <1>2, <2>6
    <2> QED
        BY <2>3, <2>4, <2>7, <2>8
<1>4. j \in i .. n
    BY <1>1
<1> HIDE DEF n
<1> QED
    BY <1>3, <1>4

\* The first names of a list make the same body as they do in it.
LEMMA EndPrefix ==
    ASSUME NEW ns \in Seq(Name), NEW i \in 0 .. Len(ns)
    PROVE  /\ SubSeq(ns, 1, i) \in Seq(Name) /\ Len(SubSeq(ns, 1, i)) = i
           /\ Bytes(ListFields(SubSeq(ns, 1, i))) = End(ns, i)
<1> DEFINE ms == SubSeq(ns, 1, i)
           f == ListFields(ns)
           g == ListFields(ms)
           n == Len(ns)
<1>1. n \in Nat /\ i \in Nat /\ i <= n
    OBVIOUS
<1>2. ms \in Seq(Name) /\ Len(ms) = i /\ \A k \in 1 .. i : ms[k] = ns[k]
    <2>1. \A k \in 1 .. i : ns[k] \in Name
        BY <1>1
    <2>2. /\ ms \in Seq(Name) /\ Len(ms) = IF 1 <= i THEN i - 1 + 1 ELSE 0
          /\ \A k \in 1 .. i - 1 + 1 : ms[k] = ns[1 + k - 1]
        BY <1>1, <2>1, SubSeqProperties
    <2> QED
        BY <1>1, <2>2
<1> HIDE DEF ms
<1>3. /\ Body(f) /\ Len(f) = 2 * n + 1 /\ f[1] = Field16(n)
      /\ \A k \in 1 .. n : f[2 * k] = Field16(ns[k].n) /\ f[2 * k + 1] = ns[k]
    BY ListFieldsSpec
<1>4. /\ Body(g) /\ Len(g) = 2 * i + 1 /\ g[1] = Field16(i)
      /\ \A k \in 1 .. i : g[2 * k] = Field16(ms[k].n) /\ g[2 * k + 1] = ms[k]
    BY <1>2, ListFieldsSpec
<1>5. \A k \in 0 .. n : End(ns, k) = Offsets(f)[2 * k + 2]
    BY DEF End
<1>6. Bytes(g) = Offsets(g)[(2 * i + 1) + 1]
    BY <1>4 DEF Bytes
<1> HIDE DEF f, g
<1>7. ASSUME NEW j \in 1 .. Len(g) PROVE g[j].n = f[j].n
    <2>1. CASE j = 1
        BY <1>3, <1>4, <2>1, FieldSpec
    <2>2. CASE j # 1
        <3>1. j \in 2 .. 2 * i + 1
            BY <1>1, <1>4, <2>2
        <3>2. PICK k \in 1 .. i : j = 2 * k \/ j = 2 * k + 1
            BY <1>1, <3>1, Halves, Zenon
        <3>3. k \in 1 .. n /\ ms[k] = ns[k]
            BY <1>1, <1>2
        <3>4. g[2 * k] = f[2 * k] /\ g[2 * k + 1] = f[2 * k + 1]
            BY <1>3, <1>4, <3>3, Zenon
        <3> QED
            BY <3>2, <3>4
    <2> QED
        BY <2>1, <2>2
<1>8. Offsets(g)[2 * i + 2] = Offsets(f)[2 * i + 2]
    <2>1. Len(g) <= Len(f) /\ 2 * i + 2 \in 1 .. Len(g) + 1
        BY <1>1, <1>3, <1>4
    <2>2. \A j \in 1 .. Len(g) : g[j].n = f[j].n
        BY <1>7
    <2>3. \A j \in 1 .. Len(g) + 1 : Offsets(g)[j] = Offsets(f)[j]
        <3>1. Body(f) /\ Body(g) /\ Len(g) <= Len(f)
            BY <1>3, <1>4, <2>1
        <3> QED
            BY <2>2, <3>1, OffsetsPrefix
    <2> QED
        BY <2>1, <2>3
<1>9. Bytes(g) = End(ns, i)
    <2>1. (2 * i + 1) + 1 = 2 * i + 2 /\ i \in 0 .. n
        BY <1>1
    <2> QED
        BY <1>5, <1>6, <1>8, <2>1
<1> QED
    BY <1>2, <1>9 DEF g, ms

-----------------------------------------------------------------------------
(* Lists as they are read. *)

\* What the loop over a list begins with.
First == [at |-> 2, end |-> "no", names |-> <<>>]

\* The function that Turns defines by recursion exists.
LEMMA TurnsDefined ==
    ASSUME NEW d, ListCount(d) \in Nat
    PROVE  /\ Turns(d)[0] = First
           /\ \A i \in 1 .. ListCount(d) : Turns(d)[i] = ReadName(d, Turns(d)[i - 1])
<1> DEFINE n == ListCount(d)
           Upto(k, f) == f = [i \in 0 .. k |-> IF i = 0 THEN First ELSE ReadName(d, f[i - 1])]
           Missing == {k \in Nat : ~ \E f : Upto(k, f)}
<1>1. Missing = {}
    <2> SUFFICES ASSUME Missing # {} PROVE FALSE
        OBVIOUS
    <2>1. PICK k \in Missing : \A m \in Missing : k <= m
        BY Least
    <2>2. k \in Nat /\ ~ \E f : Upto(k, f)
        BY <2>1
    <2>3. CASE k = 0
        <3>1. Upto(0, [i \in 0 .. 0 |-> First])
            OBVIOUS
        <3> QED
            BY <2>2, <2>3, <3>1
    <2>4. CASE k # 0
        <3>1. k \in Nat /\ k - 1 \in Nat /\ k - 1 \notin Missing
            <4> HIDE DEF Missing
            <4> QED
                BY <2>1, <2>2, <2>4
        <3>2. PICK f : Upto(k - 1, f)
            BY <3>1
        <3> DEFINE g == [i \in 0 .. k |-> IF i < k THEN f[i] ELSE ReadName(d, f[k - 1])]
        <3>3. ASSUME NEW i \in 0 .. k
              PROVE  g[i] = IF i = 0 THEN First ELSE ReadName(d, g[i - 1])
            <4>1. i < k => f[i] = IF i = 0 THEN First ELSE ReadName(d, f[i - 1])
                <5> SUFFICES ASSUME i < k PROVE i \in 0 .. k - 1
                    BY <3>2
                <5> QED
                    BY <3>1
            <4>2. i # 0 => g[i - 1] = f[i - 1]
                <5> SUFFICES ASSUME i # 0 PROVE i - 1 \in 0 .. k /\ i - 1 < k
                    OBVIOUS
                <5> QED
                    BY <3>1
            <4>3. i < k \/ i = k
                BY <3>1
            <4>4. i # 0 \/ i < k
                BY <2>4, <3>1
            <4> QED
                BY <4>1, <4>2, <4>3, <4>4
        <3>4. Upto(k, g)
            BY <3>3
        <3> QED
            BY <2>2, <3>4
    <2> QED
        BY <2>3, <2>4
<1>2. n \in Nat /\ n \notin Missing
    <2> HIDE DEF Missing
    <2> QED
        BY <1>1
<1>3. \E f : Upto(n, f)
    BY <1>2
<1>4. Turns(d) = CHOOSE f : Upto(n, f)
    BY DEF Turns, First
<1>5. Upto(n, Turns(d))
    BY <1>3, <1>4
<1>6. Turns(d) = [i \in 0 .. n |-> IF i = 0 THEN First ELSE ReadName(d, Turns(d)[i - 1])]
    BY <1>5
<1> HIDE DEF n
<1>7. 0 \in 0 .. n /\ n \in Nat
    BY <1>2
<1>8. Turns(d)[0] = First
    BY <1>6, <1>7, Zenon
<1>9. ASSUME NEW i \in 1 .. n PROVE Turns(d)[i] = ReadName(d, Turns(d)[i - 1])
    <2>1. i \in 0 .. n /\ i # 0
        BY <1>7
    <2> QED
        BY <1>6, <2>1, Zenon
<1> QED
    BY <1>8, <1>9 DEF n

\* What a datagram of a list has at the places the client looks at.
Carries(d, ns, length) ==
    /\ LengthOf(d) = length
    /\ \A i \in 1 .. Len(ns) :
          /\ Read16(d, End(ns, i - 1)) =
               IF End(ns, i - 1) + 2 <= length /\ End(ns, i - 1) + 2 <= 1004
               THEN {ns[i].n} ELSE {}
          /\ Read(d, End(ns, i - 1) + 2, ns[i].n) =
               IF End(ns, i) <= length /\ End(ns, i) <= 1004 THEN {ns[i].v} ELSE {}

\* The datagram of a list, of length bytes: it has the number of names at its start,
\* and each name where it was written, as far as length and buffer allow.
LEMMA ListWritten ==
    ASSUME NEW ns \in Seq(Name)
    PROVE  LET r == GetConnectedListResponse(ns)
               d == parseStunMessageToRaw(r)
               length == Bytes(ListFields(ns)) % Range16
           IN /\ d.type = "SuccessConnectedList" /\ d.size = length /\ LengthOf(d) = length
              /\ length \in Nat /\ length < Range16
              /\ messageLength(r) = length /\ Fields(r) = ListFields(ns)
              /\ 2 <= length => Read16(d, 0) = {Len(ns) % Range16}
              /\ Carries(d, ns, length)
<1> DEFINE r == GetConnectedListResponse(ns)
           d == parseStunMessageToRaw(r)
           n == Len(ns)
           f == ListFields(ns)
           b == Bytes(f)
           length == b % Range16
<1>1. r.type = "SuccessConnectedList" /\ r.connectedList = ns
    BY DEF GetConnectedListResponse
<1>2. Fields(r) = f
    BY <1>1 DEF Fields
<1>3. messageLength(r) = length
    BY <1>1, <1>2 DEF messageLength
<1>4. /\ Body(f) /\ Len(f) = 2 * n + 1 /\ f[1] = Field16(n) /\ n \in Nat
      /\ \A i \in 1 .. n : /\ f[2 * i] = Field16(ns[i].n) /\ f[2 * i + 1] = ns[i]
                           /\ ns[i].n \in Nat /\ ns[i].n < Range16
    BY ListFieldsSpec
<1>5. b \in Nat
    <2>1. n \in 0 .. n
        BY <1>4
    <2> QED
        BY <2>1, EndSteps
<1> HIDE DEF f, b
<1>6. length \in 0 .. Range16 - 1
    BY <1>5, Int16Value
<1> HIDE DEF length, r
<1>7. length \in Nat /\ length < Range16 /\ length % Range16 = length
    <2>2. length \in Nat /\ length < Range16
        BY <1>6 DEF Range16
    <2> QED
        BY <2>2, Int16Value
<1>8. d = Packet("client", "SuccessConnectedList", length, length, f)
    BY <1>1, <1>2, <1>3 DEF parseStunMessageToRaw
<1>9. /\ d.type = "SuccessConnectedList" /\ d.size = length /\ LengthOf(d) = length
      /\ d.body = Layout(f)
    BY <1>7, <1>8, PacketSpec
<1> HIDE DEF d
<1>10. \A x : Whether(d, x) <=> x <= length /\ x <= 1004
    BY <1>9 DEF Whether, Header, Buffer
<1>11. \A i \in 0 .. n : End(ns, i) = Offsets(f)[2 * i + 2] /\ End(ns, i) \in Nat
    BY EndSteps DEF End, f
<1>12. 2 <= length => Read16(d, 0) = {n % Range16}
    <2>1. 1 \in 1 .. Len(f)
        BY <1>4
    <2>2. Read16(d, Offsets(f)[1]) = IF Whether(d, Offsets(f)[1] + 2) THEN {n % Range16} ELSE {}
        BY <1>4, <1>9, <2>1, Read16Field
    <2>3. Offsets(f)[1] = 0
        BY <1>4, OffsetsStep
    <2> QED
        BY <1>7, <1>10, <2>2, <2>3
<1>13. ASSUME NEW i \in 1 .. n
       PROVE  /\ Read16(d, End(ns, i - 1)) =
                   IF End(ns, i - 1) + 2 <= length /\ End(ns, i - 1) + 2 <= 1004
                   THEN {ns[i].n} ELSE {}
              /\ Read(d, End(ns, i - 1) + 2, ns[i].n) =
                   IF End(ns, i) <= length /\ End(ns, i) <= 1004 THEN {ns[i].v} ELSE {}
    <2>1. /\ 2 * i \in 1 .. Len(f) /\ 2 * i + 1 \in 1 .. Len(f) /\ i - 1 \in 0 .. n
          /\ 2 * (i - 1) + 2 = 2 * i
        BY <1>4
    <2>2. f[2 * i] = Field16(ns[i].n) /\ f[2 * i + 1] = ns[i] /\ ns[i].n \in Nat
        BY <1>4
    <2>3. ns[i].n % Range16 = ns[i].n
        <3>1. ns[i].n < Range16
            BY <1>4
        <3> QED
            BY <2>2, <3>1, Int16Value
    <2>4. Offsets(f)[2 * i] = End(ns, i - 1)
        BY <1>11, <2>1
    <2>5. Offsets(f)[2 * i + 1] = End(ns, i - 1) + 2
        <3>1. Offsets(f)[2 * i + 1] = Offsets(f)[2 * i] + f[2 * i].n
            BY <1>4, <2>1, OffsetsStep
        <3> QED
            BY <2>2, <2>4, <3>1, FieldSpec
    <2>6. Read16(d, End(ns, i - 1)) = IF Whether(d, End(ns, i - 1) + 2) THEN {ns[i].n} ELSE {}
        <3>1. Body(f) /\ d.body = Layout(f)
            BY <1>4, <1>9
        <3>2. Read16(d, Offsets(f)[2 * i]) =
                  IF Whether(d, Offsets(f)[2 * i] + 2) THEN {ns[i].n % Range16} ELSE {}
            BY <2>1, <2>2, <3>1, Read16Field
        <3> QED
            BY <2>3, <2>4, <3>2
    <2>7. Read(d, End(ns, i - 1) + 2, ns[i].n) =
              IF Whether(d, End(ns, i - 1) + 2 + ns[i].n) THEN {ns[i].v} ELSE {}
        <3>1. Body(f) /\ d.body = Layout(f)
            BY <1>4, <1>9
        <3>2. Read(d, Offsets(f)[2 * i + 1], f[2 * i + 1].n) =
                  IF Whether(d, Offsets(f)[2 * i + 1] + f[2 * i + 1].n)
                  THEN {f[2 * i + 1].v} ELSE {}
            BY <2>1, <3>1, ReadField
        <3> QED
            BY <2>2, <2>5, <3>2
    <2>8. End(ns, i - 1) + 2 + ns[i].n = End(ns, i)
        BY EndSteps
    <2>9. Read(d, End(ns, i - 1) + 2, ns[i].n) =
              IF Whether(d, End(ns, i)) THEN {ns[i].v} ELSE {}
        BY <2>7, <2>8, Zenon
    <2> QED
        BY <1>10, <2>6, <2>9
<1>14. Carries(d, ns, length)
    BY <1>9, <1>13, Zenon DEF Carries
<1> QED
    BY <1>2, <1>3, <1>7, <1>9, <1>12, <1>14, Zenon DEF r, d, length, b, f

\* As far as a list is received whole.
Limit(length) == IF length < Buffer - Header THEN length ELSE Buffer - Header

\* The loop has read i names, or it has ended before, at the first that is not whole.
Going(ns, s, i, length) ==
    /\ s = [at |-> End(ns, i), end |-> "no", names |-> SubSeq(ns, 1, i)]
    /\ End(ns, i) <= Limit(length)

Ended(ns, s, i, length) ==
    \E k \in 0 .. i - 1 :
        /\ s.names = SubSeq(ns, 1, k)
        /\ End(ns, k) <= Limit(length) /\ Limit(length) < End(ns, k + 1)
        /\ s.end \in {"length", "unknown size", "unknown name"}
        /\ s.end # "length" => 1004 < length

\* The limit is that of the length and of the buffer.
LEMMA LimitSpec ==
    ASSUME NEW length \in Nat
    PROVE  /\ Limit(length) \in Nat
           /\ \A x \in Nat : x <= Limit(length) <=> x <= length /\ x <= 1004
           /\ Limit(length) <= length /\ Limit(length) <= 1004
BY DEF Limit, Buffer, Header

\* The first names and the next are the first names and one more.
LEMMA NextName ==
    ASSUME NEW ns \in Seq(Name), NEW i \in 1 .. Len(ns)
    PROVE  Append(SubSeq(ns, 1, i - 1), ns[i]) = SubSeq(ns, 1, i)
<1> DEFINE a == SubSeq(ns, 1, i - 1)
           b == SubSeq(ns, 1, i)
<1>1. i - 1 \in 0 .. Len(ns) /\ i \in 0 .. Len(ns) /\ ns[i] \in Name /\ i \in Nat
    OBVIOUS
<1>2. a \in Seq(Name) /\ Len(a) = i - 1 /\ b \in Seq(Name) /\ Len(b) = i
    BY <1>1, EndPrefix
<1>3. /\ \A k \in 1 .. (i - 1) - 1 + 1 : a[k] = ns[1 + k - 1]
      /\ \A k \in 1 .. i - 1 + 1 : b[k] = ns[1 + k - 1]
    <2>1. /\ \A k \in 1 .. i - 1 : ns[k] \in Name
          /\ \A k \in 1 .. i : ns[k] \in Name
        OBVIOUS
    <2> QED
        BY <1>1, <2>1, SubSeqProperties
<1> HIDE DEF a, b
<1>4. \A k \in 1 .. i : Append(a, ns[i])[k] = b[k]
    BY <1>1, <1>2, <1>3
<1>5. Append(a, ns[i]) \in Seq(Name) /\ Len(Append(a, ns[i])) = i
    BY <1>1, <1>2
<1> QED
    BY <1>2, <1>4, <1>5 DEF a, b

\* One turn of the loop.
LEMMA OneTurn ==
    ASSUME NEW ns \in Seq(Name), NEW d, NEW length \in Nat, Carries(d, ns, length),
           NEW i \in 1 .. Len(ns), NEW s, Going(ns, s, i - 1, length)
    PROVE  Going(ns, ReadName(d, s), i, length) \/ Ended(ns, ReadName(d, s), i, length)
<1> DEFINE a == End(ns, i - 1)
           n == ns[i].n
           z == End(ns, i)
           t == ReadName(d, s)
           size == Read16(d, a)
           name == Read(d, a + 2, n)
           ms == SubSeq(ns, 1, i - 1)
<1>1. s = [at |-> a, end |-> "no", names |-> ms] /\ a <= Limit(length)
    BY DEF Going
<1>2. /\ LengthOf(d) = length
      /\ size = IF a + 2 <= length /\ a + 2 <= 1004 THEN {n} ELSE {}
      /\ name = IF z <= length /\ z <= 1004 THEN {ns[i].v} ELSE {}
    BY DEF Carries
<1>3. a \in Nat /\ z \in Nat /\ n \in Nat /\ z = a + 2 + n
    <2>1. i - 1 \in 0 .. Len(ns) /\ i \in 0 .. Len(ns) /\ i \in 1 .. Len(ns)
        OBVIOUS
    <2> QED
        BY <2>1, EndSteps, ListFieldsSpec
<1>4. /\ Limit(length) \in Nat /\ Limit(length) <= length /\ Limit(length) <= 1004
      /\ z <= Limit(length) <=> z <= length /\ z <= 1004
    <2> HIDE DEF z, a, n
    <2>1. z \in Nat
        BY <1>3
    <2>2. Limit(length) \in Nat /\ Limit(length) <= length /\ Limit(length) <= 1004
        BY LimitSpec
    <2>3. z <= Limit(length) <=> z <= length /\ z <= 1004
        BY <2>1, LimitSpec
    <2> QED
        BY <2>2, <2>3
<1>5. ns[i] = [v |-> ns[i].v, n |-> n]
    BY ListFieldsSpec DEF IsText
<1>6. t = IF a + 2 > length THEN [s EXCEPT !.end = "length"]
          ELSE IF size = {} THEN [s EXCEPT !.end = "unknown size"]
          ELSE IF a + 2 + (CHOOSE k \in size : TRUE) > length THEN [s EXCEPT !.end = "length"]
          ELSE IF Read(d, a + 2, CHOOSE k \in size : TRUE) = {}
               THEN [s EXCEPT !.end = "unknown name"]
          ELSE [at |-> a + 2 + (CHOOSE k \in size : TRUE), end |-> "no",
                names |-> Append(ms, [v |-> CHOOSE x \in Read(d, a + 2, CHOOSE k \in size : TRUE) : TRUE,
                                      n |-> CHOOSE k \in size : TRUE])]
    BY <1>1, <1>2 DEF ReadName
<1>7. i - 1 \in 0 .. i - 1 /\ (i - 1) + 1 = i
    OBVIOUS
<1> HIDE DEF a, n, z, t, size, name, ms
<1>8. \A e : /\ [s EXCEPT !.end = e].names = ms /\ [s EXCEPT !.end = e].end = e
    BY <1>1
<1>9. ASSUME t.names = ms, t.end \in {"length", "unknown size", "unknown name"},
             t.end # "length" => 1004 < length, Limit(length) < z
      PROVE  Ended(ns, t, i, length)
    BY <1>1, <1>7, <1>9 DEF Ended, a, z, ms
<1>10. CASE a + 2 > length
    <2>1. t.names = ms /\ t.end = "length"
        BY <1>6, <1>8, <1>10
    <2>2. Limit(length) < z
        BY <1>2, <1>3, <1>4, <1>10
    <2>3. Ended(ns, t, i, length)
        BY <1>9, <2>1, <2>2
    <2> QED
        BY <2>3 DEF t
<1>11. CASE ~ (a + 2 > length) /\ size = {}
    <2>1. t.names = ms /\ t.end = "unknown size"
        BY <1>6, <1>8, <1>11
    <2>2. a + 2 > 1004
        BY <1>2, <1>3, <1>11
    <2>3. Limit(length) < z /\ 1004 < length
        BY <1>3, <1>4, <1>11, <2>2
    <2>4. Ended(ns, t, i, length)
        BY <1>9, <2>1, <2>3
    <2> QED
        BY <2>4 DEF t
<1>12. CASE ~ (a + 2 > length) /\ size # {}
    <2>1. size = {n} /\ (CHOOSE k \in size : TRUE) = n
        BY <1>2, <1>12, Only
    <2>2. t = IF a + 2 + n > length THEN [s EXCEPT !.end = "length"]
              ELSE IF name = {} THEN [s EXCEPT !.end = "unknown name"]
              ELSE [at |-> a + 2 + n, end |-> "no",
                    names |-> Append(ms, [v |-> CHOOSE x \in name : TRUE, n |-> n])]
        BY <1>6, <1>12, <2>1, Zenon DEF name
    <2>3. CASE a + 2 + n > length
        <3>1. t.names = ms /\ t.end = "length"
            BY <1>8, <2>2, <2>3
        <3>2. Limit(length) < z
            BY <1>3, <1>4, <2>3
        <3>3. Ended(ns, t, i, length)
            BY <1>9, <3>1, <3>2
        <3> QED
            BY <3>3 DEF t
    <2>4. CASE ~ (a + 2 + n > length) /\ name = {}
        <3>1. t.names = ms /\ t.end = "unknown name"
            BY <1>8, <2>2, <2>4
        <3>2. z > 1004
            <4>1. z <= length /\ {ns[i].v} # {}
                BY <1>3, <2>4
            <4>2. ~ (z <= 1004)
                BY <1>2, <2>4, <4>1
            <4> QED
                BY <1>3, <4>2
        <3>3. Limit(length) < z /\ 1004 < length
            BY <1>3, <1>4, <2>4, <3>2
        <3>4. Ended(ns, t, i, length)
            BY <1>9, <3>1, <3>3
        <3> QED
            BY <3>4 DEF t
    <2>5. CASE ~ (a + 2 + n > length) /\ name # {}
        <3>1. name = {ns[i].v} /\ z <= length /\ z <= 1004
            BY <1>2, <2>5
        <3>2. (CHOOSE x \in name : TRUE) = ns[i].v
            BY <3>1, Only
        <3>3. t = [at |-> a + 2 + n, end |-> "no",
                   names |-> Append(ms, [v |-> CHOOSE x \in name : TRUE, n |-> n])]
            BY <2>2, <2>5, Zenon
        <3>4. t = [at |-> z, end |-> "no", names |-> Append(ms, ns[i])]
            BY <1>3, <1>5, <3>2, <3>3
        <3>5. Append(ms, ns[i]) = SubSeq(ns, 1, i)
            BY NextName DEF ms
        <3>6. z <= Limit(length)
            BY <1>4, <3>1
        <3>7. Going(ns, t, i, length)
            BY <3>4, <3>5, <3>6 DEF Going, z
        <3> QED
            BY <3>7 DEF t
    <2> QED
        BY <2>3, <2>4, <2>5
<1> QED
    BY <1>10, <1>11, <1>12

\* After as many turns as are made, the loop has read the names or it has ended.
LEMMA AllTurns ==
    ASSUME NEW ns \in Seq(Name), NEW d, NEW length \in Nat, Carries(d, ns, length), 2 <= length,
           ListCount(d) \in 0 .. Len(ns), NEW j \in 0 .. ListCount(d)
    PROVE  Going(ns, Turns(d)[j], j, length) \/ Ended(ns, Turns(d)[j], j, length)
<1> DEFINE n == ListCount(d)
           T == Turns(d)
           Good(i) == Going(ns, T[i], i, length) \/ Ended(ns, T[i], i, length)
           Bad == {i \in 0 .. n : ~ Good(i)}
<1>1. n \in Nat /\ n <= Len(ns) /\ Len(ns) \in Nat
    OBVIOUS
<1>2. T[0] = First /\ \A i \in 1 .. n : T[i] = ReadName(d, T[i - 1])
    BY <1>1, TurnsDefined
<1> HIDE DEF T, n
<1>3. Good(0)
    <2>1. End(ns, 0) = 2
        BY EndSteps
    <2>2. SubSeq(ns, 1, 0) = << >>
        BY SubSeqEmpty
    <2>3. 2 <= Limit(length)
        BY LimitSpec
    <2>4. Going(ns, T[0], 0, length)
        BY <1>2, <2>1, <2>2, <2>3 DEF Going, First
    <2> QED
        BY <2>4
<1>4. ASSUME NEW i \in 1 .. n, Good(i - 1) PROVE Good(i)
    <2>1. i \in 1 .. Len(ns) /\ T[i] = ReadName(d, T[i - 1])
        BY <1>1, <1>2
    <2>2. CASE Going(ns, T[i - 1], i - 1, length)
        BY <2>1, <2>2, OneTurn
    <2>3. CASE Ended(ns, T[i - 1], i - 1, length)
        <3>1. PICK k \in 0 .. (i - 1) - 1 :
                  /\ T[i - 1].names = SubSeq(ns, 1, k)
                  /\ End(ns, k) <= Limit(length) /\ Limit(length) < End(ns, k + 1)
                  /\ T[i - 1].end \in {"length", "unknown size", "unknown name"}
                  /\ T[i - 1].end # "length" => 1004 < length
            BY <2>3 DEF Ended
        <3>2. T[i - 1].end # "no"
            BY <3>1
        <3>3. T[i] = T[i - 1]
            BY <2>1, <3>2 DEF ReadName
        <3>4. k \in 0 .. i - 1
            BY <2>1
        <3>5. Ended(ns, T[i], i, length)
            BY <3>1, <3>3, <3>4 DEF Ended
        <3> QED
            BY <3>5
    <2> QED
        BY <1>4, <2>2, <2>3
<1> HIDE DEF Good
<1>5. Bad = {}
    <2> SUFFICES ASSUME Bad # {} PROVE FALSE
        OBVIOUS
    <2>1. Bad \in SUBSET Nat
        BY <1>1
    <2>2. PICK k \in Bad : \A m \in Bad : k <= m
        BY <2>1, Least
    <2>3. k \in 0 .. n /\ ~ Good(k) /\ k # 0
        BY <1>3
    <2>4. k \in 1 .. n /\ k - 1 \in 0 .. n /\ ~ (k <= k - 1)
        BY <1>1, <2>3
    <2>5. Good(k - 1)
        BY <2>2, <2>4
    <2> QED
        BY <1>4, <2>3, <2>4, <2>5
<1>6. Good(j)
    BY <1>5 DEF n
<1> QED
    BY <1>6 DEF Good, T

\* The number of names that is written, modulo 2^16, is at most their number.
LEMMA CountSpec ==
    ASSUME NEW n \in Nat
    PROVE  n % Range16 \in 0 .. n /\ (n < Range16 => n % Range16 = n)
<1>1. n % 65536 \in 0 .. n /\ (n < 65536 => n % 65536 = n)
    OBVIOUS
<1> QED
    BY <1>1 DEF Range16

\* The names that are whole are those up to the last that ends within the limit.
LEMMA WholeSpec ==
    ASSUME NEW ns \in Seq(Name), NEW m \in Nat, NEW k \in 0 .. Len(ns) % Range16,
           k = 0 \/ End(ns, k) <= m, k = Len(ns) % Range16 \/ m < End(ns, k + 1)
    PROVE  Whole(ns, m) = SubSeq(ns, 1, k)
<1> DEFINE n == Len(ns) % Range16
           B(i) == Bytes(ListFields(SubSeq(ns, 1, i)))
           P(i) == (i = 0 \/ B(i) =< m) /\ (i = n \/ B(i + 1) > m)
<1>1. n \in Nat /\ n <= Len(ns) /\ Len(ns) \in Nat
    <2>1. n \in 0 .. Len(ns)
        BY CountSpec
    <2> HIDE DEF n
    <2> QED
        BY <2>1
<1> HIDE DEF n
<1>2. k \in 0 .. n /\ (k = n \/ m < End(ns, k + 1))
    BY DEF n
<1>3. \A i \in 0 .. Len(ns) : B(i) = End(ns, i) /\ End(ns, i) \in Nat
    BY EndPrefix, EndSteps
<1> HIDE DEF B
<1>4. P(k)
    <2>1. k \in 0 .. Len(ns) /\ (k # n => k + 1 \in 0 .. Len(ns))
        BY <1>1, <1>2
    <2>2. k = 0 \/ B(k) <= m
        BY <1>3, <2>1
    <2>3. k = n \/ B(k + 1) > m
        BY <1>2, <1>3, <2>1
    <2> QED
        BY <2>2, <2>3
<1>5. ASSUME NEW i \in 0 .. n, NEW j \in 0 .. n, P(i), P(j) PROVE ~ (i < j)
    <2> SUFFICES ASSUME i < j PROVE FALSE
        OBVIOUS
    <2>1. i + 1 \in 0 .. Len(ns) /\ j \in 0 .. Len(ns) /\ i + 1 <= j /\ i # n /\ j # 0
        BY <1>1
    <2>2. B(j) <= m /\ B(i + 1) > m
        BY <1>5, <2>1
    <2>3. End(ns, i + 1) + (j - (i + 1)) <= End(ns, j)
        BY <2>1, EndGrows
    <2> QED
        BY <1>3, <2>1, <2>2, <2>3
<1> HIDE DEF P
<1>6. \A i \in 0 .. n : P(i) => i = k
    <2> SUFFICES ASSUME NEW i \in 0 .. n, P(i) PROVE i = k
        OBVIOUS
    <2>1. ~ (i < k) /\ ~ (k < i)
        BY <1>2, <1>4, <1>5
    <2> QED
        BY <1>1, <1>2, <2>1
<1>7. (CHOOSE i \in 0 .. n : P(i)) = k
    BY <1>2, <1>4, <1>6
<1>8. Whole(ns, m) = SubSeq(ns, 1, CHOOSE i \in 0 .. n : P(i))
    BY DEF Whole, P, B, n
<1> QED
    BY <1>7, <1>8

\* What is read of a list: the names that arrive whole, and garbage where the buffer ends.
LEMMA ListRead ==
    ASSUME NEW ns \in Seq(Name)
    PROVE  LET d == parseStunMessageToRaw(GetConnectedListResponse(ns))
               length == Bytes(ListFields(ns)) % Range16
               whole == Whole(ns, Limit(length))
           IN ReadList(d) \subseteq
                {whole} \cup IF 1004 < length THEN {Append(whole, Garbage(0))} ELSE {}
<1> DEFINE d == parseStunMessageToRaw(GetConnectedListResponse(ns))
           length == Bytes(ListFields(ns)) % Range16
           whole == Whole(ns, Limit(length))
           n == Len(ns) % Range16
           s == Turns(d)[ListCount(d)]
           more == Append(s.names, Garbage(0))
<1>1. /\ length \in Nat /\ Carries(d, ns, length)
      /\ 2 <= length => Read16(d, 0) = {n}
    BY ListWritten
<1>2. LengthOf(d) = length
    BY <1>1 DEF Carries
<1>3. n \in 0 .. Len(ns) /\ n \in Nat /\ Len(ns) \in Nat
    <2>1. n \in 0 .. Len(ns)
        BY CountSpec
    <2> HIDE DEF n
    <2> QED
        BY <2>1
<1>4. ReadList(d) =
          CASE LengthOf(d) < 2 -> {<<>>}
            [] LengthOf(d) >= 2 /\ s.end = "unknown size" -> {s.names, more}
            [] LengthOf(d) >= 2 /\ s.end = "unknown name" -> {more}
            [] OTHER -> {s.names}
    BY DEF ReadList
<1>5. ASSUME NEW k \in 0 .. n, k = 0 \/ End(ns, k) <= Limit(length),
             k = n \/ Limit(length) < End(ns, k + 1)
      PROVE  whole = SubSeq(ns, 1, k)
    <2>1. Limit(length) \in Nat
        BY <1>1, LimitSpec
    <2> HIDE DEF length
    <2> QED
        BY <1>5, <2>1, WholeSpec DEF n
<1> HIDE DEF d, length, whole, n
<1>6. CASE length < 2
    <2>1. whole = SubSeq(ns, 1, 0)
        <3>1. 0 \in 0 .. n
            BY <1>3
        <3>2. n = 0 \/ Limit(length) < End(ns, 0 + 1)
            <4> SUFFICES ASSUME n # 0 PROVE Limit(length) < End(ns, 1)
                OBVIOUS
            <4>1. 0 \in 0 .. Len(ns) /\ 1 \in 0 .. Len(ns)
                BY <1>3
            <4>2. End(ns, 0) + (1 - 0) <= End(ns, 1) /\ End(ns, 0) = 2 /\ End(ns, 1) \in Nat
                BY <4>1, EndGrows, EndSteps
            <4>3. Limit(length) \in Nat /\ Limit(length) <= length
                BY <1>1, LimitSpec
            <4> QED
                BY <1>1, <1>6, <4>2, <4>3
        <3> QED
            BY <1>5, <3>1, <3>2
    <2>2. whole = <<>>
        BY <2>1, SubSeqEmpty
    <2>3. ReadList(d) = {<<>>}
        <3>1. LengthOf(d) < 2 /\ ~ (LengthOf(d) >= 2)
            BY <1>1, <1>2, <1>6
        <3> HIDE DEF s, more
        <3> QED
            BY <1>4, <3>1
    <2>4. ReadList(d) \subseteq {whole} \cup IF 1004 < length THEN {Append(whole, Garbage(0))} ELSE {}
        BY <2>2, <2>3, Zenon
    <2> QED
        BY <2>4 DEF d, length, whole
<1>7. CASE 2 <= length
    <2>1. ListCount(d) = n
        BY <1>1, <1>7, Only DEF ListCount
    <2>2. Going(ns, s, n, length) \/ Ended(ns, s, n, length)
        <3>1. ListCount(d) \in 0 .. Len(ns) /\ n \in 0 .. ListCount(d)
            BY <1>3, <2>1
        <3> QED
            BY <1>1, <1>7, <2>1, <3>1, AllTurns
    <2>3. ~ (LengthOf(d) < 2) /\ LengthOf(d) >= 2
        BY <1>1, <1>2, <1>7
    <2> HIDE DEF s
    <2>4. CASE Going(ns, s, n, length)
        <3>1. s.end = "no" /\ s.names = SubSeq(ns, 1, n) /\ End(ns, n) <= Limit(length)
            BY <2>4 DEF Going
        <3>2. n \in 0 .. n
            BY <1>3
        <3>3. whole = SubSeq(ns, 1, n)
            BY <1>5, <3>1, <3>2
        <3>4. s.end # "unknown size" /\ s.end # "unknown name"
            BY <3>1
        <3>5. ReadList(d) = {s.names}
            BY <1>4, <2>3, <3>4
        <3>6. ReadList(d) \subseteq
                  {whole} \cup IF 1004 < length THEN {Append(whole, Garbage(0))} ELSE {}
            BY <3>1, <3>3, <3>5, Zenon
        <3> QED
            BY <3>6 DEF d, length, whole
    <2>5. CASE Ended(ns, s, n, length)
        <3>1. PICK k \in 0 .. n - 1 :
                  /\ s.names = SubSeq(ns, 1, k)
                  /\ End(ns, k) <= Limit(length) /\ Limit(length) < End(ns, k + 1)
                  /\ s.end \in {"length", "unknown size", "unknown name"}
                  /\ s.end # "length" => 1004 < length
            BY <2>5 DEF Ended
        <3>2. k \in 0 .. n
            BY <1>3
        <3>3. whole = s.names
            BY <1>5, <3>1, <3>2
        <3>4. CASE s.end = "length"
            <4>1. s.end # "unknown size" /\ s.end # "unknown name"
                BY <3>4
            <4> QED
                BY <1>4, <2>3, <3>3, <4>1 DEF d, length, whole
        <3>5. CASE s.end # "length"
            <4>1. 1004 < length /\ (s.end = "unknown size" \/ s.end = "unknown name")
                BY <3>1, <3>5
            <4>2. ReadList(d) \subseteq {s.names, more}
                BY <1>4, <2>3, <4>1
            <4>3. ReadList(d) \subseteq
                      {whole} \cup IF 1004 < length THEN {Append(whole, Garbage(0))} ELSE {}
                BY <3>3, <4>1, <4>2
            <4> QED
                BY <4>3 DEF d, length, whole
        <3> QED
            BY <3>4, <3>5
    <2> QED
        BY <2>2, <2>4, <2>5
<1>8. length < 2 \/ 2 <= length
    BY <1>1
<1> QED
    BY <1>6, <1>7, <1>8

\* A list that fits is read as it is.
LEMMA ListFits ==
    ASSUME NEW ns \in Seq(Name), Fits(ListFields(ns))
    PROVE  ReadList(parseStunMessageToRaw(GetConnectedListResponse(ns))) \subseteq {ns}
<1> DEFINE b == Bytes(ListFields(ns))
           length == b % Range16
           n == Len(ns)
<1>1. n \in Nat /\ b = End(ns, n) /\ b \in Nat /\ End(ns, 0) = 2 /\ End(ns, 0) + (n - 0) <= End(ns, n)
    <2>1. Len(ns) \in 0 .. Len(ns) /\ 0 \in 0 .. Len(ns) /\ 0 <= Len(ns) /\ Len(ns) \in Nat
        OBVIOUS
    <2> QED
        BY <2>1, EndSteps, EndGrows
<1> HIDE DEF b
<1>2. b <= 1004
    BY <1>1 DEF Fits, Header, Buffer, b
<1>3. n < Range16 /\ b < Range16
    BY <1>1, <1>2 DEF Range16
<1>4. n % Range16 = n /\ b % Range16 = b
    BY <1>1, <1>3, CountSpec
<1> HIDE DEF length
<1>5. length = b
    BY <1>4 DEF length
<1>6. Limit(length) \in Nat /\ End(ns, n) <= Limit(length)
    BY <1>1, <1>2, <1>5, LimitSpec
<1>7. Whole(ns, Limit(length)) = SubSeq(ns, 1, n)
    <2>1. n \in 0 .. Len(ns) % Range16 /\ n = Len(ns) % Range16
        BY <1>1, <1>4
    <2> QED
        BY <1>6, <2>1, WholeSpec
<1>8. SubSeq(ns, 1, n) = ns
    BY SubSeqFull
<1>9. ReadList(parseStunMessageToRaw(GetConnectedListResponse(ns))) \subseteq
          {Whole(ns, Limit(length))}
              \cup IF 1004 < length THEN {Append(Whole(ns, Limit(length)), Garbage(0))} ELSE {}
    BY ListRead DEF length, b
<1>10. ~ (1004 < length)
    BY <1>1, <1>2, <1>5
<1> QED
    BY <1>7, <1>8, <1>9, <1>10

-----------------------------------------------------------------------------
(* Any message, and what is made of it. *)

\* The socket takes the datagram.
Carried(d) == Header + d.size <= MaxUdp

\* A login without a name.
NoName == BindingAttribute([v |-> "", n |-> 0])

\* What is not a login is not taken for one.
LEMMA NotALogin ==
    ASSUME NEW d, d.type \in {"GetConnectedList", "ConnectToClient", "ConnectConsent"}
    PROVE  parseRequest(d).type # "BindingRequest"
<1>1. ASSUME NEW n, NEW r, r.type # "BindingRequest" PROVE Checked(d, n, r).type # "BindingRequest"
    BY <1>1 DEF Checked, BadRequest
<1>2. CASE d.type = "GetConnectedList"
    BY <1>2 DEF parseRequest, GetConnectedList
<1>3. CASE d.type = "ConnectToClient"
    <2>1. parseRequest(d) = parseCall(d)
        BY <1>3 DEF parseRequest
    <2>2. \A t, u : ConnectToClientAttribute(t, u).type # "BindingRequest"
        BY DEF ConnectToClientAttribute
    <2> QED
        BY <1>1, <2>1, <2>2 DEF parseCall
<1>4. CASE d.type = "ConnectConsent"
    <2>1. parseRequest(d) = parseConsent(d)
        BY <1>4 DEF parseRequest
    <2>2. \A t, u, a : ConnectConsent(t, u, a).type # "BindingRequest"
        BY DEF ConnectConsent
    <2> QED
        BY <1>1, <2>1, <2>2 DEF parseConsent
<1> QED
    BY <1>2, <1>3, <1>4

\* The bytes of each request.
LEMMA RequestBytes ==
    ASSUME NEW t, IsText(t), NEW u, IsText(u), NEW a
    PROVE  /\ Bytes(Payload(BindingAttribute(t))) = t.n
           /\ Bytes(Payload(GetConnectedList(t))) = t.n
           /\ Bytes(Payload(ConnectToClientAttribute(t, u))) = 2 + t.n + u.n
           /\ Bytes(Payload(ConnectConsent(t, u, a))) = 3 + t.n + u.n
<1> DEFINE flag == [v |-> <<IF a THEN 1 ELSE 0>>, n |-> 1]
<1>1. /\ Payload(BindingAttribute(t)) = <<t>>
      /\ Payload(GetConnectedList(t)) = <<t>>
      /\ Payload(ConnectToClientAttribute(t, u)) = <<Field16(t.n), t, u>>
      /\ Payload(ConnectConsent(t, u, a)) = <<Field16(t.n), t, flag, u>>
    BY DEF Payload, BindingAttribute, GetConnectedList, ConnectToClientAttribute, ConnectConsent
<1>2. flag.n = 1 /\ Sized(flag)
    BY DEF Sized
<1> HIDE DEF flag
<1>3. /\ Sized(t) /\ Sized(u) /\ Sized(Field16(t.n)) /\ Field16(t.n).n = 2
      /\ t.n \in Nat /\ u.n \in Nat
    BY FieldSpec DEF IsText
<1>4. \A f : One(f, t) => Bytes(f) = t.n
    BY <1>3, OneField
<1>5. \A f : Three(f, Field16(t.n), t, u) => Bytes(f) = 2 + t.n + u.n
    BY <1>3, ThreeFields
<1>6. \A f : Four(f, Field16(t.n), t, flag, u) => Bytes(f) = 3 + t.n + u.n
    <2> SUFFICES ASSUME NEW f, Four(f, Field16(t.n), t, flag, u) PROVE Bytes(f) = 3 + t.n + u.n
        OBVIOUS
    <2>1. Bytes(f) = 2 + t.n + 1 + u.n
        BY <1>2, <1>3, FourFields
    <2> QED
        BY <1>3, <2>1
<1> QED
    BY <1>1, <1>4, <1>5, <1>6, Tuples, Zenon

\* How long a name may be that has come in a datagram.
LEMMA NameSize ==
    ASSUME NEW m \in Nat, 20 + m <= 65507
    PROVE  m \in 0 .. MaxUdp - Header
<1>1. MaxUdp - Header = 65487
    BY DEF MaxUdp, Header
<1>2. m <= 65487
    OBVIOUS
<1>3. m <= MaxUdp - Header /\ MaxUdp - Header \in Nat
    BY <1>1, <1>2
<1> QED
    BY <1>3

\* The kinds of requests.
LEMMA RequestKinds ==
    ASSUME NEW r \in ARequest
    PROVE  \/ \E t \in Text : r = BindingAttribute(t)
           \/ \E t \in Token : r = GetConnectedList(t)
           \/ \E t \in Token, u \in Text : r = ConnectToClientAttribute(t, u)
           \/ \E t \in Token, u \in Text, a \in BOOLEAN : r = ConnectConsent(t, u, a)
BY DEF ARequest

\* A request that is sent is understood if it fits, a login without a name as an error.
\* A name that logs in is one the server can remember.
LEMMA RequestRead ==
    ASSUME NEW r \in ARequest, Carried(MakeRequest(r))
    PROVE  LET g == parseRequest(MakeRequest(r))
           IN /\ r = NoName => g.type = "Error"
              /\ r # NoName /\ Fits(Payload(r)) => g = r
              /\ g.type = "BindingRequest" => g.clientName \in Name /\ g.clientName.n # 0
<1> DEFINE g == parseRequest(MakeRequest(r))
           k == Bytes(Payload(r))
<1>1. 20 + k <= 65507
    <2>1. MakeRequest(r).size = k
        BY DEF MakeRequest, Packet
    <2> HIDE DEF k
    <2> QED
        BY <2>1 DEF Carried, Header, MaxUdp
<1>2. MakeRequest(r).type = r.type
    BY DEF MakeRequest, Packet
<1>3. \A t \in Text \cup Token : IsText(t) /\ t.n \in Nat
    BY FieldSpec DEF IsText
<1> HIDE DEF k, g
<1>4. CASE \E t \in Text : r = BindingAttribute(t)
    <2>1. PICK t \in Text : r = BindingAttribute(t)
        BY <1>4
    <2>2. IsText(t) /\ t.n \in Nat /\ t \in [v : STRING, n : Nat]
        BY <1>3, ConstantsOK
    <2>3. k = t.n /\ t.n < Range16
        <3>1. k = t.n
            BY <2>1, <2>2, RequestBytes DEF k
        <3> QED
            BY <1>1, <2>2, <3>1 DEF Range16
    <2>4. /\ t.n = 0 => g = BadRequest("Empty body")
          /\ t.n # 0 => g \in {BindingAttribute(t), BindingAttribute(Garbage(t.n))}
          /\ t.n # 0 /\ Fits(Payload(r)) => g = r
        BY <2>1, <2>2, <2>3, LoginRead DEF g
    <2>5. r = NoName <=> t.n = 0
        <3>1. r.clientName = t /\ NoName.clientName = [v |-> "", n |-> 0]
            BY <2>1 DEF NoName, BindingAttribute
        <3>2. r = NoName => t.n = 0
            <4> SUFFICES ASSUME r = NoName PROVE t.n = 0
                OBVIOUS
            <4>1. t = [v |-> "", n |-> 0]
                BY <3>1, Zenon
            <4> QED
                BY <4>1
        <3>3. t.n = 0 => t = [v |-> "", n |-> 0]
            BY <2>2 DEF IsText
        <3> QED
            BY <2>1, <3>2, <3>3 DEF NoName
    <2>6. BadRequest("Empty body").type = "Error"
        BY DEF BadRequest
    <2>7. ASSUME t.n # 0 PROVE g.clientName \in Name /\ g.clientName.n # 0
        <3>1. t.n \in 0 .. MaxUdp - Header
            <4>1. t.n \in Nat
                BY <2>2
            <4>2. 20 + t.n <= 65507
                BY <1>1, <2>3
            <4> QED
                BY <4>1, <4>2, NameSize
        <3>2. t.v \in STRING /\ t = [v |-> t.v, n |-> t.n]
            BY <2>2
        <3>3. t \in Name
            <4>1. t \in [v : STRING, n : 0 .. MaxUdp - Header]
                BY <3>1, <3>2, Zenon
            <4> QED
                BY <4>1, <2>7, Zenon DEF Name
        <3>4. Unknown \in STRING
            BY ConstantsOK
        <3>5. Garbage(t.n) \in Name /\ Garbage(t.n).n = t.n
            <4>1. Garbage(t.n) \in [v : STRING, n : 0 .. MaxUdp - Header]
                BY <3>1, <3>4, Zenon DEF Garbage
            <4>2. Garbage(t.n).n = t.n
                BY Zenon DEF Garbage
            <4> QED
                BY <4>1, <4>2, <2>7, Zenon DEF Name
        <3>6. \A x : BindingAttribute(x).clientName = x
            BY DEF BindingAttribute
        <3> QED
            BY <2>4, <2>7, <3>3, <3>5, <3>6
    <2> QED
        BY <2>4, <2>5, <2>6, <2>7 DEF g
<1>5. NoName.type = "BindingRequest"
    BY DEF NoName, BindingAttribute
<1>6. CASE \E t \in Token : r = GetConnectedList(t)
    <2>1. PICK t \in Token : r = GetConnectedList(t)
        BY <1>6
    <2>2. IsText(t) /\ t.n \in Nat
        BY <1>3
    <2>3. k = t.n /\ t.n < Range16
        <3>1. k = t.n
            BY <2>1, <2>2, RequestBytes DEF k
        <3> QED
            BY <1>1, <2>2, <3>1 DEF Range16
    <2>4. Fits(Payload(r)) => g = r
        BY <2>1, <2>2, <2>3, ListRequestRead DEF g
    <2>5. r.type = "GetConnectedList"
        BY <2>1 DEF GetConnectedList
    <2>6. g.type # "BindingRequest"
        BY <1>2, <2>5, NotALogin DEF g
    <2> QED
        BY <1>5, <2>4, <2>5, <2>6 DEF g
<1>7. CASE \E t \in Token, u \in Text : r = ConnectToClientAttribute(t, u)
    <2>1. PICK t \in Token, u \in Text : r = ConnectToClientAttribute(t, u)
        BY <1>7
    <2>2. IsText(t) /\ t.n \in Nat /\ IsText(u) /\ u.n \in Nat
        BY <1>3
    <2>3. k = 2 + t.n + u.n /\ 2 + t.n + u.n < Range16
        <3>1. k = 2 + t.n + u.n
            BY <2>1, <2>2, RequestBytes DEF k
        <3> QED
            BY <1>1, <2>2, <3>1 DEF Range16
    <2>4. Fits(Payload(r)) => g = r
        BY <2>1, <2>2, <2>3, CallRead DEF g
    <2>5. r.type = "ConnectToClient"
        BY <2>1 DEF ConnectToClientAttribute
    <2>6. g.type # "BindingRequest"
        BY <1>2, <2>5, NotALogin DEF g
    <2> QED
        BY <1>5, <2>4, <2>5, <2>6 DEF g
<1>8. CASE \E t \in Token, u \in Text, a \in BOOLEAN : r = ConnectConsent(t, u, a)
    <2>1. PICK t \in Token, u \in Text, a \in BOOLEAN : r = ConnectConsent(t, u, a)
        BY <1>8
    <2>2. IsText(t) /\ t.n \in Nat /\ IsText(u) /\ u.n \in Nat
        BY <1>3
    <2>3. k = 3 + t.n + u.n /\ 3 + t.n + u.n < Range16
        <3>1. k = 3 + t.n + u.n
            BY <2>1, <2>2, RequestBytes DEF k
        <3> QED
            BY <1>1, <2>2, <3>1 DEF Range16
    <2>4. Fits(Payload(r)) => g = r
        BY <2>1, <2>2, <2>3, ConsentRead DEF g
    <2>5. r.type = "ConnectConsent"
        BY <2>1 DEF ConnectConsent
    <2>6. g.type # "BindingRequest"
        BY <1>2, <2>5, NotALogin DEF g
    <2> QED
        BY <1>5, <2>4, <2>5, <2>6 DEF g
<1> QED
    BY <1>4, <1>6, <1>7, <1>8, RequestKinds

\* The kinds of responses.
LEMMA ResponseKinds ==
    ASSUME names \in Seq(Name), NEW r \in AResponse
    PROVE  \/ \E e \in Endpoint, t \in Token : r = BindingResponse(e, t)
           \/ r = GetConnectedListResponse(names)
           \/ \E e \in Endpoint, t \in Name : r = ConnectToHost(e, t) \/ r = ConnectToClientResponse(e, t)
           \/ \E t \in Name : r = IncomingConnectionRequest(t)
           \/ \E t \in {NotFound, Rejected, Unauthorized, InternalError} : r = ErrorResponse(t)
<1>1. \A t \in Range(names) : t \in Name
    BY DEF Range
<1> QED
    BY <1>1 DEF AResponse

\* An endpoint and a text are understood, the endpoint always and the text if it fits.
LEMMA EndpointUnderstood ==
    ASSUME NEW e \in Endpoint, NEW t, IsText(t), NEW r,
           r.endpoint = e, r.type # "SuccessConnectedList", r.type # "Error",
           Introduces(Fields(r), e, t), Carried(parseStunMessageToRaw(r))
    PROVE  LET d == parseStunMessageToRaw(r)
           IN d.type = r.type /\ ReadEndpoint(d) = e /\ (Fits(Fields(r)) => Rest(d, 6) = t)
<1>2. Bytes(Fields(r)) = 6 + t.n
    <2> DEFINE f == Fields(r)
    <2>1. Introduces(f, e, t) /\ IsText(t)
        OBVIOUS
    <2> HIDE DEF f
    <2>2. /\ Body(f) /\ Bytes(f) = 6 + t.n /\ Len(f) = 3 /\ f[3] = t
          /\ f[1] = [v |-> e.port, n |-> 2] /\ f[2] = [v |-> e.address, n |-> 4]
          /\ Offsets(f)[1] = 0 /\ Offsets(f)[2] = 2 /\ Offsets(f)[3] = 6
        BY <2>1, EndpointFieldsSpec
    <2> QED
        BY <2>2 DEF f
<1>3. parseStunMessageToRaw(r).size = Bytes(Fields(r))
    BY DEF parseStunMessageToRaw, Packet
<1>4. 6 + t.n < Range16
    <2>1. t.n \in Nat
        BY DEF IsText
    <2>2. 20 + (6 + t.n) <= 65507
        BY <1>2, <1>3 DEF Carried, Header, MaxUdp
    <2> QED
        BY <2>1, <2>2 DEF Range16
<1> QED
    BY <1>4, EndpointRead

\* A response that is sent is understood if it fits; an endpoint is whatever follows it,
\* and of a list the names that are whole.
LEMMA ResponseRead ==
    ASSUME names \in Seq(Name), NEW r \in AResponse, Carried(parseStunMessageToRaw(r)),
           NEW g \in parseResponse(parseStunMessageToRaw(r))
    PROVE  /\ Fits(Fields(r)) => g = r
           /\ "endpoint" \in DOMAIN r => g.endpoint = r.endpoint
           /\ r.type = "SuccessConnectedList" =>
                LET whole == Whole(r.connectedList, Limit(messageLength(r)))
                IN g.connectedList \in
                     {whole} \cup IF 1004 < messageLength(r) THEN {Append(whole, Garbage(0))} ELSE {}
<1> DEFINE d == parseStunMessageToRaw(r)
<1>1. CASE \E e \in Endpoint, t \in Token : r = BindingResponse(e, t)
    <2>1. PICK e \in Endpoint, t \in Token : r = BindingResponse(e, t)
        BY <1>1
    <2>2. r.type = "SuccessBinding" /\ r.endpoint = e /\ r.jwtToken = t
        BY <2>1 DEF BindingResponse
    <2>3. IsText(t)
        BY FieldSpec
    <2>4. Introduces(Fields(r), e, t)
        BY <2>2, EndpointWritten DEF Fields
    <2>5. d.type = r.type /\ ReadEndpoint(d) = e /\ (Fits(Fields(r)) => Rest(d, 6) = t)
        BY <2>2, <2>3, <2>4, EndpointUnderstood
    <2> HIDE DEF d
    <2>6. g = BindingResponse(e, Rest(d, 6))
        BY <2>2, <2>5 DEF parseResponse, d
    <2>7. g.endpoint = e
        BY <2>6 DEF BindingResponse
    <2> QED
        BY <2>1, <2>2, <2>5, <2>6, <2>7
<1>2. CASE \E e \in Endpoint, t \in Name : r = ConnectToHost(e, t) \/ r = ConnectToClientResponse(e, t)
    <2>1. PICK e \in Endpoint, t \in Name : r = ConnectToHost(e, t) \/ r = ConnectToClientResponse(e, t)
        BY <1>2
    <2>2. IsText(t)
        BY NameSpec
    <2>3. CASE r = ConnectToHost(e, t)
        <3>2. r.type = "ConnectToHost" /\ r.endpoint = e /\ r.clientName = t
            BY <2>3 DEF ConnectToHost
        <3>4. Introduces(Fields(r), e, t)
            BY <3>2, EndpointWritten DEF Fields
        <3>5. d.type = r.type /\ ReadEndpoint(d) = e /\ (Fits(Fields(r)) => Rest(d, 6) = t)
            BY <2>2, <3>2, <3>4, EndpointUnderstood
        <3> HIDE DEF d
        <3>6. g = ConnectToHost(e, Rest(d, 6))
            BY <3>2, <3>5 DEF parseResponse, d
        <3>7. g.endpoint = e
            BY <3>6 DEF ConnectToHost
        <3> QED
            BY <2>3, <3>2, <3>5, <3>6, <3>7
    <2>4. CASE r = ConnectToClientResponse(e, t)
        <3>2. r.type = "SuccessConnectToClient" /\ r.endpoint = e /\ r.clientName = t
            BY <2>4 DEF ConnectToClientResponse
        <3>4. Introduces(Fields(r), e, t)
            BY <3>2, EndpointWritten DEF Fields
        <3>5. d.type = r.type /\ ReadEndpoint(d) = e /\ (Fits(Fields(r)) => Rest(d, 6) = t)
            BY <2>2, <3>2, <3>4, EndpointUnderstood
        <3> HIDE DEF d
        <3>6. g = ConnectToClientResponse(e, Rest(d, 6))
            BY <3>2, <3>5 DEF parseResponse, d
        <3>7. g.endpoint = e
            BY <3>6 DEF ConnectToClientResponse
        <3> QED
            BY <2>4, <3>2, <3>5, <3>6, <3>7
    <2> QED
        BY <2>1, <2>3, <2>4
<1>3. CASE \E t \in Name : r = IncomingConnectionRequest(t)
    <2>1. PICK t \in Name : r = IncomingConnectionRequest(t)
        BY <1>3
    <2>2. r.type = "IncomingConnectionRequest" /\ r.clientName = t /\ "endpoint" \notin DOMAIN r
        BY <2>1 DEF IncomingConnectionRequest
    <2>3. IsText(t) /\ t.n < Range16
        BY NameSpec
    <2>4. Fields(r) = <<t>>
        BY <2>2 DEF Fields
    <2>5. d.type = r.type /\ (Fits(Fields(r)) => Rest(d, 0) = t)
        BY <2>2, <2>3, <2>4, TextRead
    <2> HIDE DEF d
    <2>6. g = IncomingConnectionRequest(Rest(d, 0))
        BY <2>2, <2>5 DEF parseResponse, d
    <2> QED
        BY <2>1, <2>2, <2>5, <2>6
<1>4. CASE \E t \in {NotFound, Rejected, Unauthorized, InternalError} : r = ErrorResponse(t)
    <2>1. PICK t \in {NotFound, Rejected, Unauthorized, InternalError} : r = ErrorResponse(t)
        BY <1>4
    <2>2. r.type = "Error" /\ r.error = t /\ "endpoint" \notin DOMAIN r
        BY <2>1 DEF ErrorResponse
    <2>3. IsText(t) /\ t.n < Range16
        BY NameSpec
    <2>4. Fields(r) = <<t>>
        BY <2>2 DEF Fields
    <2>5. d.type = r.type /\ (Fits(Fields(r)) => Rest(d, 0) = t)
        BY <2>2, <2>3, <2>4, TextRead
    <2> HIDE DEF d
    <2>6. g = ErrorResponse(Rest(d, 0))
        BY <2>2, <2>5 DEF parseResponse, d
    <2> QED
        BY <2>1, <2>2, <2>5, <2>6
<1>5. CASE r = GetConnectedListResponse(names)
    <2>1. r.type = "SuccessConnectedList" /\ r.connectedList = names /\ "endpoint" \notin DOMAIN r
        BY <1>5 DEF GetConnectedListResponse
    <2> DEFINE length == Bytes(ListFields(names)) % Range16
               whole == Whole(names, Limit(length))
    <2>2. d.type = "SuccessConnectedList" /\ messageLength(r) = length /\ Fields(r) = ListFields(names)
        BY <1>5, ListWritten
    <2>3. ReadList(d) \subseteq {whole} \cup IF 1004 < length THEN {Append(whole, Garbage(0))} ELSE {}
        BY <1>5, ListRead
    <2>4. Fits(Fields(r)) => ReadList(d) \subseteq {names}
        BY <1>5, <2>2, ListFits
    <2> HIDE DEF d, length, whole
    <2>5. PICK l \in ReadList(d) : g = GetConnectedListResponse(l)
        BY <2>2 DEF parseResponse, d
    <2>6. g.connectedList = l
        BY <2>5 DEF GetConnectedListResponse
    <2>7. Fits(Fields(r)) => g = r
        BY <1>5, <2>4, <2>5
    <2>8. g.connectedList \in {whole} \cup IF 1004 < length THEN {Append(whole, Garbage(0))} ELSE {}
        BY <2>3, <2>5, <2>6
    <2> QED
        BY <2>1, <2>2, <2>7, <2>8, Zenon DEF whole
<1> QED
    BY <1>1, <1>2, <1>3, <1>4, <1>5, ResponseKinds

-----------------------------------------------------------------------------
(* The invariant. *)

\* What is under way has been written from the message it is meant to carry.
Transit ==
    wire # None =>
        /\ Carried(wire)
        /\ \/ sent \in ARequest /\ wire = MakeRequest(sent)
           \/ sent \in AResponse /\ wire = parseStunMessageToRaw(sent)

\* What was understood was read from what the message was written to.
Understood ==
    got # None =>
        \/ /\ sent \in ARequest /\ Carried(MakeRequest(sent))
           /\ got = parseRequest(MakeRequest(sent))
        \/ /\ sent \in AResponse /\ Carried(parseStunMessageToRaw(sent))
           /\ got \in parseResponse(parseStunMessageToRaw(sent))

IInv ==
    /\ names \in Seq(Name)
    /\ sent \in ARequest \cup AResponse \cup {None}
    /\ Transit /\ Understood

\* Requests go to the server and responses to a client, and no message is both.
LEMMA Apart ==
    /\ \A r : MakeRequest(r).to = "server" /\ parseStunMessageToRaw(r).to = "client"
    /\ \A r \in ARequest : r \notin AResponse /\ r.type # "SuccessConnectedList"
                           /\ "endpoint" \notin DOMAIN r
    /\ \A r \in AResponse :
          r.type \in {"SuccessBinding", "SuccessConnectedList", "ConnectToHost",
                     "SuccessConnectToClient", "IncomingConnectionRequest", "Error"}
    /\ None \notin ARequest /\ None \notin AResponse
<1>1. \A r : MakeRequest(r).to = "server" /\ parseStunMessageToRaw(r).to = "client"
    BY DEF MakeRequest, parseStunMessageToRaw, Packet
<1>3. \A r \in ARequest : r.type \in {"BindingRequest", "GetConnectedList", "ConnectToClient", "ConnectConsent"}
                          /\ "endpoint" \notin DOMAIN r
    BY DEF ARequest, BindingAttribute, GetConnectedList, ConnectToClientAttribute, ConnectConsent
<1>4. \A r \in AResponse : r.type \in {"SuccessBinding", "SuccessConnectedList", "ConnectToHost",
                                       "SuccessConnectToClient", "IncomingConnectionRequest", "Error"}
    BY DEF AResponse, BindingResponse, GetConnectedListResponse, ConnectToHost, ConnectToClientResponse,
           IncomingConnectionRequest, ErrorResponse
<1>5. None.type = "None"
    BY DEF None
<1> QED
    BY <1>1, <1>3, <1>4, <1>5

\* Initially nothing is under way.
LEMMA InitInv == Init => IInv
BY ConstantsOK DEF Init, IInv, Transit, Understood

\* The messages the server may have to send depend on the registry only.
LEMMA SameResponses == names' = names => AResponse' = AResponse
BY DEF AResponse

\* Every step keeps the invariant.
LEMMA NextInv == IInv /\ [Next]_vars => IInv'
<1> SUFFICES ASSUME IInv, [Next]_vars PROVE IInv'
    OBVIOUS
<1>1. ASSUME NEW r \in ARequest, ClientSends(r) PROVE IInv'
    <2>1. names' = names /\ sent' = r /\ got' = None
          /\ (wire' = None \/ (wire' = MakeRequest(r) /\ Carried(MakeRequest(r))))
        BY <1>1 DEF ClientSends, Transmit, Carried
    <2>2. names' \in Seq(Name)
        BY <2>1 DEF IInv
    <2>3. Transit'
        BY <1>1, <2>1 DEF Transit
    <2>4. Understood'
        BY <2>1 DEF Understood
    <2> QED
        BY <1>1, <2>1, <2>2, <2>3, <2>4 DEF IInv
<1>2. ASSUME NEW r \in AResponse, ServerSends(r) PROVE IInv'
    <2>1. names' = names /\ sent' = r /\ got' = None
          /\ (wire' = None \/ (wire' = parseStunMessageToRaw(r) /\ Carried(parseStunMessageToRaw(r))))
        BY <1>2 DEF ServerSends, Transmit, Carried
    <2>2. AResponse' = AResponse
        BY <2>1, SameResponses
    <2>3. sent' \in AResponse'
        BY <1>2, <2>1, <2>2
    <2>4. Transit'
        BY <2>1, <2>3 DEF Transit
    <2>5. Understood'
        BY <2>1 DEF Understood
    <2> QED
        BY <2>1, <2>3, <2>4, <2>5 DEF IInv
<1>3. CASE ServerReceives
    <2>1. wire # None /\ wire.to = "server" /\ wire' = None /\ sent' = sent
        BY <1>3 DEF ServerReceives
    <2>2. sent \in ARequest /\ wire = MakeRequest(sent) /\ Carried(wire)
        BY <2>1, Apart DEF IInv, Transit
    <2>3. Transit'
        BY <2>1 DEF Transit
    <2>4. CASE UNCHANGED <<names, got>>
        <3>1. AResponse' = AResponse
            BY <2>4, SameResponses
        <3>2. Understood'
            BY <2>1, <2>4, <3>1 DEF IInv, Understood
        <3> QED
            BY <2>1, <2>2, <2>3, <2>4, <3>2 DEF IInv
    <2>5. CASE /\ got' = parseRequest(wire)
               /\ names' = IF got'.type = "BindingRequest" /\ ~ Contains(names, got'.clientName)
                           THEN Append(names, got'.clientName) ELSE names
        <3>1. got'.type = "BindingRequest" => got'.clientName \in Name
            BY <2>2, <2>5, RequestRead
        <3>2. names' \in Seq(Name)
            BY <2>5, <3>1 DEF IInv
        <3>3. Understood'
            BY <2>1, <2>2, <2>5 DEF Understood
        <3> QED
            BY <2>1, <2>2, <2>3, <3>2, <3>3 DEF IInv
    <2> QED
        BY <1>3, <2>4, <2>5 DEF ServerReceives
<1>4. CASE ClientReceives
    <2>1. wire # None /\ wire.to = "client" /\ wire' = None /\ sent' = sent /\ names' = names
        BY <1>4 DEF ClientReceives
    <2>2. sent \in AResponse /\ wire = parseStunMessageToRaw(sent) /\ Carried(wire)
        BY <2>1, Apart DEF IInv, Transit
    <2>3. AResponse' = AResponse
        BY <2>1, SameResponses
    <2>4. Transit'
        BY <2>1 DEF Transit
    <2>5. got' \in parseResponse(wire) \/ got' = got
        BY <1>4 DEF ClientReceives
    <2>6. Understood'
        BY <2>1, <2>2, <2>3, <2>5 DEF IInv, Understood
    <2> QED
        BY <2>1, <2>2, <2>3, <2>4, <2>6 DEF IInv
<1>5. CASE UNCHANGED vars
    <2>1. names' = names /\ sent' = sent /\ wire' = wire /\ got' = got
        BY <1>5 DEF vars
    <2>2. AResponse' = AResponse
        BY <2>1, SameResponses
    <2> QED
        BY <2>1, <2>2 DEF IInv, Transit, Understood
<1> QED
    BY <1>1, <1>2, <1>3, <1>4, <1>5 DEF Next

\* The invariant holds always.
LEMMA Invariant == Spec => []IInv
BY InitInv, NextInv, PTL DEF Spec

-----------------------------------------------------------------------------
(* What follows. *)

\* What is got that was not a request was a response, and understood from its datagram.
LEMMA GotResponse ==
    ASSUME IInv, got # None, sent \notin ARequest
    PROVE  /\ names \in Seq(Name) /\ sent \in AResponse /\ Carried(parseStunMessageToRaw(sent))
           /\ got \in parseResponse(parseStunMessageToRaw(sent))
BY DEF IInv, Understood

\* No response is taken for a login.
LEMMA NotUnderstoodAsLogin ==
    ASSUME NEW r \in AResponse, NEW g \in parseResponse(parseStunMessageToRaw(r))
    PROVE  g.type # "BindingRequest"
<1> DEFINE d == parseStunMessageToRaw(r)
<1>1. d.type = r.type
    BY DEF parseStunMessageToRaw, Packet
<1>2. r.type \in {"SuccessBinding", "SuccessConnectedList", "ConnectToHost",
                  "SuccessConnectToClient", "IncomingConnectionRequest", "Error"}
    BY Apart
<1> HIDE DEF d
<1>3. \/ \E e, t : g = BindingResponse(e, t) \/ g = ConnectToHost(e, t) \/ g = ConnectToClientResponse(e, t)
      \/ \E t : g = GetConnectedListResponse(t) \/ g = IncomingConnectionRequest(t) \/ g = ErrorResponse(t)
    BY <1>1, <1>2 DEF parseResponse, d
<1> QED
    BY <1>3 DEF BindingResponse, ConnectToHost, ConnectToClientResponse, GetConnectedListResponse,
                IncomingConnectionRequest, ErrorResponse

\* Codec.TypeOK: what is remembered, sent and understood are messages of the program, for
\* any texts and registries; a name of the registry is never empty and never longer than
\* a datagram.
THEOREM TypeCorrect == Spec => []TypeOK
<1>1. IInv => TypeOK
    <2> SUFFICES ASSUME IInv PROVE TypeOK
        OBVIOUS
    <2>1. \A i \in DOMAIN names : names[i] \in Name
        BY DEF IInv
    <2>2. wire = None \/ wire.to \in {"client", "server"}
        BY Apart DEF IInv, Transit
    <2>3. ASSUME got # None, got.type = "BindingRequest"
          PROVE  got.clientName \in Name /\ got.clientName.n # 0
        <3>1. CASE sent \in ARequest
            <4>1. Carried(MakeRequest(sent)) /\ got = parseRequest(MakeRequest(sent))
                BY <2>3, <3>1, Apart DEF IInv, Understood
            <4> QED
                BY <2>3, <3>1, <4>1, RequestRead
        <3>2. CASE sent \notin ARequest
            BY <2>3, <3>2, GotResponse, NotUnderstoodAsLogin
        <3> QED
            BY <3>1, <3>2
    <2> QED
        BY <2>1, <2>2, <2>3 DEF IInv, TypeOK
<1> QED
    BY <1>1, Invariant, PTL

\* Codec.RequestUnderstood: whatever a client sends, parseRawMessage of the server takes it
\* for what MakeRequest was given, if it fits into the buffer.
THEOREM RequestsUnderstood == Spec => []RequestUnderstood
<1>1. IInv => RequestUnderstood
    <2> SUFFICES ASSUME IInv, got # None, sent \in ARequest
                 PROVE  IF sent = NoName THEN got.type = "Error" ELSE Fits(Payload(sent)) => got = sent
        BY DEF RequestUnderstood, NoName
    <2>1. Carried(MakeRequest(sent)) /\ got = parseRequest(MakeRequest(sent))
        BY Apart DEF IInv, Understood
    <2> QED
        BY <2>1, RequestRead
<1> QED
    BY <1>1, Invariant, PTL

\* Codec.ResponseUnderstood: whatever the server sends, the client takes it for what the
\* handler meant, if it fits into the buffer.
THEOREM ResponsesUnderstood == Spec => []ResponseUnderstood
<1>1. IInv => ResponseUnderstood
    BY GotResponse, ResponseRead DEF ResponseUnderstood
<1> QED
    BY <1>1, Invariant, PTL

\* Codec.PunchesAtEndpoint: the endpoint a client is told is the one the server meant,
\* whatever follows it and whether that fits or not.
THEOREM EndpointsKept == Spec => []PunchesAtEndpoint
<1>1. IInv => PunchesAtEndpoint
    BY GotResponse, ResponseRead, Apart DEF PunchesAtEndpoint
<1> QED
    BY <1>1, Invariant, PTL

\* Codec.ListPrefix: a client shows the names of a list that it has received whole, and
\* garbage at most once, at its end, whatever the number of names, and however their
\* lengths wrap modulo 2^16.
THEOREM ListsPrefix == Spec => []ListPrefix
<1>1. IInv => ListPrefix
    <2> SUFFICES ASSUME IInv, got # None, sent.type = "SuccessConnectedList"
                 PROVE  LET length == messageLength(sent)
                            whole == Whole(sent.connectedList, Limit(length))
                        IN got.connectedList \in {whole} \cup
                              IF 1004 < length THEN {Append(whole, Garbage(0))} ELSE {}
        BY DEF ListPrefix, Limit, Buffer, Header
    <2>1. sent \notin ARequest
        BY Apart
    <2> QED
        BY <2>1, GotResponse, ResponseRead
<1> QED
    BY <1>1, Invariant, PTL

===============================================================================
