------------------------- MODULE PatternScanProofs -------------------------
(***************************************************************************)
(* What PatternScan guarantees for every repository, chunk size, file and  *)
(* number of rewrites.  The argument is the relation IInv states between   *)
(* the buffer and the bytes read: the buffer is the end of the stream, and *)
(* once anything was dropped it is exactly as long as the overlap, so an   *)
(* occurrence that is not wholly in the older bytes starts in the buffer.  *)
(***************************************************************************)
EXTENDS PatternScan, NaturalSets, SequenceTheorems, TLAPS

----------------------------------------------------------------------------
\* The maximum and the minimum of two integers.
LEMMA MaxOfTwo ==
    ASSUME NEW a \in Int, NEW b \in Int
    PROVE  /\ Max({a, b}) \in {a, b}
           /\ Max({a, b}) >= a
           /\ Max({a, b}) >= b
<1>1. \E x \in {a, b} : \A y \in {a, b} : x >= y
  <2>1. CASE a >= b  BY <2>1
  <2>2. CASE b >= a  BY <2>2
  <2> QED  BY <2>1, <2>2
<1> QED
  BY <1>1 DEF Max

LEMMA MinOfTwo ==
    ASSUME NEW a \in Int, NEW b \in Int
    PROVE  /\ Min({a, b}) \in {a, b}
           /\ Min({a, b}) <= a
           /\ Min({a, b}) <= b
<1>1. \E x \in {a, b} : \A y \in {a, b} : x =< y
  <2>1. CASE a <= b  BY <2>1
  <2>2. CASE b <= a  BY <2>2
  <2> QED  BY <2>1, <2>2
<1> QED
  BY <1>1 DEF Min

\* A finite, non-empty family of natural numbers has a maximum.
LEMMA MaxOfFamily ==
    ASSUME NEW n \in Nat, NEW I, I \subseteq 1..n, I # {}, NEW f \in [I -> Nat]
    PROVE  LET L == {f[i] : i \in I}
           IN  /\ Max(L) \in L
               /\ \A i \in I : f[i] <= Max(L)
<1> DEFINE L == {f[i] : i \in I}
           Bounds(k) == {m \in Nat : \A i \in I : i <= k => f[i] <= m}
           Unbounded == {k \in 0..n : Bounds(k) = {}}
<1>1. Unbounded = {}
  <2> SUFFICES ASSUME Unbounded # {} PROVE FALSE
    OBVIOUS
  <2>1. PICK k \in Unbounded : \A j \in Unbounded : k <= j
    <3>1. Unbounded \subseteq Nat
      OBVIOUS
    <3> HIDE DEF Unbounded
    <3> QED  BY <3>1, LeastElement
  <2>2. 0 \in Bounds(0)
    OBVIOUS
  <2>3. k # 0
    BY <2>2
  <2>4. k - 1 \in 0..n /\ Bounds(k - 1) # {}
    <3>1. k \in 1..n
      BY <2>3
    <3>2. k - 1 \notin Unbounded
      <4> HIDE DEF Unbounded
      <4> QED  BY <2>1, <3>1
    <3> HIDE DEF Bounds
    <3> QED  BY <3>1, <3>2
  <2>5. PICK m \in Nat : m \in Bounds(k - 1)
    BY <2>4
  <2>6. CASE k \in I
    <3> DEFINE mm == IF f[k] >= m THEN f[k] ELSE m
    <3>1. mm \in Nat /\ mm >= f[k] /\ mm >= m
      BY <2>6
    <3>2. \A i \in I : i <= k => f[i] <= mm
      <4> SUFFICES ASSUME NEW i \in I, i <= k PROVE f[i] <= mm
        OBVIOUS
      <4>1. CASE i = k  BY <4>1, <3>1
      <4>2. CASE i <= k - 1
        BY <4>2, <2>5, <3>1
      <4> QED  BY <4>1, <4>2
    <3>3. mm \in Bounds(k)
      BY <3>1, <3>2
    <3> QED  BY <3>3, <2>1
  <2>7. CASE k \notin I
    <3>1. m \in Bounds(k)
      BY <2>5, <2>7
    <3> QED  BY <3>1, <2>1
  <2> QED  BY <2>6, <2>7
<1>2. PICK u \in Nat : \A i \in I : f[i] <= u
  <2>1. Bounds(n) # {}
    <3> HIDE DEF Bounds
    <3> QED  BY <1>1
  <2> QED  BY <2>1
<1> DEFINE Gaps == {u - f[i] : i \in I}
<1>3. Gaps \subseteq Nat /\ Gaps # {}
  <2>1. \A i \in I : u - f[i] \in Nat
    BY <1>2
  <2> QED  BY <2>1
<1>4. PICK g \in Gaps : \A h \in Gaps : g <= h
  <2> HIDE DEF Gaps
  <2> QED  BY <1>3, LeastElement
<1>5. PICK top \in I : \A i \in I : f[i] <= f[top]
  <2>1. PICK top \in I : g = u - f[top]
    BY <1>4
  <2>2. \A i \in I : u - f[top] <= u - f[i]
    BY <1>4, <2>1
  <2> QED  BY <2>2
<1>6. \E x \in L : \A y \in L : x >= y
  BY <1>5
<1>7. Max(L) \in L /\ \A y \in L : Max(L) >= y
  BY <1>6 DEF Max
<1> QED
  BY <1>7

----------------------------------------------------------------------------
\* The entries of the repository that have a pattern, and the longest pattern.
LEMMA PatternTypes ==
    ASSUME TypeOK
    PROVE  /\ Patterns \subseteq 1..Len(signatures)
           /\ \A i \in Patterns : /\ signatures[i].name \in Names
                                  /\ Pattern(i) \in Seq(Byte)
                                  /\ Len(Pattern(i)) \in Nat \ {0}
<1>1. signatures \in Seq(Signature)
  BY DatabasesAssumption DEF TypeOK
<1>2. DOMAIN signatures = 1..Len(signatures)
  BY <1>1
<1>3. \A i \in DOMAIN signatures : signatures[i] \in Signature
  BY <1>1
<1>4. \A i \in Patterns : /\ signatures[i].name \in Names
                          /\ Pattern(i) \in Seq(Byte) \ {<<>>}
  BY <1>3 DEF Patterns, Pattern, Signature
<1>5. \A q \in Seq(Byte) \ {<<>>} : Len(q) \in Nat \ {0}
  BY EmptySeq
<1> QED
  BY <1>2, <1>4, <1>5 DEF Patterns

LEMMA LongestPattern ==
    ASSUME TypeOK, Patterns # {}
    PROVE  /\ MaxPatLen \in Nat \ {0}
           /\ \A i \in Patterns : Len(Pattern(i)) <= MaxPatLen
<1> DEFINE f == [i \in Patterns |-> Len(Pattern(i))]
<1>1. f \in [Patterns -> Nat]
  BY PatternTypes
<1>2. Len(signatures) \in Nat
  BY DatabasesAssumption DEF TypeOK
<1>3. {f[i] : i \in Patterns} = {Len(Pattern(i)) : i \in Patterns}
  OBVIOUS
<1>4. /\ Max({f[i] : i \in Patterns}) \in {f[i] : i \in Patterns}
      /\ \A i \in Patterns : f[i] <= Max({f[j] : j \in Patterns})
  <2> HIDE DEF f
  <2> QED  BY <1>1, <1>2, PatternTypes, MaxOfFamily
<1>5. /\ MaxPatLen \in {Len(Pattern(i)) : i \in Patterns}
      /\ \A i \in Patterns : Len(Pattern(i)) <= MaxPatLen
  BY <1>3, <1>4 DEF MaxPatLen
<1> QED
  BY <1>5, PatternTypes

\* A pattern is at offset o of the end of a sequence iff it is at the
\* corresponding offset of the sequence.
LEMMA OccursInSuffix ==
    ASSUME NEW q \in Seq(Byte), NEW s \in Seq(Byte), NEW t \in Seq(Byte),
           NEW b \in Nat, b + Len(s) = Len(t),
           \A j \in 1..Len(s) : s[j] = t[b + j],
           NEW o \in Nat
    PROVE  Occurs(q, s, o) <=> Occurs(q, t, b + o)
<1>1. o + Len(q) <= Len(s) <=> (b + o) + Len(q) <= Len(t)
  OBVIOUS
<1>2. o + Len(q) <= Len(s) =>
        \A j \in 1..Len(q) : s[o + j] = t[(b + o) + j]
  <2> SUFFICES ASSUME o + Len(q) <= Len(s), NEW j \in 1..Len(q)
               PROVE  s[o + j] = t[(b + o) + j]
    OBVIOUS
  <2>1. o + j \in 1..Len(s) /\ b + (o + j) = (b + o) + j
    OBVIOUS
  <2> QED  BY <2>1
<1> QED
  BY <1>1, <1>2 DEF Occurs

\* What occurs in the first bytes is not changed by the bytes that follow.
LEMMA OccursInPrefix ==
    ASSUME NEW q \in Seq(Byte), NEW s \in Seq(Byte), NEW t \in Seq(Byte),
           NEW o \in Nat, o + Len(q) <= Len(s)
    PROVE  Occurs(q, s, o) <=> Occurs(q, s \o t, o)
<1>1. o + Len(q) <= Len(s \o t)
  BY ConcatProperties
<1>2. \A j \in 1..Len(q) : s[o + j] = (s \o t)[o + j]
  BY ConcatProperties
<1> QED
  BY <1>1, <1>2 DEF Occurs

----------------------------------------------------------------------------
\* What the search of one buffer adds to the results: only what it finds, one
\* result for each key that was not there yet, and no second one for any key.
LEMMA SearchBuffer ==
    ASSUME TypeOK, NEW buf \in Seq(Byte), NEW base \in Nat
    PROVE  LET new == NewResults(buf, base)
           IN  /\ new \subseteq [entry : Patterns, offset : Nat, block : Nat]
               /\ \A r \in new : /\ r.offset - base \in Nat
                                 /\ Occurs(Pattern(r.entry), buf, r.offset - base)
               /\ \A i \in Patterns, o \in Nat :
                    Occurs(Pattern(i), buf, o) =>
                      <<signatures[i].name, base + o>>
                        \in Seen \union {Key(r) : r \in new}
               /\ OneResultPerKey =>
                    \A r, q \in results \union new : Key(r) = Key(q) => r = q
<1> DEFINE end == base + Len(buf)
           Res == [entry : Patterns, offset : base..end, block : {end}]
           hits == {r \in Res : r.offset - base \in FindAll(r.entry, buf)}
           new == {r \in hits :
                     /\ Key(r) \notin Seen
                     /\ \A q \in hits : Key(q) = Key(r) => q.entry >= r.entry}
<1>1. NewResults(buf, base) = new
  BY DEF NewResults
<1>2. end \in Nat /\ Len(buf) \in Nat
  OBVIOUS
<1>3. new \subseteq [entry : Patterns, offset : Nat, block : Nat]
  BY <1>2
<1>4. \A r \in new : /\ r.offset - base \in Nat
                     /\ Occurs(Pattern(r.entry), buf, r.offset - base)
  BY <1>2 DEF FindAll
<1>5. ASSUME NEW i \in Patterns, NEW o \in Nat, Occurs(Pattern(i), buf, o)
      PROVE  <<signatures[i].name, base + o>>
               \in Seen \union {Key(r) : r \in new}
  <2> DEFINE k == <<signatures[i].name, base + o>>
             Same == {e \in Patterns : /\ signatures[e].name = signatures[i].name
                                       /\ o \in FindAll(e, buf)}
             R(e) == [entry |-> e, offset |-> base + o, block |-> end]
  <2>1. o \in 0..Len(buf)
    <3>1. o + Len(Pattern(i)) <= Len(buf)
      BY <1>5 DEF Occurs
    <3> QED  BY <3>1, PatternTypes
  <2>2. i \in Same
    BY <1>5, <2>1 DEF FindAll
  <2>3. Same \subseteq Nat
    BY PatternTypes
  <2>4. PICK e \in Same : \A d \in Same : e <= d
    <3> HIDE DEF Same
    <3> QED  BY <2>2, <2>3, LeastElement
  <2>5. R(e) \in hits /\ Key(R(e)) = k
    <3>1. base + o \in base..end /\ (base + o) - base = o
      BY <2>1
    <3> QED  BY <3>1, <2>4 DEF Key
  <2>6. \A q \in hits : Key(q) = k => q.entry \in Same
    <3> SUFFICES ASSUME NEW q \in hits, Key(q) = k PROVE q.entry \in Same
      OBVIOUS
    <3>1. q.entry \in Patterns /\ q.offset - base \in FindAll(q.entry, buf)
      OBVIOUS
    <3>2. signatures[q.entry].name = signatures[i].name /\ q.offset = base + o
      BY DEF Key
    <3> QED  BY <3>1, <3>2
  <2>7. \A q \in hits : Key(q) = Key(R(e)) => q.entry >= R(e).entry
    <3> HIDE DEF hits, Same, k
    <3>1. \A q \in hits : Key(q) = Key(R(e)) => q.entry \in Same /\ e <= q.entry
      BY <2>4, <2>5, <2>6
    <3> QED  BY <3>1, <2>3, <2>4
  <2>8. CASE k \in Seen
    BY <2>8
  <2>9. CASE k \notin Seen
    <3>1. R(e) \in new
      <4> HIDE DEF hits, R
      <4> QED  BY <2>5, <2>7, <2>9
    <3> HIDE DEF new, R
    <3> QED  BY <2>5, <3>1
  <2> QED  BY <2>8, <2>9
<1>6. ASSUME OneResultPerKey, NEW r \in results \union new,
             NEW q \in results \union new, Key(r) = Key(q)
      PROVE  r = q
  <2>1. CASE r \in results /\ q \in results
    BY <2>1, <1>6 DEF OneResultPerKey
  <2>2. CASE r \in results /\ q \in new
    BY <2>2, <1>6 DEF Seen
  <2>3. CASE r \in new /\ q \in results
    BY <2>3, <1>6 DEF Seen
  <2>4. CASE r \in new /\ q \in new
    <3>1. r.entry \in Nat /\ q.entry \in Nat
      BY <2>4, PatternTypes
    <3>2. r.entry >= q.entry /\ q.entry >= r.entry
      BY <2>4, <1>6
    <3>3. r.entry = q.entry
      BY <3>1, <3>2
    <3>4. r.offset = q.offset
      BY <1>6 DEF Key
    <3>5. r \in Res /\ q \in Res
      BY <2>4
    <3> QED  BY <3>3, <3>4, <3>5
  <2> QED  BY <2>1, <2>2, <2>3, <2>4
<1> HIDE DEF new
<1> QED
  BY <1>1, <1>3, <1>4, <1>5, <1>6

----------------------------------------------------------------------------
\* The buffer is the end of the bytes read, and once a byte was dropped it is
\* as long as the overlap.
Carried ==
    /\ bufferBase + Len(buffer) = Len(stream)
    /\ \A j \in 1..Len(buffer) : buffer[j] = stream[bufferBase + j]
    /\ Patterns # {} => bufferBase = 0 \/ Len(buffer) = Overlap

\* How far the handle is in a file nobody has written yet.
Followed ==
    /\ pc = "read" => Patterns # {}
    /\ fpos = Len(stream)
    /\ rewrites = 0 =>
         /\ fpos <= Len(file)
         /\ \A j \in 1..fpos : stream[j] = file[j]
         /\ pc = "done" /\ Patterns # {} => fpos = Len(file)

IInv ==
    /\ TypeOK
    /\ Carried
    /\ Followed
    /\ FoundExactly
    /\ OneResultPerKey
    /\ BoundedBuffer

\* Whatever IInv depends on, apart from the file and the program counter.
scanVars == <<signatures, chunkSize, fpos, buffer, bufferBase, results, stream>>

LEMMA FilesAreSequences ==
    \A f \in UNION {[1..n -> Byte] : n \in 0..MaxFileLen} : f \in Seq(Byte)
BY BoundsAssumption

LEMMA InitInv == Init => IInv
<1> SUFFICES ASSUME Init PROVE IInv
  OBVIOUS
<1>1. TypeOK
  BY FilesAreSequences DEF Init, TypeOK
<1>2. Len(<<>>) = 0
  OBVIOUS
<1>3. Seen = {}
  BY DEF Init, Seen
<1>4. Occurrences(<<>>) = {}
  <2>1. \A i \in Patterns : ~ Occurs(Pattern(i), <<>>, 0)
    BY <1>1, <1>2, PatternTypes DEF Occurs
  <2>2. \A k \in Names \X (0..0) : k[2] = 0
    OBVIOUS
  <2> QED  BY <1>2, <2>1, <2>2 DEF Occurrences
<1>5. FoundExactly
  BY <1>3, <1>4 DEF FoundExactly, Init
<1>6. BoundedBuffer
  BY <1>1, <1>2, LongestPattern DEF BoundedBuffer, Init, Overlap
<1>7. Carried /\ OneResultPerKey
  BY <1>2 DEF Init, Carried, OneResultPerKey
<1>8. Followed
  BY <1>1, <1>2 DEF Init, Followed, TypeOK
<1> QED
  BY <1>1, <1>5, <1>6, <1>7, <1>8 DEF IInv

\* The parts of IInv that mention neither the file nor the program counter.
LEMMA SameScan ==
    ASSUME IInv, UNCHANGED scanVars, TypeOK', Followed'
    PROVE  IInv'
<1> USE DEF scanVars
<1>1. Patterns' = Patterns /\ \A i : Pattern(i)' = Pattern(i)
  BY DEF Patterns, Pattern
<1>2. MaxPatLen' = MaxPatLen /\ Overlap' = Overlap
  BY <1>1 DEF MaxPatLen, Overlap, Patterns, Pattern
<1>3. Seen' = Seen
  BY DEF Seen, Key
<1>4. Occurrences(stream)' = Occurrences(stream)
  BY DEF Occurrences, Patterns, Pattern, Occurs
<1>5. FoundExactly'
  BY <1>3, <1>4 DEF IInv, FoundExactly
<1>6. Carried' /\ BoundedBuffer'
  BY <1>1, <1>2 DEF IInv, Carried, BoundedBuffer
<1>7. OneResultPerKey'
  BY DEF IInv, OneResultPerKey, Key
<1> QED
  BY <1>5, <1>6, <1>7 DEF IInv

\* What one read returns.
LEMMA ChunkType ==
    ASSUME TypeOK, Patterns # {}
    PROVE  /\ Chunk \in Seq(Byte)
           /\ fpos + Len(Chunk) <= Len(file) \/ Chunk = <<>>
           /\ \A j \in 1..Len(Chunk) : Chunk[j] = file[fpos + j]
           /\ Chunk = <<>> /\ fpos <= Len(file) => fpos = Len(file)
<1> DEFINE top == Min({fpos + ReadSize, Len(file)})
<1>1. /\ chunkSize \in Nat \ {0} /\ MaxPatLen \in Nat \ {0}
      /\ file \in Seq(Byte) /\ fpos \in Nat /\ Len(file) \in Nat
  BY ChunkSizesAssumption, LongestPattern DEF TypeOK
<1>2. ReadSize \in Nat \ {0}
  <2>1. chunkSize \in Int /\ MaxPatLen \in Int
    BY <1>1
  <2>2. ReadSize \in {chunkSize, MaxPatLen}
    BY <2>1, MaxOfTwo DEF ReadSize
  <2> QED  BY <1>1, <2>2
<1>3. /\ top \in Int
      /\ top \in {fpos + ReadSize, Len(file)}
      /\ top <= Len(file)
      /\ top <= fpos + ReadSize
  <2>1. fpos + ReadSize \in Int /\ Len(file) \in Int
    BY <1>1, <1>2
  <2> HIDE DEF top
  <2>2. /\ top \in {fpos + ReadSize, Len(file)}
        /\ top <= fpos + ReadSize /\ top <= Len(file)
    BY <2>1, MinOfTwo DEF top
  <2> QED  BY <2>1, <2>2
<1>4. Chunk = SubSeq(file, fpos + 1, top)
  BY DEF Chunk
<1> HIDE DEF top
<1>5. \A i \in (fpos + 1)..top : file[i] \in Byte
  BY <1>1, <1>3, ElementOfSeq
<1>6. /\ Chunk \in Seq(Byte)
      /\ Len(Chunk) = IF fpos + 1 <= top THEN top - (fpos + 1) + 1 ELSE 0
      /\ \A i \in 1..(top - (fpos + 1) + 1) : Chunk[i] = file[(fpos + 1) + i - 1]
  BY <1>1, <1>3, <1>4, <1>5, SubSeqProperties
<1>7. Chunk = <<>> => Len(Chunk) = 0
  OBVIOUS
<1>8. CASE fpos + 1 <= top
  <2>1. Len(Chunk) = top - fpos /\ Chunk # <<>>
    BY <1>1, <1>3, <1>6, <1>7, <1>8
  <2>2. \A i \in 1..Len(Chunk) : Chunk[i] = file[fpos + i]
    BY <1>1, <1>3, <1>6, <2>1
  <2> QED  BY <1>1, <1>3, <1>6, <2>1, <2>2
<1>9. CASE ~ (fpos + 1 <= top)
  <2>1. Chunk = <<>>
    BY <1>4, <1>9, <1>1, <1>3, SubSeqEmpty
  <2>2. fpos <= Len(file) => fpos = Len(file)
    BY <1>1, <1>2, <1>3, <1>9
  <2> QED  BY <1>6, <1>7, <2>1, <2>2
<1> QED
  BY <1>8, <1>9

\* One turn of the loop keeps IInv.
LEMMA ScanBlockInv ==
    ASSUME IInv, ScanBlock
    PROVE  IInv'
<1> DEFINE buf == buffer \o Chunk
           read == stream \o Chunk
           new == NewResults(buf, bufferBase)
           d == Dropped(buf)
<1>1. TypeOK /\ Patterns # {} /\ pc = "read" /\ pc' = "read"
  BY DEF IInv, ScanBlock, Followed
<1>2. /\ Chunk \in Seq(Byte) /\ Len(Chunk) \in Nat
      /\ buffer \in Seq(Byte) /\ stream \in Seq(Byte)
      /\ bufferBase \in Nat /\ fpos \in Nat
      /\ Len(buffer) \in Nat /\ Len(stream) \in Nat
  BY <1>1, ChunkType DEF TypeOK
<1>3. /\ buf \in Seq(Byte) /\ Len(buf) = Len(buffer) + Len(Chunk)
      /\ read \in Seq(Byte) /\ Len(read) = Len(stream) + Len(Chunk)
      /\ \A j \in 1..Len(buf) : buf[j] = IF j <= Len(buffer) THEN buffer[j]
                                          ELSE Chunk[j - Len(buffer)]
      /\ \A j \in 1..Len(read) : read[j] = IF j <= Len(stream) THEN stream[j]
                                            ELSE Chunk[j - Len(stream)]
  BY <1>2, ConcatProperties
<1>6. /\ results' = results \union new
      /\ bufferBase' = bufferBase + d
      /\ buffer' = SubSeq(buf, d + 1, Len(buf))
      /\ fpos' = fpos + Len(Chunk)
      /\ stream' = read
      /\ UNCHANGED <<signatures, chunkSize, file, rewrites>>
  BY DEF ScanBlock, NextBase
<1> HIDE DEF buf, read
<1>4. bufferBase + Len(buf) = Len(read)
  <2>1. bufferBase + Len(buffer) = Len(stream)
    BY DEF IInv, Carried
  <2>2. Len(buf) = Len(buffer) + Len(Chunk) /\ Len(read) = Len(stream) + Len(Chunk)
    BY <1>3
  <2>3. /\ bufferBase \in Nat /\ Len(buffer) \in Nat /\ Len(stream) \in Nat
        /\ Len(Chunk) \in Nat
    BY <1>2
  <2> QED  BY <2>1, <2>2, <2>3
<1>5. \A j \in 1..Len(buf) : buf[j] = read[bufferBase + j]
  <2> SUFFICES ASSUME NEW j \in 1..Len(buf) PROVE buf[j] = read[bufferBase + j]
    OBVIOUS
  <2>1. bufferBase + Len(buffer) = Len(stream)
    BY DEF IInv, Carried
  <2>2. CASE j <= Len(buffer)
    <3>1. buffer[j] = stream[bufferBase + j]
      BY <1>2, <2>2 DEF IInv, Carried
    <3>2. bufferBase + j \in 1..Len(stream)
      BY <1>2, <2>1, <2>2
    <3>3. bufferBase + j \in 1..Len(read) /\ bufferBase + j <= Len(stream)
      BY <1>2, <1>3, <3>2
    <3>4. buf[j] = buffer[j] /\ read[bufferBase + j] = stream[bufferBase + j]
      BY <1>3, <2>2, <3>3
    <3> QED  BY <3>1, <3>4
  <2>3. CASE j > Len(buffer)
    <3>1. /\ bufferBase + j \in 1..Len(read)
          /\ ~ (bufferBase + j <= Len(stream))
          /\ (bufferBase + j) - Len(stream) = j - Len(buffer)
          /\ ~ (j <= Len(buffer))
      <4>1. /\ bufferBase \in Nat /\ Len(buffer) \in Nat /\ Len(stream) \in Nat
            /\ Len(Chunk) \in Nat
        BY <1>2
      <4>2. Len(buf) = Len(buffer) + Len(Chunk) /\ Len(read) = Len(stream) + Len(Chunk)
        BY <1>3
      <4> QED  BY <2>1, <2>3, <4>1, <4>2
    <3>2. buf[j] = Chunk[j - Len(buffer)]
      BY <1>3, <3>1
    <3>3. read[bufferBase + j] = Chunk[(bufferBase + j) - Len(stream)]
      BY <1>3, <3>1
    <3> QED  BY <3>1, <3>2, <3>3
  <2> QED  BY <1>2, <1>3, <2>2, <2>3
<1>7. /\ Patterns' = Patterns /\ MaxPatLen' = MaxPatLen /\ Overlap' = Overlap
      /\ \A i : Pattern(i)' = Pattern(i) /\ \A r : Key(r)' = Key(r)
  BY <1>6 DEF Patterns, Pattern, MaxPatLen, Overlap, Key
<1>8. Overlap \in Nat /\ Overlap = MaxPatLen - 1 /\ MaxPatLen \in Nat \ {0}
  BY <1>1, LongestPattern DEF Overlap
<1>9. /\ d \in 0..Len(buf)
      /\ Len(buf) - d <= Overlap
      /\ d # 0 => Len(buf) - d = Overlap
  BY <1>2, <1>3, <1>8 DEF Dropped
<1> HIDE DEF d
<1>10. /\ buffer' \in Seq(Byte)
       /\ Len(buffer') = Len(buf) - d
       /\ \A j \in 1..Len(buffer') : buffer'[j] = buf[d + j]
  <2>1. \A i \in (d + 1)..Len(buf) : buf[i] \in Byte
    BY <1>3, <1>9, ElementOfSeq
  <2>2. /\ buffer' \in Seq(Byte)
        /\ Len(buffer') = IF d + 1 <= Len(buf) THEN Len(buf) - (d + 1) + 1 ELSE 0
        /\ \A i \in 1..(Len(buf) - (d + 1) + 1) : buffer'[i] = buf[(d + 1) + i - 1]
    BY <1>3, <1>6, <1>9, <2>1, SubSeqProperties
  <2>3. Len(buf) \in Nat /\ d \in Nat
    BY <1>3, <1>9
  <2>4. Len(buffer') = Len(buf) - d
    BY <1>9, <2>2, <2>3
  <2>5. \A j \in 1..Len(buffer') : /\ j \in 1..(Len(buf) - (d + 1) + 1)
                                   /\ (d + 1) + j - 1 = d + j
    BY <2>3, <2>4
  <2>6. \A j \in 1..Len(buffer') : buffer'[j] = buf[d + j]
    BY <2>2, <2>5
  <2> QED  BY <2>2, <2>4, <2>6
<1>11. Carried'
  <2>1. bufferBase' + Len(buffer') = Len(stream')
    <3>1. stream' = read /\ bufferBase' = bufferBase + d
      BY <1>6
    <3>2. Len(buf) \in Nat /\ d \in Nat /\ Len(buffer') = Len(buf) - d
      BY <1>3, <1>9, <1>10
    <3> QED  BY <1>2, <1>4, <3>1, <3>2
  <2>2. \A j \in 1..Len(buffer') : buffer'[j] = stream'[bufferBase' + j]
    <3> SUFFICES ASSUME NEW j \in 1..Len(buffer')
                 PROVE  buffer'[j] = stream'[bufferBase' + j]
      OBVIOUS
    <3>1. d + j \in 1..Len(buf) /\ bufferBase + (d + j) = (bufferBase + d) + j
      BY <1>2, <1>3, <1>9, <1>10
    <3> QED  BY <1>5, <1>6, <1>10, <3>1
  <2>3. bufferBase' = 0 \/ Len(buffer') = Overlap'
    <3>1. CASE d # 0
      BY <3>1, <1>7, <1>9, <1>10
    <3>2. CASE d = 0 /\ bufferBase = 0
      BY <3>2, <1>6
    <3>3. CASE d = 0 /\ bufferBase # 0
      <4>1. Len(buffer) = Overlap
        BY <3>3, <1>1 DEF IInv, Carried
      <4>2. Len(buf) = Overlap
        BY <1>2, <1>3, <1>8, <1>9, <3>3, <4>1
      <4> QED  BY <1>7, <1>8, <1>10, <3>3, <4>2
    <3> QED  BY <3>1, <3>2, <3>3
  <2> QED  BY <2>1, <2>2, <2>3 DEF Carried
<1>12. /\ new \subseteq [entry : Patterns, offset : Nat, block : Nat]
       /\ \A r \in new : /\ r.offset - bufferBase \in Nat
                         /\ Occurs(Pattern(r.entry), buf, r.offset - bufferBase)
       /\ \A i \in Patterns, o \in Nat :
            Occurs(Pattern(i), buf, o) =>
              <<signatures[i].name, bufferBase + o>>
                \in Seen \union {Key(r) : r \in new}
       /\ \A r, q \in results \union new : Key(r) = Key(q) => r = q
  <2>1. OneResultPerKey
    BY DEF IInv
  <2> QED  BY <1>1, <1>2, <1>3, <2>1, SearchBuffer
<1>13. TypeOK'
  <2>1. results' \subseteq [entry : Patterns', offset : Nat, block : Nat]
    <3> HIDE DEF new
    <3> QED  BY <1>1, <1>6, <1>7, <1>12 DEF TypeOK
  <2>2. bufferBase' \in Nat /\ fpos' \in Nat /\ stream' \in Seq(Byte)
    BY <1>2, <1>3, <1>6, <1>9
  <2> QED  BY <1>1, <1>6, <1>10, <2>1, <2>2 DEF TypeOK
<1>14. OneResultPerKey'
  <2> HIDE DEF new
  <2> QED  BY <1>6, <1>7, <1>12 DEF OneResultPerKey
<1>15. Seen' = Seen \union {Key(r) : r \in new}
  <2> HIDE DEF new
  <2> QED  BY <1>6, <1>7 DEF Seen
<1>16. Seen' \subseteq Occurrences(read)
  <2>1. ASSUME NEW k \in Seen PROVE k \in Occurrences(read)
    <3>1. k \in Occurrences(stream)
      BY <2>1 DEF IInv, FoundExactly
    <3>2. PICK i \in Patterns : /\ signatures[i].name = k[1]
                                /\ Occurs(Pattern(i), stream, k[2])
      BY <3>1 DEF Occurrences
    <3>3. k \in Names \X (0..Len(stream)) /\ k[2] \in Nat
      BY <3>1, <1>2 DEF Occurrences
    <3>4. Occurs(Pattern(i), read, k[2])
      <4> DEFINE q == Pattern(i)
      <4>1. q \in Seq(Byte) /\ k[2] + Len(q) <= Len(stream)
        BY <1>1, <3>2, PatternTypes DEF Occurs
      <4> HIDE DEF q
      <4>2. Occurs(q, stream, k[2])
        BY <3>2 DEF q
      <4>3. Occurs(q, stream \o Chunk, k[2])
        BY <1>2, <3>3, <4>1, <4>2, OccursInPrefix
      <4> QED  BY <4>3 DEF q, read
    <3>5. k \in Names \X (0..Len(read))
      BY <1>2, <1>3, <3>3
    <3> QED  BY <3>2, <3>4, <3>5 DEF Occurrences
  <2>2. ASSUME NEW r \in new PROVE Key(r) \in Occurrences(read)
    <3> DEFINE o == r.offset - bufferBase
               q == Pattern(r.entry)
    <3> HIDE DEF new
    <3>1. /\ r.entry \in Patterns /\ r.offset \in Nat /\ o \in Nat
          /\ Occurs(q, buf, o)
      BY <1>12, <2>2
    <3>2. q \in Seq(Byte) /\ Len(q) \in Nat /\ signatures[r.entry].name \in Names
      BY <1>1, <3>1, PatternTypes
    <3>3. Occurs(q, read, bufferBase + o)
      BY <1>2, <1>3, <1>4, <1>5, <3>1, <3>2, OccursInSuffix
    <3>4. bufferBase + o = r.offset
      BY <1>2, <3>1
    <3>5. r.offset \in 0..Len(read)
      BY <1>3, <3>1, <3>2, <3>3, <3>4 DEF Occurs
    <3> QED  BY <3>1, <3>2, <3>3, <3>4, <3>5 DEF Occurrences, Key
  <2> HIDE DEF new
  <2> QED  BY <1>15, <2>1, <2>2
<1>17. Occurrences(read) \subseteq Seen'
  <2> SUFFICES ASSUME NEW k \in Occurrences(read) PROVE k \in Seen'
    OBVIOUS
  <2>1. PICK i \in Patterns : /\ signatures[i].name = k[1]
                              /\ Occurs(Pattern(i), read, k[2])
    BY DEF Occurrences
  <2> DEFINE q == Pattern(i)
             o == k[2]
  <2>2. /\ k = <<signatures[i].name, o>> /\ o \in Nat /\ o \in 0..Len(read)
        /\ signatures[i].name \in Names
        /\ q \in Seq(Byte) /\ Len(q) \in Nat \ {0} /\ Len(q) <= MaxPatLen
    <3>1. k \in Names \X (0..Len(read))
      BY DEF Occurrences
    <3>2. Len(read) \in Nat
      BY <1>3
    <3> QED  BY <1>1, <2>1, <3>1, <3>2, PatternTypes, LongestPattern
  <2> HIDE DEF q, o
  <2>3. CASE o + Len(q) <= Len(stream)
    <3>1. Occurs(q, stream, o)
      <4>1. Occurs(q, stream \o Chunk, o)
        BY <2>1 DEF q, o, read
      <4> QED  BY <1>2, <2>2, <2>3, <4>1, OccursInPrefix
    <3>2. o \in 0..Len(stream)
      BY <1>2, <2>2, <2>3
    <3>3. k \in Occurrences(stream)
      <4>1. k \in Names \X (0..Len(stream)) /\ k[1] = signatures[i].name /\ k[2] = o
        BY <2>2, <3>2
      <4> QED  BY <3>1, <4>1 DEF Occurrences, q
    <3> QED  BY <1>15, <3>3 DEF IInv, FoundExactly
  <2>4. CASE o + Len(q) > Len(stream)
    <3>1. o >= bufferBase
      <4>1. bufferBase + Len(buffer) = Len(stream)
        BY DEF IInv, Carried
      <4>2. bufferBase = 0 \/ Len(buffer) = Overlap
        BY <1>1 DEF IInv, Carried
      <4> QED  BY <1>2, <1>8, <2>2, <2>4, <4>1, <4>2
    <3>2. o - bufferBase \in Nat /\ bufferBase + (o - bufferBase) = o
      BY <1>2, <2>2, <3>1
    <3>3. Occurs(q, read, o)
      BY <2>1 DEF q, o
    <3> HIDE DEF new
    <3>4. Occurs(q, buf, o - bufferBase)
      <4> DEFINE at == o - bufferBase
      <4>1. at \in Nat /\ Occurs(q, read, bufferBase + at)
        BY <3>2, <3>3
      <4> HIDE DEF at
      <4>2. Occurs(q, buf, at)
        BY <1>2, <1>3, <1>4, <1>5, <2>2, <4>1, OccursInSuffix
      <4> QED  BY <4>2 DEF at
    <3>5. <<signatures[i].name, o>> \in Seen \union {Key(r) : r \in new}
      BY <1>12, <3>2, <3>4 DEF q
    <3> QED  BY <1>15, <2>2, <3>5
  <2> QED  BY <1>2, <2>2, <2>3, <2>4
<1>18. FoundExactly'
  <2>1. Occurrences(stream)' = Occurrences(read)
    <3>1. \A q, x, o : Occurs(q, x, o)' = Occurs(q, x, o)
      BY DEF Occurs
    <3> QED  BY <1>6, <1>7 DEF Occurrences
  <2> QED  BY <1>16, <1>17, <2>1 DEF FoundExactly
<1>19. BoundedBuffer'
  BY <1>7, <1>9, <1>10 DEF BoundedBuffer
<1>20. Followed'
  <2>1. pc' = "read" /\ Patterns' # {} /\ fpos' = Len(stream')
    BY <1>1, <1>3, <1>6, <1>7 DEF IInv, Followed
  <2>2. ASSUME rewrites = 0
        PROVE  fpos' <= Len(file') /\ \A j \in 1..fpos' : stream'[j] = file'[j]
    <3>1. /\ fpos = Len(stream) /\ fpos <= Len(file)
          /\ \A j \in 1..fpos : stream[j] = file[j]
      BY <2>2 DEF IInv, Followed
    <3>2. Chunk # <<>> /\ fpos + Len(Chunk) <= Len(file)
      BY <1>1, ChunkType DEF ScanBlock
    <3>3. \A j \in 1..Len(Chunk) : Chunk[j] = file[fpos + j]
      BY <1>1, ChunkType
    <3>4. ASSUME NEW j \in 1..Len(read) PROVE read[j] = file[j]
      <4>1. CASE j <= fpos
        BY <1>2, <1>3, <3>1, <4>1
      <4>2. CASE j > fpos
        <5>1. j - fpos \in 1..Len(Chunk) /\ fpos + (j - fpos) = j
          BY <1>2, <1>3, <3>1, <4>2
        <5>2. read[j] = Chunk[j - fpos]
          BY <1>2, <1>3, <3>1, <4>2
        <5> QED  BY <3>3, <5>1, <5>2
      <4> QED  BY <1>2, <1>3, <4>1, <4>2
    <3>5. fpos' = Len(read)
      BY <1>3, <1>6, <3>1
    <3> QED  BY <1>6, <3>2, <3>4, <3>5
  <2> QED  BY <1>1, <1>6, <2>1, <2>2 DEF Followed
<1> QED
  BY <1>11, <1>13, <1>14, <1>18, <1>19, <1>20 DEF IInv

\* The steps that end the scan or open the file.
LEMMA ControlStepInv ==
    ASSUME IInv, ReturnEmpty \/ Open \/ EndOfFile
    PROVE  IInv'
<1>1. /\ UNCHANGED <<scanVars, file, rewrites>>
      /\ pc' \in {"read", "done"}
      /\ pc' = "read" => Patterns # {}
      /\ pc' = "done" /\ Patterns # {} => Chunk = <<>>
  BY DEF ReturnEmpty, Open, EndOfFile, scanVars
<1>2. TypeOK'
  BY <1>1 DEF IInv, TypeOK, scanVars, Patterns
<1>3. Followed'
  <2>1. Patterns' = Patterns
    BY <1>1 DEF Patterns, scanVars
  <2>2. pc' = "done" /\ Patterns # {} /\ rewrites = 0 => fpos = Len(file)
    BY <1>1, ChunkType DEF IInv, Followed
  <2> QED  BY <1>1, <2>1, <2>2 DEF IInv, Followed, scanVars
<1> QED
  BY <1>1, <1>2, <1>3, SameScan DEF scanVars

\* A write by another process.
LEMMA RewriteInv ==
    ASSUME IInv, Rewrite
    PROVE  IInv'
<1>1. UNCHANGED scanVars /\ pc' = pc /\ rewrites' = rewrites + 1
  BY DEF Rewrite, scanVars
<1>2. file' \in Seq(Byte) /\ rewrites \in Nat
  BY FilesAreSequences DEF Rewrite, IInv, TypeOK
<1>3. TypeOK'
  BY <1>1, <1>2 DEF IInv, TypeOK, scanVars, Patterns
<1>4. Followed'
  <2>1. Patterns' = Patterns /\ rewrites' # 0
    BY <1>1, <1>2 DEF Patterns, scanVars
  <2> QED  BY <1>1, <2>1 DEF IInv, Followed, scanVars
<1> QED
  BY <1>1, <1>3, <1>4, SameScan

LEMMA StutterInv ==
    ASSUME IInv, UNCHANGED vars
    PROVE  IInv'
<1>1. UNCHANGED <<scanVars, file, rewrites, pc>>
  BY DEF vars, scanVars
<1>2. TypeOK'
  BY <1>1 DEF IInv, TypeOK, scanVars, Patterns
<1>3. Followed'
  BY <1>1 DEF IInv, Followed, scanVars, Patterns
<1> QED
  BY <1>1, <1>2, <1>3, SameScan

\* The inductive invariant of the engine.
THEOREM Invariance == Spec => []IInv
<1>1. Init => IInv
  BY InitInv
<1>2. IInv /\ [Next]_vars => IInv'
  <2> SUFFICES ASSUME IInv, [Next]_vars PROVE IInv'
    OBVIOUS
  <2>1. CASE ReturnEmpty \/ Open \/ EndOfFile  BY <2>1, ControlStepInv
  <2>2. CASE ScanBlock  BY <2>2, ScanBlockInv
  <2>3. CASE Rewrite  BY <2>3, RewriteInv
  <2>4. CASE UNCHANGED vars  BY <2>4, StutterInv
  <2> QED  BY <2>1, <2>2, <2>3, <2>4 DEF Next, Scan
<1> QED
  BY <1>1, <1>2, PTL DEF Spec

\* Every variable keeps its type (lines 60-74).
THEOREM TypeCorrect == Spec => []TypeOK
<1>1. IInv => TypeOK
  BY DEF IInv
<1> QED  BY <1>1, Invariance, PTL

\* For every repository, chunk size and file, and under every interleaving of
\* writes, the names and offsets found after each block are exactly those a
\* search of all the bytes read would find (lines 71-102).
THEOREM ChunkingLosesNothing == Spec => []FoundExactly
<1>1. IInv => FoundExactly
  BY DEF IInv
<1> QED  BY <1>1, Invariance, PTL

\* A name is never reported twice for one offset (lines 84-87).
THEOREM NoDuplicateResult == Spec => []OneResultPerKey
<1>1. IInv => OneResultPerKey
  BY DEF IInv
<1> QED  BY <1>1, Invariance, PTL

\* The memory the engine holds between reads is bounded by the longest
\* pattern and not by the file (lines 97-102).
THEOREM MemoryBounded == Spec => []BoundedBuffer
<1>1. IInv => BoundedBuffer
  BY DEF IInv
<1> QED  BY <1>1, Invariance, PTL

\* A file nobody writes during the scan is searched to its last byte, an
\* incomplete last block included.
WholeFileSearched ==
    pc = "done" /\ rewrites = 0 => Seen = Occurrences(file)

\* A file nobody wrote during the scan was searched completely (75-79).
THEOREM QuietFileSearched == Spec => []WholeFileSearched
<1>1. IInv => WholeFileSearched
  <2> SUFFICES ASSUME IInv, pc = "done", rewrites = 0
               PROVE  Seen = Occurrences(file)
    BY DEF WholeFileSearched
  <2>1. CASE Patterns = {}
    <3>1. Occurrences(file) = {}
      BY <2>1 DEF Occurrences
    <3>2. Seen = {}
      BY <2>1 DEF IInv, TypeOK, Seen
    <3> QED  BY <3>1, <3>2
  <2>2. CASE Patterns # {}
    <3>1. /\ fpos = Len(stream) /\ fpos = Len(file)
          /\ \A j \in 1..fpos : stream[j] = file[j]
      BY <2>2 DEF IInv, Followed
    <3>2. stream \in Seq(Byte) /\ file \in Seq(Byte)
      BY DEF IInv, TypeOK
    <3>3. stream = file
      BY <3>1, <3>2, SeqEqual
    <3> QED  BY <3>3 DEF IInv, FoundExactly
  <2> QED  BY <2>1, <2>2
<1> QED  BY <1>1, Invariance, PTL

----------------------------------------------------------------------------
(* The engine implements WholeSearch.                                       *)

\* The parts of s the abstract search compares are where Occurs looks.
LEMMA LiesWhereItOccurs ==
    ASSUME NEW p, p.bytes \in Seq(Byte), Len(p.bytes) # 0,
           NEW s \in Seq(Byte), NEW o \in Nat
    PROVE  Search!LiesAt(p, s, o) <=> Occurs(p.bytes, s, o)
<1> DEFINE q == p.bytes
           part == SubSeq(s, o + 1, o + Len(q))
<1>1. Len(q) \in Nat \ {0} /\ Len(s) \in Nat
  OBVIOUS
<1>2. CASE o + Len(q) <= Len(s)
  <2>1. \A i \in (o + 1) .. (o + Len(q)) : s[i] \in Byte
    BY <1>1, <1>2, ElementOfSeq
  <2>2. /\ part \in Seq(Byte)
        /\ Len(part) = IF o + 1 <= o + Len(q) THEN o + Len(q) - (o + 1) + 1 ELSE 0
        /\ \A i \in 1 .. (o + Len(q)) - (o + 1) + 1 : part[i] = s[(o + 1) + i - 1]
    BY <1>1, <2>1, SubSeqProperties
  <2> HIDE DEF part
  <2>3. Len(part) = Len(q)
    BY <1>1, <2>2
  <2>4. \A i \in 1 .. Len(q) : part[i] = s[o + i]
    BY <1>1, <2>2
  <2>5. part = q <=> \A i \in 1 .. Len(q) : part[i] = q[i]
    BY <2>2, <2>3, SeqEqual
  <2> QED BY <1>2, <2>4, <2>5 DEF Search!LiesAt, Occurs, part
<1>3. CASE ~ (o + Len(q) <= Len(s))
  BY <1>3 DEF Search!LiesAt, Occurs
<1> QED BY <1>2, <1>3

LEMMA SamePlaces ==
    ASSUME TypeOK, NEW s \in Seq(Byte)
    PROVE  Search!Places(s) = Occurrences(s)
<1> DEFINE pattern(i) == [name |-> signatures[i].name, bytes |-> Pattern(i)]
           patterns == {pattern(i) : i \in Patterns}
<1>1. ASSUME NEW i \in Patterns, NEW o \in 0 .. Len(s)
      PROVE  Search!LiesAt(pattern(i), s, o) <=> Occurs(Pattern(i), s, o)
  <2>1. /\ pattern(i).bytes = Pattern(i) /\ o \in Nat
        /\ Pattern(i) \in Seq(Byte) /\ Len(Pattern(i)) # 0
    BY PatternTypes
  <2> HIDE DEF pattern
  <2> QED BY <2>1, LiesWhereItOccurs
<1>2. Search!Places(s) =
        {k \in Names \X (0 .. Len(s)) :
           \E p \in patterns : p.name = k[1] /\ Search!LiesAt(p, s, k[2])}
  BY DEF Search!Places
<1>3. ASSUME NEW k \in Names \X (0 .. Len(s))
      PROVE  (\E p \in patterns : p.name = k[1] /\ Search!LiesAt(p, s, k[2]))
               <=> \E i \in Patterns : signatures[i].name = k[1]
                                       /\ Occurs(Pattern(i), s, k[2])
  <2>1. k[2] \in 0 .. Len(s)
    OBVIOUS
  <2>2. \A i \in Patterns : pattern(i).name = signatures[i].name
    OBVIOUS
  <2> HIDE DEF pattern
  <2> QED BY <1>1, <2>1, <2>2
<1> HIDE DEF patterns
<1> QED BY <1>2, <1>3 DEF Occurrences

\* What a read returns is the next part of the file.
LEMMA ChunkIsNextPart ==
    ASSUME TypeOK, Patterns # {}, Chunk # <<>>
    PROVE  \E n \in (fpos + 1) .. Len(file) : Chunk = SubSeq(file, fpos + 1, n)
<1> DEFINE top == Min({fpos + ReadSize, Len(file)})
<1>1. /\ chunkSize \in Int /\ MaxPatLen \in Int
      /\ fpos \in Nat /\ Len(file) \in Nat
  BY ChunkSizesAssumption, LongestPattern DEF TypeOK
<1>2. fpos + ReadSize \in Int
  <2>1. ReadSize \in {chunkSize, MaxPatLen}
    BY <1>1, MaxOfTwo DEF ReadSize
  <2> QED BY <1>1, <2>1
<1>3. top \in Int /\ top <= Len(file)
  <2>1. fpos + ReadSize \in Int /\ Len(file) \in Int
    BY <1>1, <1>2
  <2> HIDE DEF top
  <2>2. top \in {fpos + ReadSize, Len(file)} /\ top <= Len(file)
    BY <2>1, MinOfTwo DEF top
  <2> QED BY <2>1, <2>2
<1>4. Chunk = SubSeq(file, fpos + 1, top)
  BY DEF Chunk
<1> HIDE DEF top
<1>5. fpos + 1 <= top
  BY <1>1, <1>3, <1>4, SubSeqEmpty
<1> QED BY <1>1, <1>3, <1>4, <1>5

LEMMA SearchInit == Init => Search!Init
<1> SUFFICES ASSUME Init PROVE Search!Init
  OBVIOUS
<1>1. TypeOK /\ Seen = {}
  BY InitInv DEF Init, IInv, Seen
<1>2. {[name |-> signatures[i].name, bytes |-> Pattern(i)] : i \in Patterns}
        \subseteq [name : Names, bytes : Seq(Byte) \ {<<>>}]
  BY <1>1, PatternTypes DEF Patterns, Pattern
<1> QED BY <1>1, <1>2 DEF Search!Init, Init, TypeOK

\* Nothing the abstract search looks at changes with what it looks for.
LEMMA SamePatterns ==
    ASSUME UNCHANGED signatures
    PROVE  {[name |-> signatures[i].name, bytes |-> Pattern(i)] : i \in Patterns}'
             = {[name |-> signatures[i].name, bytes |-> Pattern(i)] : i \in Patterns}
BY DEF Patterns, Pattern

LEMMA SearchStep ==
    ASSUME IInv, IInv', [Next]_vars
    PROVE  [Search!Next]_(Search!vars)
<1> DEFINE patterns == {[name |-> signatures[i].name, bytes |-> Pattern(i)] : i \in Patterns}
<1>1. TypeOK /\ TypeOK' /\ fpos = Len(stream) /\ fpos \in Nat
  BY DEF IInv, Followed, TypeOK
<1>2. patterns = {} <=> Patterns = {}
  OBVIOUS
<1>3. signatures' = signatures => patterns' = patterns
  BY SamePatterns
<1> HIDE DEF patterns
<1>4. CASE ReturnEmpty \/ EndOfFile
  <2>1. /\ pc # "done" /\ pc' = "done"
        /\ UNCHANGED <<signatures, file, stream, results>>
        /\ Patterns = {} \/ (Patterns # {} /\ Chunk = <<>>)
    BY <1>4 DEF ReturnEmpty, EndOfFile
  <2>2. patterns' = patterns /\ Seen' = Seen
    BY <1>3, <2>1 DEF Seen, Key
  <2>3. Patterns = {} \/ Len(file) <= Len(stream)
    <3>1. Patterns # {} /\ Chunk = <<>> /\ fpos <= Len(file) => fpos = Len(file)
      BY <1>1, ChunkType
    <3>2. Len(file) \in Nat
      BY <1>1 DEF TypeOK
    <3> QED BY <1>1, <2>1, <3>1, <3>2
  <2>4. Search!Finish
    BY <1>2, <2>1, <2>2, <2>3 DEF Search!Finish, patterns
  <2> QED BY <2>1, <2>4 DEF Search!Next
<1>5. CASE Open \/ UNCHANGED vars
  <2>1. /\ UNCHANGED <<signatures, file, stream, results>>
        /\ pc' = pc \/ (pc = "open" /\ pc' = "read")
    BY <1>5 DEF Open, vars
  <2>2. patterns' = patterns /\ Seen' = Seen
    BY <1>3, <2>1 DEF Seen, Key
  <2> QED BY <2>1, <2>2 DEF Search!vars, patterns
<1>6. CASE ScanBlock
  <2>1. /\ pc = "read" /\ pc' = "read" /\ Chunk # <<>>
        /\ stream' = stream \o Chunk
        /\ UNCHANGED <<signatures, file>>
    BY <1>6 DEF ScanBlock
  <2>2. Patterns # {} /\ patterns # {} /\ patterns' = patterns
    BY <1>2, <1>3, <2>1 DEF IInv, Followed
  <2>3. PICK n \in (Len(stream) + 1) .. Len(file) :
          stream' = stream \o SubSeq(file, Len(stream) + 1, n)
    BY <1>1, <2>1, <2>2, ChunkIsNextPart
  <2>4. Seen' = Search!Places(stream')
    <3>1. Seen' = Occurrences(stream)'
      BY DEF IInv, FoundExactly
    <3>2. Occurrences(stream)' = Occurrences(stream')
      <4>1. \A i : Pattern(i)' = Pattern(i)
        BY <2>1 DEF Pattern
      <4>2. Patterns' = Patterns
        BY <2>1 DEF Patterns
      <4>3. \A q, x, o : Occurs(q, x, o)' = Occurs(q, x, o)
        BY DEF Occurs
      <4> QED BY <2>1, <4>1, <4>2, <4>3 DEF Occurrences
    <3>3. stream' \in Seq(Byte)
      BY <1>1 DEF TypeOK
    <3> QED BY <1>1, <3>1, <3>2, <3>3, SamePlaces
  <2>5. Search!Read
    BY <2>1, <2>2, <2>3, <2>4 DEF Search!Read, patterns
  <2> QED BY <2>1, <2>5 DEF Search!Next
<1>7. CASE Rewrite
  <2>1. /\ pc # "done" /\ pc' = pc
        /\ UNCHANGED <<signatures, stream, results>>
    BY <1>7 DEF Rewrite
  <2>2. patterns' = patterns /\ Seen' = Seen
    BY <1>3, <2>1 DEF Seen, Key
  <2>3. file' \in Seq(Byte)
    BY <1>1 DEF TypeOK
  <2>4. Search!Write
    BY <2>1, <2>2, <2>3 DEF Search!Write, patterns
  <2> QED BY <2>1, <2>4 DEF Search!Next
<1> QED BY <1>4, <1>5, <1>6, <1>7 DEF Next, Scan

\* The engine, for every repository, chunk size and file and whoever writes the file
\* meanwhile, is a search of the whole file without blocks: what it has found after a
\* read is every place of every pattern in the bytes read so far, and it ends only when
\* the file has no more (60-105).
THEOREM EngineSearches == Spec => Searches
<1>1. IInv /\ IInv' /\ [Next]_vars => [Search!Next]_(Search!vars)
  BY SearchStep
<1> QED
  BY <1>1, SearchInit, Invariance, PTL DEF Spec, Searches, Search!Spec

----------------------------------------------------------------------------
(* The safety kernel of Terminates.                                         *)

\* However the file is rewritten, it is never longer than a file can be, and the
\* handle never beyond that.
Within == Len(file) <= MaxFileLen /\ fpos <= MaxFileLen

\* A bound on the steps the search still takes: a read of one byte at least for every
\* byte a file can have beyond the handle, the empty read, and the opening.
StepsLeft ==
    CASE pc = "open" -> MaxFileLen + 2
      [] pc = "read" -> (MaxFileLen - fpos) + 1
      [] pc = "done" -> 0

RunsDown == [][StepsLeft' < StepsLeft]_<<pc, fpos>>

LEMMA FilesAreShort ==
    \A f \in UNION {[1..n -> Byte] : n \in 0..MaxFileLen} : Len(f) <= MaxFileLen
BY BoundsAssumption

\* A read that returns something moves the handle on, and not beyond the file.
LEMMA HandleMovesOn ==
    ASSUME IInv, ScanBlock
    PROVE  fpos < fpos' /\ fpos' <= Len(file) /\ fpos' \in Nat
<1>1. Patterns # {} /\ Chunk # <<>> /\ fpos' = fpos + Len(Chunk) /\ fpos \in Nat
  BY DEF IInv, Followed, TypeOK, ScanBlock
<1>2. Chunk \in Seq(Byte) /\ fpos + Len(Chunk) <= Len(file)
  BY <1>1, ChunkType DEF IInv
<1>3. Len(Chunk) \in Nat /\ Len(Chunk) # 0
  BY <1>1, <1>2, EmptySeq
<1> QED BY <1>1, <1>2, <1>3

LEMMA WithinNext == IInv /\ Within /\ [Next]_vars => Within'
<1> SUFFICES ASSUME IInv, Within, [Next]_vars PROVE Within'
  OBVIOUS
<1>1. CASE ReturnEmpty \/ Open \/ EndOfFile \/ UNCHANGED vars
  BY <1>1 DEF ReturnEmpty, Open, EndOfFile, vars, Within
<1>2. CASE ScanBlock
  <2>1. file' = file /\ Len(file) \in Nat
    BY <1>2 DEF ScanBlock, IInv, TypeOK
  <2> QED BY <1>2, <2>1, HandleMovesOn, BoundsAssumption DEF Within
<1>3. CASE Rewrite
  BY <1>3, FilesAreShort DEF Rewrite, Within
<1> QED BY <1>1, <1>2, <1>3 DEF Next, Scan

LEMMA StepIsLess ==
    ASSUME IInv, Within, [Next]_vars
    PROVE  [StepsLeft' < StepsLeft]_<<pc, fpos>>
<1>1. fpos \in Nat /\ MaxFileLen \in Nat /\ Len(file) \in Nat
  BY BoundsAssumption DEF IInv, TypeOK
<1>2. CASE ReturnEmpty \/ Open
  <2>1. pc = "open" => fpos' = fpos /\ pc' \in {"read", "done"}
    BY <1>2 DEF ReturnEmpty, Open
  <2> QED BY <1>1, <1>2, <2>1 DEF ReturnEmpty, Open, StepsLeft, Within
<1>3. CASE ScanBlock
  <2>1. pc = "read" /\ pc' = "read"
    BY <1>3 DEF ScanBlock
  <2> QED BY <1>1, <1>3, <2>1, HandleMovesOn DEF StepsLeft, Within
<1>4. CASE EndOfFile
  BY <1>1, <1>4 DEF EndOfFile, StepsLeft, Within
<1>5. CASE Rewrite \/ UNCHANGED vars
  BY <1>5 DEF Rewrite, vars
<1> QED BY <1>2, <1>3, <1>4, <1>5 DEF Next, Scan

\* Every step of the search leaves fewer steps to take, and no write of another process
\* adds one: a search whose thread goes on ends, also in a file that shrinks below the
\* handle or grows again.  This is what Terminates needs besides fairness (75-79).
THEOREM SearchRunsDown == Spec => [](StepsLeft \in Nat) /\ RunsDown
<1>1. Init => Within
  BY FilesAreShort, BoundsAssumption DEF Init, Within
<1>2. IInv /\ Within => StepsLeft \in Nat
  BY BoundsAssumption DEF IInv, TypeOK, Within, StepsLeft
<1>3. IInv /\ Within /\ [Next]_vars => [StepsLeft' < StepsLeft]_<<pc, fpos>>
  BY StepIsLess
<1> QED
  BY <1>1, <1>2, <1>3, WithinNext, Invariance, PTL DEF Spec, RunsDown
=============================================================================
