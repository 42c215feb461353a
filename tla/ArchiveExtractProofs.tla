------------------------ MODULE ArchiveExtractProofs ------------------------
(***************************************************************************)
(* Proofs about ArchiveExtract.  The bytes on disk are a set, so that a    *)
(* file more or a file larger adds an interval to it and its cardinality   *)
(* can be compared with the counter of the code (Counted); Covered is the  *)
(* loop invariant of the walk.                                             *)
(***************************************************************************)
EXTENDS ArchiveExtract, FiniteSetTheorems, TLAPS

Works == [Names -> File \union {Absent}]

----------------------------------------------------------------------------
(* The bytes and the files of an extraction directory.                      *)

LEMMA IntervalSize ==
    ASSUME NEW a \in Int, NEW b \in Int
    PROVE  /\ IsFiniteSet(a .. b)
           /\ Cardinality(a .. b) = IF a > b THEN 0 ELSE b - a + 1
BY FS_Interval

LEMMA SingletonSize == ASSUME NEW x PROVE IsFiniteSet({x}) /\ Cardinality({x}) = 1
BY FS_Singleton

LEMMA BytesFinite ==
    ASSUME NEW w \in Works
    PROVE  IsFiniteSet(Bytes(w)) /\ SizeOf(w) \in Nat
<1> DEFINE block == [n \in Present(w) |-> {n} \X (1 .. w[n].size)]
           blocks == {{n} \X (1 .. w[n].size) : n \in Present(w)}
<1>1. IsFiniteSet(Present(w))
  BY NamesAssumption, FS_Subset DEF Present
<1>2. block \in Surjection(Present(w), blocks)
  BY DEF Surjection
<1>3. IsFiniteSet(blocks)
  BY <1>1, <1>2, FS_Surjection
<1>4. ASSUME NEW n \in Present(w)
      PROVE  IsFiniteSet({n} \X (1 .. w[n].size))
  <2>1. w[n].size \in Int
    BY DEF Present, Works, File
  <2>2. IsFiniteSet(1 .. w[n].size)
    BY <2>1, IntervalSize
  <2> QED BY <2>2, SingletonSize, FS_Product
<1>5. \A T \in blocks : IsFiniteSet(T)
  BY <1>4
<1> HIDE DEF blocks
<1>6. IsFiniteSet(UNION blocks)
  BY <1>3, <1>5, FS_UNION
<1> QED BY <1>6, FS_CardinalityType DEF Bytes, SizeOf, blocks

LEMMA FilesFinite ==
    ASSUME NEW w \in Works
    PROVE  IsFiniteSet(Present(w)) /\ Cardinality(Present(w)) \in Nat
BY NamesAssumption, FS_Subset, FS_CardinalityType DEF Present

\* So many bytes of one file are so many bytes.
LEMMA BlockSize ==
    ASSUME NEW n, NEW a \in Nat, NEW b \in Nat, a <= b
    PROVE  /\ IsFiniteSet({n} \X ((a + 1) .. b))
           /\ Cardinality({n} \X ((a + 1) .. b)) = b - a
<1>1. IsFiniteSet((a + 1) .. b) /\ Cardinality((a + 1) .. b) = b - a
  <2> DEFINE c == a + 1
  <2>1. c \in Int
    OBVIOUS
  <2> HIDE DEF c
  <2>2. IsFiniteSet(c .. b) /\ Cardinality(c .. b) = IF c > b THEN 0 ELSE b - c + 1
    BY <2>1, IntervalSize
  <2> QED BY <2>2 DEF c
<1>2. IsFiniteSet({n}) /\ Cardinality({n}) = 1
  BY SingletonSize
<1>3. /\ IsFiniteSet({n} \X ((a + 1) .. b))
      /\ Cardinality({n} \X ((a + 1) .. b)) = Cardinality({n}) * Cardinality((a + 1) .. b)
  <2> DEFINE interval == (a + 1) .. b
  <2> HIDE DEF interval
  <2>1. IsFiniteSet(interval)
    BY <1>1 DEF interval
  <2>2. /\ IsFiniteSet({n} \X interval)
        /\ Cardinality({n} \X interval) = Cardinality({n}) * Cardinality(interval)
    BY <1>2, <2>1, FS_Product
  <2> QED BY <2>2 DEF interval
<1>4. 1 * (b - a) = b - a
  OBVIOUS
<1> QED BY <1>1, <1>2, <1>3, <1>4

\* What is added to a set adds at most its own size.
LEMMA GrowthBound ==
    ASSUME NEW S, NEW T, NEW U, IsFiniteSet(S), IsFiniteSet(T), U \subseteq S \union T
    PROVE  Cardinality(U) <= Cardinality(S) + Cardinality(T)
<1>1. /\ IsFiniteSet(S \union T)
      /\ Cardinality(S \union T) = Cardinality(S) + Cardinality(T) - Cardinality(S \intersect T)
  BY FS_Union
<1>2. IsFiniteSet(S \intersect T) /\ IsFiniteSet(U) /\ Cardinality(U) <= Cardinality(S \union T)
  BY <1>1, FS_Subset
<1>3. /\ Cardinality(S) \in Nat /\ Cardinality(T) \in Nat /\ Cardinality(U) \in Nat
      /\ Cardinality(S \intersect T) \in Nat
  BY <1>2, FS_CardinalityType
<1> QED BY <1>1, <1>2, <1>3

\* A file that is new, or replaces another, adds its bytes and one file at most.
LEMMA FileAdded ==
    ASSUME NEW w \in Works, NEW n \in Names, NEW file \in File
    PROVE  LET v == [w EXCEPT ![n] = file]
           IN  /\ v \in Works
               /\ Present(v) = Present(w) \union {n}
               /\ SizeOf(v) <= SizeOf(w) + file.size
               /\ Cardinality(Present(v)) <= Cardinality(Present(w)) + 1
<1> DEFINE v == [w EXCEPT ![n] = file]
           block == {n} \X ((0 + 1) .. file.size)
<1>1. v \in Works /\ v[n] = file /\ \A m \in Names \ {n} : v[m] = w[m]
  BY DEF Works
<1> HIDE DEF v
<1>2. Present(v) = Present(w) \union {n}
  BY <1>1, AbsentAssumption DEF Present
<1>3. Bytes(v) \subseteq Bytes(w) \union block
  BY <1>1, <1>2 DEF Bytes, Present
<1>4. file.size \in Nat
  BY DEF File
<1>5. IsFiniteSet(block) /\ Cardinality(block) = file.size
  <2>1. 0 \in Nat /\ 0 <= file.size /\ file.size - 0 = file.size
    BY <1>4
  <2>2. IsFiniteSet(block) /\ Cardinality(block) = file.size - 0
    BY <1>4, <2>1, BlockSize
  <2> QED BY <2>1, <2>2
<1> HIDE DEF block
<1>6. SizeOf(v) <= SizeOf(w) + file.size
  BY <1>3, <1>5, BytesFinite, GrowthBound DEF SizeOf
<1>7. Cardinality(Present(v)) <= Cardinality(Present(w)) + 1
  <2>1. IsFiniteSet(Present(w)) /\ Cardinality(Present(w)) \in Nat
    BY FilesFinite
  <2>2. Cardinality(Present(w) \union {n}) =
          IF n \in Present(w) THEN Cardinality(Present(w)) ELSE Cardinality(Present(w)) + 1
    BY <2>1, FS_AddElement
  <2> QED BY <1>2, <2>1, <2>2
<1> QED BY <1>1, <1>2, <1>6, <1>7 DEF v

\* A file that grows adds the bytes it grows by.
LEMMA FileGrown ==
    ASSUME NEW w \in Works, NEW n \in Present(w), NEW size \in Nat
    PROVE  LET v == [w EXCEPT ![n].size = @ + size]
           IN  /\ v \in Works
               /\ Present(v) = Present(w)
               /\ SizeOf(v) <= SizeOf(w) + size
<1> DEFINE v == [w EXCEPT ![n].size = @ + size]
           block == {n} \X ((w[n].size + 1) .. (w[n].size + size))
<1>1. n \in Names /\ w[n] \in File /\ w[n].size \in Nat
  BY DEF Present, Works, File
<1>2. [w[n] EXCEPT !.size = @ + size] \in File
  BY <1>1 DEF File
<1>3. /\ v \in Works /\ v[n] \in File /\ v[n].size = w[n].size + size
      /\ \A m \in Names \ {n} : v[m] = w[m]
  BY <1>1, <1>2 DEF Works, File
<1> HIDE DEF v
<1>4. Present(v) = Present(w)
  BY <1>1, <1>3, AbsentAssumption DEF Present
<1>5. 1 .. v[n].size = (1 .. w[n].size) \union ((w[n].size + 1) .. (w[n].size + size))
  BY <1>1, <1>3
<1>6. {n} \X (1 .. v[n].size) = ({n} \X (1 .. w[n].size)) \union block
  BY <1>5
<1>7. Bytes(v) \subseteq Bytes(w) \union block
  BY <1>3, <1>4, <1>6 DEF Bytes, Present
<1>8. IsFiniteSet(block) /\ Cardinality(block) = size
  <2>1. w[n].size + size \in Nat /\ w[n].size <= w[n].size + size
    BY <1>1
  <2>2. (w[n].size + size) - w[n].size = size
    BY <1>1
  <2> QED BY <1>1, <2>1, <2>2, BlockSize
<1> HIDE DEF block
<1>9. SizeOf(v) <= SizeOf(w) + size
  BY <1>7, <1>8, BytesFinite, GrowthBound DEF SizeOf
<1> QED BY <1>3, <1>4, <1>9 DEF v

\* A file that goes takes nothing along but its own.
LEMMA FileRemoved ==
    ASSUME NEW w \in Works, NEW n \in Names
    PROVE  LET v == [w EXCEPT ![n] = Absent]
           IN  /\ v \in Works
               /\ Present(v) = Present(w) \ {n}
               /\ SizeOf(v) <= SizeOf(w)
               /\ Cardinality(Present(v)) <= Cardinality(Present(w))
<1> DEFINE v == [w EXCEPT ![n] = Absent]
<1>1. v \in Works /\ v[n] = Absent /\ \A m \in Names \ {n} : v[m] = w[m]
  BY DEF Works
<1> HIDE DEF v
<1>2. Present(v) = Present(w) \ {n}
  BY <1>1 DEF Present
<1>3. Bytes(v) \subseteq Bytes(w)
  BY <1>1, <1>2 DEF Bytes, Present
<1> QED BY <1>1, <1>2, <1>3, BytesFinite, FilesFinite, FS_Subset DEF SizeOf, v

\* What a file contains does not count.
LEMMA FileJudged ==
    ASSUME NEW w \in Works, NEW n \in Present(w), NEW i \in Inside
    PROVE  LET v == [w EXCEPT ![n].inside = i]
           IN  /\ v \in Works
               /\ Present(v) = Present(w)
               /\ SizeOf(v) = SizeOf(w)
<1> DEFINE v == [w EXCEPT ![n].inside = i]
<1>1. n \in Names /\ w[n] \in File
  BY DEF Present, Works
<1>2. /\ v \in Works /\ v[n] \in File /\ v[n].size = w[n].size
      /\ \A m \in Names \ {n} : v[m] = w[m]
  BY <1>1 DEF Works, File
<1> HIDE DEF v
<1>3. Present(v) = Present(w)
  BY <1>1, <1>2, AbsentAssumption DEF Present
<1>4. \A m \in Present(w) : v[m].size = w[m].size
  BY <1>2 DEF Present
<1>5. Bytes(v) = Bytes(w)
  BY <1>3, <1>4 DEF Bytes
<1> QED BY <1>2, <1>3, <1>5 DEF SizeOf, v

----------------------------------------------------------------------------
(* The inductive invariant.                                                 *)

Extracting == {"detect", "members", "plain", "command", "count"}

\* What an unpacker wrote, as far as the loop that counts it has come.
CountedWork == [n \in Names |-> IF n \in toScan THEN Absent ELSE work[n]]

\* While members are written the counters are ahead of the disk and within the caps;
\* in the plain stream, whose bytes are counted from 0, what the members left is on
\* the disk beside it.  After an unpacker the counters are ahead of the part of the disk
\* that was counted.
Counted ==
    /\ pc \in {"members", "plain"} => totalBytes <= MaxBytes
    /\ pc = "members" => /\ format \in {"zip", "tar", "stream"}
                         /\ SizeOf(work) <= totalBytes
                         /\ Cardinality(Present(work)) <= totalFiles
                         /\ totalFiles <= MaxFiles
    /\ pc = "plain" => /\ format = "stream"
                       /\ PlainName \in Present(work)
                       /\ SizeOf(work) <= MaxBytes + totalBytes
                       /\ Cardinality(Present(work)) <= MaxFiles + 1
    /\ pc = "detect" => /\ work = [n \in Names |-> Absent]
                        /\ totalBytes = 0 /\ totalFiles = 0
    /\ pc \in {"command", "count"} => format = "command"
    /\ pc = "command" => totalBytes = 0 /\ totalFiles = 0
    /\ pc = "count" => /\ SizeOf(CountedWork) <= totalBytes
                       /\ totalBytes <= MaxBytes
                       /\ Cardinality(Present(CountedWork)) <= totalFiles
                       /\ totalFiles <= MaxFiles

\* The walk answers for the files it has taken.
Covered ==
    /\ pc \in Extracting \ {"count"} => toScan = {}
    /\ pc \in Extracting =>
         findings = {} /\ nested = {} /\ failed = {} /\ dropped = {}
    /\ pc \in {"detect", "command", "count"} => met = {}
    /\ pc \in {"members", "plain", "walk", "answered"} => met \subseteq Present(work)
    /\ pc \in {"walk", "answered"} =>
         /\ findings = {n \in Present(work) \ toScan : work[n].inside = "infected"} \ failed
         /\ nested = {n \in Present(work) \ toScan : work[n].inside = "archive"}
                       \ (dropped \union failed)
         /\ failed \intersect toScan = {} /\ dropped \intersect toScan = {}
         /\ dropped # {} => backend = "sandbox"
    /\ pc = "answered" => toScan = {}

IInv == TypeOK /\ Counted /\ DiskBounded /\ CommandBounded /\ Covered

LEMMA WrittenIsFile == Written \subseteq File
BY SizesAssumption DEF Written, File

\* What an exception leaves of a half-written member is still within the caps.
LEMMA PartlyWrittenBounded ==
    ASSUME IInv, pc = "members", NEW w \in PartlyWritten
    PROVE  /\ w \in Works /\ Present(work) \subseteq Present(w)
           /\ SizeOf(w) <= MaxBytes
           /\ Cardinality(Present(w)) <= MaxFiles
<1>1. /\ work \in Works /\ totalBytes \in Nat /\ totalFiles \in Nat
      /\ SizeOf(work) <= totalBytes /\ totalBytes <= MaxBytes
      /\ Cardinality(Present(work)) <= totalFiles /\ totalFiles <= MaxFiles
      /\ SizeOf(work) \in Nat /\ Cardinality(Present(work)) \in Nat
  BY BytesFinite, FilesFinite DEF IInv, TypeOK, Counted, Works
<1>2. CASE w = work
  BY <1>1, <1>2, CapsAssumption
<1>3. CASE w # work
  <2>1. PICK n \in Names, file \in Written :
          w = [work EXCEPT ![n] = file] /\ ~ OverCap(file.size + 1)
    BY <1>3 DEF PartlyWritten
  <2>2. file \in File /\ file.size \in Nat
    BY WrittenIsFile DEF File
  <2>3. totalBytes + file.size <= MaxBytes /\ totalFiles + 1 <= MaxFiles
    BY <1>1, <2>1, <2>2, CapsAssumption DEF OverCap
  <2>4. /\ w \in Works /\ Present(w) = Present(work) \union {n}
        /\ SizeOf(w) <= SizeOf(work) + file.size
        /\ Cardinality(Present(w)) <= Cardinality(Present(work)) + 1
    BY <1>1, <2>1, <2>2, FileAdded
  <2>5. SizeOf(w) \in Nat /\ Cardinality(Present(w)) \in Nat
    BY <2>4, BytesFinite, FilesFinite
  <2> QED BY <1>1, <2>2, <2>3, <2>4, <2>5, CapsAssumption
<1> QED BY <1>2, <1>3

LEMMA InitInv == Init => IInv
<1> SUFFICES ASSUME Init PROVE IInv
  OBVIOUS
<1> USE DEF Init
<1>1. work \in Works /\ Present(work) = {}
  BY DEF Works, Present
<1>2. TypeOK
  BY <1>1 DEF TypeOK, Works
<1>3. Counted /\ DiskBounded /\ CommandBounded
  BY DEF Counted, DiskBounded, CommandBounded
<1>4. Covered
  BY DEF Covered
<1> QED BY <1>2, <1>3, <1>4 DEF IInv

----------------------------------------------------------------------------
(* The extraction.                                                          *)

LEMMA DetectStep == ASSUME IInv, Detect PROVE IInv'
<1> USE DEF IInv
<1>1. work = [n \in Names |-> Absent] /\ totalBytes = 0 /\ totalFiles = 0 /\ pc = "detect"
  BY DEF Detect, Counted
<1>2. Present(work) = {} /\ SizeOf(work) = 0 /\ Cardinality(Present(work)) = 0
  <2>1. Present(work) = {}
    BY <1>1 DEF Present
  <2>2. Bytes(work) = {}
    BY <2>1 DEF Bytes
  <2> QED BY <2>1, <2>2, FS_EmptySet DEF SizeOf
<1>3. /\ UNCHANGED <<backend, work, totalBytes, totalFiles, toScan, findings, nested, failed,
                     dropped, met>>
      /\ \/ format' \in {"zip", "tar", "stream"} /\ pc' = "members"
         \/ format' = "command" /\ pc' = "command"
         \/ format' = "unknown" /\ pc' \in {"skipped", "raised"}
  BY DEF Detect, counters, answer
<1>4. TypeOK'
  BY <1>3 DEF TypeOK, Done
<1>5. Counted' /\ DiskBounded' /\ CommandBounded'
  BY <1>1, <1>2, <1>3, CapsAssumption DEF Counted, DiskBounded, CommandBounded
<1>6. Covered'
  BY <1>1, <1>3 DEF Covered, Extracting
<1> QED BY <1>4, <1>5, <1>6

LEMMA MemberWrittenStep ==
    ASSUME IInv, NEW n \in Names, NEW file \in Written, MemberWritten(n, file)
    PROVE  IInv'
<1> USE DEF IInv
<1>1. /\ pc = "members" /\ ~ OverCap(file.size) /\ work' = [work EXCEPT ![n] = file]
      /\ totalBytes' = totalBytes + file.size /\ totalFiles' = totalFiles + 1
      /\ met' = met \union {n}
      /\ UNCHANGED <<backend, format, pc, toScan, findings, nested, failed, dropped>>
  BY DEF MemberWritten, answer
<1>2. file \in File /\ file.size \in Nat
  BY WrittenIsFile DEF File
<1>3. /\ work \in Works /\ totalBytes \in Nat /\ totalFiles \in Nat
      /\ SizeOf(work) <= totalBytes /\ Cardinality(Present(work)) <= totalFiles
      /\ SizeOf(work) \in Nat /\ Cardinality(Present(work)) \in Nat
  BY <1>1, BytesFinite, FilesFinite DEF TypeOK, Counted, Works
<1>4. totalBytes' <= MaxBytes /\ totalFiles' <= MaxFiles
  BY <1>1, <1>2, <1>3, CapsAssumption DEF OverCap
<1>5. /\ work' \in Works /\ Present(work') = Present(work) \union {n}
      /\ SizeOf(work') <= SizeOf(work) + file.size
      /\ Cardinality(Present(work')) <= Cardinality(Present(work)) + 1
  BY <1>1, <1>2, <1>3, FileAdded
<1>6. SizeOf(work') \in Nat /\ Cardinality(Present(work')) \in Nat
  BY <1>5, BytesFinite, FilesFinite
<1>7. SizeOf(work') <= totalBytes' /\ Cardinality(Present(work')) <= totalFiles'
  BY <1>1, <1>2, <1>3, <1>5, <1>6
<1>8. TypeOK'
  BY <1>1, <1>2, <1>3, <1>5 DEF TypeOK, Works, Covered, Extracting
<1>9. totalBytes' \in Nat /\ totalFiles' \in Nat
  BY <1>8 DEF TypeOK
<1>10. SizeOf(work') <= MaxBytes /\ Cardinality(Present(work')) <= MaxFiles
  BY <1>4, <1>6, <1>7, <1>9, CapsAssumption
<1>11. Counted'
  BY <1>1, <1>4, <1>7 DEF Counted
<1>12. DiskBounded' /\ CommandBounded'
  BY <1>1, <1>6, <1>10, CapsAssumption DEF DiskBounded, CommandBounded
<1>13. Covered'
  BY <1>1, <1>5 DEF Covered, Extracting
<1> QED BY <1>8, <1>11, <1>12, <1>13

\* A run that ends without an answer only has to keep the disk bounded.
LEMMA RunEnded ==
    ASSUME TypeOK', DiskBounded', pc' \in {"skipped", "raised"}
    PROVE  IInv'
BY DEF IInv, Counted, CommandBounded, Covered, Extracting

\* The same where the disk is left alone.
LEMMA RunEndedHere ==
    ASSUME IInv, pc' \in {"skipped", "raised"},
           UNCHANGED <<backend, format, work, answer>>,
           totalBytes' \in Nat, totalFiles' \in Nat, met' \subseteq Names
    PROVE  IInv'
<1>1. TypeOK'
  BY DEF IInv, TypeOK, Done, answer
<1>2. DiskBounded'
  BY DEF IInv, DiskBounded
<1> QED BY <1>1, <1>2, RunEnded

\* The walk begins with everything to scan.
LEMMA WalkBegins ==
    ASSUME IInv, pc \in Extracting, pc' = "walk", toScan' = Present(work'),
           UNCHANGED <<backend, format, totalBytes, totalFiles, findings, nested, failed, dropped>>,
           work' \in Works, met' \subseteq Present(work'), DiskBounded', CommandBounded'
    PROVE  IInv'
<1>1. Present(work') \subseteq Names
  BY DEF Present
<1>2. TypeOK'
  BY <1>1 DEF IInv, TypeOK, Works
<1>3. Counted'
  BY DEF Counted
<1>4. Covered'
  BY DEF IInv, Covered, Extracting
<1> QED BY <1>2, <1>3, <1>4 DEF IInv

LEMMA MemberOverCapStep ==
    ASSUME IInv, NEW n \in Names, NEW file \in Written, MemberOverCap(n, file)
    PROVE  IInv'
<1>1. /\ pc' = "skipped" /\ met' = met \union {n}
      /\ UNCHANGED <<backend, format, totalBytes, totalFiles, work, answer>>
  BY DEF MemberOverCap, counters
<1>2. totalBytes' \in Nat /\ totalFiles' \in Nat /\ met' \subseteq Names
  BY <1>1 DEF IInv, TypeOK
<1> QED BY <1>1, <1>2, RunEndedHere

LEMMA MembersEndStep == ASSUME IInv, MembersEnd PROVE IInv'
<1>1. /\ pc = "members" /\ pc' = "walk" /\ toScan' = Present(work) /\ work' = work
      /\ UNCHANGED <<backend, format, totalBytes, totalFiles, findings, nested, met, failed,
                     dropped>>
  BY DEF MembersEnd, counters
<1>2. /\ pc \in Extracting /\ work' \in Works /\ toScan' = Present(work')
      /\ met' \subseteq Present(work')
  BY <1>1 DEF IInv, TypeOK, Covered, Extracting, Works
<1>3. DiskBounded' /\ CommandBounded'
  BY <1>1 DEF IInv, DiskBounded, CommandBounded, Counted
<1> QED BY <1>1, <1>2, <1>3, WalkBegins

LEMMA TarBreaksStep == ASSUME IInv, TarBreaks PROVE IInv'
<1> DEFINE empty == [size |-> 0, inside |-> "clean"]
<1>1. /\ pc = "members" /\ format = "stream" /\ pc' = "plain"
      /\ totalBytes' = 0 /\ totalFiles' = 0
      /\ UNCHANGED <<backend, format, toScan, findings, nested, failed, dropped, met>>
  BY DEF TarBreaks, answer
<1>2. PICK w \in PartlyWritten : work' = [w EXCEPT ![PlainName] = empty]
  BY DEF TarBreaks
<1>3. /\ w \in Works /\ Present(work) \subseteq Present(w)
      /\ SizeOf(w) <= MaxBytes /\ Cardinality(Present(w)) <= MaxFiles
  BY <1>1, PartlyWrittenBounded
<1>4. empty \in File /\ empty.size = 0
  BY DEF File, Inside
<1> HIDE DEF empty
<1>5. PlainName \in Names
  BY NamesAssumption
<1>6. /\ work' \in Works /\ Present(work') = Present(w) \union {PlainName}
      /\ SizeOf(work') <= SizeOf(w) + 0
      /\ Cardinality(Present(work')) <= Cardinality(Present(w)) + 1
  BY <1>2, <1>3, <1>4, <1>5, FileAdded
<1>7. /\ SizeOf(w) \in Nat /\ Cardinality(Present(w)) \in Nat
      /\ SizeOf(work') \in Nat /\ Cardinality(Present(work')) \in Nat
  BY <1>3, <1>6, BytesFinite, FilesFinite
<1>8. SizeOf(work') <= MaxBytes /\ Cardinality(Present(work')) <= MaxFiles + 1
  BY <1>3, <1>6, <1>7, CapsAssumption
<1>9. TypeOK'
  BY <1>1, <1>6 DEF IInv, TypeOK, Works, Covered, Extracting
<1>10. Counted'
  BY <1>1, <1>6, <1>8, CapsAssumption DEF Counted
<1>11. DiskBounded' /\ CommandBounded'
  BY <1>1, <1>7, <1>8, CapsAssumption DEF DiskBounded, CommandBounded
<1>12. Covered'
  BY <1>1, <1>3, <1>6 DEF IInv, Covered, Extracting
<1> QED BY <1>9, <1>10, <1>11, <1>12 DEF IInv

LEMMA PlainChunkStep ==
    ASSUME IInv, NEW size \in Sizes \ {0}, PlainChunk(size)
    PROVE  IInv'
<1>1. /\ pc = "plain" /\ totalBytes + size <= MaxBytes /\ totalBytes' = totalBytes + size
      /\ work' = [work EXCEPT ![PlainName].size = @ + size]
      /\ UNCHANGED <<backend, format, pc, totalFiles, toScan, findings, nested, failed, dropped, met>>
  BY DEF PlainChunk, answer
<1>2. /\ size \in Nat /\ work \in Works /\ totalBytes \in Nat
      /\ format = "stream" /\ PlainName \in Present(work)
      /\ SizeOf(work) <= MaxBytes + totalBytes
      /\ Cardinality(Present(work)) <= MaxFiles + 1
  BY <1>1, SizesAssumption DEF IInv, TypeOK, Counted, Works
<1>3. /\ work' \in Works /\ Present(work') = Present(work)
      /\ SizeOf(work') <= SizeOf(work) + size
  BY <1>1, <1>2, FileGrown
<1>4. SizeOf(work) \in Nat /\ SizeOf(work') \in Nat
  BY <1>2, <1>3, BytesFinite
<1>5. SizeOf(work') <= MaxBytes + totalBytes' /\ totalBytes' <= MaxBytes /\ totalBytes' \in Nat
  BY <1>1, <1>2, <1>3, <1>4, CapsAssumption
<1>6. SizeOf(work') <= 2 * MaxBytes
  BY <1>4, <1>5, CapsAssumption
<1>7. TypeOK'
  BY <1>1, <1>3, <1>5 DEF IInv, TypeOK, Works, Covered, Extracting
<1>8. Counted'
  BY <1>1, <1>2, <1>3, <1>5 DEF Counted
<1>9. DiskBounded' /\ CommandBounded'
  BY <1>1, <1>2, <1>3, <1>6 DEF DiskBounded, CommandBounded
<1>10. Covered'
  BY <1>1, <1>3 DEF IInv, Covered, Extracting
<1> QED BY <1>7, <1>8, <1>9, <1>10 DEF IInv

LEMMA PlainOverCapStep ==
    ASSUME IInv, NEW size \in Sizes \ {0}, PlainOverCap(size)
    PROVE  IInv'
<1>1. /\ pc = "plain" /\ pc' = "skipped" /\ totalBytes' = totalBytes + size
      /\ work' = [work EXCEPT ![PlainName] = Absent]
      /\ UNCHANGED <<backend, format, totalFiles, toScan, findings, nested, failed, dropped, met>>
  BY DEF PlainOverCap, answer
<1>2. /\ size \in Nat /\ work \in Works /\ totalBytes \in Nat /\ PlainName \in Names
      /\ format = "stream"
  BY <1>1, SizesAssumption, NamesAssumption DEF IInv, TypeOK, Counted, Works
<1>3. /\ work' \in Works /\ SizeOf(work') <= SizeOf(work)
      /\ Cardinality(Present(work')) <= Cardinality(Present(work))
  BY <1>1, <1>2, FileRemoved
<1>4. /\ SizeOf(work) \in Nat /\ SizeOf(work') \in Nat
      /\ Cardinality(Present(work)) \in Nat /\ Cardinality(Present(work')) \in Nat
  BY <1>2, <1>3, BytesFinite, FilesFinite
<1>5. toScan = {}
  BY <1>1 DEF IInv, Covered, Extracting
<1>6. TypeOK'
  BY <1>1, <1>2, <1>3, <1>5 DEF IInv, TypeOK, Works, Done
<1>7. SizeOf(work) <= 2 * MaxBytes /\ Cardinality(Present(work)) <= MaxFiles + 1
  BY <1>2 DEF IInv, DiskBounded
<1>8. SizeOf(work') <= 2 * MaxBytes /\ Cardinality(Present(work')) <= MaxFiles + 1
  BY <1>3, <1>4, <1>7, CapsAssumption
<1>9. DiskBounded'
  BY <1>1, <1>2, <1>8 DEF DiskBounded
<1> QED BY <1>1, <1>6, <1>9, RunEnded

LEMMA PlainEndStep == ASSUME IInv, PlainEnd PROVE IInv'
<1>1. /\ pc = "plain" /\ pc' = "walk" /\ toScan' = Present(work)
      /\ UNCHANGED <<backend, format, totalBytes, totalFiles, findings, nested, met, failed,
                     dropped>>
  BY DEF PlainEnd, counters
<1>2. PICK i \in Inside : work' = [work EXCEPT ![PlainName].inside = i]
  BY DEF PlainEnd
<1>3. work \in Works /\ format = "stream" /\ PlainName \in Present(work)
  BY <1>1 DEF IInv, TypeOK, Counted, Works
<1>4. work' \in Works /\ Present(work') = Present(work) /\ SizeOf(work') = SizeOf(work)
  BY <1>2, <1>3, FileJudged
<1>5. met' \subseteq Present(work') /\ pc \in Extracting /\ toScan' = Present(work')
  BY <1>1, <1>4 DEF IInv, Covered, Extracting
<1>6. DiskBounded' /\ CommandBounded'
  BY <1>1, <1>3, <1>4 DEF IInv, DiskBounded, CommandBounded
<1> QED BY <1>1, <1>4, <1>5, <1>6, WalkBegins

LEMMA UnpackedAreWorks == Unpacked \subseteq Works
<1>1. Written \union {Absent} \subseteq File \union {Absent}
  BY WrittenIsFile
<1> QED BY <1>1 DEF Unpacked, Works

\* Nothing on the disk, nothing to count.
LEMMA NothingIsSmall ==
    ASSUME NEW w \in Works, \A n \in Names : w[n] = Absent
    PROVE  Present(w) = {} /\ SizeOf(w) = 0 /\ Cardinality(Present(w)) = 0
<1>1. Present(w) = {}
  BY DEF Present
<1>2. Bytes(w) = {}
  BY <1>1 DEF Bytes
<1> QED BY <1>1, <1>2, FS_EmptySet DEF SizeOf

LEMMA CommandStep == ASSUME IInv, Command PROVE IInv'
<1>1. /\ pc = "command" /\ pc' = "count" /\ work' \in Works /\ toScan' = Present(work')
      /\ UNCHANGED <<backend, format, totalBytes, totalFiles, findings, nested, failed,
                     dropped, met>>
  BY UnpackedAreWorks DEF Command, counters
<1>2. format = "command" /\ totalBytes = 0 /\ totalFiles = 0
  BY <1>1 DEF IInv, Counted
<1>3. TypeOK'
  BY <1>1, <1>2 DEF IInv, TypeOK, Works
<1>4. CountedWork' \in Works /\ \A n \in Names : CountedWork'[n] = Absent
  BY <1>1 DEF CountedWork, Works, Present
<1>5. SizeOf(CountedWork') = 0 /\ Cardinality(Present(CountedWork')) = 0
  BY <1>4, NothingIsSmall
<1>6. Counted'
  BY <1>1, <1>2, <1>5, CapsAssumption DEF Counted
<1>7. DiskBounded' /\ CommandBounded'
  BY <1>1, <1>2 DEF DiskBounded, CommandBounded
<1>8. Covered'
  BY <1>1 DEF IInv, Covered, Extracting
<1> QED BY <1>3, <1>6, <1>7, <1>8 DEF IInv

\* Counting a file is, to what was counted, what writing a member is to the disk.
LEMMA CountFileStep ==
    ASSUME IInv, NEW n \in Names, CountFile(n)
    PROVE  IInv'
<1>1. /\ pc = "count" /\ n \in toScan /\ ~ OverCap(work[n].size)
      /\ totalBytes' = totalBytes + work[n].size /\ totalFiles' = totalFiles + 1
      /\ toScan' = toScan \ {n}
      /\ UNCHANGED <<backend, format, pc, work, findings, nested, met, failed, dropped>>
  BY DEF CountFile
<1>2. /\ work \in Works /\ totalBytes \in Nat /\ totalFiles \in Nat
      /\ work[n] \in File /\ work[n].size \in Nat
  BY <1>1 DEF IInv, TypeOK, Works, Present, File
<1>3. /\ CountedWork \in Works
      /\ CountedWork' = [CountedWork EXCEPT ![n] = work[n]]
  BY <1>1, <1>2 DEF CountedWork, Works
<1>4. /\ SizeOf(CountedWork) <= totalBytes /\ Cardinality(Present(CountedWork)) <= totalFiles
      /\ SizeOf(CountedWork) \in Nat /\ Cardinality(Present(CountedWork)) \in Nat
  BY <1>1, <1>3, BytesFinite, FilesFinite DEF IInv, Counted
<1>5. /\ CountedWork' \in Works
      /\ SizeOf(CountedWork') <= SizeOf(CountedWork) + work[n].size
      /\ Cardinality(Present(CountedWork')) <= Cardinality(Present(CountedWork)) + 1
  BY <1>2, <1>3, FileAdded
<1>6. SizeOf(CountedWork') \in Nat /\ Cardinality(Present(CountedWork')) \in Nat
  BY <1>5, BytesFinite, FilesFinite
<1>7. /\ SizeOf(CountedWork') <= totalBytes'
      /\ Cardinality(Present(CountedWork')) <= totalFiles'
  BY <1>1, <1>2, <1>4, <1>5, <1>6
<1>8. totalBytes' <= MaxBytes /\ totalFiles' <= MaxFiles
  BY <1>1, <1>2, CapsAssumption DEF OverCap
<1>9. TypeOK'
  BY <1>1, <1>2 DEF IInv, TypeOK
<1>10. Counted'
  BY <1>1, <1>7, <1>8 DEF IInv, Counted
<1>11. DiskBounded' /\ CommandBounded' /\ Covered'
  BY <1>1 DEF IInv, Counted, DiskBounded, CommandBounded, Covered, Extracting
<1> QED BY <1>9, <1>10, <1>11 DEF IInv

LEMMA CountOverCapStep ==
    ASSUME IInv, NEW n \in Names, CountOverCap(n)
    PROVE  IInv'
<1>1. /\ n \in toScan /\ pc' = "skipped"
      /\ totalBytes' = totalBytes + work[n].size /\ totalFiles' = totalFiles + 1
      /\ UNCHANGED <<backend, format, work, answer, met>>
  BY DEF CountOverCap
<1>2. work[n].size \in Nat
  BY <1>1 DEF IInv, TypeOK, Present, File
<1>3. totalBytes' \in Nat /\ totalFiles' \in Nat /\ met' \subseteq Names
  BY <1>1, <1>2 DEF IInv, TypeOK
<1> QED BY <1>1, <1>3, RunEndedHere

\* When no file is left, what was counted is all there is.
LEMMA CountEndsStep == ASSUME IInv, CountEnds PROVE IInv'
<1>1. /\ pc = "count" /\ toScan = {} /\ pc' = "walk" /\ toScan' = Present(work')
      /\ UNCHANGED <<backend, format, totalBytes, totalFiles, work, findings, nested, met,
                     failed, dropped>>
  BY DEF CountEnds, counters
<1>2. /\ format = "command" /\ work \in Works /\ met = {}
      /\ totalBytes \in Nat /\ totalFiles \in Nat
  BY <1>1 DEF IInv, Counted, Covered, TypeOK, Works
<1>3. CountedWork = work
  BY <1>1, <1>2 DEF CountedWork, Works
<1>4. SizeOf(work) <= totalBytes /\ totalBytes <= MaxBytes
      /\ Cardinality(Present(work)) <= totalFiles /\ totalFiles <= MaxFiles
  BY <1>1, <1>3 DEF IInv, Counted
<1>5. SizeOf(work) \in Nat /\ Cardinality(Present(work)) \in Nat
  BY <1>2, BytesFinite, FilesFinite
<1>6. SizeOf(work) <= MaxBytes /\ Cardinality(Present(work)) <= MaxFiles
  BY <1>2, <1>4, <1>5, CapsAssumption
<1>7. DiskBounded' /\ CommandBounded'
  BY <1>1, <1>2, <1>6 DEF DiskBounded, CommandBounded
<1>8. pc \in Extracting /\ work' \in Works /\ met' \subseteq Present(work')
  BY <1>1, <1>2 DEF Extracting
<1> QED BY <1>1, <1>7, <1>8, WalkBegins

LEMMA ExtractFailsStep == ASSUME IInv, ExtractFails PROVE IInv'
<1>1. /\ pc' = "skipped"
      /\ UNCHANGED <<backend, format, totalBytes, totalFiles, toScan, findings, nested, failed,
                     dropped, met>>
  BY DEF ExtractFails, counters, answer
<1>2. toScan' \subseteq Present(work')
  BY <1>1 DEF IInv, TypeOK, Covered, Extracting, ExtractFails
<1>3. work' \in Works /\ DiskBounded'
  <2>1. CASE pc = "members" /\ work' \in PartlyWritten
    <3>1. format \in {"zip", "tar", "stream"}
      BY <2>1 DEF IInv, Counted
    <3>2. work' \in Works /\ SizeOf(work') <= MaxBytes /\ Cardinality(Present(work')) <= MaxFiles
      BY <2>1, PartlyWrittenBounded
    <3>3. SizeOf(work') \in Nat /\ Cardinality(Present(work')) \in Nat
      BY <3>2, BytesFinite, FilesFinite
    <3> QED BY <1>1, <3>1, <3>2, <3>3, CapsAssumption DEF DiskBounded
  <2>2. CASE pc = "command" /\ work' \in Unpacked
    BY <1>1, <2>2, UnpackedAreWorks DEF IInv, Counted, DiskBounded
  <2>3. CASE pc \in {"plain", "count"} /\ work' = work
    BY <1>1, <2>3 DEF IInv, TypeOK, Works, DiskBounded
  <2> QED BY <2>1, <2>2, <2>3 DEF ExtractFails
<1>4. TypeOK'
  BY <1>1, <1>2, <1>3 DEF IInv, TypeOK, Works, Done
<1> QED BY <1>1, <1>3, <1>4, RunEnded

----------------------------------------------------------------------------
(* The walk.                                                                *)

LEMMA NoRulesStep == ASSUME IInv, NoRules PROVE IInv'
<1>1. /\ pc' \in {"skipped", "raised"}
      /\ UNCHANGED <<backend, format, totalBytes, totalFiles, work, answer, met>>
  BY DEF NoRules, counters
<1>2. totalBytes' \in Nat /\ totalFiles' \in Nat /\ met' \subseteq Names
  BY <1>1 DEF IInv, TypeOK
<1> QED BY <1>1, <1>2, RunEndedHere

\* A step of the walk that leaves the disk alone keeps all but Covered.
LEMMA WalkStep ==
    ASSUME IInv, pc = "walk", pc' \in {"walk", "answered"},
           UNCHANGED <<backend, format, totalBytes, totalFiles, work, met>>,
           toScan' \subseteq toScan, findings' \subseteq Names, nested' \subseteq Names,
           failed' \subseteq Names, dropped' \subseteq Names, Covered'
    PROVE  IInv'
<1>1. TypeOK'
  BY DEF IInv, TypeOK, Done
<1>2. Counted' /\ DiskBounded' /\ CommandBounded'
  BY DEF IInv, Counted, DiskBounded, CommandBounded
<1> QED BY <1>1, <1>2 DEF IInv

\* What the walk knows before each of its steps.
LEMMA WalkSoFar ==
    ASSUME IInv, pc = "walk"
    PROVE  /\ met \subseteq Present(work) /\ toScan \subseteq Present(work)
           /\ Present(work) \subseteq Names
           /\ findings = {n \in Present(work) \ toScan : work[n].inside = "infected"} \ failed
           /\ nested = {n \in Present(work) \ toScan : work[n].inside = "archive"}
                         \ (dropped \union failed)
           /\ failed \intersect toScan = {} /\ dropped \intersect toScan = {}
           /\ dropped # {} => backend = "sandbox"
           /\ findings \subseteq Names /\ nested \subseteq Names
           /\ failed \subseteq Names /\ dropped \subseteq Names
BY DEF IInv, Covered, TypeOK, Present

LEMMA StillCovered ==
    ASSUME pc' = "walk", UNCHANGED <<work, backend, met>>, met \subseteq Present(work),
           findings' = {n \in Present(work) \ toScan' : work[n].inside = "infected"} \ failed',
           nested' = {n \in Present(work) \ toScan' : work[n].inside = "archive"}
                       \ (dropped' \union failed'),
           failed' \intersect toScan' = {}, dropped' \intersect toScan' = {},
           dropped' # {} => backend = "sandbox"
    PROVE  Covered'
BY DEF Covered, Extracting

LEMMA ScanFileStep ==
    ASSUME IInv, NEW n \in Names, ScanFile(n)
    PROVE  IInv'
<1>1. /\ pc = "walk" /\ pc' = "walk" /\ n \in toScan /\ work[n].inside # "archive"
      /\ toScan' = toScan \ {n}
      /\ findings' = IF work[n].inside = "infected" THEN findings \union {n} ELSE findings
      /\ UNCHANGED <<backend, format, totalBytes, totalFiles, work, met, nested, failed, dropped>>
  BY DEF ScanFile, counters
<1>2. findings' = {m \in Present(work) \ toScan' : work[m].inside = "infected"} \ failed'
  BY <1>1, WalkSoFar
<1>3. nested' = {m \in Present(work) \ toScan' : work[m].inside = "archive"}
                  \ (dropped' \union failed')
  BY <1>1, WalkSoFar
<1>4. /\ failed' \intersect toScan' = {} /\ dropped' \intersect toScan' = {}
      /\ met \subseteq Present(work)
      /\ dropped' # {} => backend = "sandbox"
  BY <1>1, WalkSoFar
<1>5. Covered'
  BY <1>1, <1>2, <1>3, <1>4, StillCovered
<1> QED BY <1>1, <1>5, WalkSoFar, WalkStep

LEMMA ScanFileFailsStep ==
    ASSUME IInv, NEW n \in Names, ScanFileFails(n)
    PROVE  IInv'
<1>1. /\ pc = "walk" /\ pc' = "walk" /\ n \in toScan /\ toScan' = toScan \ {n}
      /\ failed' = failed \union {n}
      /\ UNCHANGED <<backend, format, totalBytes, totalFiles, work, met, findings, nested, dropped>>
  BY DEF ScanFileFails, counters
<1>2. findings' = {m \in Present(work) \ toScan' : work[m].inside = "infected"} \ failed'
  BY <1>1, WalkSoFar
<1>3. nested' = {m \in Present(work) \ toScan' : work[m].inside = "archive"}
                  \ (dropped' \union failed')
  BY <1>1, WalkSoFar
<1>4. /\ failed' \intersect toScan' = {} /\ dropped' \intersect toScan' = {}
      /\ met \subseteq Present(work)
      /\ dropped' # {} => backend = "sandbox"
  BY <1>1, WalkSoFar
<1>5. Covered'
  BY <1>1, <1>2, <1>3, <1>4, StillCovered
<1> QED BY <1>1, <1>5, WalkSoFar, WalkStep

LEMMA CopyNestedStep ==
    ASSUME IInv, NEW n \in Names, CopyNested(n)
    PROVE  IInv'
<1>1. /\ pc = "walk" /\ pc' = "walk" /\ n \in toScan /\ work[n].inside = "archive"
      /\ toScan' = toScan \ {n} /\ nested' = nested \union {n}
      /\ UNCHANGED <<backend, format, totalBytes, totalFiles, work, met, findings, failed, dropped>>
  BY DEF CopyNested, counters
<1>2. findings' = {m \in Present(work) \ toScan' : work[m].inside = "infected"} \ failed'
  BY <1>1, WalkSoFar
<1>3. nested' = {m \in Present(work) \ toScan' : work[m].inside = "archive"}
                  \ (dropped' \union failed')
  BY <1>1, WalkSoFar
<1>4. /\ failed' \intersect toScan' = {} /\ dropped' \intersect toScan' = {}
      /\ met \subseteq Present(work)
      /\ dropped' # {} => backend = "sandbox"
  BY <1>1, WalkSoFar
<1>5. Covered'
  BY <1>1, <1>2, <1>3, <1>4, StillCovered
<1> QED BY <1>1, <1>5, WalkSoFar, WalkStep

LEMMA CopyNestedFailsStep ==
    ASSUME IInv, NEW n \in Names, CopyNestedFails(n)
    PROVE  IInv'
<1>1. /\ pc = "walk" /\ n \in toScan /\ work[n].inside = "archive"
      /\ UNCHANGED <<backend, format, totalBytes, totalFiles, work, findings, nested, met, failed>>
  BY DEF CopyNestedFails, counters
<1>2. CASE backend = "sandbox"
  <2>1. pc' = "walk" /\ dropped' = dropped \union {n} /\ toScan' = toScan \ {n}
    BY <1>1, <1>2 DEF CopyNestedFails
  <2>2. findings' = {m \in Present(work) \ toScan' : work[m].inside = "infected"} \ failed
    BY <1>1, <2>1, WalkSoFar
  <2>3. nested' = {m \in Present(work) \ toScan' : work[m].inside = "archive"}
                    \ (dropped' \union failed)
    BY <1>1, <2>1, WalkSoFar
  <2>4. /\ failed \intersect toScan' = {} /\ dropped' \intersect toScan' = {}
        /\ met \subseteq Present(work)
    BY <1>1, <2>1, WalkSoFar
  <2>5. Covered'
    BY <1>1, <1>2, <2>1, <2>2, <2>3, <2>4 DEF Covered, Extracting
  <2> QED BY <1>1, <2>1, <2>5, WalkSoFar, WalkStep
<1>3. CASE backend # "sandbox"
  <2>1. pc' = "raised" /\ UNCHANGED <<backend, format, work, answer>>
    BY <1>1, <1>3 DEF CopyNestedFails, answer
  <2>2. totalBytes' \in Nat /\ totalFiles' \in Nat /\ met' \subseteq Names
    BY <1>1 DEF IInv, TypeOK
  <2> QED BY <2>1, <2>2, RunEndedHere
<1> QED BY <1>2, <1>3

LEMMA AnswerStep == ASSUME IInv, Answer PROVE IInv'
<1>1. /\ pc = "walk" /\ pc' = "answered" /\ toScan = {}
      /\ UNCHANGED <<backend, format, totalBytes, totalFiles, work, toScan, findings, nested,
                     failed, dropped, met>>
  BY DEF Answer, counters, answer
<1>2. TypeOK' /\ Counted' /\ DiskBounded' /\ CommandBounded'
  BY <1>1 DEF IInv, TypeOK, Done, Counted, DiskBounded, CommandBounded
<1>3. Covered'
  BY <1>1, WalkSoFar DEF Covered, Extracting
<1> QED BY <1>2, <1>3 DEF IInv

LEMMA RunBreaksStep == ASSUME IInv, RunBreaks PROVE IInv'
<1>1. /\ pc' = "raised" /\ UNCHANGED <<backend, format, totalBytes, totalFiles, work, answer, met>>
  BY DEF RunBreaks, counters
<1>2. totalBytes' \in Nat /\ totalFiles' \in Nat /\ met' \subseteq Names
  BY <1>1 DEF IInv, TypeOK
<1> QED BY <1>1, <1>2, RunEndedHere

LEMMA StutterStep == ASSUME IInv, UNCHANGED vars PROVE IInv'
<1>1. UNCHANGED <<backend, format, pc, totalBytes, totalFiles, work, toScan, findings, nested,
                  met, failed, dropped>>
  BY DEF vars
<1>2. TypeOK' /\ DiskBounded' /\ CommandBounded'
  BY <1>1 DEF IInv, TypeOK, DiskBounded, CommandBounded
<1>3. Covered'
  BY <1>1 DEF IInv, Covered
<1>4. CountedWork' = CountedWork
  BY <1>1 DEF CountedWork
<1>5. Counted'
  BY <1>1, <1>4 DEF IInv, Counted
<1> QED BY <1>2, <1>3, <1>5 DEF IInv

LEMMA NextInv == IInv /\ [Next]_vars => IInv'
<1> SUFFICES ASSUME IInv, [Next]_vars PROVE IInv'
  OBVIOUS
<1>1. CASE Detect \/ MembersEnd \/ TarBreaks \/ PlainEnd
  BY <1>1, DetectStep, MembersEndStep, TarBreaksStep, PlainEndStep
<1>2. CASE Command \/ CountEnds \/ ExtractFails \/ NoRules \/ Answer \/ RunBreaks
  BY <1>2, CommandStep, CountEndsStep, ExtractFailsStep, NoRulesStep, AnswerStep,
     RunBreaksStep
<1>3. CASE \E n \in Names, f \in Written : MemberWritten(n, f) \/ MemberOverCap(n, f)
  BY <1>3, MemberWrittenStep, MemberOverCapStep
<1>4. CASE \E size \in Sizes \ {0} : PlainChunk(size) \/ PlainOverCap(size)
  BY <1>4, PlainChunkStep, PlainOverCapStep
<1>5. CASE \E n \in Names : \/ CountFile(n) \/ CountOverCap(n)
                            \/ ScanFile(n) \/ ScanFileFails(n)
                            \/ CopyNested(n) \/ CopyNestedFails(n)
  BY <1>5, CountFileStep, CountOverCapStep, ScanFileStep, ScanFileFailsStep, CopyNestedStep, CopyNestedFailsStep
<1>6. CASE UNCHANGED vars
  BY <1>6, StutterStep
<1> QED BY <1>1, <1>2, <1>3, <1>4, <1>5, <1>6 DEF Next

----------------------------------------------------------------------------
\* For every archive, every pair of caps and every number of names, the counters of
\* the extraction stay ahead of the disk and the walk accounts for what it took.
THEOREM ExtractInvariant == Spec => []IInv
<1>1. IInv /\ [Next]_vars => IInv'
  BY NextInv
<1> QED BY <1>1, InitInv, PTL DEF Spec

\* The state of an archive run has its type: the walk never holds a file that is not
\* in the extraction directory.
THEOREM ExtractTypeCorrect == Spec => []TypeOK
<1>1. IInv => TypeOK
  BY DEF IInv
<1> QED BY <1>1, ExtractInvariant, PTL

\* The extraction functions never write more than the caps, at no moment and for no
\* archive; a stream that is no tar after all, twice the bytes and one file more.
THEOREM DiskIsBounded == Spec => []DiskBounded
<1>1. IInv => DiskBounded
  BY DEF IInv
<1> QED BY <1>1, ExtractInvariant, PTL

\* What an external unpacker left is scanned only if the sum over all its files is
\* within the caps: the loop that counts them misses none, in whatever order they come.
THEOREM CommandIsBounded == Spec => []CommandBounded
<1>1. IInv => CommandBounded
  BY DEF IInv
<1> QED BY <1>1, ExtractInvariant, PTL

\* An answer covers all members, except the files whose scan failed and the nested
\* archives the sandbox could not copy.
THEOREM AnswerIsComplete == Spec => []AnswerCovers
<1>1. IInv => AnswerCovers
  <2> SUFFICES ASSUME IInv, pc = "answered" PROVE AnswerCovers
    BY DEF AnswerCovers
  <2>1. toScan = {} /\ Present(work) \ toScan = Present(work)
    BY DEF IInv, Covered
  <2> QED BY <2>1 DEF IInv, Covered, AnswerCovers
<1> QED BY <1>1, ExtractInvariant, PTL

----------------------------------------------------------------------------
(* The safety kernel of Ends.                                               *)

\* A walk takes a step for every file, and one to begin and to end.
WalkLength == 2 + Cardinality(Names)

\* A bound on the steps a run still takes: what the caps have left for members, and
\* for the plain stream after them, and the walks.
StepsLeft ==
    CASE pc = "detect"  -> WalkLength + WalkLength + MaxBytes + MaxFiles + 2
      [] pc = "members" -> WalkLength + MaxBytes + (MaxFiles - totalFiles) + 1
      [] pc = "plain"   -> WalkLength + (MaxBytes - totalBytes)
      [] pc = "command" -> WalkLength + WalkLength
      [] pc = "count"   -> WalkLength + Cardinality(toScan)
      [] pc = "walk"    -> 1 + Cardinality(toScan)
      [] OTHER          -> 0

RunsDown == [][StepsLeft' < StepsLeft]_vars

LEMMA WalkLengthIsNat == Cardinality(Names) \in Nat /\ WalkLength \in Nat
BY NamesAssumption, FS_CardinalityType DEF WalkLength

LEMMA WalkBounded ==
    ASSUME NEW S, S \subseteq Names
    PROVE  /\ IsFiniteSet(S)
           /\ Cardinality(S) \in Nat
           /\ 1 + Cardinality(S) < WalkLength
BY NamesAssumption, WalkLengthIsNat, FS_Subset, FS_CardinalityType DEF WalkLength

LEMMA StepsLeftIsNat == IInv => StepsLeft \in Nat
<1> SUFFICES ASSUME IInv PROVE StepsLeft \in Nat
  OBVIOUS
<1>1. totalBytes \in Nat /\ totalFiles \in Nat /\ toScan \subseteq Names
  BY DEF IInv, TypeOK, Present
<1>2. Cardinality(toScan) \in Nat /\ WalkLength \in Nat
  BY <1>1, WalkBounded, WalkLengthIsNat
<1>3. pc = "members" => MaxFiles - totalFiles \in Nat
  BY <1>1, CapsAssumption DEF IInv, Counted
<1>4. pc = "plain" => MaxBytes - totalBytes \in Nat
  BY <1>1, CapsAssumption DEF IInv, Counted
<1> QED BY <1>2, <1>3, <1>4, CapsAssumption DEF StepsLeft

\* The end of a run is less than any of its other states.
LEMMA EndIsLess ==
    ASSUME IInv, pc \notin Done, pc' \in Done
    PROVE  StepsLeft' < StepsLeft
<1>1. totalBytes \in Nat /\ totalFiles \in Nat /\ toScan \subseteq Names
      /\ pc \in {"detect", "members", "plain", "command", "count", "walk"}
  BY DEF IInv, TypeOK, Present
<1>2. Cardinality(toScan) \in Nat /\ Cardinality(Names) \in Nat
  BY <1>1, WalkBounded, WalkLengthIsNat
<1>3. /\ pc = "members" => MaxFiles - totalFiles \in Nat
      /\ pc = "plain" => MaxBytes - totalBytes \in Nat
  BY <1>1, CapsAssumption DEF IInv, Counted
<1>4. 0 < StepsLeft
  BY <1>1, <1>2, <1>3, CapsAssumption DEF StepsLeft, WalkLength
<1>5. StepsLeft' = 0
  BY DEF StepsLeft, Done
<1> QED BY <1>4, <1>5

\* The walk begins with fewer steps than the extraction had left.
LEMMA WalkIsLess ==
    ASSUME IInv, pc \in {"members", "plain", "count"}, pc' = "walk", toScan' \subseteq Names
    PROVE  StepsLeft' < StepsLeft
<1>1. totalBytes \in Nat /\ totalFiles \in Nat /\ Cardinality(toScan) \in Nat
  BY WalkBounded DEF IInv, TypeOK, Present
<1>2. /\ pc = "members" => MaxFiles - totalFiles \in Nat
      /\ pc = "plain" => MaxBytes - totalBytes \in Nat
  BY <1>1, CapsAssumption DEF IInv, Counted
<1>3. WalkLength \in Nat /\ WalkLength <= StepsLeft
  BY <1>1, <1>2, WalkLengthIsNat, CapsAssumption DEF StepsLeft
<1>4. /\ Cardinality(toScan') \in Nat
      /\ 1 + Cardinality(toScan') < WalkLength
  BY WalkBounded
<1>5. StepsLeft' = 1 + Cardinality(toScan')
  BY DEF StepsLeft
<1>6. StepsLeft \in Nat
  BY StepsLeftIsNat
<1> QED BY <1>3, <1>4, <1>5, <1>6

\* A file that is taken is a step less.
LEMMA TakenIsLess ==
    ASSUME IInv, NEW n \in toScan, pc \in {"count", "walk"}, pc' = pc, toScan' = toScan \ {n}
    PROVE  StepsLeft' < StepsLeft
<1>1. IsFiniteSet(toScan) /\ Cardinality(toScan) \in Nat
  BY WalkBounded DEF IInv, TypeOK, Present
<1>2. Cardinality(toScan') = Cardinality(toScan) - 1
  BY <1>1, FS_RemoveElement
<1> QED BY <1>1, <1>2, WalkLengthIsNat DEF StepsLeft

LEMMA StepIsLess == ASSUME IInv, IInv', Next PROVE StepsLeft' < StepsLeft
<1> USE CapsAssumption
<1>1. /\ totalBytes \in Nat /\ totalFiles \in Nat /\ Cardinality(Names) \in Nat
      /\ toScan' \subseteq Names
  BY WalkLengthIsNat DEF IInv, TypeOK, Present
<1>2. CASE Detect
  <2>1. totalFiles = 0 /\ totalFiles' = 0 /\ pc = "detect"
    BY <1>2 DEF Detect, counters, IInv, Counted
  <2>2. CASE pc' \in {"skipped", "raised"}
    BY <2>1, <2>2, EndIsLess DEF Done
  <2>3. CASE pc' \in {"members", "command"}
    BY <1>1, <2>1, <2>3 DEF StepsLeft, WalkLength
  <2> QED BY <1>2, <2>2, <2>3 DEF Detect
<1>3. CASE MembersEnd \/ PlainEnd
  BY <1>1, <1>3, WalkIsLess DEF MembersEnd, PlainEnd
<1>4. CASE TarBreaks
  <2>1. /\ pc = "members" /\ pc' = "plain" /\ totalBytes' = 0
        /\ MaxFiles - totalFiles \in Nat
    BY <1>1, <1>4 DEF TarBreaks, IInv, Counted
  <2> QED BY <1>1, <2>1 DEF StepsLeft, WalkLength
<1>5. CASE Command
  <2>1. pc = "command" /\ pc' = "count"
    BY <1>5 DEF Command
  <2>2. Cardinality(toScan') \in Nat /\ 1 + Cardinality(toScan') < WalkLength
    BY <1>1, WalkBounded
  <2> QED BY <2>1, <2>2, WalkLengthIsNat DEF StepsLeft
<1>6. CASE CountEnds
  BY <1>1, <1>6, WalkIsLess DEF CountEnds
<1>7. CASE ExtractFails \/ NoRules \/ Answer \/ RunBreaks
  BY <1>7, EndIsLess DEF ExtractFails, NoRules, Answer, RunBreaks, Done
<1>8. ASSUME NEW n \in Names, NEW f \in Written, MemberWritten(n, f)
      PROVE  StepsLeft' < StepsLeft
  BY <1>1, <1>8 DEF MemberWritten, StepsLeft, WalkLength
<1>9. ASSUME NEW n \in Names, NEW f \in Written, MemberOverCap(n, f)
      PROVE  StepsLeft' < StepsLeft
  BY <1>9, EndIsLess DEF MemberOverCap, Done
<1>10. ASSUME NEW size \in Sizes \ {0}, PlainChunk(size)
       PROVE  StepsLeft' < StepsLeft
  <2>1. pc = "plain" /\ pc' = "plain" /\ totalBytes' = totalBytes + size
    BY <1>10 DEF PlainChunk
  <2>2. size \in Nat /\ size > 0
    BY SizesAssumption
  <2> QED BY <1>1, <2>1, <2>2 DEF StepsLeft, WalkLength
<1>11. ASSUME NEW size \in Sizes \ {0}, PlainOverCap(size)
       PROVE  StepsLeft' < StepsLeft
  BY <1>11, EndIsLess DEF PlainOverCap, Done
<1>12. ASSUME NEW n \in Names,
              CountFile(n) \/ ScanFile(n) \/ ScanFileFails(n) \/ CopyNested(n)
       PROVE  StepsLeft' < StepsLeft
  BY <1>12, TakenIsLess DEF CountFile, ScanFile, ScanFileFails, CopyNested
<1>13. ASSUME NEW n \in Names, CopyNestedFails(n)
       PROVE  StepsLeft' < StepsLeft
  <2>1. pc = "walk" /\ n \in toScan
        /\ \/ pc' = "walk" /\ toScan' = toScan \ {n}
           \/ pc' = "raised"
    BY <1>13 DEF CopyNestedFails
  <2> QED BY <2>1, TakenIsLess, EndIsLess DEF Done
<1>14. ASSUME NEW n \in Names, CountOverCap(n)
       PROVE  StepsLeft' < StepsLeft
  BY <1>14, EndIsLess DEF CountOverCap, Done
<1> QED BY <1>2, <1>3, <1>4, <1>5, <1>6, <1>7, <1>8, <1>9, <1>10, <1>11, <1>12, <1>13, <1>14
        DEF Next

\* Every step of a run leaves fewer steps to take, at first the two caps and the names
\* that may be there: a run whose thread goes on ends, for an archive with endless
\* members or an endless stream too.  This is what Ends needs besides fairness.
THEOREM RunIsBounded == Spec => [](StepsLeft \in Nat) /\ RunsDown
<1>1. IInv => StepsLeft \in Nat
  BY StepsLeftIsNat
<1>2. IInv /\ IInv' /\ [Next]_vars => [StepsLeft' < StepsLeft]_vars
  BY StepIsLess
<1> QED BY <1>1, <1>2, ExtractInvariant, PTL DEF Spec, RunsDown

----------------------------------------------------------------------------
(* The run as the engine sees it.                                           *)

LEMMA BackendStep ==
    ASSUME IInv, IInv', [Next]_vars
    PROVE  [Backend!Next]_(Backend!vars)
<1>1. CASE Answer
  <2>1. pc = "walk" /\ pc' = "answered"
    BY <1>1 DEF Answer
  <2>2. /\ findings' \subseteq Names /\ nested' \subseteq Names
        /\ findings' \intersect nested' = {}
    BY <2>1 DEF IInv, TypeOK, Covered
  <2>3. Backend!Unpack
    BY <2>1, <2>2 DEF Backend!Unpack
  <2> QED BY <2>1, <2>3 DEF Backend!Next
<1>2. CASE pc \notin Done /\ pc' \in {"skipped", "raised"}
  <2>1. Backend!Refuse
    BY <1>2 DEF Backend!Refuse, Done
  <2> QED BY <1>2, <2>1 DEF Backend!Next, Done
<1>3. CASE \/ pc \notin Done /\ pc' \notin Done
           \/ UNCHANGED vars
  BY <1>3 DEF Backend!vars, vars, Done
<1>4. ~ UNCHANGED vars => pc \notin Done /\ (pc' = "answered" => Answer)
  <2> SUFFICES ASSUME Next PROVE pc \notin Done /\ (pc' = "answered" => Answer)
    OBVIOUS
  <2>1. CASE Detect \/ MembersEnd \/ TarBreaks \/ PlainEnd \/ Command \/ CountEnds
    BY <2>1 DEF Detect, MembersEnd, TarBreaks, PlainEnd, Command, CountEnds, Done
  <2>2. CASE ExtractFails \/ NoRules \/ Answer \/ RunBreaks
    BY <2>2 DEF ExtractFails, NoRules, Answer, RunBreaks, Done
  <2>3. CASE \E n \in Names, f \in Written : MemberWritten(n, f) \/ MemberOverCap(n, f)
    BY <2>3 DEF MemberWritten, MemberOverCap, Done
  <2>4. CASE \E size \in Sizes \ {0} : PlainChunk(size) \/ PlainOverCap(size)
    BY <2>4 DEF PlainChunk, PlainOverCap, Done
  <2>5. CASE \E n \in Names : \/ CountFile(n) \/ CountOverCap(n)
                              \/ ScanFile(n) \/ ScanFileFails(n)
                              \/ CopyNested(n) \/ CopyNestedFails(n)
    BY <2>5 DEF CountFile, CountOverCap, ScanFile, ScanFileFails, CopyNested, CopyNestedFails, Done
  <2> QED BY <2>1, <2>2, <2>3, <2>4, <2>5 DEF Next
<1> QED BY <1>1, <1>2, <1>3, <1>4 DEF Done

\* Whatever the archive holds and wherever the run breaks, the engine sees one answer or
\* one refusal, and in an answer no name that is infected and an archive: what the
\* backend actions of ArchiveScan take for granted.
THEOREM RunIsABackend == Spec => Answers
<1>1. Init => Backend!Init
  BY DEF Init, Backend!Init
<1>2. IInv /\ IInv' /\ [Next]_vars => [Backend!Next]_(Backend!vars)
  BY BackendStep
<1> QED BY <1>1, <1>2, ExtractInvariant, PTL DEF Spec, Answers, Backend!Spec
=============================================================================
