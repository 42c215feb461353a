-------------------------- MODULE FileIndexProofs --------------------------
(***************************************************************************)
(* Theorems about FileIndex for any files, contents, runs and bounds: when *)
(* every file has a path of its own, the index never answers for a file    *)
(* that changed since.                                                     *)
(***************************************************************************)
EXTENDS FileIndex, TLAPS

\* What makes an entry safe to keep: a write after its stat shows in the time.
Sound(e) ==
    /\ e.stat.seen <= now
    /\ \A f \in Files : Settled(e.stat) /\ Matches(e, f) => e.hash = content[f]

SoundVerdict(v) ==
    /\ v.stat.seen <= now
    /\ Settled(v.from) /\ Settled(v.stat) /\ Unchanged(v.file, v.stat)
         => v.hash = content[v.file]

\* The blocks read so far are the first blocks of the file.
SoundReading(r) ==
    /\ reading[r].stat.seen <= now
    /\ Settled(reading[r].stat) /\ Unchanged(pc[r], reading[r].stat) =>
         /\ Len(reading[r].blocks) <= Len(content[pc[r]])
         /\ \A i \in 1..Len(reading[r].blocks) :
              reading[r].blocks[i] = content[pc[r]][i]

IndexSound == \A r \in Runs : \A e \in index[r] : Sound(e)
DiskSound == disk # NoIndex => \A e \in disk : Sound(e)
AllVerdictsSound == \A r \in Runs : \A v \in verdicts[r] : SoundVerdict(v)
ReadingsSound == \A r \in Runs : pc[r] \in Files => SoundReading(r)

TmpTyped == \A r \in Runs : pc[r] = "save" => tmp[r] \in SUBSET Entry

Types == TypeOK /\ TmpTyped
Soundness == IndexSound /\ DiskSound /\ AllVerdictsSound /\ ReadingsSound

----------------------------------------------------------------------------
\* A digest is typed and has a length, as all the contents have.
LEMMA ContentTyped ==
    ASSUME TypeOK, NEW f \in Files
    PROVE  content[f] \in Seq(Block) /\ Len(content[f]) \in Nat /\ mtime[f] \in Nat
BY ContentsAssumption DEF TypeOK

LEMMA StatTyped ==
    ASSUME TypeOK, NEW f \in Files
    PROVE  StatOf(f) \in Stat
BY ContentTyped DEF StatOf, Stat, TypeOK

LEMMA InitTypes == Init => Types
BY FilesAssumption DEF Init, Types, TypeOK, TmpTyped, Nothing, Stat, Labels

LEMMA TypesStep == Types /\ [Next]_vars => Types'
<1> SUFFICES ASSUME Types, [Next]_vars PROVE Types'
    OBVIOUS
<1> USE FilesAssumption, PathsAssumption DEF Types, TypeOK, TmpTyped, Labels, Goto, files
<1>0. Nothing \in [stat : Stat, blocks : Seq(Block)]
      BY DEF Nothing, Stat
<1>1. CASE Tick
      BY <1>1 DEF Tick
<1>2. ASSUME NEW f \in Files, NEW c \in Contents, Write(f, c) PROVE Types'
      BY <1>2 DEF Write
<1>3. ASSUME NEW r \in Runs, Load(r) PROVE Types'
      BY <1>3 DEF Load
<1>4. ASSUME NEW r \in Runs, LoadFails(r) \/ MakeTmpFails(r) \/ Crash(r) PROVE Types'
  <2>1. CASE LoadFails(r)
        BY <2>1, <1>0 DEF LoadFails, Exit
  <2>2. CASE MakeTmpFails(r)
        BY <2>2, <1>0 DEF MakeTmpFails, Exit
  <2>3. CASE Crash(r)
        BY <2>3, <1>0 DEF Crash, Exit
  <2> QED BY <1>4, <2>1, <2>2, <2>3
<1>5. ASSUME NEW r \in Runs, NEW f \in Files, Skip(r, f) PROVE Types'
      BY <1>5 DEF Skip
<1>6. ASSUME NEW r \in Runs, NEW f \in Files, Hit(r, f) PROVE Types'
  <2>1. PICK e \in index[r] :
          verdicts' = [verdicts EXCEPT ![r] = @ \union
            {[file |-> f, stat |-> StatOf(f), hash |-> e.hash, from |-> e.stat]}]
        BY <1>6 DEF Hit
  <2>2. [file |-> f, stat |-> StatOf(f), hash |-> e.hash, from |-> e.stat] \in Verdict
        BY <2>1, StatTyped DEF Verdict, Entry
  <2> QED BY <1>6, <2>1, <2>2 DEF Hit
<1>7. ASSUME NEW r \in Runs, NEW f \in Files, Miss(r, f) PROVE Types'
      BY <1>7, StatTyped DEF Miss
<1>8. ASSUME NEW r \in Runs, ReadBlock(r) PROVE Types'
  <2>1. content[pc[r]][Len(reading[r].blocks) + 1] \in Block
        BY <1>8, ContentTyped DEF ReadBlock
  <2>2. Append(reading[r].blocks, content[pc[r]][Len(reading[r].blocks) + 1])
          \in Seq(Block)
        BY <2>1
  <2> QED BY <1>8, <2>2 DEF ReadBlock
<1>9. ASSUME NEW r \in Runs, EndOfFile(r) PROVE Types'
  <2>1. [path |-> PathOf[pc[r]], stat |-> reading[r].stat,
         hash |-> reading[r].blocks] \in Entry
        BY <1>9 DEF EndOfFile, Entry
  <2>2. [file |-> pc[r], stat |-> reading[r].stat, hash |-> reading[r].blocks,
         from |-> reading[r].stat] \in Verdict
        BY <1>9 DEF EndOfFile, Verdict
  <2> QED BY <1>9, <2>1, <2>2, <1>0 DEF EndOfFile, Upsert
<1>10. ASSUME NEW r \in Runs, ReadFails(r) PROVE Types'
      BY <1>10, <1>0 DEF ReadFails
<1>11. ASSUME NEW r \in Runs, MakeTmp(r) PROVE Types'
      BY <1>11 DEF MakeTmp
<1>12. ASSUME NEW r \in Runs, NEW e \in index[r], WriteEntry(r, e) PROVE Types'
      BY <1>12 DEF WriteEntry
<1>13. ASSUME NEW r \in Runs, Replace(r) PROVE Types'
      BY <1>13, <1>0 DEF Replace, Exit
<1>14. ASSUME NEW r \in Runs, SaveFails(r) PROVE Types'
      BY <1>14, <1>0 DEF SaveFails, Exit
<1>15. CASE UNCHANGED vars
      BY <1>15 DEF vars
<1> HIDE DEF Types
<1> QED
    BY <1>1, <1>2, <1>3, <1>4, <1>5, <1>6, <1>7, <1>8, <1>9, <1>10, <1>11, <1>12,
       <1>13, <1>14, <1>15 DEF Next

----------------------------------------------------------------------------
\* The clock, and a program that writes a file, leave every sound thing sound.
FilesStep == Tick \/ (\E f \in Files, c \in Contents : Write(f, c)) \/ UNCHANGED files

\* What a stat of the past says of a file is no longer believed once the file
\* was written, and the file is the same if it was not.
LEMMA Believed ==
    ASSUME TypeOK, FilesStep, NEW f \in Files, NEW s \in Stat,
           s.seen <= now, Settled(s), s.mtime = mtime'[f]
    PROVE  s.mtime = mtime[f] /\ content'[f] = content[f]
<1>1. CASE Tick \/ UNCHANGED files
      BY <1>1 DEF Tick, files
<1>2. ASSUME NEW g \in Files, NEW c \in Contents, Write(g, c)
      PROVE  s.mtime = mtime[f] /\ content'[f] = content[f]
  <2>1. CASE g = f
    <3>1. mtime'[f] = now
          BY <1>2, <2>1 DEF Write, TypeOK
    <3> QED BY <3>1 DEF Settled, Stat, TypeOK
  <2>2. CASE g # f
        BY <1>2, <2>2 DEF Write, TypeOK
  <2> QED BY <2>1, <2>2
<1> QED BY <1>1, <1>2 DEF FilesStep

LEMMA ClockForward == ASSUME TypeOK, FilesStep PROVE now \in Nat /\ now' \in Nat /\ now <= now'
BY DEF FilesStep, Tick, Write, files, TypeOK

LEMMA SoundStays ==
    ASSUME TypeOK, FilesStep, NEW e \in Entry, Sound(e)
    PROVE  Sound(e)'
<1>1. e.stat \in Stat /\ e.stat.seen \in Nat
      BY DEF Entry, Stat
<1>2. e.stat.seen <= now'
      BY <1>1, ClockForward DEF Sound
<1>3. ASSUME NEW f \in Files, Settled(e.stat), Matches(e, f)'
      PROVE  e.hash = content'[f]
  <2>1. e.stat.mtime = mtime[f] /\ content'[f] = content[f]
        BY <1>1, <1>3, Believed DEF Sound, Matches
  <2> QED BY <1>3, <2>1 DEF Sound, Matches
<1> QED BY <1>2, <1>3 DEF Sound, Settled

LEMMA VerdictStays ==
    ASSUME TypeOK, FilesStep, NEW v \in Verdict, SoundVerdict(v)
    PROVE  SoundVerdict(v)'
<1>1. v.stat \in Stat /\ v.stat.seen \in Nat /\ v.file \in Files
      BY DEF Verdict, Stat
<1>2. v.stat.seen <= now'
      BY <1>1, ClockForward DEF SoundVerdict
<1>3. ASSUME Settled(v.from), Settled(v.stat), Unchanged(v.file, v.stat)'
      PROVE  v.hash = content'[v.file]
  <2>1. v.stat.mtime = mtime[v.file] /\ content'[v.file] = content[v.file]
        BY <1>1, <1>3, Believed DEF SoundVerdict, Unchanged
  <2> QED BY <1>3, <2>1 DEF SoundVerdict, Unchanged
<1> QED BY <1>2, <1>3 DEF SoundVerdict, Settled

LEMMA ReadingStays ==
    ASSUME TypeOK, FilesStep, NEW r \in Runs, pc[r] \in Files, SoundReading(r),
           pc'[r] = pc[r], reading'[r] = reading[r]
    PROVE  SoundReading(r)'
<1> DEFINE s == reading[r].stat
<1>1. s \in Stat /\ s.seen \in Nat
      BY DEF TypeOK, Stat
<1>2. s.seen <= now'
      BY <1>1, ClockForward DEF SoundReading
<1>3. ASSUME Settled(s), Unchanged(pc[r], s)'
      PROVE  Unchanged(pc[r], s) /\ content'[pc[r]] = content[pc[r]]
      BY <1>1, <1>3, Believed DEF SoundReading, Unchanged
<1> QED BY <1>2, <1>3 DEF SoundReading, Settled, Unchanged

----------------------------------------------------------------------------
\* The actions of the runs that add to what is kept.
LEMMA HitSound ==
    ASSUME Types, Soundness, NEW r \in Runs, NEW f \in Files, Hit(r, f)
    PROVE  AllVerdictsSound'
<1>1. PICK e \in index[r] :
        /\ Matches(e, f)
        /\ verdicts' = [verdicts EXCEPT ![r] = @ \union
             {[file |-> f, stat |-> StatOf(f), hash |-> e.hash, from |-> e.stat]}]
      BY DEF Hit
<1> DEFINE v == [file |-> f, stat |-> StatOf(f), hash |-> e.hash, from |-> e.stat]
<1>2. now' = now /\ content' = content /\ mtime' = mtime
      BY DEF Hit, files
<1>3. Sound(e)
      BY DEF Soundness, IndexSound
<1>4. /\ v.file = f /\ v.hash = e.hash /\ v.from = e.stat
      /\ v.stat.seen = now
      BY DEF StatOf
<1> HIDE DEF v
<1>5. now \in Nat
      BY DEF Types, TypeOK
<1>6. SoundVerdict(v)
      BY <1>1, <1>3, <1>4, <1>5 DEF Sound, SoundVerdict
<1>7. \A q \in Runs : \A w \in verdicts'[q] : w \in verdicts[q] \/ w = v
      BY <1>1 DEF Types, TypeOK, v
<1>8. \A w : SoundVerdict(w) => SoundVerdict(w)'
      BY <1>2 DEF SoundVerdict, Unchanged, Settled
<1> QED BY <1>6, <1>7, <1>8 DEF Soundness, AllVerdictsSound

LEMMA MissSound ==
    ASSUME Types, Soundness, NEW r \in Runs, NEW f \in Files, Miss(r, f)
    PROVE  ReadingsSound'
<1>1. /\ reading'[r] = [stat |-> StatOf(f), blocks |-> <<>>]
      /\ \A q \in Runs \ {r} : reading'[q] = reading[q] /\ pc'[q] = pc[q]
      /\ UNCHANGED <<now, content, mtime>>
      /\ pc'[r] = f
      BY DEF Miss, Types, TypeOK, files
<1>2. /\ reading'[r].stat.seen = now
      /\ reading'[r].blocks = <<>>
      BY <1>1 DEF StatOf
<1>3. now \in Nat /\ Len(content[f]) \in Nat
      BY ContentTyped DEF Types, TypeOK
<1>4. Len(reading'[r].blocks) = 0
      BY <1>2
<1>5. SoundReading(r)'
      BY <1>1, <1>2, <1>3, <1>4 DEF SoundReading
<1> QED BY <1>1, <1>5 DEF Soundness, ReadingsSound, SoundReading, Settled, Unchanged

LEMMA ReadBlockSound ==
    ASSUME Types, Soundness, NEW r \in Runs, ReadBlock(r)
    PROVE  ReadingsSound'
<1> DEFINE f == pc[r]
           old == reading[r].blocks
           block == content[f][Len(old) + 1]
<1>1. /\ f \in Files
      /\ Len(old) < Len(content[f])
      /\ UNCHANGED <<now, content, mtime, pc>>
      BY DEF ReadBlock, files
<1>2. /\ reading'[r].stat = reading[r].stat
      /\ reading'[r].blocks = Append(old, block)
      /\ \A q \in Runs \ {r} : reading'[q] = reading[q]
      BY DEF ReadBlock, Types, TypeOK
<1>3. old \in Seq(Block) /\ content[f] \in Seq(Block)
      BY <1>1, ContentTyped DEF Types, TypeOK
<1>4. block \in Block
      BY <1>1, <1>3
<1> HIDE DEF block
<1>5. /\ Len(old) \in Nat
      /\ Len(Append(old, block)) = Len(old) + 1
      /\ \A i \in 1..Len(old) : Append(old, block)[i] = old[i]
      /\ Append(old, block)[Len(old) + 1] = block
      BY <1>3, <1>4
<1>6. Len(content[f]) \in Nat
      BY <1>3
<1>7. \A i \in 1..Len(Append(old, block)) : i \in 1..Len(old) \/ i = Len(old) + 1
      BY <1>5
<1>8. SoundReading(r)
      BY <1>1 DEF Soundness, ReadingsSound
<1>9. Len(Append(old, block)) <= Len(content[f])
      BY <1>1, <1>5, <1>6
<1>10. ASSUME Settled(reading[r].stat), Unchanged(f, reading[r].stat)
       PROVE  \A i \in 1..Len(Append(old, block)) :
                Append(old, block)[i] = content[f][i]
       BY <1>5, <1>7, <1>8, <1>10 DEF SoundReading, block
<1>11. SoundReading(r)'
       BY <1>1, <1>2, <1>8, <1>9, <1>10 DEF SoundReading, Settled, Unchanged
<1>12. \A q \in Runs \ {r} : pc[q] \in Files => SoundReading(q)'
       BY <1>1, <1>2 DEF Soundness, ReadingsSound, SoundReading, Settled, Unchanged
<1> QED BY <1>1, <1>11, <1>12 DEF ReadingsSound

\* At the end of the file the blocks read are the file, if it still is what the
\* stat found; the entry is for this file alone.
LEMMA EndOfFileSound ==
    ASSUME Types, Soundness, DistinctPaths, NEW r \in Runs, EndOfFile(r)
    PROVE  IndexSound' /\ AllVerdictsSound' /\ ReadingsSound'
<1> DEFINE f == pc[r]
           s == reading[r].stat
           read == reading[r].blocks
           e == [path |-> PathOf[f], stat |-> s, hash |-> read]
           v == [file |-> f, stat |-> s, hash |-> read, from |-> s]
<1>1. /\ f \in Files
      /\ Len(read) >= Len(content[f])
      /\ UNCHANGED <<now, content, mtime>>
      /\ pc' = [pc EXCEPT ![r] = "walk"]
      /\ reading' = [reading EXCEPT ![r] = Nothing]
      /\ index' = [index EXCEPT ![r] = Upsert(index[r], e)]
      /\ verdicts' = [verdicts EXCEPT ![r] = verdicts[r] \union {v}]
      BY DEF EndOfFile, files, Goto
<1>2. read \in Seq(Block) /\ content[f] \in Seq(Block)
      BY <1>1, ContentTyped DEF Types, TypeOK
<1>3. SoundReading(r)
      BY <1>1 DEF Soundness, ReadingsSound
<1>4. ASSUME Settled(s), Unchanged(f, s) PROVE read = content[f]
  <2>1. /\ Len(read) <= Len(content[f])
        /\ \A i \in 1..Len(read) : read[i] = content[f][i]
        BY <1>3, <1>4 DEF SoundReading
  <2>2. Len(read) \in Nat /\ Len(content[f]) \in Nat
        BY <1>2
  <2>3. Len(read) = Len(content[f])
        BY <1>1, <2>1, <2>2
  <2> QED BY <1>2, <2>1, <2>3
<1>5. /\ e.path = PathOf[f] /\ e.stat = s /\ e.hash = read
      /\ v.file = f /\ v.stat = s /\ v.from = s /\ v.hash = read
      OBVIOUS
<1> HIDE DEF e, v, read, s
<1>6. s.seen <= now
      BY <1>3 DEF SoundReading, s
<1>7. \A g \in Files : Matches(e, g) => g = f /\ Unchanged(f, s)
      BY <1>1, <1>5 DEF Matches, Unchanged, DistinctPaths
<1>8. Sound(e)
      BY <1>4, <1>5, <1>6, <1>7 DEF Sound
<1>9. SoundVerdict(v)
      BY <1>4, <1>5, <1>6 DEF SoundVerdict
<1>10. IndexSound'
  <2>1. \A q \in Runs : \A o \in index'[q] : o \in index[q] \/ o = e
        BY <1>1 DEF Types, TypeOK, Upsert
  <2>2. \A o : Sound(o) => Sound(o)'
        BY <1>1 DEF Sound, Matches, Settled
  <2> QED BY <1>8, <2>1, <2>2 DEF Soundness, IndexSound
<1>11. AllVerdictsSound'
  <2>1. \A q \in Runs : \A w \in verdicts'[q] : w \in verdicts[q] \/ w = v
        BY <1>1 DEF Types, TypeOK
  <2>2. \A w : SoundVerdict(w) => SoundVerdict(w)'
        BY <1>1 DEF SoundVerdict, Unchanged, Settled
  <2> QED BY <1>9, <2>1, <2>2 DEF Soundness, AllVerdictsSound
<1>12. ReadingsSound'
  <2>1. pc'[r] \notin Files
        BY <1>1, FilesAssumption DEF Types, TypeOK, Labels
  <2>2. \A q \in Runs \ {r} : pc'[q] = pc[q] /\ reading'[q] = reading[q]
        BY <1>1 DEF Types, TypeOK
  <2> QED BY <1>1, <2>1, <2>2
          DEF Soundness, ReadingsSound, SoundReading, Settled, Unchanged
<1> QED BY <1>10, <1>11, <1>12

\* The steps that add nothing: they may forget what they knew.
Forget(r) ==
    \/ \E f \in Files : Skip(r, f)
    \/ \E e \in index[r] : WriteEntry(r, e)
    \/ ReadFails(r) \/ MakeTmp(r)
    \/ LoadFails(r) \/ MakeTmpFails(r) \/ SaveFails(r) \/ Crash(r)

LEMMA ForgetSound ==
    ASSUME Types, Soundness, NEW r \in Runs, Forget(r)
    PROVE  Soundness'
<1>1. /\ UNCHANGED <<now, content, mtime, disk>>
      /\ \A q \in Runs : index'[q] \subseteq index[q]
      /\ \A q \in Runs : verdicts'[q] \subseteq verdicts[q]
  <2>1. CASE \E f \in Files : Skip(r, f)
        BY <2>1 DEF Skip, files
  <2>2. CASE \E e \in index[r] : WriteEntry(r, e)
        BY <2>2 DEF WriteEntry, files
  <2>3. CASE ReadFails(r) \/ MakeTmp(r)
        BY <2>3 DEF ReadFails, MakeTmp, files
  <2>4. CASE LoadFails(r) \/ MakeTmpFails(r) \/ SaveFails(r) \/ Crash(r)
        BY <2>4 DEF LoadFails, MakeTmpFails, SaveFails, Crash, Exit, files, Types, TypeOK
  <2> QED BY <2>1, <2>2, <2>3, <2>4 DEF Forget
<1>2. \A q \in Runs : pc'[q] \in Files => pc'[q] = pc[q] /\ reading'[q] = reading[q]
  <2> USE FilesAssumption DEF Types, TypeOK, Labels, Goto
  <2>1. CASE (\E f \in Files : Skip(r, f)) \/ (\E e \in index[r] : WriteEntry(r, e))
        BY <2>1 DEF Skip, WriteEntry
  <2>2. CASE ReadFails(r) \/ MakeTmp(r)
        BY <2>2 DEF ReadFails, MakeTmp
  <2>3. CASE LoadFails(r) \/ MakeTmpFails(r)
        BY <2>3 DEF LoadFails, MakeTmpFails, Exit
  <2>4. CASE SaveFails(r) \/ Crash(r)
        BY <2>4 DEF SaveFails, Crash, Exit
  <2> QED BY <2>1, <2>2, <2>3, <2>4 DEF Forget
<1>3. \A o : Sound(o) => Sound(o)'
      BY <1>1 DEF Sound, Matches, Settled
<1>4. \A w : SoundVerdict(w) => SoundVerdict(w)'
      BY <1>1 DEF SoundVerdict, Unchanged, Settled
<1>5. IndexSound' /\ DiskSound'
      BY <1>1, <1>3 DEF Soundness, IndexSound, DiskSound
<1>6. AllVerdictsSound'
      BY <1>1, <1>4 DEF Soundness, AllVerdictsSound
<1>7. ReadingsSound'
      BY <1>1, <1>2 DEF Soundness, ReadingsSound, SoundReading, Settled, Unchanged
<1> QED BY <1>5, <1>6, <1>7 DEF Soundness

\* The index passes between memory and the index file as it is.
LEMMA LoadReplaceSound ==
    ASSUME Types, Soundness, NEW r \in Runs, Load(r) \/ Replace(r)
    PROVE  Soundness'
<1>1. UNCHANGED <<now, content, mtime>>
      BY DEF Load, Replace, files
<1>2. \A o : Sound(o) => Sound(o)'
      BY <1>1 DEF Sound, Matches, Settled
<1>3. \A w : SoundVerdict(w) => SoundVerdict(w)'
      BY <1>1 DEF SoundVerdict, Unchanged, Settled
<1>4. \A q \in Runs : \A e \in index'[q] : e \in index[q] \/ (disk # NoIndex /\ e \in disk)
      BY DEF Load, Replace, Exit, Types, TypeOK
<1>5. IndexSound'
      BY <1>2, <1>4 DEF Soundness, IndexSound, DiskSound
<1>6. DiskSound'
  <2>1. disk' = disk \/ disk' = index[r]
        BY DEF Load, Replace
  <2> QED BY <2>1, <1>2 DEF Soundness, IndexSound, DiskSound
<1>7. AllVerdictsSound'
  <2>1. \A q \in Runs : verdicts'[q] \subseteq verdicts[q]
        BY DEF Load, Replace, Exit, Types, TypeOK
  <2> QED BY <2>1, <1>3 DEF Soundness, AllVerdictsSound
<1>8. ReadingsSound'
  <2>1. \A q \in Runs : pc'[q] \in Files => pc'[q] = pc[q] /\ reading'[q] = reading[q]
    <3> USE FilesAssumption DEF Types, TypeOK, Labels, Goto
    <3>1. CASE Load(r)
          BY <3>1 DEF Load
    <3>2. CASE Replace(r)
          BY <3>2 DEF Replace, Exit
    <3> QED BY <3>1, <3>2
  <2> QED BY <1>1, <2>1 DEF Soundness, ReadingsSound, SoundReading, Settled, Unchanged
<1> QED BY <1>5, <1>6, <1>7, <1>8 DEF Soundness

LEMMA FilesStepSound ==
    ASSUME Types, Soundness, FilesStep,
           UNCHANGED <<disk, tmp, pc, index, todo, reading, verdicts>>
    PROVE  Soundness'
<1>1. IndexSound' /\ DiskSound'
      BY SoundStays DEF Soundness, IndexSound, DiskSound, Types, TypeOK
<1>2. AllVerdictsSound'
      BY VerdictStays DEF Soundness, AllVerdictsSound, Types, TypeOK
<1>3. ReadingsSound'
      BY ReadingStays DEF Soundness, ReadingsSound, Types
<1> QED BY <1>1, <1>2, <1>3 DEF Soundness

LEMMA InitSound == Init => Soundness
BY FilesAssumption
   DEF Init, Soundness, IndexSound, DiskSound, AllVerdictsSound, ReadingsSound, Labels

LEMMA SoundnessStep ==
    ASSUME Types, Soundness, DistinctPaths, [Next]_vars PROVE Soundness'
<1>1. CASE Tick \/ (\E f \in Files, c \in Contents : Write(f, c)) \/ UNCHANGED vars
  <2>1. FilesStep /\ UNCHANGED <<disk, tmp, pc, index, todo, reading, verdicts>>
        BY <1>1 DEF FilesStep, Tick, Write, vars
  <2> QED BY <2>1, FilesStepSound
<1>2. ASSUME NEW r \in Runs, Forget(r) PROVE Soundness'
      BY <1>2, ForgetSound
<1>3. ASSUME NEW r \in Runs, Load(r) \/ Replace(r) PROVE Soundness'
      BY <1>3, LoadReplaceSound
<1>4. ASSUME NEW r \in Runs, NEW f \in Files, Hit(r, f) PROVE Soundness'
  <2>1. IndexSound' /\ DiskSound' /\ ReadingsSound'
        BY <1>4 DEF Hit, files, Soundness, IndexSound, DiskSound, ReadingsSound,
                    Sound, Matches, SoundReading, Settled, Unchanged
  <2> QED BY <2>1, <1>4, HitSound DEF Soundness
<1>5. ASSUME NEW r \in Runs, NEW f \in Files, Miss(r, f) PROVE Soundness'
  <2>1. IndexSound' /\ DiskSound' /\ AllVerdictsSound'
        BY <1>5 DEF Miss, files, Soundness, IndexSound, DiskSound, AllVerdictsSound,
                    Sound, Matches, SoundVerdict, Settled, Unchanged
  <2> QED BY <2>1, <1>5, MissSound DEF Soundness
<1>6. ASSUME NEW r \in Runs, ReadBlock(r) PROVE Soundness'
  <2>1. IndexSound' /\ DiskSound' /\ AllVerdictsSound'
        BY <1>6 DEF ReadBlock, files, Soundness, IndexSound, DiskSound,
                    AllVerdictsSound, Sound, Matches, SoundVerdict, Settled, Unchanged
  <2> QED BY <2>1, <1>6, ReadBlockSound DEF Soundness
<1>7. ASSUME NEW r \in Runs, EndOfFile(r) PROVE Soundness'
  <2>1. DiskSound'
        BY <1>7 DEF EndOfFile, files, Soundness, DiskSound, Sound, Matches, Settled
  <2> QED BY <2>1, <1>7, EndOfFileSound DEF Soundness
<1> QED BY <1>1, <1>2, <1>3, <1>4, <1>5, <1>6, <1>7 DEF Next, Forget

\* The types of FileIndex, with the temporary files of the runs that save.
THEOREM TypeInvariance == Spec => []Types
BY InitTypes, TypesStep, PTL DEF Spec

\* The invariant the theorems below rest on.
THEOREM Invariance == DistinctPaths => (Spec => [](Types /\ Soundness))
<1> SUFFICES ASSUME DistinctPaths PROVE Spec => [](Types /\ Soundness)
    OBVIOUS
<1>1. Types /\ Soundness /\ [Next]_vars => (Types /\ Soundness)'
      BY TypesStep, SoundnessStep
<1> QED BY InitTypes, InitSound, <1>1, PTL DEF Spec

----------------------------------------------------------------------------
\* The states of FileIndex have the types it declares.
THEOREM TypeCorrect == Spec => []TypeOK
<1>1. Types => TypeOK
      BY DEF Types
<1> QED BY TypeInvariance, <1>1, PTL

\* lookup returns no entry with the digests of older contents, for any number
\* of concurrent runs and writers, when paths are distinct.
THEOREM IndexNeverStale == DistinctPaths => (Spec => []CacheSound)
<1> SUFFICES ASSUME DistinctPaths PROVE Spec => []CacheSound
    OBVIOUS
<1>1. Soundness => CacheSound
      BY DEF Soundness, IndexSound, DiskSound, Sound, CacheSound, Entries
<1> QED BY Invariance, <1>1, PTL

\* What scan_file_indexed looks up are the digests of the file, when paths are
\* distinct.
THEOREM LookupsRight == DistinctPaths => (Spec => []VerdictsSound)
<1> SUFFICES ASSUME DistinctPaths PROVE Spec => []VerdictsSound
    OBVIOUS
<1>1. Soundness => VerdictsSound
      BY DEF Soundness, AllVerdictsSound, SoundVerdict, VerdictsSound
<1> QED BY Invariance, <1>1, PTL

----------------------------------------------------------------------------
(* What a run looked up stays in its index until the index is saved.        *)

Kept ==
    \A r \in Runs : /\ pc[r] = "start" => verdicts[r] = {}
                    /\ \A v \in verdicts[r] : \E e \in index[r] : e.path = PathOf[v.file]

KeptBy(r) ==
    /\ pc'[r] = "start" => verdicts'[r] = {}
    /\ \A v \in verdicts'[r] : \E e \in index'[r] : e.path = PathOf[v.file]

LEMMA InitKept == Init => Kept
BY DEF Init, Kept

\* The steps that leave index and verdicts alone, or forget both.
LEMMA IdleKept ==
    ASSUME TypeOK, Kept, NEW r \in Runs,
           \/ \E f \in Files : Skip(r, f) \/ Miss(r, f)
           \/ \E e \in index[r] : WriteEntry(r, e)
           \/ ReadBlock(r) \/ ReadFails(r) \/ MakeTmp(r)
           \/ LoadFails(r) \/ MakeTmpFails(r) \/ SaveFails(r) \/ Crash(r) \/ Replace(r)
    PROVE  KeptBy(r)
<1> USE FilesAssumption DEF TypeOK, Kept, KeptBy, Labels, Goto
<1>1. CASE \E f \in Files : Skip(r, f)
  BY <1>1 DEF Skip
<1>2. CASE \E f \in Files : Miss(r, f)
  BY <1>2 DEF Miss
<1>3. CASE \E e \in index[r] : WriteEntry(r, e)
  BY <1>3 DEF WriteEntry
<1>4. CASE ReadBlock(r) \/ ReadFails(r) \/ MakeTmp(r)
  BY <1>4 DEF ReadBlock, ReadFails, MakeTmp
<1>5. CASE LoadFails(r) \/ MakeTmpFails(r) \/ SaveFails(r) \/ Crash(r) \/ Replace(r)
  BY <1>5 DEF LoadFails, MakeTmpFails, SaveFails, Crash, Replace, Exit
<1> QED BY <1>1, <1>2, <1>3, <1>4, <1>5

LEMMA LoadKept == ASSUME TypeOK, Kept, NEW r \in Runs, Load(r) PROVE KeptBy(r)
BY DEF Load, TypeOK, Kept, KeptBy, Goto

LEMMA HitKept ==
    ASSUME TypeOK, Kept, NEW r \in Runs, NEW f \in Files, Hit(r, f)
    PROVE  KeptBy(r)
<1>1. PICK e \in index[r] :
        /\ Matches(e, f)
        /\ verdicts' = [verdicts EXCEPT ![r] = @ \union
             {[file |-> f, stat |-> StatOf(f), hash |-> e.hash, from |-> e.stat]}]
  BY DEF Hit
<1> DEFINE v == [file |-> f, stat |-> StatOf(f), hash |-> e.hash, from |-> e.stat]
<1>2. verdicts'[r] = verdicts[r] \union {v} /\ v.file = f
  BY <1>1 DEF TypeOK
<1> HIDE DEF v
<1>3. e \in index'[r] /\ e.path = PathOf[v.file] /\ index' = index /\ pc'[r] # "start"
  BY <1>1, <1>2 DEF Hit, Matches
<1> QED BY <1>2, <1>3 DEF Kept, KeptBy

LEMMA EndOfFileKept ==
    ASSUME TypeOK, Kept, NEW r \in Runs, EndOfFile(r)
    PROVE  KeptBy(r)
<1> DEFINE e == [path |-> PathOf[pc[r]], stat |-> reading[r].stat, hash |-> reading[r].blocks]
           v == [file |-> pc[r], stat |-> reading[r].stat, hash |-> reading[r].blocks,
                 from |-> reading[r].stat]
<1>1. e.path = PathOf[pc[r]] /\ v.file = pc[r]
  OBVIOUS
<1>2. /\ index'[r] = Upsert(index[r], e)
      /\ verdicts'[r] = verdicts[r] \union {v}
      /\ pc'[r] = "walk"
  BY DEF EndOfFile, Goto, TypeOK
<1> HIDE DEF e, v
<1>3. ASSUME NEW p, NEW o \in index[r], o.path = p
      PROVE  \E n \in index'[r] : n.path = p
  <2>1. CASE p = e.path
    BY <1>2, <2>1 DEF Upsert
  <2>2. CASE p # e.path
    BY <1>2, <1>3, <2>2 DEF Upsert
  <2> QED BY <2>1, <2>2
<1>4. e \in index'[r]
  BY <1>2 DEF Upsert
<1> QED BY <1>1, <1>2, <1>3, <1>4 DEF Kept, KeptBy

\* A step of one run leaves the others alone.
LEMMA OthersAlone ==
    ASSUME TypeOK, NEW r \in Runs, NEW q \in Runs \ {r},
           \/ Load(r) \/ LoadFails(r) \/ ReadBlock(r) \/ EndOfFile(r) \/ ReadFails(r)
           \/ \E f \in Files : Skip(r, f) \/ Hit(r, f) \/ Miss(r, f)
           \/ MakeTmp(r) \/ MakeTmpFails(r) \/ Replace(r) \/ SaveFails(r) \/ Crash(r)
           \/ \E e \in index[r] : WriteEntry(r, e)
    PROVE  pc'[q] = pc[q] /\ index'[q] = index[q] /\ verdicts'[q] = verdicts[q]
<1> USE DEF TypeOK, Goto
<1>1. CASE Load(r) \/ ReadBlock(r) \/ EndOfFile(r) \/ ReadFails(r) \/ MakeTmp(r)
  BY <1>1 DEF Load, ReadBlock, EndOfFile, ReadFails, MakeTmp
<1>2. CASE LoadFails(r) \/ MakeTmpFails(r) \/ Replace(r) \/ SaveFails(r) \/ Crash(r)
  BY <1>2 DEF LoadFails, MakeTmpFails, Replace, SaveFails, Crash, Exit
<1>3. CASE \E f \in Files : Skip(r, f) \/ Hit(r, f) \/ Miss(r, f)
  BY <1>3 DEF Skip, Hit, Miss
<1>4. CASE \E e \in index[r] : WriteEntry(r, e)
  BY <1>4 DEF WriteEntry
<1> QED BY <1>1, <1>2, <1>3, <1>4

LEMMA KeptStep == ASSUME TypeOK, Kept, [Next]_vars PROVE Kept'
<1>1. CASE Tick \/ (\E f \in Files, c \in Contents : Write(f, c)) \/ UNCHANGED vars
  BY <1>1 DEF Tick, Write, vars, Kept
<1>2. CASE \E r \in Runs :
             \/ Load(r) \/ LoadFails(r) \/ ReadBlock(r) \/ EndOfFile(r) \/ ReadFails(r)
             \/ \E f \in Files : Skip(r, f) \/ Hit(r, f) \/ Miss(r, f)
             \/ MakeTmp(r) \/ MakeTmpFails(r) \/ Replace(r) \/ SaveFails(r) \/ Crash(r)
             \/ \E e \in index[r] : WriteEntry(r, e)
  <2>1. PICK r \in Runs :
             \/ Load(r) \/ LoadFails(r) \/ ReadBlock(r) \/ EndOfFile(r) \/ ReadFails(r)
             \/ \E f \in Files : Skip(r, f) \/ Hit(r, f) \/ Miss(r, f)
             \/ MakeTmp(r) \/ MakeTmpFails(r) \/ Replace(r) \/ SaveFails(r) \/ Crash(r)
             \/ \E e \in index[r] : WriteEntry(r, e)
    BY <1>2
  <2>2. KeptBy(r)
    BY <2>1, IdleKept, LoadKept, HitKept, EndOfFileKept
  <2>3. \A q \in Runs \ {r} : /\ pc'[q] = pc[q] /\ index'[q] = index[q]
                              /\ verdicts'[q] = verdicts[q]
    BY <2>1, OthersAlone
  <2> QED BY <2>2, <2>3 DEF Kept, KeptBy
<1> QED BY <1>1, <1>2 DEF Next

\* Only os.replace ends a run as saved, with all it holds.
LEMMA SavedByReplace ==
    ASSUME TypeOK, [Next]_vars, NEW q \in Runs, pc[q] # "saved", pc'[q] = "saved"
    PROVE  disk' = index[q]
<1> USE FilesAssumption DEF TypeOK, Goto, Labels
<1>1. CASE Tick \/ (\E f \in Files, c \in Contents : Write(f, c)) \/ UNCHANGED vars
  BY <1>1 DEF Tick, Write, vars
<1>2. ASSUME NEW r \in Runs, Replace(r) PROVE disk' = index[q]
  BY <1>2 DEF Replace, Exit
<1>3. ASSUME NEW r \in Runs, Load(r) \/ ReadBlock(r) \/ EndOfFile(r) \/ ReadFails(r) \/ MakeTmp(r)
      PROVE  FALSE
  BY <1>3 DEF Load, ReadBlock, EndOfFile, ReadFails, MakeTmp
<1>4. ASSUME NEW r \in Runs, LoadFails(r) \/ MakeTmpFails(r) \/ SaveFails(r) \/ Crash(r)
      PROVE  FALSE
  BY <1>4 DEF LoadFails, MakeTmpFails, SaveFails, Crash, Exit
<1>5. ASSUME NEW r \in Runs, NEW f \in Files, Skip(r, f) \/ Hit(r, f) \/ Miss(r, f)
      PROVE  FALSE
  BY <1>5 DEF Skip, Hit, Miss
<1>6. ASSUME NEW r \in Runs, NEW e \in index[r], WriteEntry(r, e)
      PROVE  FALSE
  BY <1>6 DEF WriteEntry
<1> QED BY <1>1, <1>2, <1>3, <1>4, <1>5, <1>6 DEF Next

\* A run that replaces the index file leaves nothing out that it looked up, paths
\* distinct or not.
THEOREM NothingLost == Spec => SaveKeepsAll
<1>1. TypeOK /\ Kept /\ [Next]_vars => Kept'
  BY KeptStep
<1>2. TypeOK /\ Kept /\ [Next]_vars =>
        [\A r \in Runs : pc[r] # "saved" /\ pc'[r] = "saved" =>
           \A v \in verdicts[r] : \E e \in disk' : e.path = PathOf[v.file]]_vars
  BY SavedByReplace DEF Kept
<1> QED BY <1>1, <1>2, InitKept, TypeCorrect, PTL DEF Spec, SaveKeepsAll

LEMMA DiskByReplace ==
    ASSUME [Next]_vars, disk' # disk
    PROVE  \E r \in Runs : Replace(r)
<1> SUFFICES ASSUME \A r \in Runs : ~ Replace(r) PROVE FALSE
  OBVIOUS
<1>1. CASE Tick \/ (\E f \in Files, c \in Contents : Write(f, c)) \/ UNCHANGED vars
  BY <1>1 DEF Tick, Write, vars
<1>2. ASSUME NEW r \in Runs, Load(r) \/ ReadBlock(r) \/ EndOfFile(r) \/ ReadFails(r) \/ MakeTmp(r)
      PROVE  FALSE
  BY <1>2 DEF Load, ReadBlock, EndOfFile, ReadFails, MakeTmp
<1>3. ASSUME NEW r \in Runs, LoadFails(r) \/ MakeTmpFails(r) \/ SaveFails(r) \/ Crash(r)
      PROVE  FALSE
  BY <1>3 DEF LoadFails, MakeTmpFails, SaveFails, Crash
<1>4. ASSUME NEW r \in Runs, NEW f \in Files, Skip(r, f) \/ Hit(r, f) \/ Miss(r, f)
      PROVE  FALSE
  BY <1>4 DEF Skip, Hit, Miss
<1>5. ASSUME NEW r \in Runs, NEW e \in index[r], WriteEntry(r, e)
      PROVE  FALSE
  BY <1>5 DEF WriteEntry
<1> QED BY <1>1, <1>2, <1>3, <1>4, <1>5 DEF Next

\* A save that fails, is killed or is overtaken leaves the index as it was, and one
\* that succeeds puts all the run holds in its place, paths distinct or not.
THEOREM IndexIsAtomic == Spec => IndexAtomic
<1>1. ASSUME TypeOK, [Next]_vars, disk' # disk
      PROVE  \E r \in Runs : pc[r] = "save" /\ pc'[r] = "saved" /\ disk' = index[r]
  <2>1. PICK r \in Runs : Replace(r)
    BY <1>1, DiskByReplace
  <2>2. pc[r] = "save" /\ pc'[r] = "saved" /\ disk' = index[r]
    BY <1>1, <2>1 DEF Replace, Exit, Goto, TypeOK
  <2> QED BY <2>2
<1>2. TypeOK /\ [Next]_vars =>
        [disk' # disk =>
           \E r \in Runs : pc[r] = "save" /\ pc'[r] = "saved" /\ disk' = index[r]]_vars
  BY <1>1
<1> QED BY <1>2, TypeCorrect, PTL DEF Spec, IndexAtomic
============================================================================
