------------------------- MODULE SignatureDbProofs -------------------------
(***************************************************************************)
(* Theorems about SignatureDb for any number of updates and scans, any     *)
(* database and any feeds: what updates may do to the list, whatever they  *)
(* interleave with and wherever they end, and that a lookup reports what   *)
(* the list says, with the Bloom filter and without it.                    *)
(***************************************************************************)
EXTENDS SignatureDb, WellFoundedInduction, TLAPS

\* The types, and that an update that writes has its temporary file.
Types == TypeOK /\ \A u \in Updates : pc[u] = "write" => tmp[u] \in Seq(Entry)

\* An update holds a list it read from the file.
Active(u) == pc[u] \in {"merge", "validated", "write"}

\* The list b is a prefix of l, and the entries after it share no digest with an
\* entry before them.
Grows(b, l) ==
    /\ Len(b) <= Len(l)
    /\ \A i \in DOMAIN b : l[i] = b[i]
    /\ \A i \in DOMAIN l, j \in DOMAIN l :
         i < j /\ j > Len(b) => Keys(l[i]) \intersect Keys(l[j]) = {}

\* The file and the lists of the updates are grown from the base, never built anew.
Grown ==
    /\ Grows(ListOf(base), ListOf(db))
    /\ \A u \in Updates : Active(u) => Grows(ListOf(base), merged[u])

\* What was validated loads, and the temporary file holds the first entries of it.
Written ==
    /\ db # base => Loads(ListOf(db))
    /\ \A u \in Updates : pc[u] \in {"validated", "write"} => Loads(merged[u])
    /\ \A u \in Updates : pc[u] = "write" =>
         /\ Len(tmp[u]) <= Len(merged[u])
         /\ \A i \in DOMAIN tmp[u] : tmp[u][i] = merged[u][i]

\* As long as updates did not overlap, one at most is active and has what the
\* file has.
Alone ==
    ~ overlapped =>
        /\ published \subseteq HashesOf(db)
        /\ \A u, o \in Updates : Active(u) /\ Active(o) => u = o
        /\ \A u \in Updates : Active(u) => HashesOf(db) \subseteq HashesOf(merged[u])

Verdicts ==
    \A s \in Scans :
        pc[s] = "scanned" =>
            RightHit(loaded[s].list, verdict[s].md5, verdict[s].sha256, verdict[s].hit)

IInv == Types /\ Grown /\ Written /\ Alone /\ Verdicts

----------------------------------------------------------------------------
\* A set of positions of a list has a largest one.
LEMMA MaxOfPositions ==
    ASSUME NEW n \in Nat, NEW T \in SUBSET (1..n), T # {}
    PROVE  Max(T) \in T
<1> DEFINE S == {n - i : i \in T}
<1>0. \A i \in T : i \in Nat /\ 1 <= i /\ i <= n
  OBVIOUS
<1>1. S \subseteq Nat
  <2>1. \A i \in T : n - i \in Nat
    BY <1>0
  <2> QED BY <2>1
<1>2. PICK d \in S : \A m \in S : d <= m
  <2>1. PICK i \in T : TRUE
    OBVIOUS
  <2>2. n - i \in S
    BY <2>1
  <2>3. S # {}
    BY <2>2
  <2>4. IsWellFoundedOn(OpToRel(<, Nat), Nat)
    BY NatLessThanWellFounded, Zenon
  <2>5. PICK d \in S : \A m \in S : ~ (<<m, d>> \in OpToRel(<, Nat))
    <3> HIDE DEF S
    <3> QED BY <1>1, <2>3, <2>4, WFMin, Zenon
  <2>6. \A m \in S : ~ (m < d)
    <3> HIDE DEF S
    <3> QED BY <1>1, <2>5 DEF OpToRel
  <2> HIDE DEF S
  <2> QED BY <1>1, <2>6
<1>3. PICK x \in T : d = n - x
  OBVIOUS
<1>4. \A y \in T : x >= y
  <2> SUFFICES ASSUME NEW y \in T PROVE x >= y
    OBVIOUS
  <2>1. n - y \in S
    OBVIOUS
  <2> QED BY <1>0, <1>2, <1>3, <2>1
<1> QED BY <1>4 DEF Max

\* Every key that was added passes the filter: no false negatives.
LEMMA NoFalseNegative ==
    ASSUME NEW l \in Seq(Entry), NEW bloom \in BOOLEAN,
           NEW h \in Md5sOf(l) \union Sha256sOf(l)
    PROVE  MightContain(l, bloom, h)
BY DEF MightContain, Bloom

\* The entry the MD5 index names has the digest.
LEMMA Md5IndexNames ==
    ASSUME NEW l \in Seq(Entry), NEW h \in Md5sOf(l)
    PROVE  Md5Index(l)[h] \in DOMAIN l /\ l[Md5Index(l)[h]].md5 = h
<1> DEFINE T == {i \in DOMAIN l : l[i].md5 = h}
<1>1. T \in SUBSET (1..Len(l)) /\ T # {} /\ Len(l) \in Nat
  BY DEF Md5sOf
<1>2. Max(T) \in T
  <2> HIDE DEF T
  <2> QED BY <1>1, MaxOfPositions
<1>3. Md5Index(l)[h] = Max(T)
  BY DEF Md5Index
<1> QED BY <1>2, <1>3

\* The entry the SHA-256 index names has the digest.
LEMMA Sha256IndexNames ==
    ASSUME NEW l \in Seq(Entry), NEW h \in Sha256sOf(l)
    PROVE  Sha256Index(l)[h] \in DOMAIN l /\ l[Sha256Index(l)[h]].sha256 = h
<1> DEFINE T == {i \in DOMAIN l : l[i].sha256 = h}
<1>1. T \in SUBSET (1..Len(l)) /\ T # {} /\ Len(l) \in Nat
  BY DEF Sha256sOf
<1>2. Max(T) \in T
  <2> HIDE DEF T
  <2> QED BY <1>1, MaxOfPositions
<1>3. Sha256Index(l)[h] = Max(T)
  BY DEF Sha256Index
<1> QED BY <1>2, <1>3

\* lookup_hashes is right on every list: the filter changes no answer, the
\* stronger digest wins, and the entry named has the digest.
THEOREM LookupRight ==
    ASSUME NEW l \in Seq(Entry), NEW bloom \in BOOLEAN, NEW m, NEW s
    PROVE  RightHit(l, m, s, LookupHashes(l, bloom, m, s))
<1> DEFINE hit == LookupHashes(l, bloom, m, s)
<1>0. DOMAIN Md5Index(l) = Md5sOf(l) /\ DOMAIN Sha256Index(l) = Sha256sOf(l)
  BY DEF Md5Index, Sha256Index
<1>1. CASE s \in Sha256sOf(l)
  <2>1. hit = [method |-> "sha256", entry |-> Sha256Index(l)[s]]
    BY <1>0, <1>1, NoFalseNegative DEF LookupHashes
  <2> QED BY <1>1, <2>1, Sha256IndexNames DEF RightHit
<1>2. CASE s \notin Sha256sOf(l) /\ m \in Md5sOf(l)
  <2>1. hit = [method |-> "md5", entry |-> Md5Index(l)[m]]
    BY <1>0, <1>2, NoFalseNegative DEF LookupHashes
  <2> QED BY <1>2, <2>1, Md5IndexNames DEF RightHit
<1>3. CASE s \notin Sha256sOf(l) /\ m \notin Md5sOf(l)
  <2>1. hit = NoHit
    BY <1>0, <1>3 DEF LookupHashes
  <2> QED BY <1>3, <2>1 DEF RightHit, NoHit
<1> QED BY <1>1, <1>2, <1>3

----------------------------------------------------------------------------
\* The list read from a file is the file, if there is one.
LEMMA ListOfFile ==
    /\ \A l \in Seq(Entry) : ListOf(l) = l
    /\ ListOf(NoFile) = <<>>
    /\ \A file \in Seq(Entry) \union {NoFile} : ListOf(file) \in Seq(Entry)
BY BaseDbsAssumption DEF ListOf

\* The digests of a list are those of its entries.
LEMMA HashesOfList ==
    ASSUME NEW l \in Seq(Entry)
    PROVE  /\ HashesOf(l) \subseteq Digests
           /\ \A i \in DOMAIN l : Keys(l[i]) \subseteq HashesOf(l)
           /\ \A h \in HashesOf(l) : \E i \in DOMAIN l : h \in Keys(l[i])
<1>1. HashesOf(l) = Md5sOf(l) \union Sha256sOf(l)
  BY ListOfFile DEF HashesOf
<1>2. \A i \in DOMAIN l : l[i] \in Entry
  OBVIOUS
<1>3. HashesOf(l) \subseteq Digests
  BY <1>1, <1>2 DEF Md5sOf, Sha256sOf, Digests, Entry
<1>4. \A i \in DOMAIN l : Keys(l[i]) \subseteq HashesOf(l)
  BY <1>1 DEF Md5sOf, Sha256sOf, Keys
<1>5. ASSUME NEW h \in HashesOf(l) PROVE \E i \in DOMAIN l : h \in Keys(l[i])
  BY <1>1 DEF Md5sOf, Sha256sOf, Keys
<1> QED BY <1>3, <1>4, <1>5

\* A record that is merged is a valid entry with the record's digests.
LEMMA ImportedEntry ==
    ASSUME NEW r \in Record
    PROVE  Imported(r) \in Entry /\ Keys(Imported(r)) = Keys(r)
BY DEF Record, Entry, Imported, Keys

\* A record with new digests can be appended.
LEMMA AppendNewEntry ==
    ASSUME NEW b \in Seq(Entry), NEW l \in Seq(Entry), NEW r \in Record,
           Grows(b, l), Keys(r) \intersect HashesOf(l) = {}
    PROVE  /\ Grows(b, Append(l, Imported(r)))
           /\ HashesOf(l) \subseteq HashesOf(Append(l, Imported(r)))
<1> DEFINE new == Append(l, Imported(r))
<1>1. /\ new \in Seq(Entry)
      /\ Len(new) = Len(l) + 1
      /\ DOMAIN new = 1..(Len(l) + 1)
      /\ DOMAIN l = 1..Len(l)
      /\ \A i \in DOMAIN l : new[i] = l[i]
      /\ new[Len(l) + 1] = Imported(r)
      /\ Len(l) \in Nat
  BY ImportedEntry
<1>2. Len(b) <= Len(l) /\ DOMAIN b = 1..Len(b) /\ Len(b) \in Nat
  BY DEF Grows
<1>3. Len(b) <= Len(new)
  BY <1>1, <1>2
<1>4. ASSUME NEW i \in DOMAIN b PROVE new[i] = b[i]
  <2>1. i \in DOMAIN l
    BY <1>1, <1>2
  <2>2. l[i] = b[i]
    BY DEF Grows
  <2> QED BY <1>1, <2>1, <2>2
<1>5. ASSUME NEW i \in DOMAIN new, NEW j \in DOMAIN new, i < j, j > Len(b)
      PROVE  Keys(new[i]) \intersect Keys(new[j]) = {}
  <2>1. i \in DOMAIN l
    BY <1>1, <1>5
  <2>2. CASE j \in DOMAIN l
    <3>1. Keys(l[i]) \intersect Keys(l[j]) = {}
      BY <1>5, <2>1, <2>2 DEF Grows
    <3> QED BY <1>1, <2>1, <2>2, <3>1
  <2>3. CASE j = Len(l) + 1
    <3>1. Keys(l[i]) \subseteq HashesOf(l)
      BY <2>1, HashesOfList
    <3>2. Keys(new[j]) = Keys(r)
      BY <1>1, <2>3, ImportedEntry
    <3> QED BY <1>1, <2>1, <3>1, <3>2
  <2> QED BY <1>1, <2>2, <2>3
<1>6. HashesOf(l) \subseteq HashesOf(new)
  <2> SUFFICES ASSUME NEW h \in HashesOf(l) PROVE h \in HashesOf(new)
    OBVIOUS
  <2>1. PICK i \in DOMAIN l : h \in Keys(l[i])
    BY HashesOfList
  <2>2. i \in DOMAIN new /\ new[i] = l[i]
    BY <1>1
  <2> QED BY <1>1, <2>1, <2>2, HashesOfList
<1>7. Grows(b, new)
  BY <1>3, <1>4, <1>5 DEF Grows
<1> QED BY <1>6, <1>7

\* What a lookup returns has its type.
LEMMA LookupType ==
    ASSUME NEW l \in Seq(Entry), NEW bloom \in BOOLEAN, NEW m, NEW s
    PROVE  LookupHashes(l, bloom, m, s) \in [method : {"none", "md5", "sha256"}, entry : Nat]
<1>1. DOMAIN l \subseteq Nat
  OBVIOUS
<1>2. \A h \in DOMAIN Md5Index(l) : Md5Index(l)[h] \in Nat
  <2>1. DOMAIN Md5Index(l) = Md5sOf(l)
    BY DEF Md5Index
  <2> QED BY <1>1, <2>1, Md5IndexNames
<1>3. \A h \in DOMAIN Sha256Index(l) : Sha256Index(l)[h] \in Nat
  <2>1. DOMAIN Sha256Index(l) = Sha256sOf(l)
    BY DEF Sha256Index
  <2> QED BY <1>1, <2>1, Sha256IndexNames
<1> QED BY <1>2, <1>3 DEF LookupHashes, NoHit

----------------------------------------------------------------------------
LEMMA TypeInit == Init => Types
<1> SUFFICES ASSUME Init PROVE Types
  OBVIOUS
<1>1. base \in BaseDbs /\ db = base /\ base \in Seq(Entry) \union {NoFile}
  BY BaseDbsAssumption DEF Init
<1>2. published \subseteq Digests
  BY <1>1, ListOfFile, HashesOfList DEF Init, HashesOf
<1>3. verdict \in [Scans -> [md5 : Md5s \union {None}, sha256 : Sha256s \union {None},
                             hit : [method : {"none", "md5", "sha256"}, entry : Nat]]]
  BY DEF Init, NoVerdict, NoHit
<1>4. /\ incoming \in [Updates -> Seq(Record)]
      /\ merged \in [Updates -> Seq(Entry)]
      /\ tmp \in [Updates -> Seq(Entry) \union {NoFile}]
      /\ loaded \in [Scans -> [list : Seq(Entry), bloom : BOOLEAN]]
  BY DEF Init
<1>5. pc \in [Updates \union Scans ->
                 {"fetch", "existing", "merge", "validated", "write", "load", "scan",
                  "scanned", "done", "failed", "crashed"}]
  BY DEF Init
<1>6. TypeOK
  BY <1>1, <1>2, <1>3, <1>4, <1>5 DEF TypeOK, Init
<1> QED BY <1>6 DEF Types, Init

LEMMA TypeNext == Types /\ [Next]_vars => Types'
<1> SUFFICES ASSUME Types, [Next]_vars PROVE Types'
  OBVIOUS
<1> USE DEF updaters, scanners, Goto
<1>0. TypeOK /\ \A u \in Updates : pc[u] = "write" => tmp[u] \in Seq(Entry)
  BY DEF Types
<1>1. ASSUME NEW u \in Updates, Fetch(u) PROVE Types'
  <2>1. TypeOK'
    BY <1>0, <1>1, FeedsAssumption DEF Fetch, TypeOK
  <2> QED BY <1>0, <1>1, <2>1 DEF Types, TypeOK, Fetch
<1>2. ASSUME NEW u \in Updates, LoadExisting(u) PROVE Types'
  <2>1. TypeOK'
    BY <1>0, <1>2, ListOfFile DEF LoadExisting, TypeOK
  <2> QED BY <1>0, <1>2, <2>1 DEF Types, TypeOK, LoadExisting
<1>3. ASSUME NEW u \in Updates, MergeEntry(u) PROVE Types'
  <2> DEFINE r == Head(incoming[u])
  <2>1. r \in Record /\ Tail(incoming[u]) \in Seq(Record)
    BY <1>0, <1>3 DEF MergeEntry, TypeOK
  <2>2. Append(merged[u], Imported(r)) \in Seq(Entry) /\ merged[u] \in Seq(Entry)
    BY <1>0, <2>1, ImportedEntry DEF TypeOK
  <2>3. merged' \in [Updates -> Seq(Entry)]
    BY <1>0, <1>3, <2>2 DEF MergeEntry, TypeOK
  <2>4. incoming' \in [Updates -> Seq(Record)]
    BY <1>0, <1>3, <2>1 DEF MergeEntry, TypeOK
  <2>5. TypeOK'
    BY <1>0, <1>3, <2>3, <2>4 DEF MergeEntry, TypeOK
  <2> QED BY <1>0, <1>3, <2>5 DEF Types, TypeOK, MergeEntry
<1>4. ASSUME NEW u \in Updates, Validate(u) PROVE Types'
  BY <1>0, <1>4 DEF Types, Validate, TypeOK
<1>5. ASSUME NEW u \in Updates, DryRun(u) PROVE Types'
  BY <1>0, <1>5 DEF Types, DryRun, TypeOK
<1>6. ASSUME NEW u \in Updates, MakeTmp(u) PROVE Types'
  <2>1. TypeOK'
    BY <1>0, <1>6 DEF MakeTmp, TypeOK
  <2> QED BY <1>0, <1>6, <2>1 DEF Types, TypeOK, MakeTmp
<1>7. ASSUME NEW u \in Updates, WriteEntry(u) PROVE Types'
  <2>1. tmp[u] \in Seq(Entry) /\ merged[u] \in Seq(Entry)
    BY <1>0, <1>7 DEF WriteEntry, TypeOK
  <2>2. Append(tmp[u], merged[u][Len(tmp[u]) + 1]) \in Seq(Entry)
    BY <1>7, <2>1 DEF WriteEntry
  <2>3. tmp' = [tmp EXCEPT ![u] = Append(tmp[u], merged[u][Len(tmp[u]) + 1])]
    BY <1>7 DEF WriteEntry
  <2>4. tmp' \in [Updates -> Seq(Entry) \union {NoFile}] /\ tmp'[u] \in Seq(Entry)
    BY <1>0, <2>2, <2>3 DEF TypeOK
  <2>5. TypeOK'
    BY <1>0, <1>7, <2>4 DEF WriteEntry, TypeOK
  <2> QED BY <1>0, <1>7, <2>3, <2>4, <2>5 DEF Types, TypeOK, WriteEntry
<1>8. ASSUME NEW u \in Updates, Replace(u) PROVE Types'
  <2>1. tmp[u] \in Seq(Entry)
    BY <1>0, <1>8 DEF Replace, TypeOK
  <2>2. HashesOf(tmp[u]) \subseteq Digests
    BY <2>1, HashesOfList
  <2>3. TypeOK'
    BY <1>0, <1>8, <2>1, <2>2 DEF Replace, TypeOK
  <2> QED BY <1>0, <1>8, <2>3 DEF Types, TypeOK, Replace
<1>9. ASSUME NEW u \in Updates, Fails(u) PROVE Types'
  <2>1. TypeOK'
    BY <1>0, <1>9 DEF Fails, TypeOK
  <2> QED BY <1>0, <1>9, <2>1 DEF Types, TypeOK, Fails
<1>10. ASSUME NEW u \in Updates, Crash(u) PROVE Types'
  BY <1>0, <1>10 DEF Types, Crash, TypeOK
<1>11. ASSUME NEW s \in Scans, LoadDb(s) PROVE Types'
  <2>1. db \in Seq(Entry)
    BY <1>0, <1>11 DEF LoadDb, TypeOK
  <2>2. TypeOK'
    BY <1>0, <1>11, <2>1 DEF LoadDb, TypeOK
  <2> QED BY <1>0, <1>11, <2>2 DEF Types, TypeOK, LoadDb
<1>12. ASSUME NEW s \in Scans, LoadDbFails(s) PROVE Types'
  BY <1>0, <1>12 DEF Types, LoadDbFails, TypeOK
<1>13. ASSUME NEW s \in Scans, LookUp(s) PROVE Types'
  <2>1. loaded[s].list \in Seq(Entry) /\ loaded[s].bloom \in BOOLEAN
    BY <1>0 DEF TypeOK
  <2>2. verdict' \in [Scans -> [md5 : Md5s \union {None}, sha256 : Sha256s \union {None},
                               hit : [method : {"none", "md5", "sha256"}, entry : Nat]]]
    BY <1>0, <1>13, <2>1, LookupType DEF LookUp, TypeOK
  <2>3. TypeOK'
    BY <1>0, <1>13, <2>2 DEF LookUp, TypeOK
  <2> QED BY <1>0, <1>13, <2>3 DEF Types, TypeOK, LookUp
<1>14. CASE UNCHANGED vars
  BY <1>0, <1>14 DEF Types, TypeOK, vars
<1> QED BY <1>1, <1>2, <1>3, <1>4, <1>5, <1>6, <1>7, <1>8, <1>9, <1>10, <1>11, <1>12,
           <1>13, <1>14 DEF Next

----------------------------------------------------------------------------
\* What the actions of an update leave alone.
LEMMA UpdateFrame ==
    ASSUME NEW u \in Updates, Types,
           \/ Fetch(u) \/ LoadExisting(u) \/ MergeEntry(u) \/ Validate(u) \/ DryRun(u)
           \/ MakeTmp(u) \/ WriteEntry(u) \/ Replace(u) \/ Fails(u) \/ Crash(u)
    PROVE  /\ base' = base /\ loaded' = loaded /\ verdict' = verdict
           /\ \A p \in Updates \union Scans : p # u => pc'[p] = pc[p]
           /\ \A o \in Updates : o # u => merged'[o] = merged[o] /\ tmp'[o] = tmp[o]
           /\ pc'[u] \notin {"scanned", "scan"}
BY DEF Types, TypeOK, Goto, updaters, scanners, Fetch, LoadExisting, MergeEntry, Validate,
       DryRun, MakeTmp, WriteEntry, Replace, Fails, Crash

\* A scan changes nothing but what it loaded and its verdict.
LEMMA ScanFrame ==
    ASSUME NEW s \in Scans, Types, LoadDb(s) \/ LoadDbFails(s) \/ LookUp(s)
    PROVE  /\ base' = base /\ db' = db /\ merged' = merged /\ tmp' = tmp
           /\ overlapped' = overlapped /\ published' = published
           /\ \A u \in Updates : pc'[u] = pc[u]
BY ProcessAssumption
   DEF Types, TypeOK, Goto, updaters, scanners, LoadDb, LoadDbFails, LookUp

\* Of every update: what it holds when it is active, and what becomes of it.
LEMMA MergedNext ==
    ASSUME Types, Grown, NEW u \in Updates,
           \/ Fetch(u) \/ LoadExisting(u) \/ MergeEntry(u) \/ Validate(u) \/ DryRun(u)
           \/ MakeTmp(u) \/ WriteEntry(u) \/ Replace(u) \/ Fails(u) \/ Crash(u)
    PROVE  Active(u)' => Grows(ListOf(base), merged'[u])
<1> DEFINE B == ListOf(base)
<1>0. /\ base \in Seq(Entry) \union {NoFile} /\ db \in Seq(Entry) \union {NoFile}
      /\ merged \in [Updates -> Seq(Entry)] /\ incoming \in [Updates -> Seq(Record)]
      /\ B \in Seq(Entry)
      /\ pc \in [Updates \union Scans ->
                 {"fetch", "existing", "merge", "validated", "write", "load", "scan",
                  "scanned", "done", "failed", "crashed"}]
  BY BaseDbsAssumption, ListOfFile DEF Types, TypeOK
<1>1. CASE LoadExisting(u)
  <2>1. merged'[u] = ListOf(db)
    BY <1>0, <1>1 DEF LoadExisting
  <2> QED BY <2>1 DEF Grown
<1>2. CASE MergeEntry(u)
  <2>1. Active(u) /\ Grows(B, merged[u])
    BY <1>2 DEF MergeEntry, Active, Grown
  <2>2. Head(incoming[u]) \in Record /\ merged[u] \in Seq(Entry)
    BY <1>0, <1>2 DEF MergeEntry
  <2>3. \/ merged'[u] = merged[u]
        \/ /\ Keys(Head(incoming[u])) \intersect HashesOf(merged[u]) = {}
           /\ merged'[u] = Append(merged[u], Imported(Head(incoming[u])))
    BY <1>0, <1>2 DEF MergeEntry
  <2>4. CASE Keys(Head(incoming[u])) \intersect HashesOf(merged[u]) = {}
    <3>1. Grows(B, Append(merged[u], Imported(Head(incoming[u]))))
      <4> HIDE DEF B
      <4> QED BY <1>0, <2>1, <2>2, <2>4, AppendNewEntry
    <3> QED BY <2>1, <2>3, <3>1
  <2> QED BY <2>1, <2>3, <2>4
<1>3. CASE Fetch(u) \/ Validate(u) \/ DryRun(u) \/ MakeTmp(u) \/ WriteEntry(u)
           \/ Replace(u) \/ Fails(u) \/ Crash(u)
  <2>1. merged' = merged /\ (Active(u)' => Active(u))
    BY <1>0, <1>3 DEF Fetch, Validate, DryRun, MakeTmp, WriteEntry, Replace, Fails, Crash,
       updaters, Active, Goto
  <2> QED BY <2>1 DEF Grown
<1> QED BY <1>1, <1>2, <1>3

LEMMA GrownNext == Types /\ Grown /\ Written /\ [Next]_vars => Grown'
<1> SUFFICES ASSUME Types, Grown, Written, [Next]_vars PROVE Grown'
  OBVIOUS
<1>1. ASSUME NEW u \in Updates,
             \/ Fetch(u) \/ LoadExisting(u) \/ MergeEntry(u) \/ Validate(u) \/ DryRun(u)
             \/ MakeTmp(u) \/ WriteEntry(u) \/ Replace(u) \/ Fails(u) \/ Crash(u)
      PROVE  Grown'
  <2>1. /\ base' = base
        /\ \A p \in Updates \union Scans : p # u => pc'[p] = pc[p]
        /\ \A o \in Updates : o # u => merged'[o] = merged[o]
    BY <1>1, UpdateFrame
  <2>2. ASSUME NEW o \in Updates, Active(o)' PROVE Grows(ListOf(base'), merged'[o])
    <3>1. CASE o = u
      BY <1>1, <2>1, <2>2, <3>1, MergedNext
    <3>2. CASE o # u
      BY <2>1, <2>2, <3>2 DEF Active, Grown
    <3> QED BY <3>1, <3>2
  <2>3. Grows(ListOf(base'), ListOf(db'))
    <3>1. CASE Replace(u)
      <4>1. /\ tmp[u] \in Seq(Entry) /\ merged[u] \in Seq(Entry)
            /\ Len(tmp[u]) = Len(merged[u]) /\ db' = tmp[u]
            /\ \A i \in DOMAIN tmp[u] : tmp[u][i] = merged[u][i]
        BY <3>1 DEF Replace, Types, TypeOK, Written
      <4>2. tmp[u] = merged[u]
        BY <4>1
      <4>3. Grows(ListOf(base), merged[u])
        BY <3>1 DEF Replace, Active, Grown
      <4> QED BY <2>1, <4>1, <4>2, <4>3, ListOfFile
    <3>2. CASE ~ Replace(u)
      <4>1. db' = db
        BY <1>1, <3>2 DEF Fetch, LoadExisting, MergeEntry, Validate, DryRun, MakeTmp,
           WriteEntry, Fails, Crash
      <4> QED BY <2>1, <4>1 DEF Grown
    <3> QED BY <3>1, <3>2
  <2> QED BY <2>2, <2>3 DEF Grown
<1>2. ASSUME NEW s \in Scans, LoadDb(s) \/ LoadDbFails(s) \/ LookUp(s)
      PROVE  Grown'
  <2>1. /\ base' = base /\ db' = db /\ merged' = merged
        /\ \A u \in Updates : pc'[u] = pc[u]
    BY <1>2, ScanFrame
  <2> QED BY <2>1 DEF Grown, Active
<1>3. CASE UNCHANGED vars
  BY <1>3 DEF Grown, Active, vars
<1> QED BY <1>1, <1>2, <1>3 DEF Next

LEMMA WrittenNext == Types /\ Grown /\ Written /\ [Next]_vars => Written'
<1> SUFFICES ASSUME Types, Grown, Written, [Next]_vars PROVE Written'
  OBVIOUS
<1>0. /\ db \in Seq(Entry) \union {NoFile}
      /\ merged \in [Updates -> Seq(Entry)] /\ tmp \in [Updates -> Seq(Entry) \union {NoFile}]
      /\ pc \in [Updates \union Scans ->
                 {"fetch", "existing", "merge", "validated", "write", "load", "scan",
                  "scanned", "done", "failed", "crashed"}]
      /\ \A u \in Updates : pc[u] = "write" => tmp[u] \in Seq(Entry)
  BY DEF Types, TypeOK
<1> DEFINE OfUpdate(o) ==
      /\ pc[o] \in {"validated", "write"} => Loads(merged[o])
      /\ pc[o] = "write" => /\ Len(tmp[o]) <= Len(merged[o])
                            /\ \A i \in DOMAIN tmp[o] : tmp[o][i] = merged[o][i]
<1>1. ASSUME NEW u \in Updates,
             \/ Fetch(u) \/ LoadExisting(u) \/ MergeEntry(u) \/ Validate(u) \/ DryRun(u)
             \/ MakeTmp(u) \/ WriteEntry(u) \/ Replace(u) \/ Fails(u) \/ Crash(u)
      PROVE  Written'
  <2>1. /\ base' = base
        /\ \A p \in Updates \union Scans : p # u => pc'[p] = pc[p]
        /\ \A o \in Updates : o # u => merged'[o] = merged[o] /\ tmp'[o] = tmp[o]
    BY <1>1, UpdateFrame
  <2>2. OfUpdate(u)'
    <3>1. CASE Validate(u)
      BY <1>0, <3>1 DEF Validate, Goto, updaters
    <3>2. CASE MakeTmp(u)
      <4>1. pc[u] = "validated" /\ merged' = merged /\ tmp'[u] = <<>>
        BY <1>0, <3>2 DEF MakeTmp
      <4> QED BY <1>0, <4>1 DEF Written
    <3>3. CASE WriteEntry(u)
      <4>1. /\ pc[u] = "write" /\ pc' = pc /\ merged' = merged
            /\ Len(tmp[u]) < Len(merged[u])
            /\ tmp'[u] = Append(tmp[u], merged[u][Len(tmp[u]) + 1])
        BY <1>0, <3>3 DEF WriteEntry
      <4>2. /\ tmp[u] \in Seq(Entry) /\ merged[u] \in Seq(Entry) /\ Loads(merged[u])
            /\ \A i \in DOMAIN tmp[u] : tmp[u][i] = merged[u][i]
        BY <1>0, <4>1 DEF Written
      <4>3. /\ Len(tmp'[u]) = Len(tmp[u]) + 1
            /\ \A i \in DOMAIN tmp'[u] : tmp'[u][i] = merged[u][i]
        BY <4>1, <4>2
      <4> QED BY <4>1, <4>2, <4>3
    <3>4. CASE Fetch(u) \/ LoadExisting(u) \/ MergeEntry(u) \/ DryRun(u) \/ Replace(u)
               \/ Fails(u) \/ Crash(u)
      <4>1. pc'[u] \notin {"validated", "write"}
        BY <1>0, <3>4 DEF Fetch, LoadExisting, MergeEntry, DryRun, Replace, Fails, Crash, Goto
      <4> QED BY <4>1
    <3> QED BY <1>1, <3>1, <3>2, <3>3, <3>4
  <2>3. ASSUME NEW o \in Updates, o # u PROVE OfUpdate(o)'
    BY <2>1, <2>3 DEF Written
  <2>4. db' # base' => Loads(ListOf(db'))
    <3>1. CASE Replace(u)
      <4>1. /\ tmp[u] \in Seq(Entry) /\ merged[u] \in Seq(Entry) /\ db' = tmp[u]
            /\ Len(tmp[u]) = Len(merged[u]) /\ Loads(merged[u])
            /\ \A i \in DOMAIN tmp[u] : tmp[u][i] = merged[u][i]
        BY <1>0, <3>1 DEF Replace, Written
      <4>2. db' = merged[u]
        BY <4>1
      <4> QED BY <4>1, <4>2, ListOfFile
    <3>2. CASE ~ Replace(u)
      <4>1. db' = db
        BY <1>1, <3>2 DEF Fetch, LoadExisting, MergeEntry, Validate, DryRun, MakeTmp,
           WriteEntry, Fails, Crash
      <4> QED BY <2>1, <4>1 DEF Written
    <3> QED BY <3>1, <3>2
  <2>5. \A o \in Updates : OfUpdate(o)'
    BY <2>2, <2>3
  <2> QED BY <2>4, <2>5 DEF Written
<1>2. ASSUME NEW s \in Scans, LoadDb(s) \/ LoadDbFails(s) \/ LookUp(s)
      PROVE  Written'
  <2>1. /\ base' = base /\ db' = db /\ merged' = merged /\ tmp' = tmp
        /\ \A u \in Updates : pc'[u] = pc[u]
    BY <1>2, ScanFrame
  <2> QED BY <2>1 DEF Written
<1>3. CASE UNCHANGED vars
  BY <1>3 DEF Written, vars
<1> QED BY <1>1, <1>2, <1>3 DEF Next

LEMMA VerdictsNext == Types /\ Verdicts /\ [Next]_vars => Verdicts'
<1> SUFFICES ASSUME Types, Verdicts, [Next]_vars PROVE Verdicts'
  OBVIOUS
<1>0. /\ loaded \in [Scans -> [list : Seq(Entry), bloom : BOOLEAN]]
      /\ DOMAIN verdict = Scans /\ DOMAIN pc = Updates \union Scans
  BY DEF Types, TypeOK
<1>1. ASSUME NEW u \in Updates,
             \/ Fetch(u) \/ LoadExisting(u) \/ MergeEntry(u) \/ Validate(u) \/ DryRun(u)
             \/ MakeTmp(u) \/ WriteEntry(u) \/ Replace(u) \/ Fails(u) \/ Crash(u)
      PROVE  Verdicts'
  <2>1. /\ loaded' = loaded /\ verdict' = verdict
        /\ \A p \in Updates \union Scans : p # u => pc'[p] = pc[p]
        /\ pc'[u] \notin {"scanned", "scan"}
    BY <1>1, UpdateFrame
  <2> QED BY <2>1 DEF Verdicts
<1>2. ASSUME NEW s \in Scans, LoadDb(s) \/ LoadDbFails(s) PROVE Verdicts'
  <2>1. /\ verdict' = verdict /\ pc'[s] \in {"scan", "failed"}
        /\ \A t \in Scans : t # s => pc'[t] = pc[t] /\ loaded'[t] = loaded[t]
    BY <1>0, <1>2 DEF LoadDb, LoadDbFails, Goto, scanners
  <2> QED BY <2>1 DEF Verdicts
<1>3. ASSUME NEW s \in Scans, LookUp(s) PROVE Verdicts'
  <2>1. /\ loaded' = loaded
        /\ \A t \in Scans : t # s => pc'[t] = pc[t] /\ verdict'[t] = verdict[t]
    BY <1>0, <1>3 DEF LookUp, Goto
  <2>2. PICK m \in Md5s, h \in Sha256s :
          verdict'[s] = [md5 |-> m, sha256 |-> h,
                         hit |-> LookupHashes(loaded[s].list, loaded[s].bloom, m, h)]
    BY <1>0, <1>3 DEF LookUp
  <2>3. loaded[s].list \in Seq(Entry) /\ loaded[s].bloom \in BOOLEAN
    BY <1>0
  <2>4. RightHit(loaded[s].list, m, h,
                 LookupHashes(loaded[s].list, loaded[s].bloom, m, h))
    BY <2>3, LookupRight
  <2>5. RightHit(loaded'[s].list, verdict'[s].md5, verdict'[s].sha256, verdict'[s].hit)
    BY <2>1, <2>2, <2>4
  <2> QED BY <2>1, <2>5 DEF Verdicts
<1>4. CASE UNCHANGED vars
  BY <1>4 DEF Verdicts, vars
<1> QED BY <1>1, <1>2, <1>3, <1>4 DEF Next

\* The list and the digests of an update that goes on being active.
LEMMA ActiveNext ==
    ASSUME Types, Grown, NEW u \in Updates, Active(u)',
           \/ Fetch(u) \/ LoadExisting(u) \/ MergeEntry(u) \/ Validate(u) \/ DryRun(u)
           \/ MakeTmp(u) \/ WriteEntry(u) \/ Replace(u) \/ Fails(u) \/ Crash(u)
    PROVE  /\ db' = db /\ published' = published
           /\ \/ /\ Active(u) /\ overlapped' = overlapped
                 /\ HashesOf(merged[u]) \subseteq HashesOf(merged'[u])
              \/ /\ merged'[u] = ListOf(db)
                 /\ ~ overlapped' => ~ overlapped /\ \A o \in Updates : ~ Active(o)
<1>0. /\ base \in Seq(Entry) \union {NoFile} /\ ListOf(base) \in Seq(Entry)
      /\ merged \in [Updates -> Seq(Entry)] /\ incoming \in [Updates -> Seq(Record)]
      /\ pc \in [Updates \union Scans ->
                 {"fetch", "existing", "merge", "validated", "write", "load", "scan",
                  "scanned", "done", "failed", "crashed"}]
  BY BaseDbsAssumption, ListOfFile DEF Types, TypeOK
<1>1. CASE LoadExisting(u)
  BY <1>0, <1>1 DEF LoadExisting, Active
<1>2. CASE MergeEntry(u)
  <2>1. /\ Active(u) /\ overlapped' = overlapped /\ db' = db /\ published' = published
        /\ Grows(ListOf(base), merged[u])
    BY <1>2 DEF MergeEntry, Active, Grown
  <2>2. Head(incoming[u]) \in Record /\ merged[u] \in Seq(Entry)
    BY <1>0, <1>2 DEF MergeEntry
  <2>3. \/ merged'[u] = merged[u]
        \/ /\ Keys(Head(incoming[u])) \intersect HashesOf(merged[u]) = {}
           /\ merged'[u] = Append(merged[u], Imported(Head(incoming[u])))
    BY <1>0, <1>2 DEF MergeEntry
  <2>4. CASE Keys(Head(incoming[u])) \intersect HashesOf(merged[u]) = {}
    <3>1. HashesOf(merged[u])
            \subseteq HashesOf(Append(merged[u], Imported(Head(incoming[u]))))
      BY <1>0, <2>1, <2>2, <2>4, AppendNewEntry
    <3> QED BY <2>1, <2>3, <3>1
  <2> QED BY <2>1, <2>3, <2>4
<1>3. CASE Validate(u) \/ MakeTmp(u) \/ WriteEntry(u)
  BY <1>0, <1>3 DEF Validate, MakeTmp, WriteEntry, updaters, Active
<1>4. CASE Fetch(u) \/ DryRun(u) \/ Replace(u) \/ Fails(u) \/ Crash(u)
  <2>1. ~ (Active(u)')
    BY <1>0, <1>4 DEF Fetch, DryRun, Replace, Fails, Crash, Goto, Active
  <2> QED BY <2>1
<1> QED BY <1>1, <1>2, <1>3, <1>4

\* The digests of the file when an update replaces it.
LEMMA ReplaceKeeps ==
    ASSUME Types, Written, Alone, NEW u \in Updates, Replace(u), ~ overlapped
    PROVE  published' \subseteq HashesOf(db')
<1>1. /\ tmp[u] \in Seq(Entry) /\ merged[u] \in Seq(Entry) /\ db' = tmp[u]
      /\ Len(tmp[u]) = Len(merged[u]) /\ published' = published \union HashesOf(tmp[u])
      /\ \A i \in DOMAIN tmp[u] : tmp[u][i] = merged[u][i]
  BY DEF Replace, Types, TypeOK, Written
<1>2. db' = merged[u] /\ tmp[u] = merged[u]
  BY <1>1
<1>3. published \subseteq HashesOf(db) /\ HashesOf(db) \subseteq HashesOf(merged[u])
  BY DEF Alone, Active, Replace
<1> QED BY <1>1, <1>2, <1>3

LEMMA AloneNext == Types /\ Grown /\ Written /\ Alone /\ [Next]_vars => Alone'
<1> SUFFICES ASSUME Types, Grown, Written, Alone, [Next]_vars, ~ overlapped'
             PROVE  /\ published' \subseteq HashesOf(db')
                    /\ \A v, o \in Updates : Active(v)' /\ Active(o)' => v = o
                    /\ \A v \in Updates : Active(v)' => HashesOf(db') \subseteq HashesOf(merged'[v])
  BY DEF Alone
<1>0. db \in Seq(Entry) \union {NoFile}
  BY DEF Types, TypeOK
<1>1. ASSUME NEW u \in Updates,
             \/ Fetch(u) \/ LoadExisting(u) \/ MergeEntry(u) \/ Validate(u) \/ DryRun(u)
             \/ MakeTmp(u) \/ WriteEntry(u) \/ Replace(u) \/ Fails(u) \/ Crash(u)
      PROVE  /\ published' \subseteq HashesOf(db')
             /\ \A v, o \in Updates : Active(v)' /\ Active(o)' => v = o
             /\ \A v \in Updates : Active(v)' => HashesOf(db') \subseteq HashesOf(merged'[v])
  <2>1. /\ \A p \in Updates \union Scans : p # u => pc'[p] = pc[p]
        /\ \A o \in Updates : o # u => merged'[o] = merged[o]
    BY <1>1, UpdateFrame
  <2>2. \A o \in Updates : o # u => (Active(o)' <=> Active(o))
    BY <2>1 DEF Active
  <2>3. ~ overlapped
    BY <1>1 DEF Fetch, LoadExisting, MergeEntry, Validate, DryRun, MakeTmp, WriteEntry,
       Replace, Fails, Crash
  <2>4. /\ published \subseteq HashesOf(db)
        /\ \A v, o \in Updates : Active(v) /\ Active(o) => v = o
        /\ \A v \in Updates : Active(v) => HashesOf(db) \subseteq HashesOf(merged[v])
    BY <2>3 DEF Alone
  <2>5. CASE Active(u)'
    <3>1. /\ db' = db /\ published' = published
          /\ \/ /\ Active(u) /\ overlapped' = overlapped
                /\ HashesOf(merged[u]) \subseteq HashesOf(merged'[u])
             \/ /\ merged'[u] = ListOf(db)
                /\ ~ overlapped' => ~ overlapped /\ \A o \in Updates : ~ Active(o)
      BY <1>1, <2>5, ActiveNext
    <3>2. HashesOf(ListOf(db)) = HashesOf(db)
      BY <1>0, ListOfFile DEF HashesOf
    <3>3. HashesOf(db') \subseteq HashesOf(merged'[u])
      BY <2>4, <3>1, <3>2
    <3>4. \A o \in Updates : o # u => ~ (Active(o)')
      BY <2>2, <2>4, <3>1
    <3> QED BY <2>4, <3>1, <3>3, <3>4
  <2>6. CASE ~ (Active(u)') /\ Replace(u)
    <3>1. published' \subseteq HashesOf(db')
      BY <2>3, <2>6, ReplaceKeeps
    <3>2. \A o \in Updates : ~ (Active(o)')
      BY <2>2, <2>4, <2>6 DEF Active, Replace
    <3> QED BY <3>1, <3>2
  <2>7. CASE ~ (Active(u)') /\ ~ Replace(u)
    <3>1. db' = db /\ published' = published
      BY <1>1, <2>7 DEF Fetch, LoadExisting, MergeEntry, Validate, DryRun, MakeTmp,
         WriteEntry, Fails, Crash
    <3> QED BY <2>1, <2>2, <2>4, <2>7, <3>1
  <2> QED BY <2>5, <2>6, <2>7
<1>2. ASSUME NEW s \in Scans, LoadDb(s) \/ LoadDbFails(s) \/ LookUp(s)
      PROVE  Alone'
  <2>1. /\ db' = db /\ merged' = merged /\ overlapped' = overlapped
        /\ published' = published /\ \A u \in Updates : pc'[u] = pc[u]
    BY <1>2, ScanFrame
  <2> QED BY <2>1 DEF Alone, Active
<1>3. CASE UNCHANGED vars
  BY <1>3 DEF Alone, Active, vars
<1> QED BY <1>1, <1>2, <1>3 DEF Next, Alone

LEMMA InitInvariant == Init => IInv
<1> SUFFICES ASSUME Init PROVE IInv
  OBVIOUS
<1>1. Types
  BY TypeInit
<1>2. /\ db = base /\ published = HashesOf(base)
      /\ \A u \in Updates : pc[u] = "fetch"
      /\ \A s \in Scans : pc[s] = "load"
  BY ProcessAssumption DEF Init
<1>3. ListOf(base) \in Seq(Entry)
  BY <1>1, BaseDbsAssumption, ListOfFile DEF Types, TypeOK
<1>4. Grows(ListOf(base), ListOf(base))
  BY <1>3 DEF Grows
<1> QED BY <1>1, <1>2, <1>4 DEF IInv, Grown, Written, Alone, Verdicts, Active

----------------------------------------------------------------------------
\* The inductive invariant of the database, the updates and the scans
\* (update_signatures.py, signature_db_writer.py, signature_repository.py).
THEOREM Invariance == Spec => []IInv
<1>1. IInv /\ [Next]_vars => IInv'
  BY TypeNext, GrownNext, WrittenNext, AloneNext, VerdictsNext DEF IInv
<1> QED BY <1>1, InitInvariant, PTL DEF Spec

\* The variables keep their types.
THEOREM TypeCorrect == Spec => []TypeOK
<1>1. IInv => TypeOK
  BY DEF IInv, Types
<1> QED BY <1>1, Invariance, PTL

\* Whatever updates interleave, fail or crash, the entries the database had
\* before them stay (merge_entries and the rename of atomic_write_signatures).
THEOREM CanaryKept == Spec => []BaseKept
<1>1. IInv => BaseKept
  BY DEF IInv, Grown, Grows, BaseKept
<1> QED BY <1>1, Invariance, PTL

\* No digest is lost by updates that do not overlap (load, merge and replace
\* of refresh).
THEOREM NoDigestLost == Spec => []NothingLost
<1>1. IInv => NothingLost
  BY DEF IInv, Alone, NothingLost
<1> QED BY <1>1, Invariance, PTL

\* What an update writes is a list the loader accepts (the validation of
\* refresh before atomic_write_signatures).
THEOREM UpdatesLoad == Spec => []UpdateLoads
<1>1. IInv => UpdateLoads
  BY DEF IInv, Written, UpdateLoads
<1> QED BY <1>1, Invariance, PTL

\* No import repeats a digest (the de-duplication of merge_entries), also if
\* updates overlap.
THEOREM ImportsNew == Spec => []ImportsAreNew
<1>1. IInv => ImportsAreNew
  BY DEF IInv, Grown, Grows, ImportsAreNew
<1> QED BY <1>1, Invariance, PTL

\* A scan reports a file if and only if the list it loaded has one of its
\* digests (lookup_hashes with and without --bloom).
THEOREM ScansRight == Spec => []LookupsRight
<1>1. IInv => LookupsRight
  BY DEF IInv, Verdicts, LookupsRight
<1> QED BY <1>1, Invariance, PTL
============================================================================
