------------------------- MODULE ArchiveScanProofs -------------------------
(***************************************************************************)
(* What ArchiveScan guarantees for every set of entry names and every      *)
(* depth cap, and that it implements ArchiveAccount.                       *)
(*                                                                         *)
(* The invariant says that the archives known are split into those opened, *)
(* those skipped, those on the stack and those the inner loop has still to *)
(* reach, and that whatever is nested in a known archive is known only     *)
(* once that archive was opened.  So the nested archives of an archive     *)
(* being opened are new, which is why nothing is decided twice.            *)
(***************************************************************************)
EXTENDS ArchiveScan, FiniteSetTheorems, SequenceTheorems, NaturalSets, TLAPS

Known == opened \union SkippedProvs \union StackProvs \union TodoProvs

\* The depth of an entry is its nesting, and never above the cap.
DepthOf(e) == e.depth = Len(e.prov) + 1 /\ e.depth <= MaxDepth

DepthsRight ==
    /\ \A i \in DOMAIN stack : DepthOf(stack[i])
    /\ DepthOf(current)

ParentsOpened ==
    \A p \in Provenance, n \in Names : Append(p, n) \in Known => p \in opened

LoopState ==
    /\ pc \in {"loop", "returned"} => todo = {}
    /\ pc \in {"nested", "raised"} /\ todo # {} => current.prov \in opened

Counted ==
    /\ IsFiniteSet(opened) /\ IsFiniteSet(SkippedProvs)
    /\ CountersMatch

IInv ==
    /\ TypeOK
    /\ DepthsRight
    /\ ParentsOpened
    /\ LoopState
    /\ DecidedOnce
    /\ DepthCapped
    /\ CopiesOutlivePush
    /\ Counted

----------------------------------------------------------------------------
\* Appending to a provenance.
LEMMA AppendProv ==
    ASSUME NEW p \in Provenance, NEW n \in Names
    PROVE  /\ Append(p, n) \in Provenance
           /\ Append(p, n) # <<>>
           /\ Append(p, n) # p
           /\ Len(Append(p, n)) = Len(p) + 1
           /\ \A q \in Provenance, m \in Names :
                Append(q, m) = Append(p, n) => q = p /\ m = n
BY AppendProperties, AppendInjective, LenProperties DEF Provenance

\* What popping does to the archives on the stack.
LEMMA PopStack ==
    ASSUME NEW s \in Seq(StackEntry), s # <<>>,
           \A i, j \in DOMAIN s : s[i].prov = s[j].prov => i = j
    PROVE  /\ Last(s) \in StackEntry
           /\ Last(s) = s[Len(s)] /\ Len(s) \in DOMAIN s
           /\ Front(s) \in Seq(StackEntry)
           /\ DOMAIN Front(s) = 1..(Len(s) - 1)
           /\ \A i \in DOMAIN Front(s) : i \in DOMAIN s /\ Front(s)[i] = s[i]
           /\ {Front(s)[i].prov : i \in DOMAIN Front(s)}
                = {s[i].prov : i \in DOMAIN s} \ {Last(s).prov}
<1>1. Len(s) \in Nat \ {0} /\ DOMAIN s = 1..Len(s)
  BY EmptySeq, LenProperties
<1>2. \A i \in 1..Len(s) : s[i] \in StackEntry
  BY ElementOfSeq
<1>3. Last(s) = s[Len(s)] /\ Last(s) \in StackEntry
  BY <1>1, <1>2 DEF Last
<1>4. Front(s) = SubSeq(s, 1, Len(s) - 1)
  BY DEF Front
<1>5. /\ Front(s) \in Seq(StackEntry)
      /\ Len(Front(s)) = Len(s) - 1
      /\ \A i \in 1..(Len(s) - 1) : Front(s)[i] = s[i]
  <2>1. \A i \in 1..(Len(s) - 1) : s[i] \in StackEntry
    BY <1>1, <1>2
  <2>2. 1 \in Int /\ Len(s) - 1 \in Int
    BY <1>1
  <2>3. /\ SubSeq(s, 1, Len(s) - 1) \in Seq(StackEntry)
        /\ Len(SubSeq(s, 1, Len(s) - 1)) = IF 1 <= Len(s) - 1 THEN Len(s) - 1 - 1 + 1 ELSE 0
        /\ \A i \in 1..(Len(s) - 1 - 1 + 1) : SubSeq(s, 1, Len(s) - 1)[i] = s[1 + i - 1]
    BY <2>1, <2>2, SubSeqProperties
  <2> QED  BY <1>1, <1>4, <2>3
<1>6. DOMAIN Front(s) = 1..(Len(s) - 1)
  BY <1>5, LenProperties
<1>7. \A i \in DOMAIN Front(s) : i \in DOMAIN s /\ Front(s)[i] = s[i] /\ i # Len(s)
  BY <1>1, <1>5, <1>6
<1>8. \A i \in DOMAIN s : i # Len(s) => i \in DOMAIN Front(s)
  BY <1>1, <1>6
<1>9. {Front(s)[i].prov : i \in DOMAIN Front(s)}
        = {s[i].prov : i \in DOMAIN s} \ {Last(s).prov}
  BY <1>1, <1>3, <1>7, <1>8
<1> QED
  BY <1>1, <1>3, <1>5, <1>6, <1>7, <1>9

\* What pushing does to them.
LEMMA PushStack ==
    ASSUME NEW s \in Seq(StackEntry), NEW e \in StackEntry
    PROVE  LET t == Append(s, e)
           IN  /\ t \in Seq(StackEntry)
               /\ DOMAIN t = DOMAIN s \union {Len(s) + 1}
               /\ Len(s) + 1 \notin DOMAIN s
               /\ t[Len(s) + 1] = e
               /\ \A i \in DOMAIN s : t[i] = s[i]
               /\ {t[i].prov : i \in DOMAIN t}
                    = {s[i].prov : i \in DOMAIN s} \union {e.prov}
<1> DEFINE t == Append(s, e)
<1>1. /\ t \in Seq(StackEntry) /\ Len(t) = Len(s) + 1 /\ Len(s) \in Nat
      /\ \A i \in 1..Len(s) : t[i] = s[i]
      /\ t[Len(s) + 1] = e
  BY AppendProperties, LenProperties
<1>2. DOMAIN s = 1..Len(s) /\ DOMAIN t = 1..Len(t)
  BY <1>1, LenProperties
<1> HIDE DEF t
<1>3. DOMAIN t = DOMAIN s \union {Len(s) + 1} /\ Len(s) + 1 \notin DOMAIN s
  BY <1>1, <1>2
<1>4. {t[i].prov : i \in DOMAIN t} = {s[i].prov : i \in DOMAIN s} \union {e.prov}
  BY <1>1, <1>2, <1>3
<1> QED
  BY <1>1, <1>2, <1>3, <1>4 DEF t

----------------------------------------------------------------------------
\* stack.pop() takes an archive that is decided nowhere else.
LEMMA PopInv ==
    ASSUME IInv, Pop
    PROVE  /\ pc = "loop" /\ todo = {} /\ TodoProvs = {}
           /\ current' \in StackEntry /\ current'.prov \in Provenance
           /\ current'.prov \in StackProvs
           /\ current'.prov \notin opened \union SkippedProvs
           /\ DepthOf(current')
           /\ stack' \in Seq(StackEntry)
           /\ \A i \in DOMAIN stack' : DepthOf(stack'[i])
           /\ StackProvs' = StackProvs \ {current'.prov}
           /\ \A i, j \in DOMAIN stack' : stack'[i].prov = stack'[j].prov => i = j
<1>1. pc = "loop" /\ stack # <<>> /\ current' = Last(stack) /\ stack' = Front(stack)
  BY DEF Pop
<1>2. todo = {} /\ TodoProvs = {}
  BY <1>1 DEF IInv, LoopState, TodoProvs
<1>3. stack \in Seq(StackEntry)
  BY DEF IInv, TypeOK
<1>4. \A i, j \in DOMAIN stack : stack[i].prov = stack[j].prov => i = j
  BY DEF IInv, DecidedOnce
<1>5. /\ current' \in StackEntry
      /\ current' = stack[Len(stack)] /\ Len(stack) \in DOMAIN stack
      /\ stack' \in Seq(StackEntry)
      /\ \A i \in DOMAIN stack' : i \in DOMAIN stack /\ stack'[i] = stack[i]
      /\ StackProvs' = StackProvs \ {current'.prov}
  BY <1>1, <1>3, <1>4, PopStack DEF StackProvs
<1>6. current'.prov \in Provenance
  BY <1>5 DEF StackEntry
<1>7. current'.prov \in StackProvs
  BY <1>5 DEF StackProvs
<1>8. current'.prov \notin opened \union SkippedProvs
  BY <1>7 DEF IInv, DecidedOnce
<1>9. DepthOf(current') /\ \A i \in DOMAIN stack' : DepthOf(stack'[i])
  BY <1>5 DEF IInv, DepthsRight
<1>10. \A i, j \in DOMAIN stack' : stack'[i].prov = stack'[j].prov => i = j
  BY <1>4, <1>5
<1> QED
  BY <1>1, <1>2, <1>5, <1>6, <1>7, <1>8, <1>9, <1>10

\* What _skipped_finding adds.
LEMMA SkipAdds ==
    ASSUME IInv, NEW p \in Provenance, p \notin SkippedProvs, ReportSkipped(p)
    PROVE  /\ SkippedProvs' = SkippedProvs \union {p}
           /\ findings' \subseteq Finding /\ skippedCount' \in Nat
           /\ IsFiniteSet(SkippedProvs')
           /\ skippedCount' = Cardinality(SkippedProvs')
<1>1. /\ findings' = findings \union {[prov |-> p, kind |-> "skipped"]}
      /\ skippedCount' = skippedCount + 1
  BY DEF ReportSkipped
<1>2. SkippedProvs' = SkippedProvs \union {p}
  <2> DEFINE new == [prov |-> p, kind |-> "skipped"]
             Skips(F) == {g \in F : g.kind = "skipped"}
  <2>1. new.kind = "skipped" /\ new.prov = p
    OBVIOUS
  <2>2. SkippedProvs = {f.prov : f \in Skips(findings)}
    BY DEF SkippedProvs
  <2>3. SkippedProvs' = {f.prov : f \in Skips(findings')}
    BY DEF SkippedProvs
  <2> HIDE DEF new
  <2>4. Skips(findings') = Skips(findings) \union {new}
    BY <1>1, <2>1 DEF new
  <2> HIDE DEF Skips
  <2> QED  BY <2>1, <2>2, <2>3, <2>4
<1>3. findings' \subseteq Finding /\ skippedCount' \in Nat
  BY <1>1 DEF IInv, TypeOK, Finding
<1>4. /\ IsFiniteSet(SkippedProvs \union {p})
      /\ Cardinality(SkippedProvs \union {p}) = Cardinality(SkippedProvs) + 1
  BY FS_AddElement DEF IInv, Counted
<1> QED
  BY <1>1, <1>2, <1>3, <1>4 DEF IInv, Counted, CountersMatch

LEMMA RefusesInv ==
    ASSUME IInv, BackendRefuses
    PROVE  IInv'
<1> DEFINE p == current'.prov
<1>1. /\ Pop /\ ReportSkipped(p)
      /\ UNCHANGED <<pc, todo, unpacked, temps, opened>>
  BY DEF BackendRefuses
<1>2. /\ pc = "loop" /\ todo = {} /\ TodoProvs = {} /\ TodoProvs' = {}
      /\ p \in Provenance /\ p \in StackProvs /\ p \notin opened \union SkippedProvs
      /\ StackProvs' = StackProvs \ {p}
  BY <1>1, PopInv DEF TodoProvs
<1>3. SkippedProvs' = SkippedProvs \union {p}
  BY <1>1, <1>2, SkipAdds
<1> HIDE DEF p
<1>4. TypeOK'
  BY <1>1, <1>2, PopInv, SkipAdds DEF IInv, TypeOK
<1>5. DepthsRight'
  BY <1>1, PopInv DEF DepthsRight
<1>6. ParentsOpened'
  <2>1. Known' \subseteq Known
    BY <1>1, <1>2, <1>3 DEF Known
  <2> QED  BY <1>1, <2>1 DEF IInv, ParentsOpened
<1>7. LoopState'
  BY <1>1, <1>2 DEF LoopState
<1>8. DecidedOnce'
  <2>1. \A i, j \in DOMAIN stack' : stack'[i].prov = stack'[j].prov => i = j
    BY <1>1, PopInv
  <2> QED  BY <1>1, <1>2, <1>3, <2>1 DEF IInv, DecidedOnce
<1>9. DepthCapped' /\ CopiesOutlivePush'
  BY <1>1, <1>2 DEF IInv, DepthCapped, CopiesOutlivePush
<1>10. Counted'
  BY <1>1, <1>2, SkipAdds DEF IInv, Counted, CountersMatch
<1> QED
  BY <1>4, <1>5, <1>6, <1>7, <1>8, <1>9, <1>10 DEF IInv

LEMMA UnpacksInv ==
    ASSUME IInv, BackendUnpacks
    PROVE  IInv'
<1> DEFINE p == current'.prov
<1>1. PICK nested \in SUBSET Names, infected \in SUBSET Names :
        /\ findings' = findings \union
             {[prov |-> Append(p, n), kind |-> "malware"] : n \in infected}
        /\ todo' = nested
  BY DEF BackendUnpacks
<1>2. /\ Pop /\ unpacked' = unpacked + 1 /\ opened' = opened \union {p}
      /\ pc' = "nested" /\ UNCHANGED <<skippedCount, temps>>
  BY DEF BackendUnpacks
<1>3. /\ pc = "loop" /\ todo = {} /\ TodoProvs = {}
      /\ p \in Provenance /\ p \in StackProvs /\ p \notin opened \union SkippedProvs
      /\ StackProvs' = StackProvs \ {p}
      /\ DepthOf(current')
  BY <1>2, PopInv
<1>4. TodoProvs' = {Append(p, n) : n \in nested}
  BY <1>1 DEF TodoProvs
<1> HIDE DEF p
<1>5. SkippedProvs' = SkippedProvs
  BY <1>1 DEF SkippedProvs
<1>6. TypeOK'
  <2>1. findings' \subseteq Finding
    <3>1. \A n \in infected : Append(p, n) \in Provenance
      BY <1>1, <1>3, AppendProv
    <3>2. \A n \in infected : [prov |-> Append(p, n), kind |-> "malware"] \in Finding
      BY <3>1 DEF Finding
    <3> QED  BY <1>1, <3>2 DEF IInv, TypeOK
  <2> QED  BY <1>1, <1>2, <1>3, <2>1, PopInv DEF IInv, TypeOK
<1>7. DepthsRight'
  BY <1>2, PopInv DEF DepthsRight
<1>8. \A n \in nested : /\ Append(p, n) \in Provenance /\ Append(p, n) # p
                        /\ Append(p, n) \notin Known
  <2> SUFFICES ASSUME NEW n \in nested
               PROVE  /\ Append(p, n) \in Provenance /\ Append(p, n) # p
                      /\ Append(p, n) \notin Known
    OBVIOUS
  <2>1. n \in Names
    BY <1>1
  <2> QED  BY <1>3, <2>1, AppendProv DEF IInv, ParentsOpened
<1>9. ParentsOpened'
  <2> SUFFICES ASSUME NEW q \in Provenance, NEW m \in Names,
                      Append(q, m) \in Known'
               PROVE  q \in opened'
    BY DEF ParentsOpened
  <2>1. Known' \subseteq Known \union TodoProvs' \union {p}
    BY <1>2, <1>3, <1>5 DEF Known
  <2>2. CASE Append(q, m) \in Known
    BY <1>2, <2>2 DEF IInv, ParentsOpened
  <2>3. CASE Append(q, m) \in TodoProvs'
    <3>1. PICK n \in nested : Append(q, m) = Append(p, n)
      BY <1>4, <2>3
    <3>2. n \in Names
      BY <1>1
    <3> QED  BY <1>2, <1>3, <3>1, <3>2, AppendProv
  <2>4. CASE Append(q, m) = p
    BY <1>2, <1>3, <2>4 DEF IInv, ParentsOpened, Known
  <2> QED  BY <2>1, <2>2, <2>3, <2>4
<1>10. LoopState'
  BY <1>2 DEF LoopState, p
<1>11. DecidedOnce'
  <2>1. \A i, j \in DOMAIN stack' : stack'[i].prov = stack'[j].prov => i = j
    BY <1>2, PopInv
  <2>2. TodoProvs' \intersect (opened' \union SkippedProvs' \union StackProvs') = {}
    BY <1>2, <1>3, <1>4, <1>5, <1>8 DEF Known
  <2>3. opened' \intersect SkippedProvs' = {}
    BY <1>2, <1>3, <1>5 DEF IInv, DecidedOnce
  <2>4. (opened' \union SkippedProvs') \intersect StackProvs' = {}
    BY <1>2, <1>3, <1>5 DEF IInv, DecidedOnce
  <2> QED  BY <2>1, <2>2, <2>3, <2>4 DEF DecidedOnce
<1>12. DepthCapped'
  <2>1. Len(p) < MaxDepth
    <3>1. Len(p) \in Nat
      BY <1>3, LenProperties DEF Provenance
    <3> QED  BY <1>3, <3>1, MaxDepthAssumption DEF DepthOf, p
  <2> QED  BY <1>2, <2>1 DEF IInv, DepthCapped
<1>13. CopiesOutlivePush'
  BY <1>2, <1>3 DEF IInv, CopiesOutlivePush
<1>14. Counted'
  <2>1. /\ IsFiniteSet(opened \union {p})
        /\ Cardinality(opened \union {p}) = Cardinality(opened) + 1
    BY <1>3, FS_AddElement DEF IInv, Counted
  <2> QED  BY <1>2, <1>5, <2>1 DEF IInv, Counted, CountersMatch
<1> QED
  BY <1>6, <1>7, <1>9, <1>10, <1>11, <1>12, <1>13, <1>14 DEF IInv

LEMMA MalformedInv ==
    ASSUME IInv, BackendMalformed
    PROVE  IInv'
<1>1. /\ Pop /\ pc' = "raised"
      /\ UNCHANGED <<todo, unpacked, skippedCount, findings, temps, opened>>
  BY DEF BackendMalformed
<1>2. /\ todo = {} /\ TodoProvs = {} /\ TodoProvs' = {}
      /\ StackProvs' \subseteq StackProvs
      /\ SkippedProvs' = SkippedProvs
  BY <1>1, PopInv DEF TodoProvs, SkippedProvs
<1>3. TypeOK' /\ DepthsRight'
  BY <1>1, PopInv DEF IInv, TypeOK, DepthsRight
<1>4. ParentsOpened'
  BY <1>1, <1>2 DEF IInv, ParentsOpened, Known
<1>5. LoopState'
  BY <1>1, <1>2 DEF LoopState
<1>6. DecidedOnce'
  <2>1. \A i, j \in DOMAIN stack' : stack'[i].prov = stack'[j].prov => i = j
    BY <1>1, PopInv
  <2> QED  BY <1>1, <1>2, <2>1 DEF IInv, DecidedOnce
<1>7. DepthCapped' /\ CopiesOutlivePush' /\ Counted'
  BY <1>1, <1>2 DEF IInv, DepthCapped, CopiesOutlivePush, Counted, CountersMatch
<1> QED
  BY <1>3, <1>4, <1>5, <1>6, <1>7 DEF IInv

----------------------------------------------------------------------------
\* The inner loop takes a nested archive that is decided nowhere.
LEMMA TodoTakes ==
    ASSUME IInv, pc = "nested", NEW n \in todo,
           current' = current, todo' = todo \ {n}
    PROVE  /\ n \in Names /\ todo' \subseteq Names
           /\ current.prov \in Provenance /\ current.prov \in opened
           /\ Append(current.prov, n) \in Provenance
           /\ Append(current.prov, n) \in TodoProvs
           /\ Append(current.prov, n) \notin opened \union SkippedProvs \union StackProvs
           /\ TodoProvs' = TodoProvs \ {Append(current.prov, n)}
<1>1. n \in Names /\ todo \subseteq Names /\ current.prov \in Provenance
  BY DEF IInv, TypeOK, StackEntry
<1>2. current.prov \in opened
  BY DEF IInv, LoopState
<1>3. Append(current.prov, n) \in TodoProvs
  BY DEF TodoProvs
<1>4. \A m \in todo : Append(current.prov, m) = Append(current.prov, n) => m = n
  BY <1>1, AppendProv
<1>5. TodoProvs' = TodoProvs \ {Append(current.prov, n)}
  BY <1>4 DEF TodoProvs
<1>6. Append(current.prov, n) \notin opened \union SkippedProvs \union StackProvs
  BY <1>3 DEF IInv, DecidedOnce
<1> QED
  BY <1>1, <1>2, <1>3, <1>5, <1>6, AppendProv

LEMMA NestedSkippedInv ==
    ASSUME IInv, NEW n \in Names, NestedSkipped(n)
    PROVE  IInv'
<1> DEFINE p == Append(current.prov, n)
<1>1. /\ pc = "nested" /\ n \in todo /\ todo' = todo \ {n}
      /\ ReportSkipped(p)
      /\ UNCHANGED <<pc, stack, current, unpacked, temps, opened>>
  BY DEF NestedSkipped
<1>2. /\ todo' \subseteq Names /\ current.prov \in opened
      /\ p \in Provenance /\ p \in TodoProvs
      /\ p \notin opened \union SkippedProvs \union StackProvs
      /\ TodoProvs' = TodoProvs \ {p}
  BY <1>1, TodoTakes
<1> HIDE DEF p
<1>3. /\ SkippedProvs' = SkippedProvs \union {p}
      /\ findings' \subseteq Finding /\ skippedCount' \in Nat
      /\ IsFiniteSet(SkippedProvs')
      /\ skippedCount' = Cardinality(SkippedProvs')
  BY <1>1, <1>2, SkipAdds
<1>4. StackProvs' = StackProvs
  BY <1>1 DEF StackProvs
<1>5. TypeOK' /\ DepthsRight'
  BY <1>1, <1>2, <1>3 DEF IInv, TypeOK, DepthsRight
<1>6. ParentsOpened'
  <2>1. Known' \subseteq Known
    BY <1>1, <1>2, <1>3, <1>4 DEF Known
  <2> QED  BY <1>1, <2>1 DEF IInv, ParentsOpened
<1>7. LoopState'
  BY <1>1, <1>2 DEF IInv, LoopState
<1>8. DecidedOnce'
  BY <1>1, <1>2, <1>3, <1>4 DEF IInv, DecidedOnce
<1>9. DepthCapped' /\ CopiesOutlivePush' /\ Counted'
  BY <1>1, <1>3, <1>4 DEF IInv, DepthCapped, CopiesOutlivePush, Counted, CountersMatch
<1> QED
  BY <1>5, <1>6, <1>7, <1>8, <1>9 DEF IInv

LEMMA NestedPushedInv ==
    ASSUME IInv, NEW n \in Names, NestedPushed(n)
    PROVE  IInv'
<1> DEFINE p == Append(current.prov, n)
           e == [prov |-> p, depth |-> current.depth + 1]
<1>1. /\ pc = "nested" /\ n \in todo /\ todo' = todo \ {n}
      /\ current.depth + 1 <= MaxDepth
      /\ temps' = temps \union {p}
      /\ stack' = Append(stack, e)
      /\ UNCHANGED <<pc, current, unpacked, skippedCount, findings, opened>>
  BY DEF NestedPushed
<1>2. /\ todo' \subseteq Names /\ current.prov \in opened
      /\ current.prov \in Provenance
      /\ p \in Provenance /\ p \in TodoProvs
      /\ p \notin opened \union SkippedProvs \union StackProvs
      /\ TodoProvs' = TodoProvs \ {p}
  BY <1>1, TodoTakes
<1>3. e \in StackEntry /\ DepthOf(e)
  <2>1. current.depth \in Nat /\ current.depth = Len(current.prov) + 1
    BY DEF IInv, TypeOK, StackEntry, DepthsRight, DepthOf
  <2>2. Len(p) = Len(current.prov) + 1
    BY <1>2, AppendProv
  <2> QED  BY <1>1, <1>2, <2>1, <2>2 DEF StackEntry, DepthOf
<1>4. e.prov = p
  OBVIOUS
<1>5. stack \in Seq(StackEntry)
  BY DEF IInv, TypeOK
<1> HIDE DEF p, e
<1>6. /\ stack' \in Seq(StackEntry)
      /\ DOMAIN stack' = DOMAIN stack \union {Len(stack) + 1}
      /\ stack'[Len(stack) + 1] = e
      /\ \A i \in DOMAIN stack : stack'[i] = stack[i]
      /\ StackProvs' = StackProvs \union {p}
  BY <1>1, <1>3, <1>4, <1>5, PushStack DEF StackProvs
<1>7. SkippedProvs' = SkippedProvs
  BY <1>1 DEF SkippedProvs
<1>8. TypeOK'
  BY <1>1, <1>2, <1>6 DEF IInv, TypeOK
<1>9. DepthsRight'
  BY <1>1, <1>3, <1>6 DEF IInv, DepthsRight
<1>10. ParentsOpened'
  <2>1. Known' \subseteq Known
    BY <1>1, <1>2, <1>6, <1>7 DEF Known
  <2> QED  BY <1>1, <2>1 DEF IInv, ParentsOpened
<1>11. LoopState'
  BY <1>1, <1>2 DEF IInv, LoopState
<1>12. DecidedOnce'
  <2>1. \A i \in DOMAIN stack : stack[i].prov # p
    BY <1>2 DEF StackProvs
  <2>2. \A i, j \in DOMAIN stack' : stack'[i].prov = stack'[j].prov => i = j
    BY <1>4, <1>6, <2>1 DEF IInv, DecidedOnce
  <2> QED  BY <1>1, <1>2, <1>6, <1>7, <2>2 DEF IInv, DecidedOnce
<1>13. DepthCapped' /\ CopiesOutlivePush' /\ Counted'
  BY <1>1, <1>6, <1>7
     DEF IInv, DepthCapped, CopiesOutlivePush, Counted, CountersMatch
<1> QED
  BY <1>8, <1>9, <1>10, <1>11, <1>12, <1>13 DEF IInv

\* The steps that change neither the stack nor what is decided.
LEMMA OtherStepInv ==
    ASSUME IInv,
           \/ \E n \in Names : NestedCopyFails(n)
           \/ NestedFails
           \/ NestedDone
           \/ Return
           \/ UNCHANGED vars
    PROVE  IInv'
<1>1. /\ UNCHANGED <<stack, current, todo, unpacked, skippedCount, findings, opened>>
      /\ pc' = pc \/ pc' \in {"raised", "loop", "returned"}
      /\ pc' # pc => (pc' = "raised" /\ pc = "nested") \/ todo = {}
  BY DEF NestedCopyFails, NestedFails, NestedDone, Return, vars, IInv, LoopState
<1>2. StackProvs' = StackProvs /\ SkippedProvs' = SkippedProvs /\ TodoProvs' = TodoProvs
  BY <1>1 DEF StackProvs, SkippedProvs, TodoProvs
<1>3. /\ temps' \subseteq Provenance
      /\ StackProvs \ {<<>>} \subseteq temps'
  <2>1. CASE \E n \in Names : NestedCopyFails(n)
    <3>1. PICK n \in Names : NestedCopyFails(n)
      BY <2>1
    <3>2. Append(current.prov, n) \in Provenance
      BY AppendProv DEF IInv, TypeOK, StackEntry
    <3> QED
      BY <3>1, <3>2 DEF NestedCopyFails, IInv, TypeOK, CopiesOutlivePush
  <2>2. CASE NestedFails \/ NestedDone \/ UNCHANGED vars
    BY <2>2 DEF NestedFails, NestedDone, vars, IInv, TypeOK, CopiesOutlivePush
  <2>3. CASE Return
    <3>1. StackProvs = {}
      BY <2>3 DEF Return, StackProvs
    <3> QED  BY <2>3, <3>1 DEF Return, IInv, TypeOK
  <2> QED  BY <2>1, <2>2, <2>3
<1>4. TypeOK'
  BY <1>1, <1>3 DEF IInv, TypeOK
<1>5. DepthsRight' /\ ParentsOpened' /\ DecidedOnce' /\ DepthCapped' /\ Counted'
  BY <1>1, <1>2
     DEF IInv, DepthsRight, ParentsOpened, Known, DecidedOnce, DepthCapped,
         Counted, CountersMatch
<1>6. LoopState'
  BY <1>1 DEF IInv, LoopState
<1>7. CopiesOutlivePush'
  BY <1>2, <1>3 DEF CopiesOutlivePush
<1> QED
  BY <1>4, <1>5, <1>6, <1>7 DEF IInv

LEMMA InitInv == Init => IInv
<1> SUFFICES ASSUME Init PROVE IInv
  OBVIOUS
<1> DEFINE root == [prov |-> <<>>, depth |-> 1]
<1>1. /\ stack = <<root>> /\ current = root /\ todo = {} /\ pc = "loop"
      /\ unpacked = 0 /\ skippedCount = 0 /\ findings = {} /\ temps = {}
      /\ opened = {}
  BY DEF Init
<1>2. root \in StackEntry /\ root.prov = <<>> /\ DepthOf(root)
  BY MaxDepthAssumption DEF StackEntry, Provenance, DepthOf
<1> HIDE DEF root
<1>3. /\ stack \in Seq(StackEntry) /\ DOMAIN stack = {1}
      /\ \A i \in DOMAIN stack : stack[i] = root
  BY <1>1, <1>2
<1>4. StackProvs = {<<>>} /\ SkippedProvs = {} /\ TodoProvs = {}
  BY <1>1, <1>2, <1>3 DEF StackProvs, SkippedProvs, TodoProvs
<1>5. TypeOK
  BY <1>1, <1>2, <1>3 DEF TypeOK
<1>6. ParentsOpened
  <2>1. \A p \in Provenance, n \in Names : Append(p, n) \notin Known
    BY <1>1, <1>4, AppendProv DEF Known
  <2> QED  BY <2>1 DEF ParentsOpened
<1>7. Counted
  BY <1>1, <1>4, FS_EmptySet DEF Counted, CountersMatch
<1>8. DepthsRight /\ DecidedOnce /\ DepthCapped /\ CopiesOutlivePush /\ LoopState
  BY <1>1, <1>2, <1>3, <1>4
     DEF DepthsRight, DecidedOnce, DepthCapped, CopiesOutlivePush, LoopState
<1> QED
  BY <1>5, <1>6, <1>7, <1>8 DEF IInv

\* The inductive invariant of the engine.
THEOREM Invariance == Spec => []IInv
<1>1. Init => IInv
  BY InitInv
<1>2. IInv /\ [Next]_vars => IInv'
  <2> SUFFICES ASSUME IInv, [Next]_vars PROVE IInv'
    OBVIOUS
  <2>1. CASE BackendRefuses  BY <2>1, RefusesInv
  <2>2. CASE BackendUnpacks  BY <2>2, UnpacksInv
  <2>3. CASE BackendMalformed  BY <2>3, MalformedInv
  <2>4. ASSUME NEW n \in Names, NestedTooDeep(n) \/ NestedMissing(n) PROVE IInv'
    BY <2>4, NestedSkippedInv DEF NestedTooDeep, NestedMissing
  <2>5. ASSUME NEW n \in Names, NestedPushed(n) PROVE IInv'
    BY <2>5, NestedPushedInv
  <2>6. CASE (\E n \in Names : NestedCopyFails(n)) \/ NestedFails \/ NestedDone
             \/ Return \/ UNCHANGED vars
    BY <2>6, OtherStepInv
  <2> QED  BY <2>1, <2>2, <2>3, <2>4, <2>5, <2>6 DEF Next
<1> QED
  BY <1>1, <1>2, PTL DEF Spec

\* Every variable keeps its type.
THEOREM TypeCorrect == Spec => []TypeOK
<1>1. IInv => TypeOK
  BY DEF IInv
<1> QED  BY <1>1, Invariance, PTL

\* No archive is opened or skipped twice, or again once it was decided, in any
\* nesting, that of an archive containing itself included (lines 200-254).
THEOREM NothingDecidedTwice == Spec => []DecidedOnce
<1>1. IInv => DecidedOnce
  BY DEF IInv
<1> QED  BY <1>1, Invariance, PTL

\* The counters of the outcome are the numbers of archives opened and of
\* archives with a skip finding (lines 212, 219, 222, 240, 246).
THEOREM CountersAreRight == Spec => []CountersMatch
<1>1. IInv => CountersMatch
  BY DEF IInv, Counted
<1> QED  BY <1>1, Invariance, PTL

\* Nothing nested deeper than the cap is ever given to the backend (line 238).
THEOREM CapHolds == Spec => []DepthCapped
<1>1. IInv => DepthCapped
  BY DEF IInv
<1> QED  BY <1>1, Invariance, PTL

\* The copy of a nested archive exists until the archive is popped, although
\* the directory it was extracted to is gone (lines 203, 248-254).
THEOREM CopiesExist == Spec => []CopiesOutlivePush
<1>1. IInv => CopiesOutlivePush
  BY DEF IInv
<1> QED  BY <1>1, Invariance, PTL

----------------------------------------------------------------------------
\* The first state of the engine is one of the abstract specification.
LEMMA AccountInit == Init => Account!Init
<1> SUFFICES ASSUME Init PROVE Account!Init
  OBVIOUS
<1>1. StackProvs = {<<>>} /\ TodoProvs = {} /\ SkippedProvs = {}
  <2>1. stack = <<[prov |-> <<>>, depth |-> 1]>>
    BY DEF Init
  <2>2. DOMAIN stack = {1} /\ stack[1].prov = <<>>
    BY <2>1
  <2> QED  BY <2>2 DEF Init, StackProvs, TodoProvs, SkippedProvs
<1>2. pc = "loop" /\ opened = {}
  BY DEF Init
<1> QED
  BY <1>1, <1>2 DEF Account!Init

\* A refused archive is skipped, one opened is opened with what it holds, and
\* the rest of the engine's work is not visible.
LEMMA AccountStep ==
    ASSUME IInv, IInv', [Next]_vars
    PROVE  [Account!Next]_(Account!vars)
<1>1. CASE BackendRefuses
  <2> DEFINE p == current'.prov
  <2>1. /\ Pop /\ ReportSkipped(p) /\ UNCHANGED <<pc, todo, opened>>
    BY <1>1 DEF BackendRefuses
  <2>2. /\ pc = "loop" /\ pc' = "loop" /\ TodoProvs = {} /\ TodoProvs' = {}
        /\ p \in Provenance /\ p \in StackProvs /\ p \notin SkippedProvs
        /\ StackProvs' = StackProvs \ {p}
    BY <2>1, PopInv DEF TodoProvs
  <2>3. SkippedProvs' = SkippedProvs \union {p}
    BY <2>1, <2>2, SkipAdds
  <2> HIDE DEF p
  <2>4. Account!Skip(p)
    BY <2>1, <2>2, <2>3 DEF Account!Skip
  <2> QED
    BY <2>2, <2>4 DEF Account!Next
<1>2. CASE BackendUnpacks
  <2> DEFINE p == current'.prov
  <2>1. PICK nested \in SUBSET Names, infected \in SUBSET Names :
          /\ findings' = findings \union
               {[prov |-> Append(p, n), kind |-> "malware"] : n \in infected}
          /\ todo' = nested
    BY <1>2 DEF BackendUnpacks
  <2>2. /\ Pop /\ opened' = opened \union {p} /\ pc' = "nested"
    BY <1>2 DEF BackendUnpacks
  <2>3. /\ pc = "loop" /\ TodoProvs = {} /\ p \in Provenance /\ p \in StackProvs
        /\ StackProvs' = StackProvs \ {p}
    BY <2>2, PopInv
  <2>4. TodoProvs' = Account!Children(p, nested)
    BY <2>1 DEF TodoProvs, Account!Children
  <2>5. SkippedProvs' = SkippedProvs
    BY <2>1 DEF SkippedProvs
  <2> HIDE DEF p
  <2>6. Len(p) < MaxDepth
    BY <2>2 DEF IInv, DepthCapped
  <2>7. Account!Open(p)
    BY <2>1, <2>2, <2>3, <2>4, <2>5, <2>6 DEF Account!Open
  <2> QED
    BY <2>2, <2>3, <2>7 DEF Account!Next
<1>3. CASE BackendMalformed
  <2>1. /\ pc = "loop" /\ pc' = "raised" /\ opened' = opened
        /\ SkippedProvs' = SkippedProvs
    BY <1>3 DEF BackendMalformed, Pop, SkippedProvs
  <2> QED
    BY <2>1 DEF Account!Next, Account!Abort
<1>4. ASSUME NEW n \in Names, NestedTooDeep(n) \/ NestedMissing(n)
      PROVE  [Account!Next]_(Account!vars)
  <2> DEFINE p == Append(current.prov, n)
  <2>1. /\ pc = "nested" /\ pc' = "nested" /\ n \in todo /\ todo' = todo \ {n}
        /\ ReportSkipped(p) /\ UNCHANGED <<stack, current, opened>>
    BY <1>4 DEF NestedTooDeep, NestedMissing, NestedSkipped
  <2>2. /\ p \in Provenance /\ p \in TodoProvs
        /\ p \notin SkippedProvs \union StackProvs
        /\ TodoProvs' = TodoProvs \ {p}
    BY <2>1, TodoTakes
  <2>3. StackProvs' = StackProvs
    BY <2>1 DEF StackProvs
  <2>4. SkippedProvs' = SkippedProvs \union {p}
    BY <2>1, <2>2, SkipAdds
  <2> HIDE DEF p
  <2>5. Account!Skip(p)
    BY <2>1, <2>2, <2>3, <2>4 DEF Account!Skip
  <2> QED
    BY <2>1, <2>2, <2>5 DEF Account!Next
<1>5. ASSUME NEW n \in Names, NestedPushed(n)
      PROVE  UNCHANGED Account!vars
  <2> DEFINE p == Append(current.prov, n)
             e == [prov |-> p, depth |-> current.depth + 1]
  <2>1. /\ pc = "nested" /\ pc' = "nested" /\ n \in todo /\ todo' = todo \ {n}
        /\ stack' = Append(stack, e) /\ UNCHANGED <<current, findings, opened>>
    BY <1>5 DEF NestedPushed
  <2>2. p \in Provenance /\ p \in TodoProvs /\ TodoProvs' = TodoProvs \ {p}
    BY <2>1, TodoTakes
  <2>3. e \in StackEntry /\ e.prov = p /\ stack \in Seq(StackEntry)
    BY <2>2 DEF IInv, TypeOK, StackEntry
  <2> HIDE DEF p, e
  <2>4. StackProvs' = StackProvs \union {p}
    BY <2>1, <2>3, PushStack DEF StackProvs
  <2>5. SkippedProvs' = SkippedProvs
    BY <2>1 DEF SkippedProvs
  <2>6. StackProvs' \union TodoProvs' = StackProvs \union TodoProvs
    BY <2>2, <2>4
  <2> QED
    BY <2>1, <2>5, <2>6 DEF Account!vars
<1>6. CASE (\E n \in Names : NestedCopyFails(n)) \/ NestedFails
  <2>1. /\ pc = "nested" /\ pc' = "raised" /\ opened' = opened
        /\ SkippedProvs' = SkippedProvs
    BY <1>6 DEF NestedCopyFails, NestedFails, SkippedProvs
  <2> QED
    BY <2>1 DEF Account!Next, Account!Abort
<1>7. CASE NestedDone \/ UNCHANGED vars
  <2>1. /\ UNCHANGED <<stack, current, todo, findings, opened>>
        /\ pc' = pc \/ (pc = "nested" /\ pc' = "loop")
    BY <1>7 DEF NestedDone, vars
  <2>2. /\ StackProvs' = StackProvs /\ TodoProvs' = TodoProvs
        /\ SkippedProvs' = SkippedProvs
    BY <2>1 DEF StackProvs, TodoProvs, SkippedProvs
  <2> QED
    BY <2>1, <2>2 DEF Account!vars
<1>8. CASE Return
  <2>1. /\ pc = "loop" /\ pc' = "returned" /\ stack = <<>> /\ todo = {}
        /\ UNCHANGED <<stack, current, todo, findings, opened>>
    BY <1>8 DEF Return, IInv, LoopState
  <2>2. /\ StackProvs = {} /\ TodoProvs = {}
        /\ StackProvs' = {} /\ TodoProvs' = {}
        /\ SkippedProvs' = SkippedProvs
    BY <2>1 DEF StackProvs, TodoProvs, SkippedProvs
  <2> QED
    BY <2>1, <2>2 DEF Account!Next, Account!Return
<1> QED
  BY <1>1, <1>2, <1>3, <1>4, <1>5, <1>6, <1>7, <1>8 DEF Next

\* The engine implements the abstract specification: whatever the archives
\* hold, each archive met is opened or reported as skipped, once, and the scan
\* returns only when none is left.
THEOREM EngineAccounts == Spec => Accounted
<1>1. IInv /\ IInv' /\ [Next]_vars => [Account!Next]_(Account!vars)
  BY AccountStep
<1> QED
  BY <1>1, AccountInit, Invariance, PTL DEF Spec, Accounted, Account!Spec

----------------------------------------------------------------------------
(* How much work a scan can be.                                             *)

\* The places an archive met in a scan can be at, the deepest of them skipped.
Nested(k) == {p \in Provenance : Len(p) <= k}
Nestings == Nested(MaxDepth)

Decided == opened \union SkippedProvs

\* The steps a scan has left at most.  Every place left to decide costs three: it is
\* pushed, it is decided, and the inner loop it may open comes to its end.
StepsLeft ==
    IF pc \in {"returned", "raised"} THEN 0
    ELSE 1 + 2 * Cardinality(Nestings \ Decided)
           + Cardinality(Nestings \ (Decided \union StackProvs))
           + (IF pc = "nested" THEN 1 ELSE 0)

\* However the archives are nested, and in themselves, no more of them are opened
\* and skipped than there are places within the cap (lines 200-254).
WorkCapped == unpacked + skippedCount <= Cardinality(Nestings)

\* Every step of the scan brings it nearer to its end: the safety part of Ends.
RunsDown == [][StepsLeft' < StepsLeft]_vars

\* A provenance that is not the outermost archive's has a parent.
LEMMA ParentOf ==
    ASSUME NEW p \in Provenance, p # <<>>
    PROVE  \E q \in Provenance, n \in Names : p = Append(q, n) /\ Len(q) = Len(p) - 1
<1> DEFINE k == Len(p)
<1>1. k \in Nat /\ k # 0 /\ p \in [1 .. k -> Names]
  BY LenProperties, EmptySeq DEF Provenance
<1> HIDE DEF k
<1>2. PICK q \in Provenance : Len(q) = k - 1 /\ \A i \in 1 .. (k - 1) : q[i] = p[i]
  <2> DEFINE q == [i \in 1 .. (k - 1) |-> p[i]]
  <2>1. k - 1 \in Nat /\ q \in [1 .. (k - 1) -> Names]
    BY <1>1
  <2>2. \A i \in 1 .. (k - 1) : q[i] = p[i]
    OBVIOUS
  <2> HIDE DEF q
  <2>3. q \in Provenance /\ Len(q) = k - 1
    BY <2>1 DEF Provenance
  <2> QED  BY <2>2, <2>3
<1> DEFINE e == p[k]
           t == Append(q, e)
<1>3. e \in Names
  BY <1>1
<1> HIDE DEF e
<1>4. /\ t \in Seq(Names) /\ Len(t) = Len(q) + 1
      /\ \A i \in 1 .. Len(q) : t[i] = q[i]
      /\ t[Len(q) + 1] = e
  BY <1>3, AppendProperties DEF Provenance
<1> HIDE DEF t
<1>5. Len(t) = k /\ t[k] = e /\ \A i \in 1 .. (k - 1) : t[i] = p[i]
  BY <1>1, <1>2, <1>4
<1>6. \A i \in 1 .. Len(p) : t[i] = p[i]
  BY <1>1, <1>5 DEF k, e
<1>7. p = t
  BY <1>1, <1>4, <1>5, <1>6, SeqEqual DEF Provenance, k
<1> QED  BY <1>2, <1>3, <1>7 DEF t, k

\* There are finitely many places within the cap.
LEMMA NestingsFinite == IsFiniteSet(Nestings)
<1> DEFINE S == {k \in Nat : IsFiniteSet(Nested(k))}
<1>1. 0 \in S
  <2>1. Nested(0) \subseteq {<<>>}
    BY EmptySeq, LenProperties DEF Nested, Provenance
  <2> QED  BY <2>1, FS_Singleton, FS_Subset
<1>2. ASSUME NEW k \in Nat, k \in S PROVE k + 1 \in S
  <2> DEFINE P == Nested(k) \X Names
             f == [x \in P |-> Append(x[1], x[2])]
             T == {f[x] : x \in P}
  <2>1. IsFiniteSet(P)
    BY <1>2, FS_Product, NamesAssumption
  <2>2. f \in Surjection(P, T)
    BY DEF Surjection
  <2>3. IsFiniteSet(T)
    <3> HIDE DEF P, f, T
    <3> QED  BY <2>1, <2>2, FS_Surjection
  <2>4. Nested(k + 1) \subseteq T \union {<<>>}
    <3> SUFFICES ASSUME NEW p \in Nested(k + 1), p # <<>> PROVE p \in T
      OBVIOUS
    <3>1. p \in Provenance /\ Len(p) <= k + 1 /\ Len(p) \in Nat
      BY LenProperties DEF Nested, Provenance
    <3>2. PICK q \in Provenance, n \in Names : p = Append(q, n) /\ Len(q) = Len(p) - 1
      BY <3>1, ParentOf
    <3>3. <<q, n>> \in P /\ f[<<q, n>>] = p
      BY <3>1, <3>2 DEF Nested
    <3> QED  BY <3>3
  <2> HIDE DEF P, f, T
  <2>5. IsFiniteSet(T \union {<<>>})
    BY <2>3, FS_AddElement
  <2> QED  BY <2>4, <2>5, FS_Subset
<1>3. Nat \subseteq S
  <2> HIDE DEF S
  <2> QED  BY <1>1, <1>2, InductionSet
<1> QED  BY <1>3, MaxDepthAssumption DEF Nestings

\* Whatever is known is within the cap: what it is nested in was opened.
LEMMA KnownNestings == IInv => Known \subseteq Nestings
<1> SUFFICES ASSUME IInv, NEW p \in Known PROVE p \in Nestings
  OBVIOUS
<1>1. p \in Provenance
  <2>1. opened \subseteq Provenance /\ SkippedProvs \subseteq Provenance
    BY DEF IInv, TypeOK, SkippedProvs, Finding
  <2>2. StackProvs \subseteq Provenance
    <3>1. \A i \in DOMAIN stack : stack[i] \in StackEntry
      BY ElementOfSeq, LenProperties DEF IInv, TypeOK
    <3> QED  BY <3>1 DEF StackProvs, StackEntry
  <2>3. TodoProvs \subseteq Provenance
    <3>1. current.prov \in Provenance /\ todo \subseteq Names
      BY DEF IInv, TypeOK, StackEntry
    <3>2. \A n \in todo : Append(current.prov, n) \in Provenance
      BY <3>1, AppendProv
    <3> QED  BY <3>2 DEF TodoProvs
  <2> QED  BY <2>1, <2>2, <2>3 DEF Known
<1>2. CASE p = <<>>
  BY <1>1, <1>2, MaxDepthAssumption DEF Nestings, Nested
<1>3. CASE p # <<>>
  <2>1. PICK q \in Provenance, n \in Names : p = Append(q, n) /\ Len(q) = Len(p) - 1
    BY <1>1, <1>3, ParentOf
  <2>2. q \in opened
    BY <2>1 DEF IInv, ParentsOpened
  <2>3. Len(q) < MaxDepth /\ Len(p) \in Nat
    BY <1>1, <2>2, LenProperties DEF IInv, DepthCapped, Provenance
  <2> QED  BY <1>1, <2>1, <2>3, MaxDepthAssumption DEF Nestings, Nested
<1> QED  BY <1>2, <1>3

\* Taking one more place out of those that are left.
LEMMA OneLess ==
    ASSUME NEW D, NEW p \in Nestings, p \notin D
    PROVE  /\ Cardinality(Nestings \ D) \in Nat
           /\ Cardinality(Nestings \ (D \union {p})) \in Nat
           /\ Cardinality(Nestings \ (D \union {p})) = Cardinality(Nestings \ D) - 1
<1>1. IsFiniteSet(Nestings \ D)
  BY NestingsFinite, FS_Difference
<1>2. Nestings \ (D \union {p}) = (Nestings \ D) \ {p}
  OBVIOUS
<1>3. IsFiniteSet((Nestings \ D) \ {p})
  BY <1>1, FS_RemoveElement
<1> QED  BY <1>1, <1>2, <1>3, FS_RemoveElement, FS_CardinalityType

LEMMA LeftIsNatural ==
    /\ \A D : Cardinality(Nestings \ D) \in Nat
    /\ StepsLeft \in Nat
<1>1. \A D : Cardinality(Nestings \ D) \in Nat
  BY NestingsFinite, FS_Difference, FS_CardinalityType
<1>2. /\ Cardinality(Nestings \ Decided) \in Nat
      /\ Cardinality(Nestings \ (Decided \union StackProvs)) \in Nat
  BY <1>1
<1>3. StepsLeft \in Nat
  BY <1>2 DEF StepsLeft
<1> QED  BY <1>1, <1>3

\* A place that waits and is decided: its two points go, and that of the stack if it
\* was not there.
LEMMA DecidingRunsDown ==
    ASSUME IInv, pc \in {"loop", "nested"}, pc' \in {"loop", "nested"},
           NEW p \in Known, p \notin Decided, Decided' = Decided \union {p},
           StackProvs' \union {p} = StackProvs \union {p}
    PROVE  StepsLeft' < StepsLeft
<1> DEFINE D == Cardinality(Nestings \ Decided)
           W == Cardinality(Nestings \ (Decided \union StackProvs))
           W1 == Cardinality(Nestings \ (Decided' \union StackProvs'))
<1>1. p \in Nestings
  BY KnownNestings
<1>2. /\ D \in Nat /\ W \in Nat /\ W1 \in Nat
      /\ Cardinality(Nestings \ Decided') \in Nat
      /\ Cardinality(Nestings \ Decided') = D - 1
  BY <1>1, OneLess, LeftIsNatural
<1>3. W1 <= W
  <2>1. Decided' \union StackProvs' = (Decided \union StackProvs) \union {p}
    OBVIOUS
  <2>2. CASE p \in StackProvs
    <3>1. Decided' \union StackProvs' = Decided \union StackProvs
      BY <2>1, <2>2
    <3>2. W1 = W
      BY <3>1
    <3> QED  BY <1>2, <3>2
  <2>3. CASE p \notin StackProvs
    <3>1. Cardinality(Nestings \ ((Decided \union StackProvs) \union {p})) = W - 1
      BY <1>1, <2>3, OneLess
    <3> QED  BY <1>2, <2>1, <3>1
  <2> QED  BY <2>2, <2>3
<1>4. StepsLeft' = 1 + 2 * (D - 1) + W1 + (IF pc' = "nested" THEN 1 ELSE 0)
  BY <1>2 DEF StepsLeft
<1>5. StepsLeft = 1 + 2 * D + W + (IF pc = "nested" THEN 1 ELSE 0)
  BY DEF StepsLeft
<1> HIDE DEF D, W, W1
<1> QED  BY <1>2, <1>3, <1>4, <1>5

LEMMA StepRunsDown == IInv /\ Next => StepsLeft' < StepsLeft
<1> SUFFICES ASSUME IInv, Next PROVE StepsLeft' < StepsLeft
  OBVIOUS
<1>1. CASE BackendRefuses
  <2>1. /\ Pop /\ ReportSkipped(current'.prov) /\ UNCHANGED <<pc, opened>>
    BY <1>1 DEF BackendRefuses
  <2>2. SkippedProvs' = SkippedProvs \union {current'.prov}
    BY <2>1, PopInv, SkipAdds
  <2> QED  BY <2>1, <2>2, PopInv, DecidingRunsDown DEF Decided, Known
<1>2. CASE BackendUnpacks
  <2>1. Pop /\ pc' = "nested" /\ opened' = opened \union {current'.prov}
    BY <1>2 DEF BackendUnpacks
  <2>2. SkippedProvs' = SkippedProvs
    <3>1. PICK nested \in SUBSET Names, infected \in SUBSET Names :
            findings' = findings \union
              {[prov |-> Append(current'.prov, n), kind |-> "malware"] : n \in infected}
      BY <1>2 DEF BackendUnpacks
    <3> QED  BY <3>1 DEF SkippedProvs
  <2> QED  BY <2>1, <2>2, PopInv, DecidingRunsDown DEF Decided, Known
<1>3. CASE BackendMalformed \/ NestedFails \/ Return \/ \E n \in Names : NestedCopyFails(n)
  <2>1. pc \in {"loop", "nested"} /\ pc' \in {"returned", "raised"}
    BY <1>3 DEF BackendMalformed, Pop, NestedFails, Return, NestedCopyFails
  <2>2. /\ Cardinality(Nestings \ Decided) \in Nat
        /\ Cardinality(Nestings \ (Decided \union StackProvs)) \in Nat
    BY LeftIsNatural
  <2> QED  BY <2>1, <2>2 DEF StepsLeft
<1>4. ASSUME NEW n \in Names, NestedTooDeep(n) \/ NestedMissing(n)
      PROVE  StepsLeft' < StepsLeft
  <2> DEFINE p == Append(current.prov, n)
  <2>1. /\ pc = "nested" /\ n \in todo /\ todo' = todo \ {n} /\ ReportSkipped(p)
        /\ UNCHANGED <<pc, stack, current, opened>>
    BY <1>4 DEF NestedTooDeep, NestedMissing, NestedSkipped
  <2>2. /\ p \in Provenance /\ p \in TodoProvs
        /\ p \notin opened \union SkippedProvs \union StackProvs
    BY <2>1, TodoTakes
  <2>3. SkippedProvs' = SkippedProvs \union {p}
    BY <2>1, <2>2, SkipAdds
  <2>4. StackProvs' = StackProvs
    BY <2>1 DEF StackProvs
  <2> HIDE DEF p
  <2> QED  BY <2>1, <2>2, <2>3, <2>4, DecidingRunsDown DEF Decided, Known
<1>5. ASSUME NEW n \in Names, NestedPushed(n)
      PROVE  StepsLeft' < StepsLeft
  <2> DEFINE p == Append(current.prov, n)
             e == [prov |-> p, depth |-> current.depth + 1]
  <2>1. /\ pc = "nested" /\ n \in todo /\ todo' = todo \ {n}
        /\ stack' = Append(stack, e) /\ UNCHANGED <<pc, current, findings, opened>>
    BY <1>5 DEF NestedPushed
  <2>2. /\ p \in Provenance /\ p \in TodoProvs
        /\ p \notin opened \union SkippedProvs \union StackProvs
    BY <2>1, TodoTakes
  <2>3. e \in StackEntry /\ e.prov = p /\ stack \in Seq(StackEntry)
    BY <2>2 DEF IInv, TypeOK, StackEntry
  <2>4. p \in Nestings
    BY <2>2, KnownNestings DEF Known
  <2> HIDE DEF p, e
  <2>5. StackProvs' = StackProvs \union {p}
    BY <2>1, <2>3, PushStack DEF StackProvs
  <2>6. Decided' = Decided
    BY <2>1 DEF Decided, SkippedProvs
  <2>7. Decided' \union StackProvs' = (Decided \union StackProvs) \union {p}
    BY <2>5, <2>6
  <2>8. /\ Cardinality(Nestings \ (Decided' \union StackProvs'))
             = Cardinality(Nestings \ (Decided \union StackProvs)) - 1
        /\ Cardinality(Nestings \ (Decided \union StackProvs)) \in Nat
        /\ Cardinality(Nestings \ Decided) \in Nat
    BY <2>2, <2>4, <2>7, OneLess, LeftIsNatural DEF Decided
  <2> QED  BY <2>1, <2>6, <2>8 DEF StepsLeft
<1>6. CASE NestedDone
  <2>1. pc = "nested" /\ pc' = "loop" /\ Decided' = Decided /\ StackProvs' = StackProvs
    BY <1>6 DEF NestedDone, Decided, SkippedProvs, StackProvs
  <2>2. /\ Cardinality(Nestings \ Decided) \in Nat
        /\ Cardinality(Nestings \ (Decided \union StackProvs)) \in Nat
    BY LeftIsNatural
  <2> QED  BY <2>1, <2>2 DEF StepsLeft
<1> QED  BY <1>1, <1>2, <1>3, <1>4, <1>5, <1>6 DEF Next

\* A scan is bounded by the names and the cap alone, whatever the archives hold: it
\* counts no more archives than there are places within the cap, and every step,
\* whether it works or fails, takes it nearer to its end.
THEOREM WorkIsBounded == Spec => [](WorkCapped /\ StepsLeft \in Nat) /\ RunsDown
<1>1. IInv => WorkCapped
  <2> SUFFICES ASSUME IInv PROVE WorkCapped
    OBVIOUS
  <2>1. /\ IsFiniteSet(opened) /\ IsFiniteSet(SkippedProvs)
        /\ opened \intersect SkippedProvs = {}
        /\ unpacked = Cardinality(opened) /\ skippedCount = Cardinality(SkippedProvs)
    BY DEF IInv, Counted, CountersMatch, DecidedOnce
  <2>2. Cardinality(Decided) = unpacked + skippedCount
    <3>1. Cardinality(opened \intersect SkippedProvs) = 0
      BY <2>1, FS_EmptySet
    <3>2. unpacked \in Nat /\ skippedCount \in Nat
      BY <2>1, FS_CardinalityType
    <3>3. Cardinality(opened \union SkippedProvs) =
            Cardinality(opened) + Cardinality(SkippedProvs)
              - Cardinality(opened \intersect SkippedProvs)
      BY <2>1, FS_Union
    <3> QED  BY <2>1, <3>1, <3>2, <3>3 DEF Decided
  <2>3. Decided \subseteq Nestings
    BY KnownNestings DEF Decided, Known
  <2> QED  BY <2>2, <2>3, NestingsFinite, FS_Subset DEF WorkCapped
<1>2. IInv /\ [Next]_vars => [StepsLeft' < StepsLeft]_vars
  BY StepRunsDown
<1> QED  BY <1>1, <1>2, LeftIsNatural, Invariance, PTL DEF Spec, RunsDown
============================================================================
