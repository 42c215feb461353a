---------------------------- MODULE SignatureDb ----------------------------
(***************************************************************************)
(* The signature database, which `sentinel update` rewrites and scans      *)
(* load: refresh of application/update_signatures.py, merge_entries and    *)
(* atomic_write_signatures of repository/signature_db_writer.py, run_update*)
(* and _load_signatures of presentation/cli.py.                            *)
(*                                                                         *)
(* Several updates and scans run at the same time.  The feed is external:  *)
(* any of Feeds may be fetched, its records may repeat each other and what *)
(* the database has.                                                       *)
(***************************************************************************)
EXTENDS SignatureLookup

CONSTANTS
    Updates, Scans,
    BaseDbs,   \* what the file can hold before the first update
    Feeds,     \* the lists the feed can return
    NoFile     \* a file that does not exist

Record == [md5 : Md5s \union {None}, sha256 : Sha256s \union {None}]

ASSUME BaseDbsAssumption ==
    /\ BaseDbs \subseteq Seq(Entry) \union {NoFile}
    /\ NoFile \notin Seq(Entry)
ASSUME ProcessAssumption == Updates \intersect Scans = {}
ASSUME FeedsAssumption == Feeds \subseteq Seq(Record)

VARIABLES
    base,        \* the database before the first update
    db,          \* the file now, or NoFile
    pc,
    incoming,    \* the fetched records an update has still to merge
    merged,      \* its list so far
    tmp,         \* the temporary file it writes, or NoFile
    loaded,      \* the list a scan built its repository from
    verdict,     \* the last lookup of a scan
    overlapped,  \* history: an update loaded the list while another had it loaded
    published    \* history: the digests that ever were in the file

vars == <<base, db, pc, incoming, merged, tmp, loaded, verdict, overlapped,
          published>>
updaters == <<incoming, merged, tmp>>
scanners == <<loaded, verdict>>

Goto(p, label) == pc' = [pc EXCEPT ![p] = label]

\* The digests of an entry or a record: _dedupe_keys.
Keys(e) == {e.md5, e.sha256} \ {None}

ListOf(file) == IF file = NoFile THEN <<>> ELSE file

HashesOf(file) == Md5sOf(ListOf(file)) \union Sha256sOf(ListOf(file))

\* normalize_entry: a record gets the threat level given and a name.
Imported(r) == [md5 |-> r.md5, sha256 |-> r.sha256, pattern |-> FALSE, known |-> TRUE]

NoVerdict == [md5 |-> None, sha256 |-> None, hit |-> NoHit]

----------------------------------------------------------------------------
Init ==
    /\ base \in BaseDbs
    /\ db = base
    /\ pc = [p \in Updates \union Scans |-> IF p \in Updates THEN "fetch" ELSE "load"]
    /\ incoming = [u \in Updates |-> <<>>]
    /\ merged = [u \in Updates |-> <<>>]
    /\ tmp = [u \in Updates |-> NoFile]
    /\ loaded = [s \in Scans |-> [list |-> <<>>, bloom |-> FALSE]]
    /\ verdict = [s \in Scans |-> NoVerdict]
    /\ overlapped = FALSE
    /\ published = HashesOf(base)

\* fetch_getlist.
Fetch(u) ==
    /\ pc[u] = "fetch"
    /\ \E feed \in Feeds : incoming' = [incoming EXCEPT ![u] = feed]
    /\ Goto(u, "existing")
    /\ UNCHANGED <<base, db, merged, tmp, scanners, overlapped, published>>

\* Mutant of LoadExisting: a file that does not exist is not told apart.
LoadExistingMissing(u) ==
    /\ pc[u] = "existing"
    /\ merged' = [merged EXCEPT ![u] = db]
    /\ overlapped' = (overlapped \/ \E o \in Updates :
                         pc[o] \in {"merge", "validated", "write"})
    /\ Goto(u, "merge")
    /\ UNCHANGED <<base, db, incoming, tmp, scanners, published>>

\* Mutant of LoadExisting: a list that is not valid counts as an empty one.
LoadExistingLenient(u) ==
    /\ pc[u] = "existing"
    /\ merged' = [merged EXCEPT ![u] = IF Loads(ListOf(db)) THEN ListOf(db) ELSE <<>>]
    /\ overlapped' = (overlapped \/ \E o \in Updates :
                         pc[o] \in {"merge", "validated", "write"})
    /\ Goto(u, "merge")
    /\ UNCHANGED <<base, db, incoming, tmp, scanners, published>>

\* load_existing_signatures: the raw list, no entry is validated.
LoadExisting(u) ==
    /\ pc[u] = "existing"
    /\ merged' = [merged EXCEPT ![u] = ListOf(db)]
    /\ overlapped' = (overlapped \/ \E o \in Updates :
                         pc[o] \in {"merge", "validated", "write"})
    /\ Goto(u, "merge")
    /\ UNCHANGED <<base, db, incoming, tmp, scanners, published>>

\* Mutant of MergeEntry: an entry is a duplicate only if both digests are known.
MergeEntryBoth(u) ==
    /\ pc[u] = "merge"
    /\ incoming[u] # <<>>
    /\ LET r == Head(incoming[u])
       IN  merged' = [merged EXCEPT ![u] =
               IF Keys(r) \subseteq HashesOf(@) THEN @ ELSE Append(@, Imported(r))]
    /\ incoming' = [incoming EXCEPT ![u] = Tail(@)]
    /\ UNCHANGED <<base, db, pc, tmp, scanners, overlapped, published>>

\* One record: normalize_entry drops it if it has no usable digest, and the loop
\* of merge_entries if a digest is in the list already, from the file or from
\* this feed.
MergeEntry(u) ==
    /\ pc[u] = "merge"
    /\ incoming[u] # <<>>
    /\ LET r == Head(incoming[u])
       IN  merged' = [merged EXCEPT ![u] =
               IF Keys(r) = {} \/ Keys(r) \intersect HashesOf(@) # {}
               THEN @
               ELSE Append(@, Imported(r))]
    /\ incoming' = [incoming EXCEPT ![u] = Tail(@)]
    /\ UNCHANGED <<base, db, pc, tmp, scanners, overlapped, published>>

\* Mutant of Validate: only a dry run validates.
ValidateSkipped(u) ==
    /\ pc[u] = "merge"
    /\ incoming[u] = <<>>
    /\ Goto(u, "validated")
    /\ UNCHANGED <<base, db, updaters, scanners, overlapped, published>>

\* SignatureRepository.load of a copy of the merged list.
Validate(u) ==
    /\ pc[u] = "merge"
    /\ incoming[u] = <<>>
    /\ Goto(u, IF Loads(merged[u]) THEN "validated" ELSE "failed")
    /\ UNCHANGED <<base, db, updaters, scanners, overlapped, published>>

\* --dry-run: nothing is written.
DryRun(u) ==
    /\ pc[u] = "validated"
    /\ Goto(u, "done")
    /\ UNCHANGED <<base, db, updaters, scanners, overlapped, published>>

\* mkstemp of atomic_write_signatures.
MakeTmp(u) ==
    /\ pc[u] = "validated"
    /\ tmp' = [tmp EXCEPT ![u] = <<>>]
    /\ Goto(u, "write")
    /\ UNCHANGED <<base, db, incoming, merged, scanners, overlapped, published>>

\* json.dump writes one entry after the other.
WriteEntry(u) ==
    /\ pc[u] = "write"
    /\ Len(tmp[u]) < Len(merged[u])
    /\ tmp' = [tmp EXCEPT ![u] = Append(@, merged[u][Len(@) + 1])]
    /\ UNCHANGED <<base, db, pc, incoming, merged, scanners, overlapped, published>>

\* Mutant of Replace: the temporary file is moved before it is closed.
ReplaceEarly(u) ==
    /\ pc[u] = "write"
    /\ db' = tmp[u]
    /\ published' = published \union HashesOf(tmp[u])
    /\ tmp' = [tmp EXCEPT ![u] = NoFile]
    /\ Goto(u, "done")
    /\ UNCHANGED <<base, incoming, merged, scanners, overlapped>>

\* os.replace, once the file is written and closed.
Replace(u) ==
    /\ pc[u] = "write"
    /\ Len(tmp[u]) = Len(merged[u])
    /\ db' = tmp[u]
    /\ published' = published \union HashesOf(tmp[u])
    /\ tmp' = [tmp EXCEPT ![u] = NoFile]
    /\ Goto(u, "done")
    /\ UNCHANGED <<base, incoming, merged, scanners, overlapped>>

\* FetchError, an unreadable database, or a failure to write, after which the
\* temporary file is unlinked, and stays if that fails as well.
Fails(u) ==
    /\ pc[u] \in {"fetch", "existing", "merge", "validated", "write"}
    /\ tmp' \in {tmp, [tmp EXCEPT ![u] = NoFile]}
    /\ Goto(u, "failed")
    /\ UNCHANGED <<base, db, incoming, merged, scanners, overlapped, published>>

\* The process is killed: a temporary file stays.
Crash(u) ==
    /\ pc[u] \in {"fetch", "existing", "merge", "validated", "write"}
    /\ Goto(u, "crashed")
    /\ UNCHANGED <<base, db, updaters, scanners, overlapped, published>>

----------------------------------------------------------------------------
\* _load_signatures of a scan or a daemon, with or without --bloom.
LoadDb(s) ==
    /\ pc[s] = "load"
    /\ db # NoFile
    /\ Loads(ListOf(db))
    /\ \E bloom \in BOOLEAN :
         loaded' = [loaded EXCEPT ![s] = [list |-> db, bloom |-> bloom]]
    /\ Goto(s, "scan")
    /\ UNCHANGED <<base, db, updaters, verdict, overlapped, published>>

\* The file is missing, or an entry is not valid: the command ends.
LoadDbFails(s) ==
    /\ pc[s] = "load"
    /\ db = NoFile \/ ~ Loads(ListOf(db))
    /\ Goto(s, "failed")
    /\ UNCHANGED <<base, db, updaters, scanners, overlapped, published>>

\* scan_file for a file with these digests.
LookUp(s) ==
    /\ pc[s] = "scan"
    /\ \E m \in Md5s, h \in Sha256s :
         verdict' = [verdict EXCEPT ![s] =
             [md5 |-> m, sha256 |-> h,
              hit |-> LookupHashes(loaded[s].list, loaded[s].bloom, m, h)]]
    /\ Goto(s, "scanned")
    /\ UNCHANGED <<base, db, updaters, loaded, overlapped, published>>

Next ==
    \/ \E u \in Updates :
         \/ Fetch(u) \/ LoadExisting(u) \/ MergeEntry(u) \/ Validate(u) \/ DryRun(u)
         \/ MakeTmp(u) \/ WriteEntry(u) \/ Replace(u) \/ Fails(u) \/ Crash(u)
    \/ \E s \in Scans : LoadDb(s) \/ LoadDbFails(s) \/ LookUp(s)

Spec == Init /\ [][Next]_vars

----------------------------------------------------------------------------
TypeOK ==
    /\ base \in BaseDbs
    /\ db \in Seq(Entry) \union {NoFile}
    /\ pc \in [Updates \union Scans ->
                 {"fetch", "existing", "merge", "validated", "write", "load", "scan",
                  "scanned", "done", "failed", "crashed"}]
    /\ incoming \in [Updates -> Seq(Record)]
    /\ merged \in [Updates -> Seq(Entry)]
    /\ tmp \in [Updates -> Seq(Entry) \union {NoFile}]
    /\ loaded \in [Scans -> [list : Seq(Entry), bloom : BOOLEAN]]
    /\ verdict \in [Scans -> [md5 : Md5s \union {None}, sha256 : Sha256s \union {None},
                             hit : [method : {"none", "md5", "sha256"}, entry : Nat]]]
    /\ overlapped \in BOOLEAN
    /\ published \subseteq Digests

\* The entries the file had before the first update stay its first entries,
\* whatever updates interleave, fail or crash: the canary is preserved
\* (data/README.md), and so is what an administrator added.
BaseKept ==
    /\ Len(ListOf(base)) <= Len(ListOf(db))
    /\ \A i \in DOMAIN ListOf(base) : ListOf(db)[i] = ListOf(base)[i]

\* Every digest that ever was in the file still is, unless updates overlapped
\* (there is no lock: the one that replaces the file last wins).
NothingLost == ~ overlapped => published \subseteq HashesOf(db)

\* An update never leaves a list the next scan or update refuses.
UpdateLoads == db # base => Loads(ListOf(db))

\* No update adds an entry with a digest an earlier entry has, from the file or
\* from the same feed, so no import hides an entry of the same digest.
ImportsAreNew ==
    \A i \in DOMAIN ListOf(db), j \in DOMAIN ListOf(db) :
        i < j /\ j > Len(ListOf(base))
            => Keys(ListOf(db)[i]) \intersect Keys(ListOf(db)[j]) = {}

\* A scan reports a file if and only if the list it loaded has one of its
\* digests, with the filter and without it.
LookupsRight ==
    \A s \in Scans :
        pc[s] = "scanned" =>
            RightHit(loaded[s].list, verdict[s].md5, verdict[s].sha256, verdict[s].hit)
============================================================================
