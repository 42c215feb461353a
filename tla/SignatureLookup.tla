-------------------------- MODULE SignatureLookup --------------------------
(***************************************************************************)
(* SignatureRepository (repository/signature_repository.py) with its       *)
(* optional Bloom filter (infrastructure/bloom_filter.py), and             *)
(* lookup_hashes of application/hash_scan_engine.py, as operators on the   *)
(* list of entries the repository was built from.                          *)
(***************************************************************************)
EXTENDS Integers, FiniteSetsExt, Sequences

CONSTANTS
    Md5s, Sha256s,  \* the digests of the samples there are
    None,           \* the field of an entry that is absent
    Bits,           \* the positions of the bit array
    BitsOf          \* the positions the double hashing derives from a digest

Digests == Md5s \union Sha256s

ASSUME DigestsAssumption == Md5s \intersect Sha256s = {} /\ None \notin Digests
ASSUME BitsAssumption == BitsOf \in [Digests -> SUBSET Bits]

\* An entry of the JSON list.  `pattern` says whether it has a hex_pattern,
\* `known` whether its threat_level is one of the four.
Entry == [md5 : Md5s \union {None}, sha256 : Sha256s \union {None},
          pattern : BOOLEAN, known : BOOLEAN]

\* _validate_entry.
Valid(e) == e.known /\ (e.md5 # None \/ e.sha256 # None \/ e.pattern)

\* load: the first entry that is not valid fails the whole list.
Loads(db) == \A i \in DOMAIN db : Valid(db[i])

Md5sOf(db) == {db[i].md5 : i \in DOMAIN db} \ {None}
Sha256sOf(db) == {db[i].sha256 : i \in DOMAIN db} \ {None}

\* The two dicts: of several entries with one digest the last one stays.
Md5Index(db) == [h \in Md5sOf(db) |-> Max({i \in DOMAIN db : db[i].md5 = h})]
Sha256Index(db) ==
    [h \in Sha256sOf(db) |-> Max({i \in DOMAIN db : db[i].sha256 = h})]

\* Mutant: the filter is filled from the stronger digests only.
BloomSha256Only(db) == UNION {BitsOf[h] : h \in Sha256sOf(db)}

\* The bits that are set once every key was added.
Bloom(db) == UNION {BitsOf[h] : h \in Md5sOf(db) \union Sha256sOf(db)}

\* might_contain_hash: True when the filter is off.
MightContain(db, enabled, h) == enabled => BitsOf[h] \subseteq Bloom(db)

NoHit == [method |-> "none", entry |-> 0]

\* lookup_hashes: SHA-256 before MD5.
LookupHashes(db, enabled, m, s) ==
    IF MightContain(db, enabled, s) /\ s \in DOMAIN Sha256Index(db)
    THEN [method |-> "sha256", entry |-> Sha256Index(db)[s]]
    ELSE IF MightContain(db, enabled, m) /\ m \in DOMAIN Md5Index(db)
    THEN [method |-> "md5", entry |-> Md5Index(db)[m]]
    ELSE NoHit

----------------------------------------------------------------------------
\* What a lookup promises: a file is reported if and only if an entry has one
\* of its digests, by SHA-256 if an entry has that, and the entry named has the
\* digest.
RightHit(db, m, s, hit) ==
    /\ hit.method = "none" <=> m \notin Md5sOf(db) /\ s \notin Sha256sOf(db)
    /\ hit.method = "sha256" <=> s \in Sha256sOf(db)
    /\ hit.method = "md5" => /\ hit.entry \in DOMAIN db
                             /\ db[hit.entry].md5 = m
    /\ hit.method = "sha256" => /\ hit.entry \in DOMAIN db
                                /\ db[hit.entry].sha256 = s
============================================================================
