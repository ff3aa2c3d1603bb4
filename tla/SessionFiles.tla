---------------------------- MODULE SessionFiles ----------------------------
(***************************************************************************)
(* The files of a session as the host sees them: what secrets do to them,  *)
(* what a snapshot holds of them, and which of them may be run.  A file's  *)
(* bytes are a sequence of tokens: a piece of text, a piece of code (which *)
(* makes the file something else than UTF-8), the placeholder ${n} or the  *)
(* value of secret n.                                                      *)
(***************************************************************************)
EXTENDS Integers, Sequences, SequencesExt, FiniteSetsExt

CONSTANTS
    Paths,
    NameOrder,      \* the names of the secrets, in the order of a BTreeMap
    BytesOf,        \* BytesOf[l]: the bytes of the file that chunk layout l describes
    LayoutOf,       \* LayoutOf[r][p]: the layout of p in the chunk manifest with root r
    NamedBytes,     \* NamedBytes[i][p]: the bytes whose digest flat manifest i gives for p
    Images          \* byte sequences that are complete ELF images

None == 0           \* no manifest, no root, no ceiling

Text(x) == <<"text", x>>
Code(x) == <<"code", x>>
Mark(n) == <<"mark", n>>
Value(n) == <<"value", n>>

Absent == [kind |-> "absent"]
File(data, cap) == [kind |-> "file", data |-> data, cap |-> cap]
Whole(data) == File(data, Len(data))
Chunked(l) == [kind |-> "chunked", layout |-> l]

-----------------------------------------------------------------------------
(* Literal substitution.                                                   *)

Substituted(data, Onto(_)) ==
    IF \E i \in DOMAIN data : data[i][1] = "code"
    THEN data
    ELSE [i \in DOMAIN data |-> Onto(data[i])]

Expanded(data, names) ==
    Substituted(data, LAMBDA t : IF t[1] = "mark" /\ t[2] \in names THEN Value(t[2]) ELSE t)

Redacted(data, names) ==
    Substituted(data, LAMBDA t : IF t[1] = "value" /\ t[2] \in names THEN Mark(t[2]) ELSE t)

NamesOf(secrets) == {s.name : s \in secrets}

\* A file that must be rewritten is made resident first, if its chunks are here.
Materialized(f, chunks) ==
    IF f.kind = "chunked" /\ f.layout \in chunks THEN Whole(BytesOf[f.layout]) ELSE f

\* A file whose bytes change gets a buffer of their size.
WithBytes(f, data) == IF data = f.data THEN f ELSE Whole(data)

RewriteAt(r, chunks, p, names) ==
    LET f == Materialized(r.files[p], chunks)
    IN IF r.ok /\ f.kind = "file"
       THEN [r EXCEPT !.files[p] = WithBytes(f, Expanded(f.data, names))]
       ELSE [r EXCEPT !.ok = FALSE]

Everywhere(secrets) == {s.name : s \in {x \in secrets : x.paths = {}}}

\* rewrite_files: every regular file, in the order of the arena.
RewriteFiles(r, chunks, order, names) ==
    FoldLeft(LAMBDA acc, p : IF r.files[p].kind = "absent" THEN acc
                             ELSE RewriteAt(acc, chunks, p, names),
             r, IF names = {} THEN <<>> ELSE order)

ScopedRewrites(secrets, order) ==
    FlattenSeq([i \in DOMAIN NameOrder |->
        LET paths == UNION {s.paths : s \in {x \in secrets : x.name = NameOrder[i]}}
        IN [j \in DOMAIN SelectSeq(order, LAMBDA p : p \in paths) |->
               <<SelectSeq(order, LAMBDA p : p \in paths)[j], NameOrder[i]>>]])

ExpandSecrets(files, chunks, secrets, order) ==
    FoldLeft(LAMBDA acc, x : IF acc.ok THEN RewriteAt(acc, chunks, x[1], {x[2]}) ELSE acc,
             RewriteFiles([files |-> files, ok |-> TRUE], chunks, order, Everywhere(secrets)),
             ScopedRewrites(secrets, order))

-----------------------------------------------------------------------------
(* Snapshots.                                                              *)

RewriteResident(files, Onto(_, _)) ==
    [p \in Paths |-> IF files[p].kind = "file"
                     THEN WithBytes(files[p], Onto(p, files[p].data)) ELSE files[p]]

InScope(secrets, p) == {s.name : s \in {x \in secrets : x.paths = {} \/ p \in x.paths}}

\* Mutant: a value is looked for only in the files of its scope.
RedactedInScope(files, secrets) ==
    RewriteResident(files, LAMBDA p, d : Redacted(d, InScope(secrets, p)))

RedactedFiles(files, secrets) ==
    IF secrets = {} THEN files
    ELSE RewriteResident(files, LAMBDA p, d : Redacted(d, NamesOf(secrets)))

RestoreResidentSecrets(files, secrets) ==
    IF secrets = {} THEN files
    ELSE RewriteResident(files, LAMBDA p, d : Expanded(d, InScope(secrets, p)))

TakenOut(files, excluded) ==
    [p \in Paths |-> IF p \in excluded /\ files[p].kind = "file" THEN Whole(<<>>) ELSE files[p]]

PutBack(files, excluded, held) ==
    [p \in Paths |-> IF p \in excluded /\ files[p].kind = "file" THEN held[p] ELSE files[p]]

Serialize(files, root) == [kind |-> "image", files |-> files, root |-> root]

\* export_fs_excluding: the image, and what it leaves of the live files.
Export(files, root, secrets, excluded) ==
    LET redacted == RedactedFiles(files, secrets)
        taken == TakenOut(redacted, excluded)
    IN [image |-> Serialize(taken, root),
        files |-> RestoreResidentSecrets(PutBack(taken, excluded, redacted), secrets)]

Deserializes(image) ==
    /\ image.kind = "image"
    /\ image.root = None => \A p \in Paths : image.files[p].kind # "chunked"

-----------------------------------------------------------------------------
(* What the machine holds, and what it may run.                            *)

BytesAt(k, p) ==
    CASE k.files[p].kind = "file" -> k.files[p].data
      [] k.files[p].kind = "chunked" -> BytesOf[k.files[p].layout]
      [] k.files[p].kind = "absent" -> <<>>

Footprint(k) ==
    MapThenSumSet(LAMBDA p : IF k.files[p].kind = "file" THEN k.files[p].cap ELSE 0, Paths)
      + MapThenSumSet(LAMBDA l : Len(BytesOf[l]), k.chunks)

CheckBudget(k, adding) == k.memory # None => Footprint(k) + adding <= k.memory

\* check_against_manifest, for bytes whose digest was taken.
CheckAgainstManifest(k, p, bytes) ==
    k.manifest # None => p \in DOMAIN NamedBytes[k.manifest] /\ bytes = NamedBytes[k.manifest][p]

ByChunkManifest(k, p) ==
    /\ k.root = k.authority
    /\ p \in DOMAIN LayoutOf[k.authority]
    /\ CASE k.files[p].kind = "chunked" -> k.files[p].layout = LayoutOf[k.authority][p]
         [] k.files[p].kind = "file" -> k.files[p].data = BytesOf[LayoutOf[k.authority][p]]

Hashed(k, p) == IF k.inFlight[p] # <<>> THEN k.inFlight[p][1] ELSE k.files[p].data

VerifyImage(k, p) ==
    /\ k.files[p].kind # "absent"
    /\ IF k.authority # None THEN ByChunkManifest(k, p)
       ELSE k.files[p].kind = "file" /\ CheckAgainstManifest(k, p, Hashed(k, p))

\* Mutant: the digest of the download vouches for the file ever after.
VerifiedKeepsDigest(k, p) == k

\* A digest taken while an image arrived is used once.
Verified(k, p) ==
    IF k.files[p].kind = "file" /\ k.authority = None /\ k.manifest # None
    THEN [k EXCEPT !.inFlight[p] = <<>>]
    ELSE k
=============================================================================
