---------------------------- MODULE SemanticMemory ----------------------------
(***************************************************************************)
(* The memory of a workspace: the table memory_entries, the vectors of     *)
(* memory.rvf, and memory.rvf.backend, the tag that says which embedding   *)
(* was meant to make the vectors (ruflo-storage/src/memory_sqlite.rs, used *)
(* by `memory ...` in ruflo-cli/src/dispatch.rs and by memory_search in    *)
(* ruflo-mcp/src/dispatcher.rs).                                           *)
(*                                                                         *)
(* Only a rebuild makes vectors: it removes file and tag, forgets the      *)
(* bindings, and embeds the entries one by one.  Nothing makes that one    *)
(* transaction: the other commands go on meanwhile, each of its writes may *)
(* fail, and the process may die between any two.  Left out: contents, so  *)
(* that a vector made of an older content counts as right (an upsert keeps *)
(* the binding); a second rebuild beside the first, which may mix in the   *)
(* vectors of another embedding.                                           *)
(***************************************************************************)
EXTENDS Naturals, Sequences

CONSTANTS
  Keys,        \* namespace and key of an entry
  Hash, Onnx, Bge,   \* the embeddings there are
  NoTag, NoFile,
  Torn,        \* a tag file whose writing failed or was cut off
  MaxVectors   \* bound on the vectors of one file

Backends == {Hash, Onnx, Bge}

ASSUME MemoryAssumption ==
  /\ NoTag \notin Backends /\ Torn \notin Backends \cup {NoTag}
  /\ NoFile \notin Seq([key : Keys, by : Backends])
  /\ MaxVectors \in Nat \ {0}

VARIABLES
  entry,    \* per key: status, and semantic_id, 0 for NULL
  vectors,  \* memory.rvf: id -> key it was made for and embedding that made it
  tag,      \* memory.rvf.backend
  rebuild,  \* where the rebuild is, with which backend, for which entries
  bare      \* the tag was removed from bound vectors that stayed (history)

memoryVars == <<entry, vectors, tag, rebuild, bare>>

Idle == [at |-> "idle", backend |-> NoTag, left |-> {}, key |-> NoTag, by |-> NoTag]

RebuildSteps == {"idle", "vectors", "tag", "bindings", "list", "next", "embedded",
                 "ingested", "tagged"}

MemoryTypeOK ==
  /\ entry \in [Keys -> [status : {"absent", "active", "deleted"}, id : 0..MaxVectors]]
  /\ vectors = NoFile \/ vectors \in Seq([key : Keys, by : Backends])
  /\ tag \in Backends \cup {NoTag, Torn}
  /\ rebuild \in [at : RebuildSteps, backend : Backends \cup {NoTag},
                  left : SUBSET Keys, key : Keys \cup {NoTag},
                  by : Backends \cup {NoTag}]
  /\ bare \in BOOLEAN

\* A new workspace, or one with a database of the Node version, whose bindings
\* are to vectors that do not come with it.
MemoryInit ==
  /\ \/ entry = [k \in Keys |-> [status |-> "absent", id |-> 0]]
     \/ \E k \in Keys : entry = [j \in Keys |-> IF j = k THEN [status |-> "active", id |-> 1]
                                             ELSE [status |-> "absent", id |-> 0]]
  /\ vectors = NoFile
  /\ tag = NoTag
  /\ rebuild = Idle
  /\ bare = FALSE

InUse(k) == entry[k].status = "active"

------------------------------------------------------------------------------
\* A deleted entry that is stored again comes back with its binding.
Store(k) ==
  /\ entry' = [entry EXCEPT ![k].status = "active"]
  /\ UNCHANGED <<vectors, tag, rebuild, bare>>

Delete(k) ==
  /\ InUse(k)
  /\ entry' = [entry EXCEPT ![k].status = "deleted"]
  /\ UNCHANGED <<vectors, tag, rebuild, bare>>

Purge(ks) ==
  /\ entry' = [k \in Keys |-> IF k \in ks THEN [status |-> "absent", id |-> 0] ELSE entry[k]]
  /\ UNCHANGED <<vectors, tag, rebuild, bare>>

------------------------------------------------------------------------------
\* rebuild_memory_index takes the best embedding that is installed.
StartRebuild(b) ==
  /\ rebuild.at = "idle"
  /\ rebuild' = [Idle EXCEPT !.at = "vectors", !.backend = b]
  /\ UNCHANGED <<entry, vectors, tag, bare>>

\* reset_semantic_index: either file may refuse to go, and nobody looks.
RemoveVectors ==
  /\ rebuild.at = "vectors"
  /\ vectors' \in {NoFile, vectors}
  /\ rebuild' = [rebuild EXCEPT !.at = "tag"]
  /\ UNCHANGED <<entry, tag, bare>>

RemoveTag ==
  /\ rebuild.at = "tag"
  /\ \/ tag' = NoTag /\ bare' = (vectors # NoFile)
     \/ UNCHANGED <<tag, bare>>
  /\ rebuild' = [rebuild EXCEPT !.at = "bindings"]
  /\ UNCHANGED <<entry, vectors>>

\* One UPDATE of all rows, the deleted ones too; the rebuild ends when it fails.
ForgetBindings ==
  /\ rebuild.at = "bindings"
  /\ \/ /\ entry' = [k \in Keys |-> [entry[k] EXCEPT !.id = 0]]
        /\ rebuild' = [rebuild EXCEPT !.at = "list"]
        /\ bare' = FALSE
     \/ UNCHANGED <<entry, bare>> /\ rebuild' = Idle
  /\ UNCHANGED <<vectors, tag>>

ListEntries ==
  /\ rebuild.at = "list"
  /\ rebuild' = [rebuild EXCEPT !.at = "next", !.left = {k \in Keys : InUse(k)}]
  /\ UNCHANGED <<entry, vectors, tag, bare>>

\* What embed() may make its vector with: the ONNX model that fails on a text is
\* replaced by the hash, and the rebuild drops the word that says so; BGE is not.
MadeBy(b) == IF b = Onnx THEN {Onnx, Hash} ELSE {b}

\* The next entry is embedded; one whose BGE embedding fails, or that the tag of
\* another backend refuses, is skipped with a warning.
Embed(k) ==
  /\ rebuild.at = "next"
  /\ k \in rebuild.left
  /\ LET rest == [rebuild EXCEPT !.left = @ \ {k}]
     IN  \/ /\ rebuild.backend = Bge \/ tag \notin {NoTag, rebuild.backend}
            /\ rebuild' = rest
         \/ /\ tag \in {NoTag, rebuild.backend}
            /\ \E by \in MadeBy(rebuild.backend) :
                 rebuild' = [rest EXCEPT !.at = "embedded", !.key = k, !.by = by]
  /\ UNCHANGED <<entry, vectors, tag, bare>>

Skip == rebuild' = [rebuild EXCEPT !.at = "next", !.key = NoTag, !.by = NoTag]

Held == IF vectors = NoFile THEN <<>> ELSE vectors
Made == [key |-> rebuild.key, by |-> rebuild.by]

\* FAULT: the entry is bound with the vector, and the tag written after it.
IngestBound ==
  /\ rebuild.at = "embedded"
  /\ Len(Held) < MaxVectors
  /\ vectors' = Append(Held, Made)
  /\ entry' = IF InUse(rebuild.key) THEN [entry EXCEPT ![rebuild.key].id = Len(Held) + 1] ELSE entry
  /\ rebuild' = [rebuild EXCEPT !.at = "ingested"]
  /\ UNCHANGED <<tag, bare>>

\* ingest_semantic, to the close of memory.rvf: the next number is one more than
\* the vectors there are.  It may fail before or after it has made the file.
Ingest ==
  /\ rebuild.at = "embedded"
  /\ \/ /\ Len(Held) < MaxVectors
        /\ vectors' = Append(Held, Made)
        /\ rebuild' = [rebuild EXCEPT !.at = "ingested"]
     \/ vectors' \in {vectors, Held} /\ Skip
  /\ UNCHANGED <<entry, tag, bare>>

\* set_backend_tag truncates the file before it writes.
SetTag(b) == tag' = b
TearTag   == tag' \in {tag, Torn}

TagVectors ==
  /\ rebuild.at = "ingested"
  /\ \/ SetTag(rebuild.backend) /\ rebuild' = [rebuild EXCEPT !.at = "tagged"]
     \/ TearTag /\ Skip
  /\ UNCHANGED <<entry, vectors, bare>>

\* set_semantic_id: refused when the entry has been deleted meanwhile.
Bind ==
  /\ rebuild.at = "tagged"
  /\ \/ InUse(rebuild.key) /\ entry' = [entry EXCEPT ![rebuild.key].id = Len(vectors)]
     \/ UNCHANGED entry
  /\ Skip
  /\ UNCHANGED <<vectors, tag, bare>>

EndRebuild ==
  /\ rebuild.at = "next"
  /\ rebuild.left = {}
  /\ SetTag(rebuild.backend) \/ TearTag
  /\ rebuild' = Idle
  /\ UNCHANGED <<entry, vectors, bare>>

\* The process dies; half of a tag may have been written.
DieRebuilding ==
  /\ rebuild.at # "idle"
  /\ rebuild' = Idle
  /\ IF rebuild.at = "ingested" \/ (rebuild.at = "next" /\ rebuild.left = {})
     THEN TearTag ELSE UNCHANGED tag
  /\ UNCHANGED <<entry, vectors, bare>>

MemoryNext ==
  \/ \E k \in Keys : Store(k) \/ Delete(k) \/ Embed(k)
  \/ \E ks \in SUBSET Keys : Purge(ks)
  \/ \E b \in Backends : StartRebuild(b)
  \/ RemoveVectors \/ RemoveTag \/ ForgetBindings \/ ListEntries
  \/ Ingest \/ TagVectors \/ Bind \/ EndRebuild \/ DieRebuilding

MemorySpec == MemoryInit /\ [][MemoryNext]_memoryVars

------------------------------------------------------------------------------
(* Correctness *)

\* search_semantic: the vectors that a query made with b is compared to, of
\* those that lead to an entry.
Compared(b) ==
  IF vectors = NoFile \/ tag \notin {NoTag, b} THEN {}
  ELSE {i \in 1..Len(vectors) : \E k \in Keys : InUse(k) /\ entry[k].id = i}

\* A search never answers with an entry for the vector of another, and compares
\* only vectors of rebuilds with the embedding of its query, unless the tag has
\* been removed from vectors that stayed: at every moment of a rebuild, after its
\* failures and its death, and with entries stored, deleted and purged beside it.
\* The vectors of a rebuild are those of its embedding, but for the hash vectors
\* that embed puts in place of ONNX ones: these are SearchesOneEmbedding's.
AnswersAreOfTheEntry ==
  \A b \in Backends : \A i \in Compared(b) :
    /\ ~bare => vectors[i].by \in MadeBy(b)
    /\ \A k \in Keys : entry[k].id = i => vectors[i].key = k

\* "Refuse mixed-backend search: hash vectors # ONNX vectors": a search compares
\* its query with vectors of the same embedding only.  It does not: a rebuild
\* with ONNX takes the hash of a text the model fails on, and tags it as ONNX.
SearchesOneEmbedding ==
  \A b \in Backends : \A i \in Compared(b) : vectors[i].by = b
=============================================================================
