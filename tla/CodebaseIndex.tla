---------------------------- MODULE CodebaseIndex ----------------------------
(***************************************************************************)
(* Codebase Comprehension: the chunker that cuts a file into symbols by    *)
(* the indentation of its lines (chunker.py), the bounded store of indices *)
(* (index_store.py) and the embeddings written in batches of one           *)
(* transaction (vector_store.py, the embed route and the indexing          *)
(* activity).  What the parsers find in a file is the set of its           *)
(* definition lines.                                                       *)
(***************************************************************************)
EXTENDS Integers, Sequences, FiniteSets, FiniteSetsExt

CONSTANTS
    Depths,           \* indentations
    MaxSourceLines,   \* bound: lines of a file
    Roots,            \* directories that are indexed
    MaxIndices,       \* MAX_INDICES
    MaxStores,        \* bound: indices stored
    Embedders,        \* concurrent calls that embed a directory
    EmbedBatch,       \* BATCH_SIZE
    MaxChunks         \* bound: chunks of a directory

ASSUME CodebaseAssumption == Depths \subseteq Int /\ MaxIndices \in Nat \ {0} /\ EmbedBatch \in Nat \ {0}

VARIABLES
    source,      \* the lines of a file
    indices,     \* _indices: roots, oldest first
    storedRoots, \* history: the roots given to store
    embeddings,  \* rows of code_embeddings: [by, chunk]
    embedder     \* embedder -> [at, chunks, sent]

storeIndexVars == <<indices, storedRoots>>
codebaseVars == <<source, indices, storedRoots, embeddings, embedder>>

-----------------------------------------------------------------------------
(* SemanticChunker *)

\* A comment and a decorator are told apart by nobody.
Lines == [kind : {"def", "code", "mark"}, indent : Depths] \cup {[kind |-> "blank", indent |-> 0]}
Sources == UNION {[1 .. n -> Lines] : n \in 0 .. MaxSourceLines}
Symbols == {i \in DOMAIN source : source[i].kind = "def"}

\* Fault: a line with the indentation of the definition is still taken for its body.
ClosesBlockBelow(line, start) == line.indent < source[start].indent
\* A line that is not deeper than the definition ends it.
ClosesBlock(line, start) == line.indent <= source[start].indent

\* One more line: where the symbol ends so far, and whether it goes on.
Scanned(before, i, start) ==
    IF ~before.open \/ source[i].kind = "blank" THEN before
    ELSE IF ClosesBlock(source[i], start) THEN [end |-> before.end, open |-> FALSE]
    ELSE [end |-> i, open |-> TRUE]

\* _estimate_end_line and _estimate_class_end: blank lines neither end a symbol nor are its last.
EstimateEndLine(start) ==
    LET scan[i \in start .. Len(source)] ==
            IF i = start THEN [end |-> start, open |-> TRUE] ELSE Scanned(scan[i - 1], i, start)
    IN scan[Len(source)].end

\* Fault: a blank line between a decorator and its definition ends the context.
IsContextMarks(line) == line.kind = "mark"
IsContext(line) == line.kind \in {"mark", "blank"}

\* _build_chunk: the line above a symbol is taken whatever it is, then contiguous comments,
\* decorators and blank lines.
ContextStart(start) ==
    LET above == {i \in 1 .. start - 1 : \A j \in i .. start - 1 : IsContext(source[j])}
    IN IF above # {} THEN Min(above) ELSE Max({1, start - 1})

-----------------------------------------------------------------------------
(* IndexStore *)

Places(root) == {k \in DOMAIN indices : indices[k] = root}
Added(root) == Append(IF Len(indices) >= MaxIndices THEN Tail(indices) ELSE indices, root)
MovedToEnd(p) ==
    [k \in DOMAIN indices |-> indices[IF k < p THEN k ELSE IF k < Len(indices) THEN k + 1 ELSE p]]

\* Fault: an index that is stored again keeps its place.
StoredIndexInPlace(root) == IF Places(root) # {} THEN indices ELSE Added(root)
\* An index that is stored again becomes the latest, another one may drive out the oldest.
StoredIndex(root) == IF Places(root) # {} THEN MovedToEnd(CHOOSE p \in Places(root) : TRUE) ELSE Added(root)

\* POST /index: a directory that cannot be indexed raises before anything is stored.
IndexDirectory(root) ==
    /\ Len(storedRoots) < MaxStores
    /\ indices' = StoredIndex(root)
    /\ storedRoots' = Append(storedRoots, root)
    /\ UNCHANGED <<source, embeddings, embedder>>

-----------------------------------------------------------------------------
(* VectorStore.store_embeddings *)

NotEmbedding == [at |-> "idle", chunks |-> 0, sent |-> 0]

BeginEmbed(z, n) ==
    /\ embedder[z].at = "idle" /\ ~\E row \in embeddings : row.by = z
    /\ embedder' = [embedder EXCEPT ![z] = [at |-> IF n = 0 THEN "done" ELSE "insert", chunks |-> n, sent |-> 0]]
    /\ UNCHANGED <<source, storeIndexVars, embeddings>>

RowsUpTo(z, n) == {[by |-> z, chunk |-> c] : c \in 1 .. n}
NextSent(z) == Min({embedder[z].sent + EmbedBatch, embedder[z].chunks})

\* Fault: every batch is committed by itself.
VisibleEarly(z) == embeddings' = embeddings \cup RowsUpTo(z, NextSent(z))
\* What the others see after a batch: nothing, the session has not committed.
Visible(z) == UNCHANGED embeddings

InsertBatch(z) ==
    /\ embedder[z].at = "insert"
    /\ embedder' = [embedder EXCEPT ![z].sent = NextSent(z),
                                    ![z].at = IF NextSent(z) = embedder[z].chunks THEN "commit" ELSE "insert"]
    /\ Visible(z)
    /\ UNCHANGED <<source, storeIndexVars>>

CommitEmbed(z) ==
    /\ embedder[z].at = "commit"
    /\ embeddings' = embeddings \cup RowsUpTo(z, embedder[z].sent)
    /\ embedder' = [embedder EXCEPT ![z].at = "done"]
    /\ UNCHANGED <<source, storeIndexVars>>

\* A statement fails: the session is rolled back as it closes.
EmbedFails(z) ==
    /\ embedder[z].at \in {"insert", "commit"}
    /\ embedder' = [embedder EXCEPT ![z].at = "failed"]
    /\ UNCHANGED <<source, storeIndexVars, embeddings>>

-----------------------------------------------------------------------------
CodebaseInit ==
    /\ source \in Sources
    /\ indices = <<>> /\ storedRoots = <<>>
    /\ embeddings = {}
    /\ embedder = [z \in Embedders |-> NotEmbedding]

IndexNext == \E root \in Roots : IndexDirectory(root)

EmbedNext ==
    \E z \in Embedders :
        \/ \E n \in 0 .. MaxChunks : BeginEmbed(z, n)
        \/ InsertBatch(z) \/ CommitEmbed(z) \/ EmbedFails(z)

CodebaseSpec == CodebaseInit /\ [][IndexNext \/ EmbedNext]_codebaseVars

-----------------------------------------------------------------------------
\* The chunks of a file are nested the way its blocks are: two symbols have chunks apart from
\* each other, or the deeper one's lies within the other's.  A line belongs to every chunk that
\* could be its own and to no stranger's.
ChunksNest ==
    \A i, j \in Symbols : i < j =>
        \/ EstimateEndLine(i) < j
        \/ source[j].indent > source[i].indent /\ EstimateEndLine(j) <= EstimateEndLine(i)

\* The context of a symbol has every decorator and comment that leads to it, blank lines between
\* them or not, and at most one line of code, the one right above.
ContextLeadsToSymbol ==
    \A s \in Symbols :
        LET before == ContextStart(s) .. s - 1
            code == {i \in before : source[i].kind \in {"def", "code"}}
        IN /\ code \subseteq {s - 1} /\ (code # {} => before = {s - 1})
           /\ \A i \in 1 .. s - 1 :
                source[i].kind = "mark" /\ (\A j \in i .. s - 1 : source[j].kind \in {"mark", "blank"}) => i \in before

\* The directories that were stored after a directory was stored for the last time.
StoredSince(root) ==
    LET times == {k \in DOMAIN storedRoots : storedRoots[k] = root}
    IN {storedRoots[k] : k \in {m \in DOMAIN storedRoots : m > Max(times)}}

\* The store holds the directories indexed last, up to its size, and no other.
LatestIndicesStay ==
    {indices[i] : i \in DOMAIN indices} = {root \in Range(storedRoots) : Cardinality(StoredSince(root)) < MaxIndices}

\* Nobody finds half the embeddings of a directory: a call that fails at a batch leaves none,
\* one that succeeded left all.
EmbeddingsAreWhole ==
    \A z \in Embedders :
        LET found == {row \in embeddings : row.by = z} IN
        Cardinality(found) = IF embedder[z].at = "done" THEN embedder[z].chunks ELSE 0

\* Chunks follow the blocks of the file, the store keeps what was indexed last, and a directory
\* is embedded as a whole or not at all, failures and concurrent calls included.
IndexIsFaithful ==
    /\ ChunksNest
    /\ ContextLeadsToSymbol
    /\ LatestIndicesStay
    /\ EmbeddingsAreWhole
=============================================================================
