--------------------------- MODULE KnowledgeBase ---------------------------
(***************************************************************************)
(* The knowledge base of the document parser: a document whose structure a  *)
(* structure index computes, and a cache of these structures on disk.  The  *)
(* cache is a marker file and a directory with one entry per name; it has   *)
(* no lock.  Queries fill it, whoever clears it verifies it first, others   *)
(* may damage it, and any of them may die between two steps.                *)
(***************************************************************************)
EXTENDS StructureIndex, FiniteSets

CONSTANTS
  Clearer,
  Flat,        \* the contents without a node below the first
  Junk,        \* an entry that is none
  MaxQueries, MaxClears,
  MaxMishaps   \* upgrades, edits, damages, failures and deaths together

ASSUME FlatAssumption  == Flat \subseteq Content
ASSUME NullAssumption  == NoStructure \notin Structure /\ Junk \notin Structure \cup {NoStructure}
ASSUME KbBoundAssumption == {MaxVersion, MaxQueries, MaxClears, MaxMishaps} \subseteq Nat /\ MaxVersion > 0

VARIABLES
  entries,   \* <key>.json, by what the key is made of
  strays,    \* the queries with a temporary file in the directory
  foreign,   \* a file nobody removes: of others, or of a query that has died
  dir,       \* whether the directory exists
  mark,      \* the marker
  query, clear, queries, clears, mishaps

files     == <<entries, strays, foreign, dir, mark>>
bounds    == <<queries, clears, mishaps>>
cacheVars == <<files, query, clear, bounds>>
kbVars    == <<indexVars, cacheVars>>

\* Where a query and a clearing are.
QueryPc == {"idle", "identify", "hash", "mark", "load", "index", "recheck",
            "open", "entry", "marker", "done"}
ClearPc == {"idle", "unlink", "rmdir", "unmark", "done", "raised"}

Query == [at : QueryPc, version : Version \cup {Gone}, content : Content,
          result : Structure \cup {NoStructure}, served : BOOLEAN]
Clear == [at : ClearPc, seen : SUBSET Op]

NoQuery == [at |-> "idle", version |-> Gone, content |-> input,
            result |-> NoStructure, served |-> FALSE]
NoClear == [at |-> "idle", seen |-> {}]

KbTypeOK ==
  /\ entries \in [Op -> Structure \cup {NoStructure, Junk}]
  /\ strays \subseteq Client /\ foreign \in BOOLEAN /\ dir \in BOOLEAN
  /\ mark \in {"none", "ours", "other"}
  /\ query \in [Client -> Query] /\ clear \in [Clearer -> Clear]
  /\ queries \in 0..MaxQueries /\ clears \in 0..MaxClears /\ mishaps \in 0..MaxMishaps
  /\ ~dir => strays = {} /\ ~foreign /\ \A op \in Op : entries[op] = NoStructure

\* The path of the marker may be that of an older cache.
KbInit ==
  /\ IndexInit
  /\ entries = [op \in Op |-> NoStructure]
  /\ strays = {} /\ foreign = FALSE /\ dir = FALSE /\ mark \in {"none", "other"}
  /\ query = [q \in Client |-> NoQuery] /\ clear = [k \in Clearer |-> NoClear]
  /\ queries = 0 /\ clears = 0 /\ mishaps = 0

Mishap == mishaps < MaxMishaps /\ mishaps' = mishaps + 1

Key(q)   == <<query[q].content, query[q].version>>
Whole(s) == s \in Structure /\ s.of \notin Flat

Moves(q, step) == query' = [query EXCEPT ![q].at = step]
Serves(q, s) ==
  query' = [query EXCEPT ![q].at = "done", ![q].result = s, ![q].served = TRUE]
\* KnowledgeBaseUnavailable: the parser goes on without the knowledge base.
Degrades(q) ==
  query' = [query EXCEPT ![q].at = "done", ![q].result = NoStructure, ![q].served = FALSE]

-----------------------------------------------------------------------------
StartQuery(q) ==
  /\ query[q].at \in {"idle", "done"} /\ queries < MaxQueries
  /\ queries' = queries + 1
  /\ query' = [query EXCEPT ![q] = [NoQuery EXCEPT !.at = "identify"]]
  /\ UNCHANGED <<indexVars, files, clear, clears, mishaps>>

\* _provider_identity.  A second look, through probe, is this step at a later time.
Identify(q) ==
  /\ query[q].at = "identify"
  /\ IF Fingerprint = Gone THEN Degrades(q)
     ELSE query' = [query EXCEPT ![q].at = "hash", ![q].version = Fingerprint]
  /\ UNCHANGED <<indexVars, files, clear, bounds>>

\* With force_reindex the cache is not looked at.
Hash(q) ==
  /\ query[q].at = "hash"
  /\ \E next \in {"mark", "index"} :
       query' = [query EXCEPT ![q].at = next, ![q].content = input]
  /\ UNCHANGED <<indexVars, files, clear, bounds>>

\* _load_cache_entry reads the marker, and then the entry.
LoadMarker(q) ==
  /\ query[q].at = "mark"
  /\ Moves(q, IF mark = "ours" THEN "load" ELSE "index")
  /\ UNCHANGED <<indexVars, files, clear, bounds>>

LoadEntry(q) ==
  /\ query[q].at = "load"
  /\ IF Whole(entries[Key(q)]) THEN Serves(q, entries[Key(q)]) ELSE Moves(q, "index")
  /\ UNCHANGED <<indexVars, files, clear, bounds>>

\* The index names its structure by the version it sees itself.
AskIndex(q) ==
  /\ query[q].at = "index"
  /\ Ask(q, query[q].content)
  /\ Moves(q, "recheck")
  /\ UNCHANGED <<files, clear, bounds>>

\* Mutant: the identity is not looked at again after the indexing.
RecheckNothing(q) ==
  /\ query[q].at = "recheck" /\ request[q].at = "answered"
  /\ IF request[q].status = "success" /\ Whole(request[q].result)
     THEN query' = [query EXCEPT ![q].at = "open", ![q].result = request[q].result]
     ELSE Degrades(q)
  /\ UNCHANGED <<indexVars, files, clear, bounds>>

Recheck(q) ==
  /\ query[q].at = "recheck" /\ request[q].at = "answered"
  /\ IF /\ request[q].status = "success"
        /\ Fingerprint = query[q].version
        /\ Whole(request[q].result)
     THEN query' = [query EXCEPT ![q].at = "open", ![q].result = request[q].result]
     ELSE Degrades(q)
  /\ UNCHANGED <<indexVars, files, clear, bounds>>

-----------------------------------------------------------------------------
\* _write_json_atomic of the entry: the directory and a temporary file, then its
\* new name.
OpenTemporary(q) ==
  /\ query[q].at = "open"
  /\ dir' = TRUE
  /\ strays' = strays \cup {q}
  /\ Moves(q, "entry")
  /\ UNCHANGED <<indexVars, entries, foreign, mark, clear, bounds>>

ReplaceEntry(q) ==
  /\ query[q].at = "entry"
  /\ entries' = [entries EXCEPT ![Key(q)] = query[q].result]
  /\ strays' = strays \ {q}
  /\ Moves(q, "marker")
  /\ UNCHANGED <<indexVars, foreign, dir, mark, clear, bounds>>

\* And of the marker, which is beside the directory.
ReplaceMarker(q) ==
  /\ query[q].at = "marker"
  /\ mark' = "ours"
  /\ Serves(q, query[q].result)
  /\ UNCHANGED <<indexVars, entries, strays, foreign, dir, clear, bounds>>

\* Whatever fails, the write has succeeded if the file says what it should.
WriteFails(q) ==
  /\ Mishap
  /\ query[q].at \in {"open", "entry", "marker"}
  /\ strays' = strays \ {q}
  /\ CASE query[q].at = "marker" ->
            IF mark = "ours" THEN Serves(q, query[q].result) ELSE Degrades(q)
       [] OTHER ->
            IF entries[Key(q)] = query[q].result THEN Moves(q, "marker") ELSE Degrades(q)
  /\ UNCHANGED <<indexVars, entries, foreign, dir, mark, clear, queries, clears>>

\* Settings that cannot be loaded, a document that cannot be read.
QueryFails(q) ==
  /\ Mishap
  /\ query[q].at \in {"identify", "hash"}
  /\ Degrades(q)
  /\ UNCHANGED <<indexVars, files, clear, queries, clears>>

\* A temporary file stays behind.
QueryDies(q) ==
  /\ Mishap
  /\ query[q].at \notin {"idle", "done"}
  /\ Vanish(q)
  /\ strays' = strays \ {q}
  /\ foreign' = (foreign \/ q \in strays)
  /\ query' = [query EXCEPT ![q] = NoQuery]
  /\ UNCHANGED <<entries, dir, mark, clear, queries, clears>>

-----------------------------------------------------------------------------
Clears(k, step) == clear' = [clear EXCEPT ![k].at = step]

\* _verify_cache_layout: one marker of ours, and nothing but entries.
Verify(k) ==
  /\ clear[k].at \in {"idle", "done", "raised"} /\ clears < MaxClears
  /\ clears' = clears + 1
  /\ CASE mark = "none" -> clear' = [clear EXCEPT ![k].at = IF dir THEN "raised" ELSE "done"]
       [] mark = "other" -> Clears(k, "raised")
       [] mark = "ours" /\ ~dir -> Clears(k, "unmark")
       [] mark = "ours" /\ dir ->
            IF strays # {} \/ foreign \/ \E op \in Op : entries[op] = Junk
            THEN Clears(k, "raised")
            ELSE clear' = [clear EXCEPT ![k].at = "unlink",
                   ![k].seen = {op \in Op : entries[op] # NoStructure}]
  /\ UNCHANGED <<indexVars, files, query, queries, mishaps>>

\* An entry that somebody else has removed by then raises.
Unlink(k) ==
  /\ clear[k].at = "unlink" /\ clear[k].seen # {}
  /\ \E op \in clear[k].seen :
       IF entries[op] = NoStructure
       THEN clear' = [clear EXCEPT ![k] = [at |-> "raised", seen |-> {}]] /\ UNCHANGED entries
       ELSE /\ entries' = [entries EXCEPT ![op] = NoStructure]
            /\ clear' = [clear EXCEPT ![k].seen = @ \ {op}]
  /\ UNCHANGED <<indexVars, strays, foreign, dir, mark, query, bounds>>

\* Mutant: the directory goes with all that is in it.
RemoveTree(k) ==
  /\ clear[k].at = "unlink" /\ clear[k].seen = {}
  /\ Clears(k, "unmark")
  /\ dir' = FALSE /\ strays' = {} /\ foreign' = FALSE
  /\ entries' = [op \in Op |-> NoStructure]
  /\ UNCHANGED <<indexVars, mark, query, bounds>>

\* Only an empty directory can be removed.
RemoveDir(k) ==
  /\ clear[k].at = "unlink" /\ clear[k].seen = {}
  /\ IF dir /\ strays = {} /\ ~foreign /\ \A op \in Op : entries[op] = NoStructure
     THEN dir' = FALSE /\ Clears(k, "unmark")
     ELSE Clears(k, "raised") /\ UNCHANGED dir
  /\ UNCHANGED <<indexVars, entries, strays, foreign, mark, query, bounds>>

Unmark(k) ==
  /\ clear[k].at = "unmark"
  /\ IF mark = "none" THEN Clears(k, "raised") ELSE Clears(k, "done")
  /\ mark' = "none"
  /\ UNCHANGED <<indexVars, entries, strays, foreign, dir, query, bounds>>

ClearDies(k) ==
  /\ Mishap
  /\ clear[k].at \in {"unlink", "unmark"}
  /\ clear' = [clear EXCEPT ![k] = NoClear]
  /\ UNCHANGED <<indexVars, files, query, queries, clears>>

\* A damaged entry, a file of somebody else.
Damage ==
  /\ Mishap
  /\ \/ \E op \in Op : entries[op] # NoStructure /\ entries' = [entries EXCEPT ![op] = Junk]
                       /\ UNCHANGED foreign
     \/ dir /\ ~foreign /\ foreign' = TRUE /\ UNCHANGED entries
  /\ UNCHANGED <<indexVars, strays, dir, mark, query, clear, queries, clears>>

-----------------------------------------------------------------------------
QueryStep(q) ==
  \/ Identify(q) \/ Hash(q) \/ LoadMarker(q) \/ LoadEntry(q) \/ AskIndex(q) \/ Recheck(q)
  \/ OpenTemporary(q) \/ ReplaceEntry(q) \/ ReplaceMarker(q)

ClearStep(k) == Unlink(k) \/ RemoveDir(k) \/ Unmark(k)

\* What goes on beside the queries.
IndexStep(c) == (Commit(c) \/ Succeed(c) \/ Refuse(c)) /\ UNCHANGED cacheVars
Around ==
  \/ \E c \in Client : IndexStep(c)
  \/ (Upgrade \/ Unread \/ Edit) /\ Mishap /\ UNCHANGED <<files, query, clear, queries, clears>>
  \/ \E k \in Clearer : Verify(k) \/ ClearStep(k) \/ ClearDies(k)
  \/ Damage

-----------------------------------------------------------------------------
\* The cache never contradicts the index: an entry, whoever wrote it and however
\* late, is what the index committed under this content and this version.
CacheAgrees ==
  \A op \in Op : entries[op] \in Structure => entries[op] = committed[op]

\* What a query serves was made from the content it read by the version it saw,
\* through replaced providers, edits, a cleared cache and other queries.
KnowledgeIsTrue ==
  \A q \in Client : query[q].at = "done" /\ query[q].served =>
    Whole(query[q].result) /\ <<query[q].result.of, query[q].result.by>> = Key(q)

KnowledgeIsSound == CacheAgrees /\ KnowledgeIsTrue

\* Clearing removes nothing but entries: no file of others, and no temporary file
\* under the hands of a query.
ClearSpares ==
  [][\A k \in Clearer : clear'[k] # clear[k] =>
       strays' = strays /\ foreign' = foreign /\ (dir' \/ (strays = {} /\ ~foreign))]_kbVars
=============================================================================
