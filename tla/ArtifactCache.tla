---------------------------- MODULE ArtifactCache ----------------------------
(***************************************************************************)
(* One entry of the artifact cache: the folder of a cache key with its     *)
(* four files, shared by every process that runs a gateway or `sgw cache`. *)
(* ArtifactCache.save (cache.py:154-184), get_result with get_html         *)
(* (cache.py:66-152) and the purge of sg-cache are sequences of file       *)
(* operations without a lock, which processes interleave and crashes cut.  *)
(*                                                                         *)
(* A file holds a page (the artifact of one saved result), is Missing, or  *)
(* is Torn: empty, a prefix, or an overlay of two pages.                   *)
(***************************************************************************)
CONSTANTS
    Processes,  \* the processes using the cache
    Pages,      \* the results that are saved, each once; bounds the number of saves
    Missing, Torn,
    Unknown,    \* the entry was last written with interference, or not to the end
    Demanding   \* the processes whose lookups have require_screenshot

ASSUME CacheAssumption ==
    /\ Demanding \subseteq Processes
    /\ Missing \notin Pages /\ Torn \notin Pages /\ Unknown \notin Pages
    /\ Missing # Torn /\ Missing # Unknown

Files == {"html", "markdown", "screenshot", "meta"}

\* What save() stores of a result: html and markdown together or not at all.
PageKinds ==
    {text \cup picture \cup {"meta"} :
        text \in {{}, {"html", "markdown"}}, picture \in {{}, {"screenshot"}}}

Content == Pages \cup {Missing, Torn}

\* The order in which save() deals with the files.
FollowedBy == [html |-> "markdown", markdown |-> "screenshot", screenshot |-> "meta"]

VARIABLES
    folder,     \* the directory of the entry exists
    file,       \* file[f] is the content of f
    stale,      \* the fetched_at in the metadata file lies more than the TTL back
    parts,      \* parts[g] are the files page g has, {} before it is saved
    pc,         \* where each process is
    at,         \* the file a saving process is dealing with
    page,       \* the page it saves, Missing when it saves none
    handle,     \* its open file: closed, sole, shared with another writer, or orphan
    victims,    \* the files a purging process has listed and not yet unlinked
    seen,       \* what a lookup has read
    \* history, read by the properties only
    settled,    \* the page, or Missing, left by the last write that was undisturbed
    calm,       \* calm[p]: nobody else wrote to the entry since p's operation began
    late        \* late[p]: the entry had expired before p's lookup began

vars == <<folder, file, stale, parts, pc, at, page, handle, victims, seen,
          settled, calm, late>>

disk == <<folder, file, stale, parts>>
saving == <<at, page, handle>>
looking == <<seen, late>>
history == <<settled, calm>>

Resting == {"idle", "hit", "miss", "lookup_failed", "save_failed"}
Reading == {"find_meta", "read_ttl", "read_html", "find_screenshot", "read_screenshot",
            "find_markdown", "read_markdown", "read_meta"}

Writing(p) == pc[p] \in {"save", "purge"}

Nothing == [f \in Files |-> Missing]

Init ==
    /\ folder = FALSE
    /\ file = Nothing
    /\ stale = FALSE
    /\ parts = [g \in Pages |-> {}]
    /\ pc = [p \in Processes |-> "idle"]
    /\ at = [p \in Processes |-> "html"]
    /\ page = [p \in Processes |-> Missing]
    /\ handle = [p \in Processes |-> "closed"]
    /\ victims = [p \in Processes |-> {}]
    /\ seen = [p \in Processes |-> Nothing]
    /\ settled = Missing
    /\ calm = [p \in Processes |-> FALSE]
    /\ late = [p \in Processes |-> FALSE]

-----------------------------------------------------------------------------
(* History *)

Alone(p) == \A q \in Processes \ {p} : ~Writing(q)

\* p begins to write: whoever is or was at the entry can no longer rely on it.
Disturb(p) ==
    /\ settled' = Unknown
    /\ calm' = [q \in Processes |-> q = p /\ Alone(p)]

\* p has written to the end, leaving the given content.
Settle(p, content) ==
    /\ settled' = IF calm[p] THEN content ELSE settled
    /\ calm' = [calm EXCEPT ![p] = FALSE]

\* p drops what its last lookup read.
Forget(p) ==
    /\ seen' = [seen EXCEPT ![p] = Nothing]
    /\ late' = [late EXCEPT ![p] = FALSE]

-----------------------------------------------------------------------------
(* Saving: cache.py:154-184 *)

Unsaved == {g \in Pages : parts[g] = {}}

\* The folder is taken for granted.
BadMakeFolder == folder' = folder
\* mkdir(parents=True, exist_ok=True)
MakeFolder == folder' = TRUE

StartSave(p) ==
    /\ pc[p] \in Resting
    /\ \E g \in Unsaved, kind \in PageKinds :
        /\ page' = [page EXCEPT ![p] = g]
        /\ parts' = [parts EXCEPT ![g] = kind]
    /\ MakeFolder
    /\ pc' = [pc EXCEPT ![p] = "save"]
    /\ at' = [at EXCEPT ![p] = "html"]
    /\ Disturb(p)
    /\ Forget(p)
    /\ UNCHANGED <<file, stale, handle, victims>>

OnTurn(p) == pc[p] = "save" /\ handle[p] = "closed"
Keeps(p) == at[p] \in parts[page[p]]

\* Other processes with the file p deals with open for writing.
Sharers(p, f) == {q \in Processes \ {p} : at[q] = f /\ handle[q] \in {"sole", "shared"}}

\* write_text() opens the file, which creates or truncates it ...
OpenFile(p) ==
    LET f == at[p] IN
    /\ OnTurn(p) /\ Keeps(p)
    /\ folder
    /\ file' = [file EXCEPT ![f] = Torn]
    /\ handle' = [q \in Processes |->
                    CASE q \in Sharers(p, f)          -> "shared"
                      [] q = p /\ Sharers(p, f) # {} -> "shared"
                      [] q = p /\ Sharers(p, f) = {} -> "sole"
                      [] OTHER                        -> handle[q]]
    /\ stale' = (f # "meta" /\ stale)
    /\ UNCHANGED <<folder, parts, pc, at, page, victims, looking, history>>

\* ... which raises when a purge has removed the folder.
FailSave(p) ==
    /\ OnTurn(p) /\ Keeps(p)
    /\ ~folder
    /\ pc' = [pc EXCEPT ![p] = "save_failed"]
    /\ page' = [page EXCEPT ![p] = Missing]
    /\ at' = [at EXCEPT ![p] = "html"]
    /\ UNCHANGED <<disk, handle, victims, looking, history>>

Advance(p) ==
    \/ /\ at[p] = "meta"
       /\ pc' = [pc EXCEPT ![p] = "idle"]
       /\ page' = [page EXCEPT ![p] = Missing]
       /\ at' = [at EXCEPT ![p] = "html"]
       /\ Settle(p, page[p])
    \/ /\ at[p] # "meta"
       /\ at' = [at EXCEPT ![p] = FollowedBy[at[p]]]
       /\ UNCHANGED <<pc, page, history>>

\* What a file holds once p has written and closed it: two writers that had it open
\* at once may overlay each other, and what goes to an unlinked file is lost.
Written(p) ==
    CASE handle[p] = "sole"   -> {page[p]}
      [] handle[p] = "shared" -> {page[p], Torn}
      [] handle[p] = "orphan" -> {file[at[p]]}

\* open(...).write(...): the file is never closed.
BadWriteFile(p) ==
    /\ pc[p] = "save"
    /\ handle[p] # "closed"
    /\ \E content \in Written(p) : file' = [file EXCEPT ![at[p]] = content]
    /\ Advance(p)
    /\ UNCHANGED <<folder, stale, parts, handle, victims, looking>>

WriteFile(p) ==
    /\ pc[p] = "save"
    /\ handle[p] # "closed"
    /\ \E content \in Written(p) : file' = [file EXCEPT ![at[p]] = content]
    /\ handle' = [handle EXCEPT ![p] = "closed"]
    /\ Advance(p)
    /\ UNCHANGED <<folder, stale, parts, victims, looking>>

\* The artifacts an earlier page had are left in place.
BadWithout(f) == IF f = "screenshot" THEN file ELSE [file EXCEPT ![f] = Missing]
\* unlink(missing_ok=True)
Without(f) == [file EXCEPT ![f] = Missing]

\* The name is gone: who has the file open keeps writing, to nowhere.
Unlinked(f) ==
    [q \in Processes |-> IF at[q] = f /\ handle[q] # "closed" THEN "orphan" ELSE handle[q]]

\* An artifact the result does not have is removed.
RemoveFile(p) ==
    /\ OnTurn(p) /\ ~Keeps(p)
    /\ file' = Without(at[p])
    /\ handle' = Unlinked(at[p])
    /\ Advance(p)
    /\ UNCHANGED <<folder, stale, parts, victims, looking>>

-----------------------------------------------------------------------------
(* Lookup: get_html (cache.py:78-93), then get_result (cache.py:107-152) *)

Goto(p, place) == pc' = [pc EXCEPT ![p] = place]
Record(p, f, content) == seen' = [seen EXCEPT ![p][f] = content]

StartLookup(p) ==
    /\ pc[p] \in Resting
    /\ Goto(p, IF file["html"] = Missing THEN "miss" ELSE "find_meta")
    /\ seen' = [seen EXCEPT ![p] = Nothing]
    /\ late' = [late EXCEPT ![p] = stale]
    /\ calm' = [calm EXCEPT ![p] = Alone(p)]
    /\ UNCHANGED <<disk, saving, victims, settled>>

\* meta_path.exists(), meta_path.read_text(): metadata that cannot be parsed is ignored,
\* and so is the lack of it. With a TTL of 0 nothing expires.
FindMeta(p) ==
    /\ pc[p] = "find_meta"
    /\ Goto(p, IF file["meta"] # Missing THEN "read_ttl" ELSE "read_html")
    /\ UNCHANGED <<disk, saving, victims, looking, history>>

\* The age of the page is not looked at.
BadAfterTtl(content) == IF content = Missing THEN "lookup_failed" ELSE "read_html"
AfterTtl(content) ==
    CASE content = Missing            -> "lookup_failed"
      [] content \in Pages /\ stale -> "miss"
      [] OTHER                        -> "read_html"

ReadTtl(p) ==
    /\ pc[p] = "read_ttl"
    /\ Goto(p, AfterTtl(file["meta"]))
    /\ UNCHANGED <<disk, saving, victims, looking, history>>

\* read_text() of f: it raises when f is gone, and may raise when f is no valid UTF-8.
ReadText(p, f, from, to) ==
    /\ pc[p] = from
    /\ \/ /\ file[f] \in {Missing, Torn}
          /\ Goto(p, "lookup_failed")
          /\ UNCHANGED seen
       \/ /\ file[f] # Missing
          /\ Goto(p, to)
          /\ Record(p, f, file[f])
    /\ UNCHANGED <<disk, saving, victims, late, history>>

ReadHtml(p) == ReadText(p, "html", "read_html", "find_screenshot")

FindScreenshot(p) ==
    /\ pc[p] = "find_screenshot"
    /\ Goto(p, IF file["screenshot"] # Missing THEN "read_screenshot"
               ELSE IF p \in Demanding THEN "miss" ELSE "find_markdown")
    /\ UNCHANGED <<disk, saving, victims, looking, history>>

\* read_bytes(); an empty screenshot is none.
ReadScreenshot(p) ==
    /\ pc[p] = "read_screenshot"
    /\ \/ /\ file["screenshot"] = Missing
          /\ Goto(p, "lookup_failed")
          /\ UNCHANGED seen
       \/ /\ file["screenshot"] = Torn /\ p \in Demanding
          /\ Goto(p, "miss")
          /\ UNCHANGED seen
       \/ /\ file["screenshot"] # Missing
          /\ Goto(p, "find_markdown")
          /\ Record(p, "screenshot", file["screenshot"])
    /\ UNCHANGED <<disk, saving, victims, late, history>>

\* Without a markdown file the markdown is made from the html that was read.
FindMarkdown(p) ==
    /\ pc[p] = "find_markdown"
    /\ \/ /\ file["markdown"] = Missing
          /\ Goto(p, "read_meta")
          /\ Record(p, "markdown", seen[p]["html"])
       \/ /\ file["markdown"] # Missing
          /\ Goto(p, "read_markdown")
          /\ UNCHANGED seen
    /\ UNCHANGED <<disk, saving, victims, late, history>>

ReadMarkdown(p) == ReadText(p, "markdown", "read_markdown", "read_meta")

\* The source of the page, {} when the metadata is missing, unreadable or invalid.
ReadMeta(p) ==
    /\ pc[p] = "read_meta"
    /\ Goto(p, "hit")
    /\ Record(p, "meta", IF file["meta"] \in Pages THEN file["meta"] ELSE Missing)
    /\ UNCHANGED <<disk, saving, victims, late, history>>

-----------------------------------------------------------------------------
(* Purging: shutil.rmtree(folder, ignore_errors=True), whatever selected the entry *)

StartPurge(p) ==
    /\ pc[p] \in Resting
    /\ folder
    /\ Goto(p, "purge")
    /\ victims' = [victims EXCEPT ![p] = {f \in Files : file[f] # Missing}]
    /\ Disturb(p)
    /\ Forget(p)
    /\ UNCHANGED <<disk, saving>>

PurgeFile(p) ==
    /\ pc[p] = "purge"
    /\ \E f \in victims[p] :
        /\ file' = [file EXCEPT ![f] = Missing]
        /\ handle' = Unlinked(f)
        /\ victims' = [victims EXCEPT ![p] = @ \ {f}]
    /\ UNCHANGED <<folder, stale, parts, pc, at, page, looking, history>>

\* rmdir() fails on a folder with files; another purge's listing dies with the folder.
PurgeFolder(p) ==
    /\ pc[p] = "purge"
    /\ victims[p] = {}
    /\ \/ /\ file = Nothing
          /\ folder' = FALSE
          /\ victims' = [q \in Processes |-> {}]
       \/ /\ file # Nothing
          /\ UNCHANGED <<folder, victims>>
    /\ Goto(p, "idle")
    /\ Settle(p, Missing)
    /\ UNCHANGED <<file, stale, parts, saving, looking>>

-----------------------------------------------------------------------------

\* The process dies, and another takes its place.
Crash(p) ==
    /\ pc[p] \notin Resting
    /\ Goto(p, "idle")
    /\ handle' = [handle EXCEPT ![p] = "closed"]
    /\ victims' = [victims EXCEPT ![p] = {}]
    /\ page' = [page EXCEPT ![p] = Missing]
    /\ at' = [at EXCEPT ![p] = "html"]
    /\ Forget(p)
    /\ UNCHANGED <<disk, history>>

\* The entry outlives its TTL.
Expire ==
    /\ file["meta"] \in Pages
    /\ ~stale
    /\ stale' = TRUE
    /\ UNCHANGED <<folder, file, parts, pc, saving, victims, looking, history>>

Next ==
    \/ \E p \in Processes :
        \/ StartSave(p) \/ OpenFile(p) \/ WriteFile(p) \/ RemoveFile(p) \/ FailSave(p)
        \/ StartLookup(p) \/ FindMeta(p) \/ ReadTtl(p) \/ ReadHtml(p)
        \/ FindScreenshot(p) \/ ReadScreenshot(p) \/ FindMarkdown(p) \/ ReadMarkdown(p)
        \/ ReadMeta(p)
        \/ StartPurge(p) \/ PurgeFile(p) \/ PurgeFolder(p)
        \/ Crash(p)
    \/ Expire

Spec == Init /\ [][Next]_vars

-----------------------------------------------------------------------------
(* Properties *)

\* Every variable has its type; a process has a file open only while it saves.
TypeOK ==
    /\ folder \in BOOLEAN
    /\ file \in [Files -> Content]
    /\ stale \in BOOLEAN
    /\ parts \in [Pages -> PageKinds \cup {{}}]
    /\ pc \in [Processes -> Resting \cup Reading \cup {"save", "purge"}]
    /\ at \in [Processes -> Files]
    /\ page \in [Processes -> Pages \cup {Missing}]
    /\ handle \in [Processes -> {"closed", "sole", "shared", "orphan"}]
    /\ victims \in [Processes -> SUBSET Files]
    /\ seen \in [Processes -> [Files -> Content]]
    /\ settled \in Pages \cup {Missing, Unknown}
    /\ calm \in [Processes -> BOOLEAN]
    /\ late \in [Processes -> BOOLEAN]
    /\ \A p \in Processes : handle[p] # "closed" => pc[p] = "save"

\* What the entry holds when page g, or nothing, was stored as a whole.
Holding(content) ==
    [f \in Files |-> IF content \in Pages /\ f \in parts[content] THEN content ELSE Missing]

\* A save or a purge that nobody disturbs leaves exactly its page, or nothing, whatever
\* crashes and races left in the folder before: save() deals with every one of the four
\* files (cache.py:169-184), so no artifact of an older page survives it.
UndisturbedWriteHolds == settled # Unknown => file = Holding(settled)

\* A lookup during which nobody writes, in an entry last written undisturbed, answers
\* with that page, all of it and no older than the TTL, and misses only when there is
\* none, it has expired or it lacks the screenshot asked for (get_result, cache.py:95).
QuietLookupIsExact ==
    \A p \in Processes : calm[p] /\ settled # Unknown =>
        /\ pc[p] = "hit" =>
            /\ seen[p] = Holding(settled)
            /\ "html" \in parts[settled]
            /\ ~late[p]
            /\ p \in Demanding => "screenshot" \in parts[settled]
        /\ pc[p] = "miss" =>
            \/ settled = Missing
            \/ "html" \notin parts[settled]
            \/ stale
            \/ p \in Demanding /\ "screenshot" \notin parts[settled]

\* A save that nobody disturbs never raises, whatever earlier crashes left behind, and
\* neither does a lookup in an entry last written undisturbed: exceptions out of the
\* cache are out of scrape() too (router.py:574, 922), and cost the page just paid for.
UndisturbedNeverFails ==
    \A p \in Processes : calm[p] =>
        /\ pc[p] # "save_failed"
        /\ settled # Unknown => pc[p] # "lookup_failed"

\* "Restore a complete cached result without mixing artifact generations"
\* (cache.py:106): no two artifacts of a hit are those of different pages.
HitIsOneGeneration ==
    \A p \in Processes : pc[p] = "hit" =>
        \A f, g \in {"html", "markdown", "screenshot"} :
            seen[p][f] \in Pages /\ seen[p][g] \in Pages => seen[p][f] = seen[p][g]
=============================================================================
