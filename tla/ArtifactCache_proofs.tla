------------------------ MODULE ArtifactCache_proofs ------------------------
(***************************************************************************)
(* Theorems about ArtifactCache, for any processes and pages: types, what  *)
(* an undisturbed write leaves, and what an undisturbed lookup answers.    *)
(***************************************************************************)
EXTENDS ArtifactCache, TLAPS

-----------------------------------------------------------------------------
(* Type correctness *)

\* A process that saves, saves a page.
SavesPage == \A p \in Processes : pc[p] = "save" => page[p] \in Pages /\ parts[page[p]] # {}

\* The steps of one process that read, and do not write.
Look(p) ==
    \/ StartLookup(p) \/ FindMeta(p) \/ ReadTtl(p) \/ ReadHtml(p)
    \/ FindScreenshot(p) \/ ReadScreenshot(p) \/ FindMarkdown(p) \/ ReadMarkdown(p)
    \/ ReadMeta(p)

\* Where a process may be.
Places == Resting \cup Reading \cup {"save", "purge"}

\* A step to a place that is not a saving one, without opening a file.
LEMMA PlaceTyped ==
    ASSUME TypeOK, NEW p \in Processes, NEW place \in Places \ {"save"}, Goto(p, place),
           handle[p] = "closed", UNCHANGED handle
    PROVE  /\ pc' \in [Processes -> Places]
           /\ \A q \in Processes : handle'[q] # "closed" => pc'[q] = "save"
BY DEF TypeOK, Goto, Places

\* Content read from a file, recorded among what a lookup has seen.
LEMMA SeenTyped ==
    ASSUME TypeOK, NEW p \in Processes, NEW f \in Files, NEW c \in Content, Record(p, f, c)
    PROVE  seen' \in [Processes -> [Files -> Content]]
<1>1. seen[p] \in [Files -> Content]
  BY DEF TypeOK
<1>2. [seen[p] EXCEPT ![f] = c] \in [Files -> Content]
  BY <1>1
<1>3. seen' = [seen EXCEPT ![p] = [seen[p] EXCEPT ![f] = c]]
  BY DEF Record
<1>4. QED
  BY <1>2, <1>3 DEF TypeOK

\* A lookup has no file open for writing.
LEMMA LookersHaveNothingOpen ==
    ASSUME TypeOK, NEW p \in Processes, pc[p] # "save"
    PROVE  handle[p] = "closed"
BY DEF TypeOK

LEMMA NothingTyped == Nothing \in [Files -> Content]
BY DEF Nothing, Content

LEMMA LookTyped ==
    ASSUME TypeOK, NEW p \in Processes, Look(p)
    PROVE  TypeOK'
<1>0. handle[p] = "closed" /\ UNCHANGED <<disk, saving, victims, settled>>
  <2>1. pc[p] # "save"
    BY DEF Look, StartLookup, FindMeta, ReadTtl, ReadHtml, FindScreenshot, ReadScreenshot,
           FindMarkdown, ReadMarkdown, ReadMeta, ReadText, Resting
  <2>2. UNCHANGED <<disk, saving, victims, settled>>
    BY DEF Look, StartLookup, FindMeta, ReadTtl, ReadHtml, FindScreenshot, ReadScreenshot,
           FindMarkdown, ReadMarkdown, ReadMeta, ReadText, looking, history
  <2>3. QED
    BY <2>1, <2>2, LookersHaveNothingOpen
<1>1. \E place \in Places \ {"save"} : Goto(p, place)
  <2>1. CASE StartLookup(p)
    BY <2>1 DEF StartLookup, Places, Resting, Reading
  <2>2. CASE FindMeta(p) \/ ReadTtl(p)
    BY <2>2 DEF FindMeta, ReadTtl, AfterTtl, Places, Resting, Reading
  <2>3. CASE ReadHtml(p) \/ ReadMarkdown(p) \/ ReadMeta(p)
    BY <2>3 DEF ReadHtml, ReadMarkdown, ReadMeta, ReadText, Places, Resting, Reading
  <2>4. CASE FindScreenshot(p)
    BY <2>4 DEF FindScreenshot, Places, Resting, Reading
  <2>5. CASE ReadScreenshot(p) \/ FindMarkdown(p)
    BY <2>5 DEF ReadScreenshot, FindMarkdown, Places, Resting, Reading
  <2>6. QED
    BY <2>1, <2>2, <2>3, <2>4, <2>5 DEF Look
<1>2. /\ pc' \in [Processes -> Places]
      /\ \A q \in Processes : handle'[q] # "closed" => pc'[q] = "save"
  BY <1>0, <1>1, PlaceTyped DEF saving
<1>3. seen' \in [Processes -> [Files -> Content]]
  <2>1. CASE StartLookup(p)
    BY <2>1, NothingTyped DEF StartLookup, TypeOK
  <2>2. CASE UNCHANGED seen
    BY <2>2 DEF TypeOK
  <2>3. CASE \E f \in Files, c \in Content : Record(p, f, c)
    BY <2>3, SeenTyped
  <2>4. QED
    <3>1. \A f \in Files : file[f] \in Content /\ seen[p][f] \in Content
      BY DEF TypeOK
    <3>2. (IF file["meta"] \in Pages THEN file["meta"] ELSE Missing) \in Content
      BY DEF Content
    <3>3. \A f \in {"html", "screenshot", "markdown", "meta"} : f \in Files
      BY DEF Files
    <3>4. CASE FindMeta(p) \/ ReadTtl(p) \/ FindScreenshot(p)
      BY <2>2, <3>4 DEF FindMeta, ReadTtl, FindScreenshot, looking
    <3>5. CASE ReadHtml(p) \/ ReadMarkdown(p)
      BY <2>2, <2>3, <3>1, <3>3, <3>5 DEF ReadHtml, ReadMarkdown, ReadText
    <3>6. CASE ReadScreenshot(p)
      BY <2>2, <2>3, <3>1, <3>3, <3>6 DEF ReadScreenshot
    <3>7. CASE FindMarkdown(p)
      BY <2>2, <2>3, <3>1, <3>3, <3>7 DEF FindMarkdown
    <3>8. CASE ReadMeta(p)
      BY <2>2, <2>3, <3>2, <3>3, <3>8 DEF ReadMeta
    <3>9. QED
      BY <2>1, <3>4, <3>5, <3>6, <3>7, <3>8 DEF Look
<1>4. calm' \in [Processes -> BOOLEAN]
  <2>1. CASE StartLookup(p)
    BY <2>1 DEF StartLookup, TypeOK, Alone
  <2>2. CASE UNCHANGED calm
    BY <2>2 DEF TypeOK
  <2>3. QED
    BY <2>1, <2>2 DEF Look, FindMeta, ReadTtl, ReadHtml, FindScreenshot, ReadScreenshot,
           FindMarkdown, ReadMarkdown, ReadMeta, ReadText, history
<1>5. late' \in [Processes -> BOOLEAN]
  <2>1. CASE StartLookup(p)
    BY <2>1 DEF StartLookup, TypeOK
  <2>2. CASE UNCHANGED late
    BY <2>2 DEF TypeOK
  <2>3. QED
    BY <2>1, <2>2 DEF Look, FindMeta, ReadTtl, ReadHtml, FindScreenshot, ReadScreenshot,
           FindMarkdown, ReadMarkdown, ReadMeta, ReadText, looking
<1>6. QED
  BY <1>0, <1>2, <1>3, <1>4, <1>5 DEF TypeOK, Places, disk, saving

\* p goes to a place, and its handle stays or is closed: nobody has a file open who
\* does not save.
LEMMA ForgetTyped ==
    ASSUME TypeOK, NEW p \in Processes, Forget(p)
    PROVE  seen' \in [Processes -> [Files -> Content]] /\ late' \in [Processes -> BOOLEAN]
BY NothingTyped DEF TypeOK, Forget

LEMMA DisturbTyped ==
    ASSUME NEW p \in Processes, Disturb(p)
    PROVE  settled' = Unknown /\ calm' \in [Processes -> BOOLEAN]
<1>1. \A q \in Processes : (q = p /\ Alone(p)) \in BOOLEAN
  BY DEF Alone
<1>2. QED
  BY <1>1 DEF Disturb

LEMMA SettleTyped ==
    ASSUME TypeOK, NEW p \in Processes, NEW c \in Pages \cup {Missing}, Settle(p, c)
    PROVE  settled' \in Pages \cup {Missing, Unknown} /\ calm' \in [Processes -> BOOLEAN]
BY DEF TypeOK, Settle

LEMMA UnlinkedTyped ==
    ASSUME TypeOK, NEW f \in Files, handle' = Unlinked(f)
    PROVE  /\ handle' \in [Processes -> {"closed", "sole", "shared", "orphan"}]
           /\ \A q \in Processes : (handle'[q] = "closed") <=> (handle[q] = "closed")
BY DEF TypeOK, Unlinked

\* The end of a file operation of a save: on to the next file, or done.
LEMMA AdvanceTyped ==
    ASSUME TypeOK, SavesPage, NEW p \in Processes, pc[p] = "save", Advance(p)
    PROVE  /\ pc' \in [Processes -> Places]
           /\ at' \in [Processes -> Files]
           /\ page' \in [Processes -> Pages \cup {Missing}]
           /\ settled' \in Pages \cup {Missing, Unknown}
           /\ calm' \in [Processes -> BOOLEAN]
           /\ \A q \in Processes : q # p => pc'[q] = pc[q] /\ page'[q] = page[q]
           /\ pc'[p] = "save" => page'[p] = page[p]
<1>1. CASE at[p] = "meta"
  <2>1. Settle(p, page[p]) /\ page[p] \in Pages \cup {Missing}
    BY <1>1 DEF Advance, TypeOK
  <2>2. settled' \in Pages \cup {Missing, Unknown} /\ calm' \in [Processes -> BOOLEAN]
    BY <2>1, SettleTyped
  <2>3. pc' = [pc EXCEPT ![p] = "idle"] /\ page' = [page EXCEPT ![p] = Missing]
        /\ at' = [at EXCEPT ![p] = "html"]
    BY <1>1 DEF Advance
  <2>4. QED
    BY <2>2, <2>3 DEF TypeOK, Places, Resting, Files
<1>2. CASE at[p] # "meta"
  <2>1. FollowedBy[at[p]] \in Files
    BY <1>2 DEF TypeOK, FollowedBy, Files
  <2>2. at' = [at EXCEPT ![p] = FollowedBy[at[p]]] /\ UNCHANGED <<pc, page, history>>
    BY <1>2 DEF Advance
  <2>3. QED
    BY <2>1, <2>2 DEF TypeOK, Places, history
<1>3. QED
  BY <1>1, <1>2

LEMMA StartSaveTyped ==
    ASSUME TypeOK, SavesPage, NEW p \in Processes, StartSave(p)
    PROVE  TypeOK' /\ SavesPage'
<1>1. PICK g \in Unsaved, kind \in PageKinds :
        page' = [page EXCEPT ![p] = g] /\ parts' = [parts EXCEPT ![g] = kind]
  BY DEF StartSave
<1>2. g \in Pages /\ parts[g] = {} /\ kind # {}
  BY <1>1 DEF Unsaved, PageKinds
<1>3. pc' = [pc EXCEPT ![p] = "save"] /\ at' = [at EXCEPT ![p] = "html"]
      /\ folder' = TRUE /\ UNCHANGED <<file, stale, handle, victims>>
  BY DEF StartSave, MakeFolder
<1>4. settled' = Unknown /\ calm' \in [Processes -> BOOLEAN]
  BY DisturbTyped DEF StartSave
<1>5. seen' \in [Processes -> [Files -> Content]] /\ late' \in [Processes -> BOOLEAN]
  BY ForgetTyped DEF StartSave
<1>6. TypeOK'
  BY <1>1, <1>2, <1>3, <1>4, <1>5 DEF TypeOK, Files
<1>7. SavesPage'
  <2> SUFFICES ASSUME NEW q \in Processes, pc'[q] = "save"
               PROVE  page'[q] \in Pages /\ parts'[page'[q]] # {}
    BY DEF SavesPage
  <2>1. CASE q = p
    BY <1>1, <1>2, <2>1 DEF TypeOK
  <2>2. CASE q # p
    BY <1>1, <1>2, <1>3, <2>2 DEF TypeOK, SavesPage
  <2>3. QED
    BY <2>1, <2>2
<1>8. QED
  BY <1>6, <1>7

LEMMA OpenFileTyped ==
    ASSUME TypeOK, SavesPage, NEW p \in Processes, OpenFile(p)
    PROVE  TypeOK' /\ SavesPage'
<1>1. \A q \in Sharers(p, at[p]) : handle[q] # "closed"
  BY DEF Sharers
<1>2. pc[p] = "save"
  BY DEF OpenFile, OnTurn
<1>3. /\ handle' \in [Processes -> {"closed", "sole", "shared", "orphan"}]
      /\ \A q \in Processes : handle'[q] # "closed" => q = p \/ handle[q] # "closed"
  BY <1>1 DEF OpenFile, TypeOK
<1>4. UNCHANGED <<folder, parts, pc, at, page, victims, looking, history>>
  BY DEF OpenFile
<1>5. file' \in [Files -> Content]
  BY DEF OpenFile, TypeOK, Content
<1>6. stale' \in BOOLEAN
  BY DEF OpenFile
<1>7. QED
  BY <1>2, <1>3, <1>4, <1>5, <1>6 DEF TypeOK, SavesPage, looking, history

LEMMA WriteFileTyped ==
    ASSUME TypeOK, SavesPage, NEW p \in Processes, WriteFile(p)
    PROVE  TypeOK' /\ SavesPage'
<1>1. pc[p] = "save" /\ page[p] \in Pages /\ Advance(p) /\ handle[p] # "closed"
  BY DEF WriteFile, SavesPage
<1>2. Written(p) \subseteq Content
  <2>1. handle[p] \in {"sole", "shared", "orphan"}
    BY <1>1 DEF TypeOK
  <2>2. file[at[p]] \in Content
    BY DEF TypeOK
  <2>3. QED
    BY <1>1, <2>1, <2>2 DEF Written, Content
<1>3. file' \in [Files -> Content]
  BY <1>2 DEF WriteFile, TypeOK
<1>4. handle' = [handle EXCEPT ![p] = "closed"]
      /\ UNCHANGED <<folder, stale, parts, victims, looking>>
  BY DEF WriteFile
<1>5. /\ pc' \in [Processes -> Places]
      /\ at' \in [Processes -> Files]
      /\ page' \in [Processes -> Pages \cup {Missing}]
      /\ settled' \in Pages \cup {Missing, Unknown}
      /\ calm' \in [Processes -> BOOLEAN]
      /\ \A q \in Processes : q # p => pc'[q] = pc[q] /\ page'[q] = page[q]
      /\ pc'[p] = "save" => page'[p] = page[p]
  BY <1>1, AdvanceTyped
<1>6. TypeOK'
  BY <1>3, <1>4, <1>5 DEF TypeOK, Places, looking
<1>7. SavesPage'
  BY <1>1, <1>4, <1>5 DEF SavesPage
<1>8. QED
  BY <1>6, <1>7

LEMMA RemoveFileTyped ==
    ASSUME TypeOK, SavesPage, NEW p \in Processes, RemoveFile(p)
    PROVE  TypeOK' /\ SavesPage'
<1>1. pc[p] = "save" /\ handle[p] = "closed" /\ Advance(p) /\ at[p] \in Files
  BY DEF RemoveFile, OnTurn, TypeOK
<1>2. file' \in [Files -> Content]
  BY <1>1 DEF RemoveFile, Without, TypeOK, Content
<1>3. /\ handle' \in [Processes -> {"closed", "sole", "shared", "orphan"}]
      /\ \A q \in Processes : (handle'[q] = "closed") <=> (handle[q] = "closed")
  BY <1>1, UnlinkedTyped DEF RemoveFile
<1>4. UNCHANGED <<folder, stale, parts, victims, looking>>
  BY DEF RemoveFile
<1>5. /\ pc' \in [Processes -> Places]
      /\ at' \in [Processes -> Files]
      /\ page' \in [Processes -> Pages \cup {Missing}]
      /\ settled' \in Pages \cup {Missing, Unknown}
      /\ calm' \in [Processes -> BOOLEAN]
      /\ \A q \in Processes : q # p => pc'[q] = pc[q] /\ page'[q] = page[q]
      /\ pc'[p] = "save" => page'[p] = page[p]
  BY <1>1, AdvanceTyped
<1>6. TypeOK'
  BY <1>1, <1>2, <1>3, <1>4, <1>5 DEF TypeOK, Places, looking
<1>7. SavesPage'
  BY <1>1, <1>4, <1>5 DEF SavesPage
<1>8. QED
  BY <1>6, <1>7

LEMMA PurgeTyped ==
    ASSUME TypeOK, SavesPage, NEW p \in Processes,
           StartPurge(p) \/ PurgeFile(p) \/ PurgeFolder(p)
    PROVE  TypeOK' /\ SavesPage'
<1>1. pc[p] # "save" /\ handle[p] = "closed"
  BY LookersHaveNothingOpen DEF StartPurge, PurgeFile, PurgeFolder, Resting
<1>2. CASE StartPurge(p)
  <2>1. settled' = Unknown /\ calm' \in [Processes -> BOOLEAN]
    BY <1>2, DisturbTyped DEF StartPurge
  <2>2. seen' \in [Processes -> [Files -> Content]] /\ late' \in [Processes -> BOOLEAN]
    BY <1>2, ForgetTyped DEF StartPurge
  <2>3. pc' = [pc EXCEPT ![p] = "purge"] /\ UNCHANGED <<disk, saving>>
        /\ victims' = [victims EXCEPT ![p] = {f \in Files : file[f] # Missing}]
    BY <1>2 DEF StartPurge, Goto
  <2>4. QED
    BY <1>1, <2>1, <2>2, <2>3 DEF TypeOK, SavesPage, disk, saving
<1>3. CASE PurgeFile(p)
  <2>1. PICK f \in victims[p] :
          /\ file' = [file EXCEPT ![f] = Missing]
          /\ handle' = Unlinked(f)
          /\ victims' = [victims EXCEPT ![p] = @ \ {f}]
    BY <1>3 DEF PurgeFile
  <2>2. f \in Files
    BY <2>1 DEF TypeOK
  <2>3. /\ handle' \in [Processes -> {"closed", "sole", "shared", "orphan"}]
        /\ \A q \in Processes : (handle'[q] = "closed") <=> (handle[q] = "closed")
    BY <2>1, <2>2, UnlinkedTyped
  <2>4. file' \in [Files -> Content] /\ victims' \in [Processes -> SUBSET Files]
    BY <2>1, <2>2 DEF TypeOK, Content
  <2>5. UNCHANGED <<folder, stale, parts, pc, at, page, looking, history>>
    BY <1>3 DEF PurgeFile
  <2>6. QED
    BY <2>3, <2>4, <2>5 DEF TypeOK, SavesPage, looking, history
<1>4. CASE PurgeFolder(p)
  <2>1. settled' \in Pages \cup {Missing, Unknown} /\ calm' \in [Processes -> BOOLEAN]
    BY <1>4, SettleTyped DEF PurgeFolder
  <2>2. folder' \in BOOLEAN /\ victims' \in [Processes -> SUBSET Files]
    BY <1>4 DEF PurgeFolder, TypeOK
  <2>3. pc' = [pc EXCEPT ![p] = "idle"] /\ UNCHANGED <<file, stale, parts, saving, looking>>
    BY <1>4 DEF PurgeFolder, Goto
  <2>4. QED
    BY <1>1, <2>1, <2>2, <2>3 DEF TypeOK, SavesPage, saving, looking, Resting
<1>5. QED
  BY <1>2, <1>3, <1>4

\* Every step keeps the types.
LEMMA TypeStep == TypeOK /\ SavesPage /\ [Next]_vars => TypeOK' /\ SavesPage'
<1> SUFFICES ASSUME TypeOK, SavesPage, [Next]_vars
             PROVE  TypeOK' /\ SavesPage'
  OBVIOUS
<1>1. ASSUME NEW p \in Processes, Look(p)
      PROVE  TypeOK' /\ SavesPage'
  <2>1. TypeOK' /\ UNCHANGED <<disk, saving>>
    BY <1>1, LookTyped DEF Look, StartLookup, FindMeta, ReadTtl, ReadHtml, FindScreenshot,
           ReadScreenshot, FindMarkdown, ReadMarkdown, ReadMeta, ReadText
  <2>2. \A q \in Processes : pc'[q] = "save" => pc[q] = "save"
    BY <1>1 DEF Look, StartLookup, FindMeta, ReadTtl, AfterTtl, ReadHtml, FindScreenshot,
           ReadScreenshot, FindMarkdown, ReadMarkdown, ReadMeta, ReadText, Goto, TypeOK
  <2>3. QED
    BY <2>1, <2>2 DEF SavesPage, disk, saving
<1>2. ASSUME NEW p \in Processes, FailSave(p) \/ Crash(p)
      PROVE  TypeOK' /\ SavesPage'
  <2>1. CASE FailSave(p)
    BY <2>1 DEF FailSave, OnTurn, TypeOK, SavesPage, disk, looking, history, Resting, Files
  <2>2. CASE Crash(p)
    BY <2>2, NothingTyped
       DEF Crash, Goto, Forget, TypeOK, SavesPage, disk, history, Resting, Files
  <2>3. QED
    BY <1>2, <2>1, <2>2
<1>3. CASE Expire
  BY <1>3 DEF Expire, TypeOK, SavesPage, saving, looking, history
<1>4. CASE UNCHANGED vars
  BY <1>4 DEF vars, TypeOK, SavesPage
<1>5. QED
  BY <1>1, <1>2, <1>3, <1>4, StartSaveTyped, OpenFileTyped, WriteFileTyped,
     RemoveFileTyped, PurgeTyped DEF Next, Look

LEMMA TypeInit == Init => TypeOK /\ SavesPage
<1> SUFFICES ASSUME Init
             PROVE  TypeOK /\ SavesPage
  OBVIOUS
<1>1. folder \in BOOLEAN /\ file \in [Files -> Content]
  BY NothingTyped DEF Init
<1>2. stale \in BOOLEAN /\ parts \in [Pages -> PageKinds \cup {{}}]
  BY DEF Init
<1>3. pc \in [Processes -> Resting \cup Reading \cup {"save", "purge"}]
  BY DEF Init, Resting
<1>4. at \in [Processes -> Files] /\ page \in [Processes -> Pages \cup {Missing}]
  BY DEF Init, Files
<1>5. /\ handle \in [Processes -> {"closed", "sole", "shared", "orphan"}]
      /\ \A p \in Processes : handle[p] = "closed"
      /\ victims \in [Processes -> SUBSET Files]
  BY DEF Init
<1>6. seen \in [Processes -> [Files -> Content]]
  BY NothingTyped DEF Init
<1>7. settled \in Pages \cup {Missing, Unknown}
  BY DEF Init
<1>8. calm \in [Processes -> BOOLEAN] /\ late \in [Processes -> BOOLEAN]
  BY DEF Init
<1>9. SavesPage
  BY DEF Init, SavesPage
<1>10. QED
  BY <1>1, <1>2, <1>3, <1>4, <1>5, <1>6, <1>7, <1>8, <1>9 DEF TypeOK

\* Every variable keeps its type, and only a process that saves has a file open.
THEOREM TypeCorrect == Spec => []TypeOK
<1>1. Spec => [](TypeOK /\ SavesPage)
  BY TypeInit, TypeStep, PTL DEF Spec
<1>2. QED
  BY <1>1, PTL

-----------------------------------------------------------------------------
(* What an undisturbed write leaves *)

\* The files save() has dealt with when it comes to f.
Dealt(f) ==
    CASE f = "html"       -> {}
      [] f = "markdown"   -> {"html"}
      [] f = "screenshot" -> {"html", "markdown"}
      [] f = "meta"       -> {"html", "markdown", "screenshot"}

\* Nobody writes beside a process that is calm.
CalmIsAlone == \A p \in Processes : calm[p] => Alone(p)

\* While somebody writes, nothing is known of the entry.
WritingUnsettles == \A p \in Processes : Writing(p) => settled = Unknown

\* An undisturbed save has its folder and its file to itself, and the files it has dealt
\* with hold its page.
SavedSoFar ==
    \A p \in Processes : pc[p] = "save" /\ calm[p] =>
        /\ folder
        /\ handle[p] \in {"closed", "sole"}
        /\ handle[p] = "sole" => Keeps(p)
        /\ \A f \in Dealt(at[p]) : file[f] = Holding(page[p])[f]

\* An undisturbed purge has removed what it no longer lists.
PurgedSoFar ==
    \A p \in Processes : pc[p] = "purge" /\ calm[p] =>
        \A f \in Files \ victims[p] : file[f] = Missing

\* No undisturbed save has raised.
SavesSucceed == \A p \in Processes : calm[p] => pc[p] # "save_failed"

WriteInv ==
    /\ CalmIsAlone
    /\ WritingUnsettles
    /\ SavedSoFar
    /\ PurgedSoFar
    /\ SavesSucceed
    /\ UndisturbedWriteHolds

\* What is known of the processes that do not take the step, when the one that does writes.
LEMMA OthersDisturbed ==
    ASSUME TypeOK, CalmIsAlone, NEW p \in Processes, Writing(p),
           UNCHANGED calm \/ calm' = [calm EXCEPT ![p] = FALSE]
    PROVE  \A q \in Processes : q # p => ~calm[q] /\ ~calm'[q]
BY DEF TypeOK, CalmIsAlone, Alone

\* The first step of a write, whatever the entry holds.
LEMMA DisturbKeeps ==
    ASSUME TypeOK, WriteInv, NEW p \in Processes, Disturb(p), pc[p] \in Resting,
           pc'[p] \in {"save", "purge"}, \A q \in Processes : q # p => pc'[q] = pc[q]
    PROVE  /\ CalmIsAlone' /\ WritingUnsettles' /\ SavesSucceed' /\ UndisturbedWriteHolds'
           /\ \A q \in Processes : calm'[q] => q = p
<1>1. settled' = Unknown
  BY DEF Disturb
<1>2. \A q \in Processes : calm'[q] => q = p /\ Alone(p)
  BY DEF Disturb
<1>3. CalmIsAlone'
  BY <1>2 DEF CalmIsAlone, Alone, Writing
<1>4. QED
  BY <1>1, <1>2, <1>3 DEF WritingUnsettles, SavesSucceed, UndisturbedWriteHolds

LEMMA StartsKeep ==
    ASSUME TypeOK, WriteInv, NEW p \in Processes, StartSave(p) \/ StartPurge(p)
    PROVE  WriteInv'
<1>1. pc[p] \in Resting /\ Disturb(p) /\ UNCHANGED handle /\ handle[p] = "closed"
  BY LookersHaveNothingOpen DEF StartSave, StartPurge, saving, Resting
<1>2. pc'[p] \in {"save", "purge"} /\ \A q \in Processes : q # p => pc'[q] = pc[q]
  BY DEF StartSave, StartPurge, Goto, TypeOK
<1>3. /\ CalmIsAlone' /\ WritingUnsettles' /\ SavesSucceed' /\ UndisturbedWriteHolds'
      /\ \A q \in Processes : calm'[q] => q = p
  BY <1>1, <1>2, DisturbKeeps
<1>4. SavedSoFar'
  <2> SUFFICES ASSUME pc'[p] = "save"
               PROVE  /\ folder'
                      /\ handle'[p] = "closed"
                      /\ Dealt(at'[p]) = {}
    BY <1>3 DEF SavedSoFar
  <2>1. StartSave(p)
    BY DEF StartPurge, Goto, TypeOK
  <2>2. folder' = TRUE /\ at'[p] = "html"
    BY <2>1 DEF StartSave, MakeFolder, TypeOK
  <2>3. QED
    BY <1>1, <2>2 DEF Dealt
<1>5. PurgedSoFar'
  <2> SUFFICES ASSUME pc'[p] = "purge"
               PROVE  \A f \in Files \ victims'[p] : file'[f] = Missing
    BY <1>3 DEF PurgedSoFar
  <2>1. StartPurge(p)
    BY DEF StartSave, TypeOK
  <2>2. victims'[p] = {f \in Files : file[f] # Missing} /\ UNCHANGED file
    BY <2>1 DEF StartPurge, disk, TypeOK
  <2>3. QED
    BY <2>2
<1>6. QED
  BY <1>3, <1>4, <1>5 DEF WriteInv

LEMMA OpenFileKeeps ==
    ASSUME TypeOK, WriteInv, NEW p \in Processes, OpenFile(p)
    PROVE  WriteInv'
<1>1. pc[p] = "save" /\ handle[p] = "closed" /\ Keeps(p) /\ folder /\ at[p] \in Files
  BY DEF OpenFile, OnTurn, TypeOK
<1>2. UNCHANGED <<folder, parts, pc, at, page, victims, settled, calm>>
  BY DEF OpenFile, history
<1>3. file' = [file EXCEPT ![at[p]] = Torn]
  BY DEF OpenFile
<1>4. \A q \in Processes : q # p => ~calm'[q]
  BY <1>1, <1>2, OthersDisturbed DEF WriteInv, Writing
<1>5. CalmIsAlone' /\ WritingUnsettles' /\ SavesSucceed' /\ UndisturbedWriteHolds'
  <2>1. settled' = Unknown
    BY <1>1, <1>2 DEF WriteInv, WritingUnsettles, Writing
  <2>2. QED
    BY <1>2, <2>1 DEF WriteInv, CalmIsAlone, WritingUnsettles, SavesSucceed,
       UndisturbedWriteHolds, Alone, Writing
<1>6. SavedSoFar'
  <2> SUFFICES ASSUME calm[p]
               PROVE  /\ folder'
                      /\ handle'[p] = "sole"
                      /\ Keeps(p)'
                      /\ \A f \in Dealt(at[p]) : file'[f] = Holding(page[p])'[f]
    BY <1>2, <1>4 DEF SavedSoFar
  <2>1. Sharers(p, at[p]) = {}
    BY DEF Sharers, WriteInv, CalmIsAlone, Alone, Writing, TypeOK
  <2>2. handle'[p] = "sole"
    BY <2>1 DEF OpenFile
  <2>3. at[p] \notin Dealt(at[p]) /\ Dealt(at[p]) \subseteq Files
    BY <1>1 DEF Dealt, Files
  <2>4. \A f \in Dealt(at[p]) : file'[f] = file[f]
    BY <1>3, <2>3 DEF TypeOK
  <2>5. \A f \in Dealt(at[p]) : file[f] = Holding(page[p])[f]
    BY <1>1 DEF WriteInv, SavedSoFar
  <2>6. Holding(page[p])' = Holding(page[p])
    BY <1>2 DEF Holding
  <2>7. QED
    BY <1>1, <1>2, <2>2, <2>4, <2>5, <2>6 DEF Keeps
<1>7. PurgedSoFar'
  BY <1>1, <1>2, <1>4 DEF PurgedSoFar
<1>8. QED
  BY <1>5, <1>6, <1>7 DEF WriteInv

\* An undisturbed save that has dealt with one more file, or with the last.
LEMMA AdvanceKeeps ==
    ASSUME TypeOK, SavesPage, WriteInv, NEW p \in Processes, pc[p] = "save", Advance(p),
           UNCHANGED <<folder, parts, victims>>,
           \A f \in Files : f # at[p] => file'[f] = file[f],
           file' \in [Files -> Content],
           calm[p] => file'[at[p]] = Holding(page[p])[at[p]] /\ handle'[p] = "closed"
    PROVE  WriteInv'
<1>1. at[p] \in Files /\ page[p] \in Pages
  BY DEF TypeOK, SavesPage
<1>2. settled = Unknown
  BY DEF WriteInv, WritingUnsettles, Writing
<1>3. UNCHANGED calm \/ calm' = [calm EXCEPT ![p] = FALSE]
  BY DEF Advance, Settle, history
<1>4. \A q \in Processes : q # p => ~calm[q] /\ ~calm'[q]
  BY <1>3, OthersDisturbed DEF WriteInv, Writing
<1>5. \A f : Holding(f)' = Holding(f)
  BY DEF Holding
<1>6. \A f \in Dealt(at[p]) : f # at[p] /\ f \in Files
  BY <1>1 DEF Dealt, Files
<1>7. calm[p] => \A f \in Dealt(at[p]) \cup {at[p]} : file'[f] = Holding(page[p])[f]
  BY <1>6 DEF WriteInv, SavedSoFar
<1>8. \A q \in Processes : q # p => pc'[q] = pc[q]
  BY DEF Advance, TypeOK
<1>9. CASE at[p] = "meta"
  <2>1. pc'[p] = "idle" /\ settled' = (IF calm[p] THEN page[p] ELSE settled) /\ ~calm'[p]
    BY <1>9 DEF Advance, Settle, TypeOK
  <2>2. \A q \in Processes : ~calm'[q]
    BY <1>4, <2>1
  <2>3. WritingUnsettles'
    <3> SUFFICES ASSUME NEW q \in Processes, pc'[q] \in {"save", "purge"}
                 PROVE  ~calm[p]
      BY <1>2, <2>1 DEF WritingUnsettles, Writing
    <3>1. q # p /\ Writing(q)
      BY <1>8, <2>1 DEF Writing
    <3>2. QED
      BY <3>1 DEF WriteInv, CalmIsAlone, Alone
  <2>4. UndisturbedWriteHolds'
    <3> SUFFICES ASSUME calm[p]
                 PROVE  file' = Holding(page[p])
      BY <1>2, <1>5, <2>1 DEF UndisturbedWriteHolds
    <3>1. Dealt(at[p]) \cup {at[p]} = Files
      BY <1>9 DEF Dealt, Files
    <3>2. \A f \in Files : file'[f] = Holding(page[p])[f]
      BY <1>7, <3>1
    <3>3. QED
      BY <3>2 DEF Holding
  <2>5. QED
    BY <2>2, <2>3, <2>4
       DEF WriteInv, CalmIsAlone, SavedSoFar, PurgedSoFar, SavesSucceed
<1>10. CASE at[p] # "meta"
  <2>1. UNCHANGED <<pc, page, settled, calm>> /\ at'[p] = FollowedBy[at[p]]
    BY <1>10 DEF Advance, history, TypeOK
  <2>2. Dealt(at'[p]) = Dealt(at[p]) \cup {at[p]}
    BY <1>1, <1>10, <2>1 DEF Dealt, FollowedBy, Files
  <2>3. SavedSoFar'
    <3> SUFFICES ASSUME calm[p]
                 PROVE  /\ folder
                        /\ handle'[p] = "closed"
                        /\ \A f \in Dealt(at'[p]) : file'[f] = Holding(page[p])[f]
      BY <1>4, <1>5, <2>1 DEF SavedSoFar
    <3>1. folder
      BY DEF WriteInv, SavedSoFar
    <3>2. QED
      BY <1>7, <2>2, <3>1
  <2>4. QED
    BY <1>2, <1>4, <2>1, <2>3
       DEF WriteInv, CalmIsAlone, WritingUnsettles, PurgedSoFar, SavesSucceed,
           UndisturbedWriteHolds, Alone, Writing
<1>11. QED
  BY <1>9, <1>10

LEMMA WriteFileKeeps ==
    ASSUME TypeOK, SavesPage, WriteInv, TypeOK', NEW p \in Processes, WriteFile(p)
    PROVE  WriteInv'
<1>1. /\ pc[p] = "save" /\ handle[p] # "closed" /\ Advance(p)
      /\ UNCHANGED <<folder, parts, victims>> /\ handle'[p] = "closed"
      /\ at[p] \in Files /\ page[p] \in Pages
  BY DEF WriteFile, TypeOK, SavesPage
<1>2. PICK c \in Written(p) : file' = [file EXCEPT ![at[p]] = c]
  BY DEF WriteFile
<1>3. \A f \in Files : f # at[p] => file'[f] = file[f]
  BY <1>2 DEF TypeOK
<1>4. ASSUME calm[p]
      PROVE  file'[at[p]] = Holding(page[p])[at[p]]
  <2>1. handle[p] = "sole" /\ Keeps(p)
    BY <1>1, <1>4 DEF WriteInv, SavedSoFar
  <2>2. c = page[p]
    BY <1>2, <2>1 DEF Written
  <2>3. file'[at[p]] = page[p]
    BY <1>1, <1>2, <2>2 DEF TypeOK
  <2>4. QED
    BY <1>1, <2>1, <2>3 DEF Holding, Keeps
<1>5. file' \in [Files -> Content]
  BY DEF TypeOK
<1>6. QED
  BY <1>1, <1>3, <1>4, <1>5, AdvanceKeeps

LEMMA RemoveFileKeeps ==
    ASSUME TypeOK, SavesPage, WriteInv, TypeOK', NEW p \in Processes, RemoveFile(p)
    PROVE  WriteInv'
<1>1. /\ pc[p] = "save" /\ handle[p] = "closed" /\ Advance(p) /\ ~Keeps(p)
      /\ UNCHANGED <<folder, parts, victims>>
      /\ at[p] \in Files /\ page[p] \in Pages
      /\ file' = [file EXCEPT ![at[p]] = Missing]
  BY DEF RemoveFile, OnTurn, Without, TypeOK, SavesPage
<1>2. \A f \in Files : f # at[p] => file'[f] = file[f]
  BY <1>1 DEF TypeOK
<1>3. file'[at[p]] = Holding(page[p])[at[p]]
  BY <1>1 DEF TypeOK, Holding, Keeps
<1>4. handle'[p] = "closed"
  BY <1>1, UnlinkedTyped DEF RemoveFile
<1>5. file' \in [Files -> Content]
  BY DEF TypeOK
<1>6. QED
  BY <1>1, <1>2, <1>3, <1>4, <1>5, AdvanceKeeps

LEMMA PurgeFileKeeps ==
    ASSUME TypeOK, WriteInv, NEW p \in Processes, PurgeFile(p)
    PROVE  WriteInv'
<1>1. pc[p] = "purge" /\ UNCHANGED <<folder, parts, pc, at, page, settled, calm>>
  BY DEF PurgeFile, history
<1>2. PICK f \in victims[p] :
        /\ file' = [file EXCEPT ![f] = Missing]
        /\ victims' = [victims EXCEPT ![p] = @ \ {f}]
  BY DEF PurgeFile
<1>3. settled = Unknown
  BY <1>1 DEF WriteInv, WritingUnsettles, Writing
<1>4. \A q \in Processes : q # p => ~calm'[q]
  BY <1>1, OthersDisturbed DEF WriteInv, Writing
<1>5. PurgedSoFar'
  <2> SUFFICES ASSUME calm[p], NEW g \in Files, g \notin victims'[p]
               PROVE  file'[g] = Missing
    BY <1>1, <1>4 DEF PurgedSoFar
  <2>1. CASE g = f
    BY <1>2, <2>1 DEF TypeOK
  <2>2. CASE g # f
    BY <1>1, <1>2, <2>2 DEF TypeOK, WriteInv, PurgedSoFar
  <2>3. QED
    BY <2>1, <2>2
<1>6. QED
  BY <1>1, <1>3, <1>4, <1>5
     DEF WriteInv, CalmIsAlone, WritingUnsettles, SavedSoFar, SavesSucceed,
         UndisturbedWriteHolds, Alone, Writing

LEMMA PurgeFolderKeeps ==
    ASSUME TypeOK, WriteInv, NEW p \in Processes, PurgeFolder(p)
    PROVE  WriteInv'
<1>1. /\ pc[p] = "purge" /\ victims[p] = {} /\ pc' = [pc EXCEPT ![p] = "idle"]
      /\ settled' = (IF calm[p] THEN Missing ELSE settled)
      /\ calm' = [calm EXCEPT ![p] = FALSE]
      /\ UNCHANGED <<file, parts>>
  BY DEF PurgeFolder, Goto, Settle
<1>2. settled = Unknown
  BY <1>1 DEF WriteInv, WritingUnsettles, Writing
<1>3. \A q \in Processes : ~calm'[q]
  BY <1>1, OthersDisturbed DEF WriteInv, Writing, TypeOK
<1>4. WritingUnsettles'
  <2> SUFFICES ASSUME NEW q \in Processes, pc'[q] \in {"save", "purge"}
               PROVE  ~calm[p]
    BY <1>1, <1>2 DEF WritingUnsettles, Writing
  <2>1. q # p /\ Writing(q)
    BY <1>1 DEF Writing, TypeOK
  <2>2. QED
    BY <2>1 DEF WriteInv, CalmIsAlone, Alone
<1>5. UndisturbedWriteHolds'
  <2> SUFFICES ASSUME calm[p]
               PROVE  file = Holding(Missing)'
    BY <1>1, <1>2 DEF UndisturbedWriteHolds
  <2>1. \A f \in Files : file[f] = Missing
    BY <1>1 DEF WriteInv, PurgedSoFar
  <2>2. Holding(Missing)' = [f \in Files |-> Missing]
    BY CacheAssumption DEF Holding
  <2>3. QED
    BY <2>1, <2>2 DEF TypeOK
<1>6. QED
  BY <1>3, <1>4, <1>5
     DEF WriteInv, CalmIsAlone, SavedSoFar, PurgedSoFar, SavesSucceed

\* A step that does not write: a process reads, dies, or raises, or the entry expires.
LEMMA BystandersKeep ==
    ASSUME TypeOK, WriteInv, NEW p \in Processes, pc'[p] \notin {"save", "purge"},
           UNCHANGED <<folder, file, parts, settled>>,
           \A q \in Processes : q # p =>
               /\ UNCHANGED <<pc[q], at[q], page[q], handle[q], victims[q]>>
               /\ UNCHANGED calm[q],
           calm'[p] => (calm[p] \/ Alone(p)) /\ pc'[p] # "save_failed"
    PROVE  WriteInv'
<1>1. CalmIsAlone'
  BY DEF WriteInv, CalmIsAlone, Alone, Writing
<1>2. WritingUnsettles' /\ SavesSucceed'
  BY DEF WriteInv, WritingUnsettles, SavesSucceed, Writing
<1>3. \A c : Holding(c)' = Holding(c)
  BY DEF Holding
<1>4. SavedSoFar'
  BY <1>3 DEF WriteInv, SavedSoFar, Keeps
<1>5. PurgedSoFar'
  BY DEF WriteInv, PurgedSoFar
<1>6. UndisturbedWriteHolds'
  BY <1>3 DEF WriteInv, UndisturbedWriteHolds
<1>7. QED
  BY <1>1, <1>2, <1>4, <1>5, <1>6 DEF WriteInv

\* What a lookup step leaves alone, and where it may lead.
LEMMA LookFrame ==
    ASSUME TypeOK, NEW p \in Processes, Look(p)
    PROVE  /\ UNCHANGED <<disk, saving, victims, settled>>
           /\ pc[p] \notin {"save", "purge"}
           /\ pc'[p] \notin {"save", "purge", "idle", "save_failed"}
           /\ calm'[p] => calm[p] \/ Alone(p)
           /\ \A q \in Processes : q # p =>
                 UNCHANGED <<pc[q], calm[q], seen[q], late[q]>>
<1>1. CASE StartLookup(p)
  BY <1>1 DEF StartLookup, Goto, TypeOK, Resting
<1>2. CASE FindMeta(p) \/ ReadTtl(p)
  BY <1>2 DEF FindMeta, ReadTtl, AfterTtl, Goto, TypeOK, looking, history
<1>3. CASE ReadHtml(p) \/ ReadMarkdown(p)
  BY <1>3 DEF ReadHtml, ReadMarkdown, ReadText, Goto, Record, TypeOK, history
<1>4. CASE FindScreenshot(p) \/ ReadScreenshot(p)
  BY <1>4 DEF FindScreenshot, ReadScreenshot, Goto, Record, TypeOK, looking, history
<1>5. CASE FindMarkdown(p) \/ ReadMeta(p)
  BY <1>5 DEF FindMarkdown, ReadMeta, Goto, Record, TypeOK, history
<1>6. QED
  BY <1>1, <1>2, <1>3, <1>4, <1>5 DEF Look

LEMMA WriteStep ==
    TypeOK /\ SavesPage /\ WriteInv /\ [Next]_vars => WriteInv'
<1> SUFFICES ASSUME TypeOK, SavesPage, WriteInv, [Next]_vars
             PROVE  WriteInv'
  OBVIOUS
<1>1. TypeOK'
  BY TypeStep
<1>2. ASSUME NEW p \in Processes, Look(p)
      PROVE  WriteInv'
  BY <1>2, LookFrame, BystandersKeep DEF disk, saving
<1>3. ASSUME NEW p \in Processes, FailSave(p)
      PROVE  WriteInv'
  <2>1. ~calm[p]
    BY <1>3 DEF FailSave, OnTurn, WriteInv, SavedSoFar
  <2>2. pc'[p] = "save_failed" /\ UNCHANGED <<disk, handle, victims, history>>
    BY <1>3 DEF FailSave, TypeOK
  <2>3. \A q \in Processes : q # p => UNCHANGED <<pc[q], at[q], page[q]>>
    BY <1>3 DEF FailSave, TypeOK
  <2>4. QED
    BY <2>1, <2>2, <2>3, BystandersKeep DEF disk, history
<1>4. ASSUME NEW p \in Processes, Crash(p)
      PROVE  WriteInv'
  <2>1. pc'[p] = "idle" /\ UNCHANGED <<disk, history>>
    BY <1>4 DEF Crash, Goto, TypeOK
  <2>2. \A q \in Processes : q # p =>
          UNCHANGED <<pc[q], at[q], page[q], handle[q], victims[q]>>
    BY <1>4 DEF Crash, Goto, TypeOK
  <2>3. QED
    BY <2>1, <2>2, BystandersKeep DEF disk, history
<1>5. CASE Expire \/ UNCHANGED vars
  <2>1. UNCHANGED <<folder, file, parts, pc, at, page, handle, victims, settled, calm>>
    BY <1>5 DEF Expire, vars, saving, history
  <2>2. QED
    BY <2>1 DEF WriteInv, CalmIsAlone, WritingUnsettles, SavedSoFar, PurgedSoFar,
       SavesSucceed, UndisturbedWriteHolds, Alone, Writing, Keeps, Holding
<1>6. QED
  BY <1>1, <1>2, <1>3, <1>4, <1>5, StartsKeep, OpenFileKeeps, WriteFileKeeps,
     RemoveFileKeeps, PurgeFileKeeps, PurgeFolderKeeps DEF Next, Look

LEMMA WriteInit == Init => WriteInv
<1> SUFFICES ASSUME Init
             PROVE  WriteInv
  OBVIOUS
<1>1. \A p \in Processes : ~calm[p] /\ pc[p] = "idle"
  BY DEF Init
<1>2. file = Holding(settled)
  BY CacheAssumption DEF Init, Nothing, Holding
<1>3. QED
  BY <1>1, <1>2 DEF WriteInv, CalmIsAlone, WritingUnsettles, SavedSoFar, PurgedSoFar,
     SavesSucceed, UndisturbedWriteHolds, Writing

\* An undisturbed save or purge leaves its page, or nothing, in all four files, whatever
\* the folder held before it.
THEOREM WritesHeal == Spec => []UndisturbedWriteHolds
<1>1. Spec => [](TypeOK /\ SavesPage /\ WriteInv)
  BY TypeInit, TypeStep, WriteInit, WriteStep, PTL DEF Spec
<1>2. WriteInv => UndisturbedWriteHolds
  BY DEF WriteInv
<1>3. QED
  BY <1>1, <1>2, PTL

-----------------------------------------------------------------------------
(* What an undisturbed lookup answers *)

\* The files a lookup has read when it is at the given place.
Got(place) ==
    CASE place \in {"find_meta", "read_ttl", "read_html"} -> {}
      [] place \in {"find_screenshot", "read_screenshot"} -> {"html"}
      [] place \in {"find_markdown", "read_markdown"}     -> {"html", "screenshot"}
      [] place = "read_meta"                              -> {"html", "screenshot", "markdown"}
      [] OTHER                                            -> Files

\* A lookup in an entry that holds page `settled` and is not being written.
OnTrack(p) ==
    /\ settled \in Pages
    /\ "html" \in parts[settled]
    /\ seen[p] = [f \in Files |-> IF f \in Got(pc[p]) THEN Holding(settled)[f] ELSE Missing]
    /\ pc[p] \in {"find_meta", "read_ttl"} => (late[p] => stale)
    /\ pc[p] \notin {"find_meta", "read_ttl"} => ~late[p]
    /\ pc[p] = "read_screenshot" => "screenshot" \in parts[settled]
    /\ pc[p] \in {"find_markdown", "read_markdown", "read_meta", "hit"} /\ p \in Demanding
          => "screenshot" \in parts[settled]

MissJustified(p) ==
    \/ settled = Missing
    \/ "html" \notin parts[settled]
    \/ stale
    \/ p \in Demanding /\ "screenshot" \notin parts[settled]

LookInv ==
    \A p \in Processes : calm[p] /\ settled # Unknown =>
        /\ pc[p] \in Reading \cup {"hit"} => OnTrack(p)
        /\ pc[p] = "miss" => MissJustified(p)
        /\ pc[p] # "lookup_failed"

\* A page with html has its markdown and its metadata too, and nothing in an entry that
\* holds it is torn.
LEMMA WholePage ==
    ASSUME TypeOK, WriteInv, settled \in Pages, "html" \in parts[settled]
    PROVE  /\ file["html"] = settled /\ file["markdown"] = settled /\ file["meta"] = settled
           /\ file["screenshot"] = (IF "screenshot" \in parts[settled] THEN settled ELSE Missing)
           /\ \A f \in Files : file[f] = Holding(settled)[f]
<1>1. parts[settled] \in PageKinds
  BY DEF TypeOK
<1>2. "markdown" \in parts[settled] /\ "meta" \in parts[settled]
  BY <1>1 DEF PageKinds
<1>3. settled # Unknown
  BY CacheAssumption
<1>4. file = Holding(settled)
  BY <1>3 DEF WriteInv, UndisturbedWriteHolds
<1>5. QED
  BY <1>2, <1>4 DEF Holding, Files

\* One more file read while the entry holds its page.
LEMMA OneMoreSeen ==
    ASSUME TypeOK, NEW p \in Processes, NEW f \in Files, OnTrack(p), UNCHANGED <<settled, parts>>,
           Record(p, f, Holding(settled)[f]), Got(pc'[p]) = Got(pc[p]) \cup {f}
    PROVE  seen'[p] = [g \in Files |-> IF g \in Got(pc'[p]) THEN Holding(settled)'[g] ELSE Missing]
<1>1. seen'[p] = [seen[p] EXCEPT ![f] = Holding(settled)[f]]
  BY DEF Record, TypeOK
<1>2. Holding(settled)' = Holding(settled)
  BY DEF Holding
<1>3. QED
  BY <1>1, <1>2 DEF OnTrack

\* What a lookup has to show when its own step has left the entry alone.
LookShown(p) ==
    /\ pc[p] \in Reading \cup {"hit"} => OnTrack(p)
    /\ pc[p] = "miss" => MissJustified(p)
    /\ pc[p] # "lookup_failed"

LEMMA StartLookupShown ==
    ASSUME TypeOK, WriteInv, NEW p \in Processes, StartLookup(p), settled # Unknown
    PROVE  LookShown(p)'
<1>1. /\ UNCHANGED <<disk, settled>>
      /\ pc'[p] = (IF file["html"] = Missing THEN "miss" ELSE "find_meta")
      /\ seen'[p] = Nothing
      /\ late'[p] = stale
  BY DEF StartLookup, Goto, TypeOK
<1>2. file = Holding(settled)
  BY DEF WriteInv, UndisturbedWriteHolds
<1>3. "html" \in Files /\ settled \in Pages \cup {Missing}
  BY DEF Files, TypeOK
<1>4. CASE file["html"] = Missing
  <2>1. settled = Missing \/ "html" \notin parts[settled]
    BY <1>2, <1>3, <1>4, CacheAssumption DEF Holding
  <2>2. QED
    BY <1>1, <1>4, <2>1 DEF LookShown, MissJustified, Reading, disk
<1>5. CASE file["html"] # Missing
  <2>1. settled \in Pages /\ "html" \in parts[settled]
    BY <1>2, <1>3, <1>5 DEF Holding
  <2>2. file["meta"] = settled
    BY <2>1, WholePage
  <2>3. pc'[p] = "find_meta" /\ Got(pc'[p]) = {}
    BY <1>1, <1>5 DEF Got
  <2>4. seen'[p] = [f \in Files |-> IF f \in Got(pc'[p]) THEN Holding(settled)'[f] ELSE Missing]
    BY <1>1, <2>3 DEF Nothing
  <2>5. late'[p] => stale
    BY <1>1, <2>2
  <2>6. QED
    BY <1>1, <2>1, <2>3, <2>4, <2>5 DEF LookShown, OnTrack, disk
<1>6. QED
  BY <1>4, <1>5

\* The check of the age, and the search for a screenshot, read nothing that is kept.
LEMMA ChecksShown ==
    ASSUME TypeOK, WriteInv, NEW p \in Processes, OnTrack(p),
           FindMeta(p) \/ ReadTtl(p) \/ FindScreenshot(p)
    PROVE  LookShown(p)'
<1>1. UNCHANGED <<disk, seen, late, settled>>
  BY DEF FindMeta, ReadTtl, FindScreenshot, looking, history
<1>2. /\ settled \in Pages /\ "html" \in parts[settled] /\ settled # Missing
      /\ file["meta"] = settled
      /\ file["screenshot"] = (IF "screenshot" \in parts[settled] THEN settled ELSE Missing)
  BY WholePage, CacheAssumption DEF OnTrack
<1>3. Holding(settled)' = Holding(settled)
  BY <1>1 DEF Holding, disk
<1>4. CASE FindMeta(p)
  <2>1. pc[p] = "find_meta" /\ pc'[p] = "read_ttl"
    BY <1>2, <1>4 DEF FindMeta, Goto, TypeOK
  <2>2. Got(pc'[p]) = Got(pc[p])
    BY <2>1 DEF Got
  <2>3. QED
    BY <1>1, <1>2, <1>3, <2>1, <2>2 DEF OnTrack, LookShown, disk
<1>5. CASE ReadTtl(p)
  <2>1. pc[p] = "read_ttl" /\ pc'[p] = (IF stale THEN "miss" ELSE "read_html")
    BY <1>2, <1>5 DEF ReadTtl, AfterTtl, Goto, TypeOK
  <2>2. CASE stale
    BY <1>1, <2>1, <2>2 DEF LookShown, MissJustified, Reading, disk
  <2>3. CASE ~stale
    <3>1. Got(pc'[p]) = Got(pc[p]) /\ ~late[p]
      BY <2>1, <2>3 DEF Got, OnTrack
    <3>2. QED
      BY <1>1, <1>2, <1>3, <2>1, <2>3, <3>1 DEF OnTrack, LookShown, disk
  <2>4. QED
    BY <2>2, <2>3
<1>6. CASE FindScreenshot(p)
  <2>1. /\ pc[p] = "find_screenshot"
        /\ pc'[p] = (IF file["screenshot"] # Missing THEN "read_screenshot"
                     ELSE IF p \in Demanding THEN "miss" ELSE "find_markdown")
    BY <1>6 DEF FindScreenshot, Goto, TypeOK
  <2>2. CASE "screenshot" \in parts[settled]
    <3>1. pc'[p] = "read_screenshot" /\ Got(pc'[p]) = Got(pc[p])
      BY <1>2, <2>1, <2>2 DEF Got
    <3>2. QED
      BY <1>1, <1>2, <1>3, <2>1, <2>2, <3>1 DEF OnTrack, LookShown, disk
  <2>3. CASE "screenshot" \notin parts[settled] /\ p \in Demanding
    BY <1>1, <1>2, <2>1, <2>3 DEF LookShown, MissJustified, Reading, disk
  <2>4. CASE "screenshot" \notin parts[settled] /\ p \notin Demanding
    <3>1. pc'[p] = "find_markdown"
      BY <1>2, <2>1, <2>4
    <3>2. seen[p] = [f \in Files |-> IF f = "html" THEN Holding(settled)[f] ELSE Missing]
      BY <2>1 DEF OnTrack, Got
    <3>3. Holding(settled)["screenshot"] = Missing
      BY <2>4 DEF Holding, Files
    <3>4. seen[p] = [f \in Files |-> IF f \in {"html", "screenshot"}
                                      THEN Holding(settled)[f] ELSE Missing]
      BY <3>2, <3>3
    <3>5. Got(pc'[p]) = {"html", "screenshot"}
      BY <3>1 DEF Got
    <3>6. QED
      BY <1>1, <1>2, <1>3, <2>1, <2>4, <3>1, <3>4, <3>5 DEF OnTrack, LookShown, disk
  <2>5. QED
    BY <2>2, <2>3, <2>4
<1>7. QED
  BY <1>4, <1>5, <1>6

LEMMA ReadsShown ==
    ASSUME TypeOK, WriteInv, NEW p \in Processes, OnTrack(p),
           ReadHtml(p) \/ ReadScreenshot(p) \/ FindMarkdown(p) \/ ReadMarkdown(p) \/ ReadMeta(p)
    PROVE  LookShown(p)'
<1>1. UNCHANGED <<disk, late, settled>>
  BY DEF ReadHtml, ReadScreenshot, FindMarkdown, ReadMarkdown, ReadMeta, ReadText, history
<1>2. /\ settled \in Pages /\ "html" \in parts[settled]
      /\ settled # Missing /\ settled # Torn /\ Missing # Torn
      /\ file["html"] = settled /\ file["markdown"] = settled /\ file["meta"] = settled
      /\ file["screenshot"] = (IF "screenshot" \in parts[settled] THEN settled ELSE Missing)
      /\ \A f \in Files : file[f] = Holding(settled)[f]
  BY WholePage, CacheAssumption DEF OnTrack
<1>3. \A f \in {"html", "markdown", "screenshot", "meta"} : f \in Files
  BY DEF Files
<1>4. CASE FindMarkdown(p)
  <2>1. pc[p] = "find_markdown" /\ pc'[p] = "read_markdown" /\ UNCHANGED seen
    BY <1>2, <1>4 DEF FindMarkdown, Goto, TypeOK
  <2>2. Got(pc'[p]) = Got(pc[p]) /\ Holding(settled)' = Holding(settled)
    BY <1>1, <2>1 DEF Got, Holding, disk
  <2>3. QED
    BY <1>1, <1>2, <2>1, <2>2 DEF OnTrack, LookShown, disk
<1>5. ASSUME ~FindMarkdown(p)
      PROVE  \E f \in Files :
               /\ Record(p, f, Holding(settled)[f]) /\ Got(pc'[p]) = Got(pc[p]) \cup {f}
               /\ pc[p] \notin {"find_meta", "read_ttl"}
               /\ pc'[p] \in {"find_screenshot", "find_markdown", "read_meta", "hit"}
               /\ pc'[p] \in {"find_markdown", "read_meta", "hit"} /\ p \in Demanding
                     => "screenshot" \in parts[settled]
  <2>1. CASE ReadHtml(p)
    <3>1. pc[p] = "read_html" /\ pc'[p] = "find_screenshot" /\ Record(p, "html", file["html"])
      BY <1>2, <2>1 DEF ReadHtml, ReadText, Goto, TypeOK
    <3>2. QED
      BY <1>2, <1>3, <3>1 DEF Got
  <2>2. CASE ReadScreenshot(p)
    <3>1. pc[p] = "read_screenshot" /\ "screenshot" \in parts[settled]
      BY <2>2 DEF ReadScreenshot, OnTrack
    <3>2. pc'[p] = "find_markdown" /\ Record(p, "screenshot", file["screenshot"])
      BY <1>2, <2>2, <3>1 DEF ReadScreenshot, Goto, TypeOK
    <3>3. Got(pc'[p]) = Got(pc[p]) \cup {"screenshot"}
      BY <3>1, <3>2 DEF Got
    <3>4. QED
      BY <1>2, <1>3, <3>1, <3>2, <3>3
  <2>3. CASE ReadMarkdown(p)
    <3>1. pc[p] = "read_markdown" /\ pc'[p] = "read_meta" /\ Record(p, "markdown", file["markdown"])
      BY <1>2, <2>3 DEF ReadMarkdown, ReadText, Goto, TypeOK
    <3>2. Got(pc'[p]) = Got(pc[p]) \cup {"markdown"}
      BY <3>1 DEF Got
    <3>3. QED
      BY <1>2, <1>3, <3>1, <3>2 DEF OnTrack
  <2>4. CASE ReadMeta(p)
    <3>1. pc[p] = "read_meta" /\ pc'[p] = "hit" /\ Record(p, "meta", file["meta"])
      BY <1>2, <2>4 DEF ReadMeta, Goto, TypeOK
    <3>2. Got(pc'[p]) = Got(pc[p]) \cup {"meta"}
      BY <3>1 DEF Got, Files
    <3>3. QED
      BY <1>2, <1>3, <3>1, <3>2 DEF OnTrack
  <2>5. QED
    BY <1>5, <2>1, <2>2, <2>3, <2>4
<1>6. ASSUME ~FindMarkdown(p)
      PROVE  LookShown(p)'
  <2>1. PICK f \in Files :
          /\ Record(p, f, Holding(settled)[f]) /\ Got(pc'[p]) = Got(pc[p]) \cup {f}
          /\ pc[p] \notin {"find_meta", "read_ttl"}
          /\ pc'[p] \in {"find_screenshot", "find_markdown", "read_meta", "hit"}
          /\ pc'[p] \in {"find_markdown", "read_meta", "hit"} /\ p \in Demanding
                => "screenshot" \in parts[settled]
    BY <1>5, <1>6
  <2>2. seen'[p] = [g \in Files |-> IF g \in Got(pc'[p]) THEN Holding(settled)'[g] ELSE Missing]
    BY <1>1, <2>1, OneMoreSeen DEF disk
  <2>3. ~late[p]
    BY <2>1 DEF OnTrack
  <2>4. QED
    BY <1>1, <1>2, <2>1, <2>2, <2>3 DEF OnTrack, LookShown, disk
<1>7. QED
  BY <1>4, <1>6

\* A step that writes, or begins to, leaves nobody calm in a settled entry but, at its
\* end, a process that is done.
LEMMA WritersUnsettle ==
    ASSUME TypeOK, WriteInv, NEW p \in Processes,
           \/ StartSave(p) \/ StartPurge(p)
           \/ OpenFile(p) \/ WriteFile(p) \/ RemoveFile(p) \/ FailSave(p)
           \/ PurgeFile(p) \/ PurgeFolder(p)
    PROVE  \A q \in Processes : calm'[q] => settled' = Unknown
<1>1. CASE StartSave(p) \/ StartPurge(p)
  BY <1>1 DEF StartSave, StartPurge, Disturb
<1>2. CASE ~(StartSave(p) \/ StartPurge(p))
  <2>1. Writing(p)
    BY <1>2 DEF OpenFile, WriteFile, RemoveFile, FailSave, PurgeFile, PurgeFolder, OnTurn, Writing
  <2>2. settled = Unknown
    BY <2>1 DEF WriteInv, WritingUnsettles
  <2>3. UNCHANGED history \/ \E c \in Pages \cup {Missing} : Settle(p, c)
    <3>1. CASE OpenFile(p) \/ FailSave(p) \/ PurgeFile(p)
      BY <3>1 DEF OpenFile, FailSave, PurgeFile
    <3>2. CASE WriteFile(p) \/ RemoveFile(p)
      BY <3>2 DEF WriteFile, RemoveFile, Advance, TypeOK
    <3>3. CASE PurgeFolder(p)
      BY <3>3 DEF PurgeFolder
    <3>4. QED
      BY <1>2, <3>1, <3>2, <3>3
  <2>4. UNCHANGED calm \/ calm' = [calm EXCEPT ![p] = FALSE]
    BY <2>3 DEF Settle, history
  <2>5. \A q \in Processes : calm'[q] => q = p /\ calm' # [calm EXCEPT ![p] = FALSE]
    BY <2>1, <2>4, OthersDisturbed DEF WriteInv, TypeOK
  <2>6. QED
    BY <2>2, <2>3, <2>5 DEF Settle, history
<1>3. QED
  BY <1>1, <1>2

LEMMA LookStep ==
    TypeOK /\ SavesPage /\ WriteInv /\ LookInv /\ [Next]_vars => LookInv'
<1> SUFFICES ASSUME TypeOK, SavesPage, WriteInv, LookInv, [Next]_vars,
                    NEW q \in Processes, calm'[q], settled' # Unknown
             PROVE  LookShown(q)'
  BY DEF LookInv, LookShown
<1>1. ASSUME UNCHANGED <<parts, settled>>, UNCHANGED <<pc[q], calm[q], seen[q], late[q]>>,
             stale => stale'
      PROVE  LookShown(q)'
  <2>1. LookShown(q)
    BY <1>1 DEF LookInv, LookShown
  <2>2. Holding(settled)' = Holding(settled)
    BY <1>1 DEF Holding
  <2>3. OnTrack(q) => OnTrack(q)'
    BY <1>1, <2>2 DEF OnTrack
  <2>4. MissJustified(q) => MissJustified(q)'
    BY <1>1 DEF MissJustified
  <2>5. QED
    BY <1>1, <2>1, <2>3, <2>4 DEF LookShown
<1>2. ASSUME NEW p \in Processes, Look(p), q # p
      PROVE  LookShown(q)'
  BY <1>1, <1>2, LookFrame DEF disk
<1>3. CASE Look(q)
  <2>1. settled # Unknown
    BY <1>3, LookFrame
  <2>2. CASE StartLookup(q)
    BY <2>1, <2>2, StartLookupShown
  <2>3. CASE ~StartLookup(q)
    <3>1. UNCHANGED calm /\ pc[q] \in Reading
      BY <1>3, <2>3 DEF Look, FindMeta, ReadTtl, ReadHtml, FindScreenshot, ReadScreenshot,
         FindMarkdown, ReadMarkdown, ReadMeta, ReadText, history, Reading
    <3>2. OnTrack(q)
      BY <2>1, <3>1 DEF LookInv
    <3>3. QED
      BY <1>3, <2>3, <3>2, ChecksShown, ReadsShown DEF Look
  <2>4. QED
    BY <2>2, <2>3
<1>4. ASSUME NEW p \in Processes, Crash(p)
      PROVE  LookShown(q)'
  <2>1. CASE q = p
    BY <1>4, <2>1 DEF Crash, Goto, TypeOK, LookShown, Reading
  <2>2. CASE q # p
    BY <1>1, <1>4, <2>2 DEF Crash, Goto, Forget, TypeOK, disk, history
  <2>3. QED
    BY <2>1, <2>2
<1>5. CASE Expire \/ UNCHANGED vars
  <2>1. /\ UNCHANGED <<parts, settled, pc, calm, seen, late>>
        /\ stale => stale'
    BY <1>5 DEF Expire, vars, looking, history
  <2>2. QED
    BY <1>1, <2>1
<1>6. QED
  BY <1>2, <1>3, <1>4, <1>5, WritersUnsettle DEF Next, Look

CacheInv == TypeOK /\ SavesPage /\ WriteInv /\ LookInv

LEMMA CacheInvHolds == Spec => []CacheInv
<1>1. Init => CacheInv
  <2>1. Init => LookInv
    BY DEF Init, LookInv
  <2>2. QED
    BY <2>1, TypeInit, WriteInit DEF CacheInv
<1>2. CacheInv /\ [Next]_vars => CacheInv'
  BY TypeStep, WriteStep, LookStep DEF CacheInv
<1>3. QED
  BY <1>1, <1>2, PTL DEF Spec

\* A lookup nobody disturbs, in an entry last written undisturbed, answers with that page,
\* whole and fresh, and misses only with a reason.
THEOREM LookupsExact == Spec => []QuietLookupIsExact
<1>1. CacheInv => QuietLookupIsExact
  <2> SUFFICES ASSUME CacheInv, NEW p \in Processes, calm[p], settled # Unknown
               PROVE  /\ pc[p] = "hit" =>
                            /\ seen[p] = Holding(settled)
                            /\ "html" \in parts[settled]
                            /\ ~late[p]
                            /\ p \in Demanding => "screenshot" \in parts[settled]
                      /\ pc[p] = "miss" => MissJustified(p)
    BY DEF QuietLookupIsExact, MissJustified
  <2>1. ASSUME pc[p] = "hit"
        PROVE  /\ seen[p] = Holding(settled)
               /\ "html" \in parts[settled]
               /\ ~late[p]
               /\ p \in Demanding => "screenshot" \in parts[settled]
    <3>1. OnTrack(p)
      BY <2>1 DEF CacheInv, LookInv
    <3>2. Got("hit") = Files
      BY DEF Got
    <3>3. QED
      BY <2>1, <3>1, <3>2 DEF OnTrack, Holding
  <2>2. QED
    BY <2>1 DEF CacheInv, LookInv
<1>2. QED
  BY <1>1, CacheInvHolds, PTL

\* No undisturbed save raises, nor a lookup in an entry last written undisturbed.
THEOREM UndisturbedSucceed == Spec => []UndisturbedNeverFails
<1>1. CacheInv => UndisturbedNeverFails
  BY DEF CacheInv, WriteInv, SavesSucceed, LookInv, UndisturbedNeverFails
<1>2. QED
  BY <1>1, CacheInvHolds, PTL

=============================================================================
