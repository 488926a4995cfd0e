----------------------------- MODULE CodexExport ----------------------------
(***************************************************************************)
(* What the Codex adapter puts into an archive                              *)
(* (internal/tool/codex/export_import_stats.go). Export takes no lock, so   *)
(* Codex may write, archive or compress threads between any two reads.      *)
(*                                                                         *)
(* A home is a record:                                                      *)
(*   files    rollout file to its lines; a file is its root and its name    *)
(*   packed   the files that have a compressed sibling or are compressed    *)
(*   history  prompts, each with session, second and text, or Malformed     *)
(*   index    lines with the id of a thread and a text                      *)
(*   dbs      generation to state database: rows by thread id and the two   *)
(*            fields of the backfill gate                                   *)
(*   listed   config.toml has a key of the project, or project_roots of a   *)
(*            state database a row: known by that without a thread          *)
(* Texts and paths are sequences of bytes. Symbolic links are in Rollout.   *)
(***************************************************************************)
EXTENDS PathRewrite

CONSTANTS
    Setups,     \* the homes of both machines, with project and Codex home
                \* as paths on each, and the categories selected
    OddNames,   \* names of rollout files that are not Codex's
    MaxEvents   \* bound on what Codex does on one machine

VARIABLES
    setup,      \* the member of Setups
    source,     \* the home that is exported
    pc,
    found,      \* files listed, later those of the project
    lines,      \* their lines, read once and kept
    threadIDs,
    archive,
    kept,       \* history: the home as the export has met it, less the files
                \* that Codex has removed, renamed or written since
    events

exportVars == <<setup, source, pc, found, lines, threadIDs, archive, kept, events>>

Malformed == [session |-> "none", second |-> 0, text |-> <<>>]
ProjectKey == <<"{", "P", "}">>
HomeKey == <<"{", "H", "}">>

Placeholders ==
    {[key |-> ProjectKey, original |-> setup.from.project],
     [key |-> HomeKey, original |-> setup.from.home]}

MetaTypes == {"session_meta", "turn_context"}

(* The lines that carry an identity.                                        *)
Meta(rollout) == {i \in DOMAIN rollout : rollout[i].type \in MetaTypes}

(* The first session id among them. A rollout without any is of era A.      *)
ThreadIDOf(rollout) ==
    LET named == {i \in Meta(rollout) : rollout[i].id # ""}
    IN IF named = {} THEN "" ELSE rollout[Min(named)].id

(* What a home may hold. A name carries the id of its thread, so that all   *)
(* files of one name are of one thread, on both machines.                   *)
IsSequence(s) == Len(s) \in Nat /\ s = [i \in 1..Len(s) |-> s[i]]
IsMap(f) == f = [x \in DOMAIN f |-> f[x]]

IsFile(file) ==
    /\ file = [root |-> file.root, name |-> file.name]
    /\ file.root \in {"sessions", "archived"}

IsLine(line) ==
    line = [type |-> line.type, id |-> line.id, cwd |-> line.cwd, text |-> line.text]

IsRollout(rollout) == IsSequence(rollout) /\ \A i \in DOMAIN rollout : IsLine(rollout[i])

IsPrompt(line) ==
    /\ line = [session |-> line.session, second |-> line.second, text |-> line.text]
    /\ line.session = "none" => line = Malformed

IsEntry(line) == line = Malformed \/ line = [id |-> line.id, text |-> line.text]

IsDatabase(db) ==
    /\ db = [rows |-> db.rows, status |-> db.status, watermark |-> db.watermark]
    /\ IsMap(db.rows)
    /\ \A id \in DOMAIN db.rows :
          db.rows[id] = [cwd |-> db.rows[id].cwd, side |-> db.rows[id].side]

IsHome(home) ==
    /\ home = [files |-> home.files, packed |-> home.packed, history |-> home.history,
               index |-> home.index, dbs |-> home.dbs, listed |-> home.listed]
    /\ IsMap(home.files) /\ \A file \in DOMAIN home.files :
                                IsFile(file) /\ IsRollout(home.files[file])
    /\ \A file \in home.packed : IsFile(file)
    /\ IsSequence(home.history) /\ \A i \in DOMAIN home.history : IsPrompt(home.history[i])
    /\ IsSequence(home.index) /\ \A i \in DOMAIN home.index : IsEntry(home.index[i])
    /\ IsMap(home.dbs) /\ \A g \in DOMAIN home.dbs : g \in Nat /\ IsDatabase(home.dbs[g])

OneThread(some, other) ==
    \A f \in DOMAIN some, g \in DOMAIN other :
        f.name = g.name => ThreadIDOf(some[f]) = ThreadIDOf(other[g])

ASSUME SetupsAssumption ==
    \A s \in Setups :
        /\ IsHome(s.source) /\ IsHome(s.target)
        /\ OneThread(s.source.files, s.source.files)
        /\ OneThread(s.source.files, s.target.files)
        /\ OneThread(s.target.files, s.target.files)

ApplyPlaceholders(text) == applyPlaceholders(text, Placeholders)

pathMatchesProject(cwd, project) ==
    cwd = project \/ HasPrefix(cwd, project \o <<Slash>>)

identityMatchesProject(rollout) ==
    \E i \in Meta(rollout) : pathMatchesProject(rollout[i].cwd, setup.from.project)

Unnamed(rollout) == identityMatchesProject(rollout) /\ ThreadIDOf(rollout) = ""

In(root, files) == {file \in files : file.root = root}

rowsOfProject(db) ==
    {id \in DOMAIN db.rows : pathMatchesProject(db.rows[id].cwd, setup.from.project)}

projectThreadIDs(home) == UNION {rowsOfProject(home.dbs[g]) : g \in DOMAIN home.dbs}

knowsProject ==
    \/ projectThreadIDs(source) # {}
    \/ \E file \in DOMAIN source.files : identityMatchesProject(source.files[file])
    \/ source.listed

NoArchive == [rollouts |-> <<>>, origin |-> <<>>, index |-> <<>>, sidecars |-> <<>>,
              history |-> <<>>]

(* Export asks whether Codex knows the project before it looks for files.   *)
Begin ==
    /\ pc = "export"
    /\ pc' = IF knowsProject THEN "sessions" ELSE "failed"
    /\ UNCHANGED <<setup, source, found, lines, threadIDs, archive, kept, events>>

(* listRolloutFiles of sessions, then of archived_sessions.                 *)
WalkSessions ==
    /\ pc = "sessions" /\ pc' = "archived"
    /\ found' = In("sessions", DOMAIN source.files \cup source.packed)
    /\ UNCHANGED <<setup, source, lines, threadIDs, archive, kept, events>>

(* A compressed file is passed over where its plain sibling is listed, and  *)
(* refused where it is alone.                                               *)
WalkArchived ==
    /\ pc = "archived"
    /\ found' = found \cup In("archived", DOMAIN source.files \cup source.packed)
    /\ pc' = IF found' \subseteq DOMAIN source.files THEN "classify" ELSE "failed"
    /\ UNCHANGED <<setup, source, lines, threadIDs, archive, kept, events>>

Missing(files) == ~(files \subseteq DOMAIN source.files)

(* projectRollouts: the first read. Era-A files are skipped with a warning. *)
Classify ==
    /\ pc = "classify"
    /\ IF Missing(found) \/ \E file \in found : Unnamed(source.files[file])
       THEN pc' = "failed" /\ UNCHANGED found
       ELSE /\ pc' = "read"
            /\ found' = {file \in found : identityMatchesProject(source.files[file])}
    /\ UNCHANGED <<setup, source, lines, threadIDs, archive, kept, events>>

(* The second read, of which the lines are kept for the archive.            *)
readAndIdentifyRollouts ==
    /\ pc = "read"
    /\ IF Missing(found) \/ \E file \in found : Unnamed(source.files[file])
       THEN pc' = "failed" /\ UNCHANGED <<lines, threadIDs>>
       ELSE /\ pc' = "ids"
            /\ lines' = [file \in found |-> source.files[file]]
            /\ threadIDs' = {ThreadIDOf(source.files[file]) : file \in found}
    /\ UNCHANGED <<setup, source, found, archive, kept, events>>

(* A bug to catch: a thread without a rollout file does not count.          *)
rolloutThreadIDs(ids) == ids

projectThreadIDSet(ids) == ids \cup projectThreadIDs(source)

IdentifyThreads ==
    /\ pc = "ids"
    /\ threadIDs' = projectThreadIDSet(threadIDs)
    /\ pc' = IF setup.selected.sessions THEN "rollouts" ELSE "history"
    /\ UNCHANGED <<setup, source, found, lines, archive, kept, events>>

Anonymized(line) ==
    [line EXCEPT !.cwd = ApplyPlaceholders(line.cwd), !.text = ApplyPlaceholders(line.text)]

(* Each file is asked for its time of modification before it is written.    *)
WriteRollouts ==
    /\ pc = "rollouts"
    /\ IF Missing(found)
       THEN pc' = "failed" /\ UNCHANGED archive
       ELSE /\ pc' = "index"
            /\ archive' = [archive EXCEPT
                  !.rollouts = [file \in found |->
                      [i \in DOMAIN lines[file] |-> Anonymized(lines[file][i])]],
                  !.origin = lines]
    /\ UNCHANGED <<setup, source, found, lines, threadIDs, kept, events>>

(* The entries of a sequence at some of its positions, in their order.      *)
Subsequence(seq, positions) ==
    LET nth(n) == CHOOSE p \in positions :
                      Cardinality({q \in positions : q <= p}) = n
    IN [n \in 1..Cardinality(positions) |-> seq[nth(n)]]

AnonymizedTexts(chunk) ==
    [i \in DOMAIN chunk |-> [chunk[i] EXCEPT !.text = ApplyPlaceholders(@)]]

OwnEntries ==
    {i \in DOMAIN source.index :
        source.index[i] # Malformed /\ source.index[i].id \in threadIDs}

(* Lines that do not parse are dropped, with a warning.                     *)
exportSessionIndex ==
    /\ pc = "index" /\ pc' = "sidecar"
    /\ archive' = [archive EXCEPT
          !.index = AnonymizedTexts(Subsequence(source.index, OwnEntries))]
    /\ UNCHANGED <<setup, source, found, lines, threadIDs, kept, events>>

(* Every generation is read, the newest first; the first row of a thread    *)
(* is the one that counts.                                                  *)
exportThreadSidecar ==
    /\ pc = "sidecar"
    /\ LET with(id) == {g \in DOMAIN source.dbs : id \in DOMAIN source.dbs[g].rows}
           newest(id) == source.dbs[Max(with(id))].rows[id]
       IN archive' = [archive EXCEPT !.sidecars =
                         [id \in {t \in threadIDs : with(t) # {}} |-> newest(id).side]]
    /\ pc' = IF setup.selected.history THEN "history" ELSE "exported"
    /\ UNCHANGED <<setup, source, found, lines, threadIDs, kept, events>>

OwnPrompts ==
    {i \in DOMAIN source.history :
        source.history[i] # Malformed /\ source.history[i].session \in threadIDs}

exportHistory ==
    /\ pc = "history" /\ pc' = "exported"
    /\ archive' = [archive EXCEPT
          !.history = AnonymizedTexts(Subsequence(source.history, OwnPrompts))]
    /\ UNCHANGED <<setup, source, found, lines, threadIDs, kept, events>>

Export ==
    \/ Begin \/ WalkSessions \/ WalkArchived \/ Classify \/ readAndIdentifyRollouts
    \/ IdentifyThreads \/ WriteRollouts \/ exportSessionIndex \/ exportThreadSidecar
    \/ exportHistory

(******************************** Codex ***********************************)

Exporting ==
    pc \in {"sessions", "archived", "classify", "read", "ids", "rollouts", "index",
           "sidecar", "history"}

(* One map where it is defined, another elsewhere.                          *)
Over(new, old) ==
    [x \in DOMAIN new \cup DOMAIN old |-> IF x \in DOMAIN new THEN new[x] ELSE old[x]]

Without(files, gone) == [file \in DOMAIN files \ gone |-> files[file]]

(* A rename from one root to the other archives a thread or brings it back, *)
(* over a file of the thread that is there.                                 *)
Renamed(home, file) ==
    LET to == [file EXCEPT !.root = IF @ = "sessions" THEN "archived" ELSE "sessions"]
    IN [home EXCEPT !.files = Over([f \in {to} |-> home.files[file]],
                                   Without(home.files, {file}))]

(* The compressed file is written before the plain one is removed.          *)
Compressed(home, file) ==
    IF file \in home.packed THEN [home EXCEPT !.files = Without(home.files, {file})]
    ELSE [home EXCEPT !.packed = @ \cup {file}]

Continued(home, file) ==
    [home EXCEPT !.files[file] = Append(@, [type |-> "turn_context", id |-> "",
                                            cwd |-> setup.from.project, text |-> <<>>])]

Untouched(files, after) ==
    LET same == {file \in DOMAIN files \cap DOMAIN after : after[file] = files[file]}
    IN [file \in same |-> files[file]]

CodexRuns ==
    /\ Exporting /\ events < MaxEvents /\ events' = events + 1
    /\ \E file \in DOMAIN source.files :
          /\ source' \in {Renamed(source, file), Compressed(source, file),
                          Continued(source, file)}
          /\ file \notin source.packed \/ source' = Compressed(source, file)
          /\ kept' = [kept EXCEPT !.files = Untouched(@, source'.files)]
    /\ UNCHANGED <<setup, pc, found, lines, threadIDs, archive>>

InitExport(s) ==
    /\ setup = s
    /\ source = s.source /\ kept = s.source
    /\ pc = "export" /\ found = {} /\ lines = <<>> /\ threadIDs = {}
    /\ archive = NoArchive /\ events = 0

(***************************************************************************)
(* Properties                                                              *)
(***************************************************************************)

OfProject(files) ==
    {file \in DOMAIN files : identityMatchesProject(files[file])}

ProjectThreads(home) ==
    projectThreadIDs(home) \cup {ThreadIDOf(home.files[f]) : f \in OfProject(home.files)}

Holds(written, read) ==
    \E i \in DOMAIN written : written[i] = [read EXCEPT !.text = ApplyPlaceholders(@)]

(* An export that succeeds is complete: every rollout of the project that   *)
(* Codex left alone meanwhile is in it with all of its lines, and so is     *)
(* every prompt and every index line of the threads it belongs to or that   *)
(* only a database knows (export_import_stats.go:1322).                     *)
ExportIsComplete ==
    pc = "exported" =>
        /\ setup.selected.sessions =>
              /\ \A file \in OfProject(kept.files) :
                    file \in DOMAIN archive.origin /\ archive.origin[file] = kept.files[file]
              /\ \A i \in DOMAIN kept.index :
                    LET line == kept.index[i] IN
                    line # Malformed /\ line.id \in ProjectThreads(kept) =>
                        Holds(archive.index, line)
        /\ setup.selected.history =>
              \A i \in DOMAIN kept.history :
                  LET line == kept.history[i] IN
                  line # Malformed /\ line.session \in ProjectThreads(kept) =>
                      Holds(archive.history, line)
=============================================================================
