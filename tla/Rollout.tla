------------------------------ MODULE Rollout ------------------------------
(***************************************************************************)
(* The move of one rollout file of Codex (internal/tool/codex/rollout.go):  *)
(* the substitutions are derived from the file before the lock is taken and *)
(* applied later, after a session may have added a line and after the other *)
(* tool may have moved the project directory itself.                        *)
(*                                                                         *)
(* A line is its type and its fields, a field its bytes as written in the   *)
(* JSON text, where a slash may be escaped. Separate fields are separated   *)
(* by quotes, which bound every match, so a pass over the whole line is one *)
(* over each of its fields.                                                 *)
(***************************************************************************)
EXTENDS SqliteRows

CONSTANTS
    Setups,     \* what is asked of which home: move (old and new path, deep,
                \* whether the project is trusted, the symbolic links as path
                \* to target, the directories that exist, the lines and rows
                \* a session may write before the lock), lines, store
    MaxLines,   \* bound on the lines of a file
    Foreign     \* texts that name directories outside of the project

VARIABLES
    move,       \* the request
    lines,      \* the file
    removed,    \* the project directory has left its old path
    plan,       \* the substitutions captured by the plan and their count;
                \* history: the directories the file recorded then and the
                \* number of its lines
    undo,       \* what the restorer holds: the file's lines, or NoUndo
    counted,    \* what the surface reports as replaced
    outcome,    \* "none" until the command is through with the file
    pc,
    before      \* history: the lines the apply has read

rolloutVars == <<move, lines, removed, plan, undo, counted, outcome, pc, before>>

NoUndo == <<>>
NoPlan == [substitutions |-> <<>>, count |-> 0, recorded |-> {}, size |-> 0]

MetaTypes == {"session_meta", "turn_context"}

(* The fields default mode rewrites, by the type of the line.               *)
structuredRolloutFieldPaths(line) ==
    DOMAIN line.fields \cap
        (CASE line.type = "session_meta" -> {"cwd", "root"}
           [] line.type \in {"turn_context", "thread_settings_applied"} ->
                  {"cwd", "root", "profile"}
           [] OTHER -> {})

(* What a JSON string denotes.                                              *)
Decoded(text) ==
    FlattenSeq([i \in DOMAIN text |->
        IF text[i] = Backslash /\ i < Len(text) /\ text[i + 1] = Slash
        THEN <<>> ELSE <<text[i]>>])

hasStructuredCwd(file) == \E i \in DOMAIN file : file[i].type \in MetaTypes

RecordedCWDs(file) ==
    {Decoded(file[i].fields["cwd"]) : i \in {j \in DOMAIN file :
        file[j].type \in MetaTypes /\ "cwd" \in DOMAIN file[j].fields}}

(* EvalSymlinks where the path exists, the path itself where it does not.   *)
Resolved(request, path, projectGone) ==
    LET under == {link \in DOMAIN request.links : IsBoundaryDescendant(link, path)}
        link == CHOOSE l \in under : \A k \in under : Len(k) <= Len(l)
        resolved == IF under = {} THEN path
                    ELSE ReplaceBoundedPrefix(path, link, request.links[link])
        gone == projectGone /\ HasPrefix(resolved, request.old)
    IN IF resolved \in request.directories /\ ~gone THEN resolved ELSE path

canonicalizePath(path) == Resolved(move, path, removed)

(* While the project directory is where it was.                             *)
NamesProject(request, path) ==
    LET real == Resolved(request, path, FALSE)
        project == Resolved(request, request.old, FALSE)
    IN real = project \/ HasPrefix(real, project \o <<Slash>>)

(* Paths are absolute, so that none is the empty text, and a backslash      *)
(* escapes a slash wherever one is.                                         *)
IsText(text) == text \in Seq({text[i] : i \in DOMAIN text})

IsPath(path) ==
    IsText(path) /\ path # <<>> /\ \A i \in DOMAIN path : path[i] # Backslash

IsLine(line) ==
    /\ line = [type |-> line.type, fields |-> line.fields]
    /\ \A n \in DOMAIN line.fields : IsText(line.fields[n])

(* The names of the project that a file lets the plan know.                 *)
NamesOfTheProject(setup) ==
    {setup.move.old} \cup
    {cwd \in RecordedCWDs(setup.lines) : NamesProject(setup.move, cwd)}

(* After the dots that follow, if any, the name at this place goes on.      *)
NameGoesOn(text, i) ==
    \E j \in i..Len(text) :
        /\ isPathContinuationByte(text[j])
        /\ \A k \in i..(j - 1) : text[k] = Dot

ASSUME LinesAssumption ==
    \A setup \in Setups :
        /\ setup.lines \in Seq({setup.lines[i] : i \in DOMAIN setup.lines})
        /\ \A i \in DOMAIN setup.lines : IsLine(setup.lines[i])
        /\ \A line \in setup.move.newLines : IsLine(line)

(* Where a foreign text has a name of the project, the name goes on.        *)
ASSUME ForeignAssumption ==
    \A setup \in Setups : \A path \in NamesOfTheProject(setup) :
        /\ IsPath(path)
        /\ \A text \in Foreign : \A i \in DOMAIN text :
              OccursAt(text, path, i) => NameGoesOn(text, i + Len(path))

pathMatchesProject(cwd, project) ==
    LET known == canonicalizePath(project) IN
    \/ canonicalizePath(cwd) = known
    \/ HasPrefix(canonicalizePath(cwd), known \o <<Slash>>)

(* Longest first, so that no source consumes a longer one's text.           *)
rolloutSubstitutionSources(file, oldPath) ==
    LongerFirst({oldPath} \cup {cwd \in RecordedCWDs(file) :
                                   pathMatchesProject(cwd, oldPath)},
                LAMBDA source : source)

rolloutSubstitutions(sources, oldPath, newPath) ==
    [i \in DOMAIN sources |->
        [from |-> sources[i],
         to |-> IF sources[i] = oldPath THEN newPath
                ELSE ReplaceBoundedPrefix(canonicalizePath(sources[i]),
                                          canonicalizePath(oldPath), newPath)]]

\* Substitutions in sequence over one text, by one of the two replacers.
Substituted(text, substitutions, Replace(_, _, _)) ==
    FoldLeft(LAMBDA done, s :
                 LET next == Replace(done.data, s.from, s.to)
                 IN [data |-> next.data, count |-> done.count + next.count],
             [data |-> text, count |-> 0], substitutions)

(* Each field's decoded value, written back only when something matched.    *)
rewriteStructuredRolloutFields(line, names, substitutions) ==
    LET results == [n \in names |-> Substituted(Decoded(line.fields[n]), substitutions,
                                                ReplacePathInBytes)]
    IN [line |-> [line EXCEPT !.fields = [n \in DOMAIN line.fields |->
                    IF n \in names /\ results[n].count > 0 THEN results[n].data
                    ELSE line.fields[n]]],
        count |-> SumFunction([n \in names |-> results[n].count])]

(* Default mode rewrites the structured fields; --deep every field as it    *)
(* is spelled and then the structured ones that pass left alone.            *)
rewriteRolloutLine(line, substitutions, deep) ==
    LET structured == structuredRolloutFieldPaths(line)
        names == DOMAIN line.fields
        bytes == [n \in names |-> Substituted(line.fields[n], substitutions,
                                              ReplacePathInBytesWithJSONEscape)]
        updated == [line EXCEPT !.fields = [n \in names |-> bytes[n].data]]
        untouched == {n \in structured : bytes[n].data = line.fields[n]}
        fieldPass == rewriteStructuredRolloutFields(updated, untouched, substitutions)
    IN CASE line.type = "malformed" -> [line |-> line, count |-> 0]
         [] line.type # "malformed" /\ ~deep ->
                rewriteStructuredRolloutFields(line, structured, substitutions)
         [] OTHER ->
                [line |-> fieldPass.line,
                 count |-> fieldPass.count + SumFunction([n \in names |-> bytes[n].count])]

OccurrencesIn(line, source) ==
    SumFunction([n \in DOMAIN line.fields |->
                    CountPathInBytesWithJSONEscape(line.fields[n], source)])

(* A bug to catch: nothing is refused.                                      *)
noGuard(line, substitutions, deep) == TRUE

(* No step of the sequence may add a match for a source still to come.      *)
guardSubstitutionOrder(line, substitutions, deep) ==
    LET after(k) == rewriteRolloutLine(line, SubSeq(substitutions, 1, k), deep).line
    IN Len(substitutions) > 1 =>
         \A step \in DOMAIN substitutions :
             \A later \in (step + 1)..Len(substitutions) :
                 LET source == substitutions[later].from IN
                 OccurrencesIn(after(step), source) <=
                     OccurrencesIn(after(step - 1), source)

rewriteRolloutLines(file, substitutions, deep) ==
    LET results == [i \in DOMAIN file |-> rewriteRolloutLine(file[i], substitutions, deep)]
    IN [lines |-> [i \in DOMAIN file |-> results[i].line],
        count |-> SumFunction([i \in DOMAIN file |-> results[i].count])]

(******************************* The move *********************************)

InitRollout(setup) ==
    /\ move = setup.move /\ lines = setup.lines
    /\ removed = FALSE /\ plan = NoPlan /\ undo = NoUndo /\ counted = 0
    /\ outcome = "none" /\ pc = "plan" /\ before = <<>>

End(how) == pc' = "done" /\ outcome' = how

(* The substitutions of a file, none where it has no structured cwd.        *)
rolloutFileSubstitutions(file) ==
    IF hasStructuredCwd(file)
    THEN rolloutSubstitutions(rolloutSubstitutionSources(file, move.old),
                              move.old, move.new)
    ELSE <<>>

(* The guard looks at every line before anything is planned.                *)
Refused(file, deep) ==
    \E i \in DOMAIN file :
        ~guardSubstitutionOrder(file[i], rolloutFileSubstitutions(file), deep)

planRolloutFile(file, deep) ==
    rewriteRolloutLines(file, rolloutFileSubstitutions(file), deep).count

PlanRollout ==
    /\ ~Refused(lines, move.deep)
    /\ plan' = [substitutions |-> rolloutFileSubstitutions(lines),
                count |-> planRolloutFile(lines, move.deep),
                recorded |-> RecordedCWDs(lines), size |-> Len(lines)]
    /\ pc' = "planned"
    /\ UNCHANGED <<move, lines, removed, undo, counted, outcome, before>>

Refuse ==
    /\ End("refused")
    /\ UNCHANGED <<move, lines, removed, plan, undo, counted, before>>

(* A session that runs before the lock is taken adds a line of its own.     *)
SessionAppends ==
    /\ pc = "planned" /\ ~removed
    /\ \E line \in move.newLines : lines' = Append(lines, line)
    /\ Len(lines) < MaxLines
    /\ UNCHANGED <<move, removed, plan, undo, counted, outcome, pc, before>>

(* The other tool's surfaces come first and take the directory along.       *)
OtherToolMoves ==
    /\ pc = "planned" /\ ~removed
    /\ removed' = TRUE
    /\ UNCHANGED <<move, lines, plan, undo, counted, outcome, pc, before>>

(* A bug to catch: the sources are derived when they are applied.           *)
deriveAgain(substitutions) ==
    rolloutSubstitutions(rolloutSubstitutionSources(lines, move.old), move.old, move.new)

Captured(substitutions) == substitutions

(* applyRolloutSubstitutions: a file the plan found nothing in is passed    *)
(* over, one that would not change is left alone.                           *)
Apply ==
    /\ LET result == rewriteRolloutLines(lines, Captured(plan.substitutions), move.deep)
           same == plan.count = 0 \/ result.lines = lines
       IN
       /\ before' = lines
       /\ lines' = IF same THEN lines ELSE result.lines
       /\ undo' = IF same THEN NoUndo ELSE lines
       /\ counted' = IF same THEN 0 ELSE result.count
    /\ pc' = "applied"
    /\ UNCHANGED <<move, removed, plan, outcome>>

(* A later surface fails: the restorer puts back what it holds.             *)
RestoreRollout ==
    /\ End("failed")
    /\ lines' = IF undo = NoUndo THEN lines ELSE undo
    /\ UNCHANGED <<move, removed, plan, undo, counted, before>>

(***************************************************************************)
(* Properties                                                              *)
(***************************************************************************)

InProject(path) == NamesProject(move, path)

(* What the directory a path names is called once the project has moved.    *)
MovedTo(path) ==
    LET real == Resolved(move, path, FALSE)
    IN move.new \o SubSeq(real, Len(Resolved(move, move.old, FALSE)) + 1, Len(real))

(* The names of the project that the plan knew.                             *)
Known == {move.old} \cup {path \in plan.recorded : InProject(path)}

(* What a field has to say after the move: the directory it named, by the   *)
(* longest of the known names that it lies under.                           *)
Renamed(value) ==
    LET over == {path \in Known : value = path \/ HasPrefix(value, path \o <<Slash>>)}
        known == CHOOSE path \in over : \A other \in over : Len(other) <= Len(path)
    IN IF over = {} THEN value
       ELSE MovedTo(known) \o SubSeq(value, Len(known) + 1, Len(value))

Follows(i, n) == Decoded(lines[i].fields[n]) = Renamed(Decoded(before[i].fields[n]))

(* After a move every structured field of a line the plan has looked at     *)
(* names the directory it named, under the new path: no substitution        *)
(* rewrites what an earlier one wrote, the guard having refused the files   *)
(* where one would "rather than risk silently corrupting a recorded path"   *)
(* (rollout.go:244).                                                        *)
FieldsFollowTheMove ==
    outcome = "moved" /\ plan.count > 0 =>
        \A i \in 1..plan.size : \A n \in structuredRolloutFieldPaths(before[i]) :
            Follows(i, n)

(* One text reaches into the other, or from behind into it.                 *)
Overlap(a, b) ==
    LET Reaches(one, other) ==
            \E i \in DOMAIN one :
                LET rest == SubSeq(one, i, Len(one))
                IN HasPrefix(rest, other) \/ HasPrefix(other, rest)
    IN Reaches(a, b) \/ Reaches(b, a)

(* No renaming can write another name, or the guard has looked at the line  *)
(* and none takes one away where it writes one, which its count would miss. *)
Separate(i) ==
    \A name, other \in Known :
        name # other /\ Overlap(MovedTo(name), other) =>
            i \in 1..plan.size /\ ~Overlap(name, other)

(* A known name is all of the value or its beginning, nothing in the middle. *)
NamesAPath(value) ==
    \A name \in Known : \A i \in DOMAIN value :
        OccursAt(value, name, i) =>
            \/ NameGoesOn(value, i + Len(name))
            \/ i = 1 /\ (value = name \/ value[i + Len(name)] = Slash)

(* Spelled as the byte pass of --deep can read it, or with one name only.   *)
SpelledEvenly(text, value) ==
    \/ text \in {value, EscapeSlashes(value), <<Backslash>> \o value}
    \/ \E name \in Known : \A other \in Known \ {name} :
           \A i \in DOMAIN value : ~OccursAt(value, other, i)

(* After a move every structured field that named a directory of the        *)
(* project, by its path or by an alias the file recorded, names the same    *)
(* directory under the new path, in either mode and however many            *)
(* substitutions run over it, wherever the guard's count is exact; it has   *)
(* to refuse the files where one name is written into another               *)
(* (rollout.go:285, rollout.go:341).                                        *)
FieldsFollowGuarded ==
    outcome = "moved" /\ plan.count > 0 =>
        \A i \in DOMAIN before : Separate(i) =>
            \A n \in structuredRolloutFieldPaths(before[i]) :
                LET text == before[i].fields[n]
                    value == Decoded(text)
                IN NamesAPath(value) /\ (move.deep => SpelledEvenly(text, value)) =>
                       Follows(i, n)

(* Bytes that only resemble the project stay as they are: those of another  *)
(* directory whose name begins like the project's or carries an extension,  *)
(* those of a malformed line, and without --deep those of every field that  *)
(* is not structured (rewrite.go:351, rollout.go:351).                      *)
OthersKeepTheirBytes ==
    outcome = "moved" =>
        \A i \in DOMAIN before : \A n \in DOMAIN before[i].fields :
            \/ before[i].type = "malformed"
            \/ Decoded(before[i].fields[n]) \in Foreign
            \/ ~move.deep /\ n \notin structuredRolloutFieldPaths(before[i])
            => lines[i].fields[n] = before[i].fields[n]
=============================================================================
