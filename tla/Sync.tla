-------------------------------- MODULE Sync --------------------------------
(***************************************************************************)
(* cc-port push and cc-port pull of one archive name by several machines.  *)
(* Nothing locks the remote object: a push reads the prior archive, plans  *)
(* by it, and uploads through a chain of writers whose Close, which is     *)
(* deferred and runs on every path, is what makes the upload visible.  A   *)
(* pull reads the object once and plans and imports from that copy.  The   *)
(* import itself is the subject of Importer and one step here.             *)
(***************************************************************************)
EXTENDS Integers, Sequences, FiniteSets

CONSTANTS
  Machines,  \* each runs one cc-port at a time
  Plain,     \* no passphrase
  Secrets,   \* passphrases
  N,         \* tools that a push exports
  Commands,  \* command lines
  MaxRuns,   \* bound: how often cc-port is run
  None       \* no archive, and no pusher

Archive == [run : 0 .. MaxRuns,               \* the run that wrote it, 0 for none of these
            by : Machines \cup {None},        \* SyncPushedBy of its metadata.xml
            pass : Secrets \cup {Plain},
            tools : 0 .. N,                   \* tools written to the end
            meta : BOOLEAN,                   \* it has its metadata.xml
            whole : BOOLEAN]                  \* its last writer was closed
Complete(a) == a # None /\ a.tools = N /\ a.meta /\ a.whole

Command == [verb : {"push", "pull"}, apply : BOOLEAN, force : BOOLEAN, pass : Secrets \cup {Plain}]

ASSUME NAssumption == N \in Nat
ASSUME MaxRunsAssumption == MaxRuns \in Nat
ASSUME SecretsAssumption == Plain \notin Secrets
ASSUME CommandsAssumption == Commands \subseteq Command
ASSUME CommandsGiven == Commands # {}
ASSUME NoneAssumption == None \notin Machines /\ None \notin Archive

VARIABLES
  remote,  \* the object under the name
  log,     \* history: the archives that became visible, in order
  proc,    \* the latest cc-port process of each machine
  runs     \* runs begun
vars == <<remote, log, proc, runs>>

Control == {"over", "source", "decrypt", "materialize", "plan", "apply",
            "export", "metadata", "zip", "close", "import", "closing"}

Proc == [pc : Control,
         cmd : Commands,
         run : 0 .. MaxRuns,
         view : Archive \cup {None},              \* the remote archive as it was read
         read : Nat,                              \* history: how many were visible then
         open : SUBSET {"reader", "temp"},        \* what the reader chain holds open
         sent : Archive \cup {None},              \* what was written to the upload
         writers : {<<>>, <<"sink">>, <<"encrypt", "sink">>},  \* writers not closed yet
         lost : BOOLEAN,                          \* the upload cannot be committed any more
         conflict : BOOLEAN,                      \* history: another machine's archive refused it
         err : BOOLEAN,
         shown : Archive \cup {None},             \* history: what the pull has rendered
         imported : Archive \cup {None},          \* what it has imported
         outcome : {"none", "planned", "pushed", "pulled", "refused", "failed", "killed"}]

TypeOK ==
  /\ remote \in Archive \cup {None}
  /\ log \in Seq(Archive)
  /\ proc \in [Machines -> Proc]
  /\ runs \in 0 .. MaxRuns

Fresh(c, n) ==
  [pc |-> "source", cmd |-> c, run |-> n, view |-> None, read |-> 0, open |-> {}, sent |-> None,
   writers |-> <<>>, lost |-> FALSE, conflict |-> FALSE, err |-> FALSE, shown |-> None, imported |-> None,
   outcome |-> "none"]

\* There may be an archive of an earlier push, or one that cc-port export wrote and
\* that names no pusher.
Init ==
  /\ \/ remote = None
     \/ \E p \in Secrets \cup {Plain}, b \in Machines \cup {None} :
          remote = [run |-> 0, by |-> b, pass |-> p, tools |-> N, meta |-> TRUE, whole |-> TRUE]
  /\ log = <<>>
  /\ proc = LET c == CHOOSE c \in Commands : TRUE IN
            [m \in Machines |-> [Fresh(c, 0) EXCEPT !.pc = "over"]]
  /\ runs = 0

-----------------------------------------------------------------------------
Begin(m, c) ==
  /\ proc[m].pc = "over" /\ runs < MaxRuns
  /\ runs' = runs + 1
  /\ proc' = [proc EXCEPT ![m] = Fresh(c, runs + 1)]
  /\ UNCHANGED <<remote, log>>

\* A killed process commits nothing more, and its temporary copy stays behind.
Kill(m) ==
  /\ proc[m].pc # "over"
  /\ proc' = [proc EXCEPT ![m].pc = "over", ![m].outcome = "killed",
                          ![m].open = @ \ {"reader"}, ![m].writers = <<>>]
  /\ UNCHANGED <<remote, log, runs>>

\* An interrupt, or an upload that the bucket gives up: it will not be committed.
Lose(m) ==
  /\ proc[m].pc \in {"export", "metadata", "zip", "close"} /\ ~proc[m].lost
  /\ proc' = [proc EXCEPT ![m].lost = TRUE]
  /\ UNCHANGED <<remote, log, runs>>

shared == <<remote, log, runs>>

\* Mutant: a chain that fails to open leaves its earlier stages open.
UnwoundNever(open) == open

\* RunReader: when a stage fails to open, those before it are closed.
Unwound(open) == {}

Refuse(m) ==
  proc' = [proc EXCEPT ![m].pc = "over", ![m].outcome = "refused", ![m].open = Unwound(@)]

\* From the plan on an error runs the deferred closes.
Fails(m) == proc' = [proc EXCEPT ![m].pc = "closing", ![m].err = TRUE]

-----------------------------------------------------------------------------
(* The reader chain *)

OpenSource(m) ==
  /\ proc[m].pc = "source"
  /\ \/ Refuse(m)
     \/ /\ remote = None /\ proc[m].cmd.verb = "push"
        /\ proc' = [proc EXCEPT ![m].pc = "plan", ![m].read = Len(log)]
     \/ /\ remote # None
        /\ proc' = [proc EXCEPT ![m].pc = "decrypt", ![m].read = Len(log),
                                ![m].view = remote, ![m].open = {"reader"}]
  /\ UNCHANGED shared

\* Mutant: a prior that cannot be read counts as none, asked or not.
IgnoresPriorAlways(c) == c.verb = "push"

\* With --force a prior that cannot be read for want of a passphrase is none.
IgnoresPrior(c) == c.verb = "push" /\ c.force

\* A push accepts a plain archive although it has a passphrase, a pull does not.
Opens(c, a) == a.pass = c.pass \/ (c.verb = "push" /\ a.pass = Plain)

Decrypt(m) ==
  LET c == proc[m].cmd
      a == proc[m].view
      locked == a.pass # Plain /\ c.pass = Plain IN
  /\ proc[m].pc = "decrypt"
  /\ \/ Opens(c, a) /\ proc' = [proc EXCEPT ![m].pc = "materialize"]
     \/ /\ locked /\ IgnoresPrior(c)
        /\ proc' = [proc EXCEPT ![m].pc = "plan", ![m].view = None, ![m].open = Unwound(@)]
     \/ Refuse(m)
  /\ UNCHANGED shared

\* The archive is drained to a temporary file; decryption notices a missing end.
Materialize(m) ==
  /\ proc[m].pc = "materialize"
  /\ \/ /\ proc[m].view.pass # Plain => proc[m].view.whole
        /\ proc' = [proc EXCEPT ![m].pc = "plan", ![m].open = @ \cup {"temp"}]
     \/ Refuse(m)
  /\ UNCHANGED shared

-----------------------------------------------------------------------------
(* Plans *)

Readable(a) == a.meta /\ a.whole

\* A push for which no host or no user name is found fails here, also with
\* --force, so a push that goes on has its machine's name.  The prior's manifest
\* is read in any case, so that one without it fails the push.  A pull is refused
\* by the preflight of the import as well.
Plan(m) ==
  LET p == proc[m] IN
  /\ p.pc = "plan"
  /\ \/ Fails(m)
     \/ /\ p.view # None => Readable(p.view)
        /\ proc' = [proc EXCEPT
             ![m].pc = IF ~p.cmd.apply THEN "closing" ELSE IF p.cmd.verb = "push" THEN "apply" ELSE "import",
             ![m].shown = IF p.cmd.verb = "pull" THEN p.view ELSE None]
  /\ UNCHANGED shared

-----------------------------------------------------------------------------
(* The upload *)

CrossMachine(m) == proc[m].view # None /\ proc[m].view.by \notin {None, m}

\* Mutant: the sink is closed before the writer that feeds it.
ClosedInnerFirst(c) == IF c.pass = Plain THEN <<"sink">> ELSE <<"sink", "encrypt">>

\* The writers of the chain in the order of their Close, outermost first.
Closers(c) == IF c.pass = Plain THEN <<"sink">> ELSE <<"encrypt", "sink">>

Upload(m) ==
  proc' = [proc EXCEPT ![m].pc = "export", ![m].writers = Closers(proc[m].cmd),
             ![m].sent = [run |-> proc[m].run, by |-> m, pass |-> proc[m].cmd.pass,
                          tools |-> 0, meta |-> FALSE, whole |-> FALSE]]

\* Mutant: the writers are open when the push is refused, and so are closed.
ConflictAfterOpen(m) ==
  proc' = [proc EXCEPT ![m].pc = "close", ![m].err = TRUE, ![m].conflict = TRUE,
             ![m].writers = Closers(proc[m].cmd),
             ![m].sent = [run |-> proc[m].run, by |-> m, pass |-> proc[m].cmd.pass,
                          tools |-> 0, meta |-> FALSE, whole |-> FALSE]]

\* An archive of another machine refuses the push before a writer is open.
Conflict(m) ==
  proc' = [proc EXCEPT ![m].pc = "closing", ![m].err = TRUE, ![m].conflict = TRUE]

ApplyPush(m) ==
  /\ proc[m].pc = "apply"
  /\ \/ CrossMachine(m) /\ ~proc[m].cmd.force /\ Conflict(m)
     \/ /\ ~CrossMachine(m) \/ proc[m].cmd.force
        /\ Upload(m) \/ Fails(m)
  /\ UNCHANGED shared

TargetsLeft(p) == p.sent.tools < N

\* Tool by tool; one that does not know the project has an empty part.  One that
\* fails ends the export, as an interrupt or a broken upload does.
Export(m) ==
  /\ proc[m].pc = "export"
  /\ \/ /\ TargetsLeft(proc[m])
        /\ proc' = [proc EXCEPT ![m].sent.tools = @ + 1]
     \/ /\ ~TargetsLeft(proc[m])
        /\ proc' = [proc EXCEPT ![m].pc = "metadata"]
     \/ /\ TargetsLeft(proc[m])
        /\ proc' = [proc EXCEPT ![m].pc = "zip", ![m].err = TRUE]
  /\ UNCHANGED shared

WriteMetadata(m) ==
  /\ proc[m].pc = "metadata"
  /\ \/ proc' = [proc EXCEPT ![m].pc = "zip", ![m].sent.meta = TRUE]
     \/ proc[m].lost /\ proc' = [proc EXCEPT ![m].pc = "zip", ![m].err = TRUE]
  /\ UNCHANGED shared

\* The zip is finished on the error path as well.
FinishZip(m) ==
  /\ proc[m].pc = "zip"
  /\ \/ proc' = [proc EXCEPT ![m].pc = "close", ![m].sent.whole = (proc[m].cmd.pass = Plain)]
     \/ proc[m].lost /\ proc' = [proc EXCEPT ![m].pc = "close", ![m].err = TRUE]
  /\ UNCHANGED shared

\* Every writer is closed, whatever came before; the sink's Close commits.
CloseWriter(m) ==
  LET p == proc[m] IN
  /\ p.pc = "close"
  /\ \/ /\ p.writers = <<>>
        /\ proc' = [proc EXCEPT ![m].pc = "closing"]
        /\ UNCHANGED <<remote, log>>
     \/ /\ p.writers # <<>> /\ Head(p.writers) = "encrypt"
        /\ proc' = [proc EXCEPT ![m].writers = Tail(@), ![m].sent.whole = TRUE]
        /\ UNCHANGED <<remote, log>>
     \/ /\ p.writers # <<>> /\ Head(p.writers) = "sink" /\ ~p.lost
        /\ remote' = p.sent /\ log' = Append(log, p.sent)
        /\ proc' = [proc EXCEPT ![m].writers = Tail(@)]
     \/ /\ p.writers # <<>> /\ p.lost
        /\ proc' = [proc EXCEPT ![m].writers = Tail(@), ![m].err = TRUE]
        /\ UNCHANGED <<remote, log>>
  /\ UNCHANGED runs

-----------------------------------------------------------------------------
(* The import, and the end *)

\* Mutant: the import opens the object again.
SourceReopened(m) == IF remote = None THEN proc[m].view ELSE remote

\* The import reads the copy that the plan was made from.
SourceOf(m) == proc[m].view

Import(m) ==
  /\ proc[m].pc = "import"
  /\ \/ proc' = [proc EXCEPT ![m].pc = "closing", ![m].imported = SourceOf(m)]
     \/ Fails(m)
  /\ UNCHANGED shared

Outcome(p) ==
  IF p.err THEN (IF p.sent = None \/ p.conflict THEN "refused" ELSE "failed")
  ELSE IF ~p.cmd.apply THEN "planned"
  ELSE IF p.cmd.verb = "push" THEN "pushed" ELSE "pulled"

\* The deferred closes of the reader chain; their errors count.
Close(m) ==
  /\ proc[m].pc = "closing"
  /\ \E err \in {proc[m].err, TRUE} :
       proc' = [proc EXCEPT ![m].pc = "over", ![m].open = {}, ![m].err = err,
                            ![m].outcome = Outcome([proc[m] EXCEPT !.err = err])]
  /\ UNCHANGED shared

Step(m) ==
  \/ OpenSource(m) \/ Decrypt(m) \/ Materialize(m) \/ Plan(m)
  \/ ApplyPush(m) \/ Export(m) \/ WriteMetadata(m) \/ FinishZip(m) \/ CloseWriter(m)
  \/ Import(m) \/ Close(m)

Next ==
  \E m \in Machines :
    \/ \E c \in Commands : Begin(m, c)
    \/ Step(m) \/ Lose(m) \/ Kill(m)

Spec == Init /\ [][Next]_vars

-----------------------------------------------------------------------------
(* Properties *)

Visible(p) == {i \in DOMAIN log : log[i].run = p.run}

\* A push without --force replaces an archive that another machine pushed only
\* if that one became visible after the push had read the prior: what it could
\* see it never replaces unasked (applyPush, openPriorRead).
NoBlindReplacement ==
  [][\A m \in Machines :
       (Len(log') > Len(log) /\ log'[Len(log')].run = proc[m].run /\ ~proc[m].cmd.force) =>
         \/ remote = None \/ remote.by \in {None, m}
         \/ Len(log) > proc[m].read]_vars

\* A push that reports success has made one archive visible, complete, closed to
\* its last byte, under its own name and passphrase (applyPush, RunWriter).
SuccessPublishes ==
  \A m \in Machines : proc[m].pc = "over" /\ proc[m].outcome = "pushed" =>
    \E i \in DOMAIN log :
      /\ Visible(proc[m]) = {i} /\ Complete(log[i])
      /\ log[i].by = m /\ log[i].pass = proc[m].cmd.pass

\* A run that was only planned or was refused has made nothing visible, although
\* an open writer commits on every path (applyPush).
RefusalPublishesNothing ==
  \A m \in Machines :
    proc[m].outcome \in {"planned", "refused"} => Visible(proc[m]) = {}

\* A pull imports the archive that its plan has shown, and a complete one, whoever
\* pushes meanwhile (runPullCmd, RunReader).
PullImportsWhatItShowed ==
  \A m \in Machines : proc[m].imported # None =>
    proc[m].imported = proc[m].shown /\ Complete(proc[m].shown)

\* A run that ends by itself has closed its reader and removed its temporary copy, whichever
\* stage failed (RunReader, MaterializeStage).
NothingLeftOpen == \A m \in Machines :
  proc[m].pc = "over" /\ proc[m].outcome # "killed" => proc[m].open = {}

\* What internal/sync/README.md says of a push that fails under way: it leaves no
\* archive on the remote.
FailurePublishesNothing ==
  \A m \in Machines : proc[m].pc = "over" /\ proc[m].outcome = "failed" => Visible(proc[m]) = {}
=============================================================================
