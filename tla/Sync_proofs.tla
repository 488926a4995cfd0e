---------------------------- MODULE Sync_proofs -----------------------------
(***************************************************************************)
(* Proofs about Sync, for any number of machines, passphrases, tools and    *)
(* runs and any command lines: its type invariant and its safety            *)
(* properties.  The inductive invariant says of each process, alone and     *)
(* against the log, how far it has got.                                     *)
(***************************************************************************)
EXTENDS Sync, TLAPS

Early == {"source", "decrypt", "materialize", "plan", "apply", "import"}
Uploading == {"export", "metadata", "zip", "close"}

\* An archive has its metadata only after all its tools.
Sound(a) == a.meta => a.tools = N

Unpublished(p) == \A i \in DOMAIN log : log[i].run # p.run
PublishedOnce(p) == \E i \in DOMAIN log : Visible(p) = {i} /\ log[i] = p.sent

\* Before its upload a process has sent, imported and reported nothing.
Quiet(p) ==
  p.pc \in Early =>
    /\ p.sent = None /\ p.writers = <<>> /\ p.imported = None
    /\ ~p.lost /\ ~p.conflict /\ ~p.err

Started(p) == p.pc # "over" => p.run > 0 /\ p.outcome = "none"

OnCommand(p) ==
  /\ p.pc = "apply" => p.cmd.apply /\ p.cmd.verb = "push"
  /\ p.pc = "import" => p.cmd.apply /\ p.cmd.verb = "pull"

\* What was sent is the process's own, from a push that nothing refused.
OwnArchive(m, p) ==
  p.sent # None =>
    /\ p.cmd.apply /\ p.cmd.verb = "push" /\ ~p.conflict
    /\ p.sent.by = m /\ p.sent.run = p.run /\ p.sent.pass = p.cmd.pass
    /\ Sound(p.sent)

\* As long as nothing became visible since the read, the view is the remote.
PriorRead(m, p) ==
  /\ p.read <= Len(log)
  /\ p.pc = "source" => p.view = None
  /\ (p.pc \in (Early \ {"source"}) \cup Uploading /\ p.cmd.verb = "push"
        /\ ~p.cmd.force /\ p.read = Len(log)) => p.view = remote
  /\ (p.pc \in Uploading /\ ~p.cmd.force) => p.view = None \/ p.view.by \in {None, m}

Imports(p) ==
  /\ p.view # None => Sound(p.view)
  /\ p.pc = "import" => p.shown = p.view /\ (p.view # None => Complete(p.view))
  /\ p.imported # None => p.imported = p.shown /\ Complete(p.shown)

\* The writers close outermost first, and the last one publishes.
Writers(p) ==
  /\ p.pc \in Uploading => p.sent # None
  /\ p.pc \in Uploading \ {"close"} => p.writers = Closers(p.cmd)
  /\ p.pc = "close" => p.writers \in {<<>>, <<"sink">>, Closers(p.cmd)}
  /\ p.writers # <<>> => p.pc \in Uploading

\* Without an error the upload has all its parts when their phase is over.
Parts(p) ==
  /\ p.pc = "metadata" => p.sent.tools = N
  /\ (p.pc \in {"zip", "close", "closing"} /\ p.sent # None /\ ~p.err) =>
       p.sent.tools = N /\ p.sent.meta
  /\ (p.pc = "close" /\ p.writers \in {<<>>, <<"sink">>} /\ ~p.err) => p.sent.whole
  /\ (p.pc = "closing" /\ p.sent # None /\ ~p.err) => p.sent.whole
  /\ (p.pc = "closing" /\ ~p.err /\ p.cmd.apply /\ p.cmd.verb = "push") => p.sent # None

Published(m, p) ==
  /\ p.sent = None => Unpublished(p)
  /\ p.pc \in Early \cup (Uploading \ {"close"}) => Unpublished(p)
  /\ p.pc = "close" /\ p.writers # <<>> => Unpublished(p)
  /\ (p.sent # None /\ ~p.err /\ (p.pc = "closing" \/ (p.pc = "close" /\ p.writers = <<>>))) =>
       PublishedOnce(p)
  /\ p.outcome \in {"planned", "refused"} => Unpublished(p)
  /\ p.outcome = "pushed" =>
       PublishedOnce(p) /\ p.sent # None /\ Complete(p.sent)

Released(p) == p.pc = "over" /\ p.outcome # "killed" => p.open = {}

ProcInv(m, p) ==
  /\ Quiet(p) /\ Started(p) /\ OnCommand(p) /\ OwnArchive(m, p) /\ PriorRead(m, p)
  /\ Imports(p) /\ Writers(p) /\ Parts(p) /\ Published(m, p) /\ Released(p)

LogInv ==
  /\ \A i \in DOMAIN log : log[i].run \in 1 .. runs /\ log[i].by \in Machines
  /\ remote # None => Sound(remote)

\* No two processes are the same run.
RunsApart ==
  /\ \A m \in Machines : proc[m].run <= runs
  /\ \A m, n \in Machines : m # n => proc[m].run = 0 \/ proc[m].run # proc[n].run

SyncInv == TypeOK /\ LogInv /\ RunsApart /\ \A m \in Machines : ProcInv(m, proc[m])

(* Commands have the fields of a command line. *)
LEMMA CommandFields ==
  ASSUME NEW c \in Commands
  PROVE  /\ c.verb \in {"push", "pull"}
         /\ c.apply \in BOOLEAN
         /\ c.force \in BOOLEAN
         /\ c.pass \in Secrets \cup {Plain}
  BY CommandsAssumption DEF Command

USE DEF Control, Early, Uploading

(* The chain has one writer or two. *)
LEMMA CloserKinds ==
  ASSUME NEW c
  PROVE  /\ Closers(c) \in {<<"sink">>, <<"encrypt", "sink">>} /\ Closers(c) # <<>>
         /\ c.pass # Plain => Closers(c) \notin {<<>>, <<"sink">>}
  <1>1. CASE c.pass = Plain
    <2>1. Closers(c) = <<"sink">>
      BY <1>1 DEF Closers
    <2>2. Len(<<"sink">>) = 1 /\ Len(<<>>) = 0
      OBVIOUS
    <2> QED
      BY <1>1, <2>1, <2>2
  <1>2. CASE c.pass # Plain
    <2>1. Closers(c) = <<"encrypt", "sink">>
      BY <1>2 DEF Closers
    <2>2. Len(<<"encrypt", "sink">>) = 2 /\ Len(<<"sink">>) = 1 /\ Len(<<>>) = 0
      OBVIOUS
    <2>3. <<"encrypt", "sink">> # <<"sink">> /\ <<"encrypt", "sink">> # <<>>
      BY <2>2
    <2> QED
      BY <2>1, <2>3
  <1> QED
    BY <1>1, <1>2

(* Where the log stays, the invariant is that of the process that moved. *)
LEMMA LocalStep ==
  ASSUME SyncInv, NEW m \in Machines, NEW q \in Proc, UNCHANGED shared,
         proc' = [proc EXCEPT ![m] = q], q.run = proc[m].run, ProcInv(m, q)
  PROVE  SyncInv'
  <1>0. TypeOK /\ LogInv /\ RunsApart /\ \A n \in Machines : ProcInv(n, proc[n])
    BY DEF SyncInv
  <1>1. TypeOK'
    BY <1>0 DEF TypeOK, shared
  <1>2. LogInv'
    BY <1>0 DEF LogInv, shared
  <1>3. proc'[m] = q /\ \A n \in Machines \ {m} : proc'[n] = proc[n]
    BY <1>0 DEF TypeOK
  <1>4. RunsApart'
    BY <1>0, <1>3 DEF RunsApart, shared
  <1>5. \A n \in Machines : ProcInv(n, proc'[n])
    BY <1>0, <1>3
  <1>6. \A n \in Machines : ProcInv(n, proc[n])'
    BY <1>5 DEF shared, ProcInv, Quiet, Started, OnCommand, OwnArchive, PriorRead, Imports,
       Writers, Parts, Published, Released, Unpublished, PublishedOnce, Visible, Sound,
       Complete, Closers
  <1> QED
    BY <1>1, <1>2, <1>4, <1>6 DEF SyncInv

(* A process that is refused before its plan leaves nothing behind. *)
LEMMA RefuseStep ==
  ASSUME SyncInv, NEW m \in Machines, Refuse(m), UNCHANGED shared,
         proc[m].pc \in {"source", "decrypt", "materialize"}
  PROVE  SyncInv'
  <1> DEFINE p == proc[m]
             q == [p EXCEPT !.pc = "over", !.outcome = "refused", !.open = {}]
  <1>0. /\ p.pc \in {"source", "decrypt", "materialize"} /\ p \in Proc
        /\ proc \in [Machines -> Proc] /\ UNCHANGED shared
        /\ ProcInv(m, p) /\ LogInv /\ remote \in Archive \cup {None} /\ Len(log) \in Nat
    BY DEF SyncInv, TypeOK, shared, Refuse
  <1>1. CASE proc' = [proc EXCEPT ![m] = q]
    <2>1. q \in Proc
      BY <1>0, <1>1 DEF Proc
    <2>2. /\ q.pc = "over" /\ q.outcome = "refused" /\ q.open = {} /\ q.cmd = p.cmd
          /\ q.run = p.run /\ q.view = p.view /\ q.read = p.read /\ q.sent = p.sent
          /\ q.writers = p.writers /\ q.lost = p.lost /\ q.conflict = p.conflict
          /\ q.err = p.err
          /\ q.shown = p.shown /\ q.imported = p.imported
      BY <1>0 DEF Proc
    <2> HIDE DEF q
    <2>3. Quiet(q) /\ Started(q) /\ OnCommand(q) /\ Released(q)
      BY <1>0, <1>1, <2>2 DEF ProcInv, Quiet, Started, OnCommand, Released
    <2>4. OwnArchive(m, q) /\ PriorRead(m, q) /\ Imports(q)
      BY <1>0, <1>1, <2>2 DEF ProcInv, Quiet, OwnArchive, PriorRead, Imports
    <2>5. Writers(q) /\ Parts(q)
      BY <1>0, <1>1, <2>2 DEF ProcInv, Quiet, Writers, Parts
    <2>6. Published(m, q)
      BY <1>0, <1>1, <2>2 DEF ProcInv, Quiet, Started, Published, Unpublished
    <2> QED
      BY <1>0, <1>1, <2>1, <2>2, <2>3, <2>4, <2>5, <2>6, LocalStep DEF ProcInv
  <1> QED
    BY <1>0, <1>1 DEF Refuse, shared, Unwound

(* An error before anything is sent runs the deferred closes. *)
LEMMA FailsStep ==
  ASSUME SyncInv, NEW m \in Machines, Fails(m), UNCHANGED shared,
         proc[m].pc \in {"plan", "apply", "import"}
  PROVE  SyncInv'
  <1> DEFINE p == proc[m]
             q == [p EXCEPT !.pc = "closing", !.err = TRUE]
  <1>0. /\ p.pc \in {"plan", "apply", "import"} /\ p \in Proc /\ proc \in [Machines -> Proc]
        /\ UNCHANGED shared
        /\ ProcInv(m, p) /\ LogInv /\ remote \in Archive \cup {None} /\ Len(log) \in Nat
    BY DEF SyncInv, TypeOK, shared, Fails
  <1>1. CASE proc' = [proc EXCEPT ![m] = q]
    <2>1. q \in Proc
      BY <1>0, <1>1 DEF Proc
    <2>2. /\ q.pc = "closing" /\ q.err = TRUE /\ q.cmd = p.cmd /\ q.run = p.run
          /\ q.view = p.view /\ q.read = p.read /\ q.open = p.open /\ q.sent = p.sent
          /\ q.writers = p.writers /\ q.lost = p.lost /\ q.conflict = p.conflict
          /\ q.shown = p.shown
          /\ q.imported = p.imported /\ q.outcome = p.outcome
      BY <1>0 DEF Proc
    <2> HIDE DEF q
    <2>3. Quiet(q) /\ Started(q) /\ OnCommand(q) /\ Released(q)
      BY <1>0, <1>1, <2>2 DEF ProcInv, Quiet, Started, OnCommand, Released
    <2>4. OwnArchive(m, q) /\ PriorRead(m, q) /\ Imports(q)
      BY <1>0, <1>1, <2>2 DEF ProcInv, Quiet, OwnArchive, PriorRead, Imports
    <2>5. Writers(q) /\ Parts(q)
      BY <1>0, <1>1, <2>2 DEF ProcInv, Quiet, Writers, Parts
    <2>6. Published(m, q)
      BY <1>0, <1>1, <2>2 DEF ProcInv, Quiet, Started, Published, Unpublished
    <2> QED
      BY <1>0, <1>1, <2>1, <2>2, <2>3, <2>4, <2>5, <2>6, LocalStep DEF ProcInv
  <1> QED
    BY <1>0, <1>1 DEF Fails, shared

(* Opening the source. *)
LEMMA OpenSourceStep ==
  ASSUME SyncInv, NEW m \in Machines, OpenSource(m)
  PROVE  SyncInv'
  <1> DEFINE p == proc[m]
             none == [p EXCEPT !.pc = "plan", !.read = Len(log)]
             opened == [p EXCEPT !.pc = "decrypt", !.read = Len(log), !.view = remote,
                                 !.open = {"reader"}]
  <1>0. /\ p.pc = "source" /\ p \in Proc /\ proc \in [Machines -> Proc] /\ UNCHANGED shared
        /\ ProcInv(m, p) /\ LogInv /\ remote \in Archive \cup {None} /\ Len(log) \in Nat
    BY DEF SyncInv, TypeOK, shared, OpenSource
  <1>1. CASE proc' = [proc EXCEPT ![m] = none] /\ remote = None
    <2>1. none \in Proc
      BY <1>0, <1>1 DEF Proc
    <2>2. /\ none.pc = "plan" /\ none.read = Len(log) /\ none.cmd = p.cmd /\ none.run = p.run
          /\ none.view = p.view /\ none.open = p.open /\ none.sent = p.sent
          /\ none.writers = p.writers
          /\ none.lost = p.lost /\ none.conflict = p.conflict /\ none.err = p.err
          /\ none.shown = p.shown
          /\ none.imported = p.imported /\ none.outcome = p.outcome
      BY <1>0 DEF Proc
    <2> HIDE DEF none
    <2>3. Quiet(none) /\ Started(none) /\ OnCommand(none) /\ Released(none)
      BY <1>0, <1>1, <2>2 DEF ProcInv, Quiet, Started, OnCommand, Released
    <2>4. OwnArchive(m, none) /\ PriorRead(m, none) /\ Imports(none)
      BY <1>0, <1>1, <2>2 DEF ProcInv, Quiet, OwnArchive, PriorRead, Imports
    <2>5. Writers(none) /\ Parts(none)
      BY <1>0, <1>1, <2>2 DEF ProcInv, Quiet, Writers, Parts
    <2>6. Published(m, none)
      BY <1>0, <1>1, <2>2 DEF ProcInv, Quiet, Started, Published, Unpublished
    <2> QED
      BY <1>0, <1>1, <2>1, <2>2, <2>3, <2>4, <2>5, <2>6, LocalStep DEF ProcInv
  <1>2. CASE proc' = [proc EXCEPT ![m] = opened] /\ remote # None
    <2>1. opened \in Proc
      BY <1>0, <1>2 DEF Proc
    <2>2. /\ opened.pc = "decrypt" /\ opened.read = Len(log) /\ opened.view = remote
          /\ opened.open = {"reader"}
          /\ opened.cmd = p.cmd /\ opened.run = p.run /\ opened.sent = p.sent
          /\ opened.writers = p.writers
          /\ opened.lost = p.lost /\ opened.conflict = p.conflict /\ opened.err = p.err
          /\ opened.shown = p.shown
          /\ opened.imported = p.imported /\ opened.outcome = p.outcome
      BY <1>0 DEF Proc
    <2> HIDE DEF opened
    <2>3. Quiet(opened) /\ Started(opened) /\ OnCommand(opened) /\ Released(opened)
      BY <1>0, <1>2, <2>2 DEF ProcInv, Quiet, Started, OnCommand, Released
    <2>4. OwnArchive(m, opened) /\ PriorRead(m, opened) /\ Imports(opened)
      BY <1>0, <1>2, <2>2 DEF ProcInv, Quiet, OwnArchive, PriorRead, Imports, LogInv
    <2>5. Writers(opened) /\ Parts(opened)
      BY <1>0, <1>2, <2>2 DEF ProcInv, Quiet, Writers, Parts
    <2>6. Published(m, opened)
      BY <1>0, <1>2, <2>2 DEF ProcInv, Quiet, Started, Published, Unpublished
    <2> QED
      BY <1>0, <1>2, <2>1, <2>2, <2>3, <2>4, <2>5, <2>6, LocalStep DEF ProcInv
  <1>3. CASE Refuse(m)
    BY <1>0, <1>3, RefuseStep
  <1> QED
    BY <1>0, <1>1, <1>2, <1>3 DEF OpenSource, shared

(* Decrypting what was read. *)
LEMMA DecryptStep ==
  ASSUME SyncInv, NEW m \in Machines, Decrypt(m)
  PROVE  SyncInv'
  <1> DEFINE p == proc[m]
             plain == [p EXCEPT !.pc = "materialize"]
             ignored == [p EXCEPT !.pc = "plan", !.view = None, !.open = {}]
  <1>0. /\ p.pc = "decrypt" /\ p \in Proc /\ proc \in [Machines -> Proc] /\ UNCHANGED shared
        /\ ProcInv(m, p) /\ LogInv /\ remote \in Archive \cup {None} /\ Len(log) \in Nat
    BY DEF SyncInv, TypeOK, shared, Decrypt
  <1>1. CASE proc' = [proc EXCEPT ![m] = plain]
    <2>1. plain \in Proc
      BY <1>0, <1>1 DEF Proc
    <2>2. /\ plain.pc = "materialize" /\ plain.cmd = p.cmd /\ plain.run = p.run
          /\ plain.view = p.view
          /\ plain.read = p.read /\ plain.open = p.open /\ plain.sent = p.sent
          /\ plain.writers = p.writers
          /\ plain.lost = p.lost /\ plain.conflict = p.conflict /\ plain.err = p.err
          /\ plain.shown = p.shown
          /\ plain.imported = p.imported /\ plain.outcome = p.outcome
      BY <1>0 DEF Proc
    <2> HIDE DEF plain
    <2>3. Quiet(plain) /\ Started(plain) /\ OnCommand(plain) /\ Released(plain)
      BY <1>0, <1>1, <2>2 DEF ProcInv, Quiet, Started, OnCommand, Released
    <2>4. OwnArchive(m, plain) /\ PriorRead(m, plain) /\ Imports(plain)
      BY <1>0, <1>1, <2>2 DEF ProcInv, Quiet, OwnArchive, PriorRead, Imports
    <2>5. Writers(plain) /\ Parts(plain)
      BY <1>0, <1>1, <2>2 DEF ProcInv, Quiet, Writers, Parts
    <2>6. Published(m, plain)
      BY <1>0, <1>1, <2>2 DEF ProcInv, Quiet, Started, Published, Unpublished
    <2> QED
      BY <1>0, <1>1, <2>1, <2>2, <2>3, <2>4, <2>5, <2>6, LocalStep DEF ProcInv
  <1>2. CASE proc' = [proc EXCEPT ![m] = ignored] /\ p.cmd.force
    <2>1. ignored \in Proc
      BY <1>0, <1>2 DEF Proc
    <2>2. /\ ignored.pc = "plan" /\ ignored.view = None /\ ignored.open = {}
          /\ ignored.cmd = p.cmd
          /\ ignored.run = p.run /\ ignored.read = p.read /\ ignored.sent = p.sent
          /\ ignored.writers = p.writers
          /\ ignored.lost = p.lost /\ ignored.conflict = p.conflict /\ ignored.err = p.err
          /\ ignored.shown = p.shown
          /\ ignored.imported = p.imported /\ ignored.outcome = p.outcome
      BY <1>0 DEF Proc
    <2> HIDE DEF ignored
    <2>3. Quiet(ignored) /\ Started(ignored) /\ OnCommand(ignored) /\ Released(ignored)
      BY <1>0, <1>2, <2>2 DEF ProcInv, Quiet, Started, OnCommand, Released
    <2>4. OwnArchive(m, ignored) /\ PriorRead(m, ignored) /\ Imports(ignored)
      BY <1>0, <1>2, <2>2 DEF ProcInv, Quiet, OwnArchive, PriorRead, Imports
    <2>5. Writers(ignored) /\ Parts(ignored)
      BY <1>0, <1>2, <2>2 DEF ProcInv, Quiet, Writers, Parts
    <2>6. Published(m, ignored)
      BY <1>0, <1>2, <2>2 DEF ProcInv, Quiet, Started, Published, Unpublished
    <2> QED
      BY <1>0, <1>2, <2>1, <2>2, <2>3, <2>4, <2>5, <2>6, LocalStep DEF ProcInv
  <1>3. CASE Refuse(m)
    BY <1>0, <1>3, RefuseStep
  <1> QED
    BY <1>0, <1>1, <1>2, <1>3 DEF Decrypt, shared, Unwound, IgnoresPrior

(* The copy of the archive. *)
LEMMA MaterializeStep ==
  ASSUME SyncInv, NEW m \in Machines, Materialize(m)
  PROVE  SyncInv'
  <1> DEFINE p == proc[m]
             copied == [p EXCEPT !.pc = "plan", !.open = p.open \cup {"temp"}]
  <1>0. /\ p.pc = "materialize" /\ p \in Proc /\ proc \in [Machines -> Proc]
        /\ UNCHANGED shared
        /\ ProcInv(m, p) /\ LogInv /\ remote \in Archive \cup {None} /\ Len(log) \in Nat
    BY DEF SyncInv, TypeOK, shared, Materialize
  <1>1. CASE proc' = [proc EXCEPT ![m] = copied]
    <2>1. copied \in Proc
      BY <1>0, <1>1 DEF Proc
    <2>2. /\ copied.pc = "plan" /\ copied.open = p.open \cup {"temp"} /\ copied.cmd = p.cmd
          /\ copied.run = p.run
          /\ copied.view = p.view /\ copied.read = p.read /\ copied.sent = p.sent
          /\ copied.writers = p.writers
          /\ copied.lost = p.lost /\ copied.conflict = p.conflict /\ copied.err = p.err
          /\ copied.shown = p.shown
          /\ copied.imported = p.imported /\ copied.outcome = p.outcome
      BY <1>0 DEF Proc
    <2> HIDE DEF copied
    <2>3. Quiet(copied) /\ Started(copied) /\ OnCommand(copied) /\ Released(copied)
      BY <1>0, <1>1, <2>2 DEF ProcInv, Quiet, Started, OnCommand, Released
    <2>4. OwnArchive(m, copied) /\ PriorRead(m, copied) /\ Imports(copied)
      BY <1>0, <1>1, <2>2 DEF ProcInv, Quiet, OwnArchive, PriorRead, Imports
    <2>5. Writers(copied) /\ Parts(copied)
      BY <1>0, <1>1, <2>2 DEF ProcInv, Quiet, Writers, Parts
    <2>6. Published(m, copied)
      BY <1>0, <1>1, <2>2 DEF ProcInv, Quiet, Started, Published, Unpublished
    <2> QED
      BY <1>0, <1>1, <2>1, <2>2, <2>3, <2>4, <2>5, <2>6, LocalStep DEF ProcInv
  <1>2. CASE Refuse(m)
    BY <1>0, <1>2, RefuseStep
  <1> QED
    BY <1>0, <1>1, <1>2 DEF Materialize, shared

(* What the plan decides. *)
LEMMA PlanStep ==
  ASSUME SyncInv, NEW m \in Machines, Plan(m)
  PROVE  SyncInv'
  <1> DEFINE p == proc[m]
             dryPush == [p EXCEPT !.pc = "closing", !.shown = None]
             dryPull == [p EXCEPT !.pc = "closing", !.shown = p.view]
             pushing == [p EXCEPT !.pc = "apply", !.shown = None]
             pulling == [p EXCEPT !.pc = "import", !.shown = p.view]
  <1>0. /\ p.pc = "plan" /\ p.cmd.verb \in {"push", "pull"} /\ p \in Proc
        /\ proc \in [Machines -> Proc] /\ UNCHANGED shared
        /\ ProcInv(m, p) /\ LogInv /\ remote \in Archive \cup {None} /\ Len(log) \in Nat
    BY CommandFields DEF SyncInv, TypeOK, shared, Plan, Proc
  <1>1. CASE proc' = [proc EXCEPT ![m] = dryPush] /\ ~p.cmd.apply
    <2>1. dryPush \in Proc
      BY <1>0, <1>1 DEF Proc
    <2>2. /\ dryPush.pc = "closing" /\ dryPush.shown = None /\ dryPush.cmd = p.cmd
          /\ dryPush.run = p.run
          /\ dryPush.view = p.view /\ dryPush.read = p.read /\ dryPush.open = p.open
          /\ dryPush.sent = p.sent
          /\ dryPush.writers = p.writers /\ dryPush.lost = p.lost
          /\ dryPush.conflict = p.conflict /\ dryPush.err = p.err
          /\ dryPush.imported = p.imported /\ dryPush.outcome = p.outcome
      BY <1>0 DEF Proc
    <2> HIDE DEF dryPush
    <2>3. Quiet(dryPush) /\ Started(dryPush) /\ OnCommand(dryPush) /\ Released(dryPush)
      BY <1>0, <1>1, <2>2 DEF ProcInv, Quiet, Started, OnCommand, Released
    <2>4. OwnArchive(m, dryPush) /\ PriorRead(m, dryPush) /\ Imports(dryPush)
      BY <1>0, <1>1, <2>2 DEF ProcInv, Quiet, OwnArchive, PriorRead, Imports
    <2>5. Writers(dryPush) /\ Parts(dryPush)
      BY <1>0, <1>1, <2>2 DEF ProcInv, Quiet, Writers, Parts
    <2>6. Published(m, dryPush)
      BY <1>0, <1>1, <2>2 DEF ProcInv, Quiet, Started, Published, Unpublished
    <2> QED
      BY <1>0, <1>1, <2>1, <2>2, <2>3, <2>4, <2>5, <2>6, LocalStep DEF ProcInv
  <1>2. CASE proc' = [proc EXCEPT ![m] = dryPull] /\ ~p.cmd.apply
    <2>1. dryPull \in Proc
      BY <1>0, <1>2 DEF Proc
    <2>2. /\ dryPull.pc = "closing" /\ dryPull.shown = p.view /\ dryPull.cmd = p.cmd
          /\ dryPull.run = p.run
          /\ dryPull.view = p.view /\ dryPull.read = p.read /\ dryPull.open = p.open
          /\ dryPull.sent = p.sent
          /\ dryPull.writers = p.writers /\ dryPull.lost = p.lost
          /\ dryPull.conflict = p.conflict /\ dryPull.err = p.err
          /\ dryPull.imported = p.imported /\ dryPull.outcome = p.outcome
      BY <1>0 DEF Proc
    <2> HIDE DEF dryPull
    <2>3. Quiet(dryPull) /\ Started(dryPull) /\ OnCommand(dryPull) /\ Released(dryPull)
      BY <1>0, <1>2, <2>2 DEF ProcInv, Quiet, Started, OnCommand, Released
    <2>4. OwnArchive(m, dryPull) /\ PriorRead(m, dryPull) /\ Imports(dryPull)
      BY <1>0, <1>2, <2>2 DEF ProcInv, Quiet, OwnArchive, PriorRead, Imports
    <2>5. Writers(dryPull) /\ Parts(dryPull)
      BY <1>0, <1>2, <2>2 DEF ProcInv, Quiet, Writers, Parts
    <2>6. Published(m, dryPull)
      BY <1>0, <1>2, <2>2 DEF ProcInv, Quiet, Started, Published, Unpublished
    <2> QED
      BY <1>0, <1>2, <2>1, <2>2, <2>3, <2>4, <2>5, <2>6, LocalStep DEF ProcInv
  <1>3. CASE proc' = [proc EXCEPT ![m] = pushing] /\ p.cmd.apply /\ p.cmd.verb = "push"
    <2>1. pushing \in Proc
      BY <1>0, <1>3 DEF Proc
    <2>2. /\ pushing.pc = "apply" /\ pushing.shown = None /\ pushing.cmd = p.cmd
          /\ pushing.run = p.run
          /\ pushing.view = p.view /\ pushing.read = p.read /\ pushing.open = p.open
          /\ pushing.sent = p.sent
          /\ pushing.writers = p.writers /\ pushing.lost = p.lost
          /\ pushing.conflict = p.conflict /\ pushing.err = p.err
          /\ pushing.imported = p.imported /\ pushing.outcome = p.outcome
      BY <1>0 DEF Proc
    <2> HIDE DEF pushing
    <2>3. Quiet(pushing) /\ Started(pushing) /\ OnCommand(pushing) /\ Released(pushing)
      BY <1>0, <1>3, <2>2 DEF ProcInv, Quiet, Started, OnCommand, Released
    <2>4. OwnArchive(m, pushing) /\ PriorRead(m, pushing) /\ Imports(pushing)
      BY <1>0, <1>3, <2>2 DEF ProcInv, Quiet, OwnArchive, PriorRead, Imports
    <2>5. Writers(pushing) /\ Parts(pushing)
      BY <1>0, <1>3, <2>2 DEF ProcInv, Quiet, Writers, Parts
    <2>6. Published(m, pushing)
      BY <1>0, <1>3, <2>2 DEF ProcInv, Quiet, Started, Published, Unpublished
    <2> QED
      BY <1>0, <1>3, <2>1, <2>2, <2>3, <2>4, <2>5, <2>6, LocalStep DEF ProcInv
  <1>4. CASE proc' = [proc EXCEPT ![m] = pulling] /\ p.cmd.apply /\ p.cmd.verb = "pull" /\ (p.view # None => Readable(p.view))
    <2>1. pulling \in Proc
      BY <1>0, <1>4 DEF Proc
    <2>2. /\ pulling.pc = "import" /\ pulling.shown = p.view /\ pulling.cmd = p.cmd
          /\ pulling.run = p.run
          /\ pulling.view = p.view /\ pulling.read = p.read /\ pulling.open = p.open
          /\ pulling.sent = p.sent
          /\ pulling.writers = p.writers /\ pulling.lost = p.lost
          /\ pulling.conflict = p.conflict /\ pulling.err = p.err
          /\ pulling.imported = p.imported /\ pulling.outcome = p.outcome
      BY <1>0 DEF Proc
    <2> HIDE DEF pulling
    <2>3. Quiet(pulling) /\ Started(pulling) /\ OnCommand(pulling) /\ Released(pulling)
      BY <1>0, <1>4, <2>2 DEF ProcInv, Quiet, Started, OnCommand, Released
    <2>4. OwnArchive(m, pulling) /\ PriorRead(m, pulling) /\ Imports(pulling)
      BY <1>0, <1>4, <2>2 DEF ProcInv, Quiet, OwnArchive, PriorRead, Imports, Sound,
         Readable, Complete
    <2>5. Writers(pulling) /\ Parts(pulling)
      BY <1>0, <1>4, <2>2 DEF ProcInv, Quiet, Writers, Parts
    <2>6. Published(m, pulling)
      BY <1>0, <1>4, <2>2 DEF ProcInv, Quiet, Started, Published, Unpublished
    <2> QED
      BY <1>0, <1>4, <2>1, <2>2, <2>3, <2>4, <2>5, <2>6, LocalStep DEF ProcInv
  <1>5. CASE Fails(m)
    BY <1>0, <1>5, FailsStep
  <1>6. CASE /\ p.view # None => Readable(p.view)
             /\ proc' = [proc EXCEPT ![m] =
                   [p EXCEPT !.pc = IF ~p.cmd.apply THEN "closing"
                                    ELSE IF p.cmd.verb = "push" THEN "apply" ELSE "import",
                             !.shown = IF p.cmd.verb = "pull" THEN p.view ELSE None]]
    <2>1. CASE ~p.cmd.apply
      BY <1>0, <1>1, <1>2, <1>6, <2>1
    <2>2. CASE p.cmd.apply
      BY <1>0, <1>3, <1>4, <1>6, <2>2
    <2> QED
      BY <2>1, <2>2
  <1> QED
    BY <1>0, <1>5, <1>6 DEF Plan

(* A push is refused or opens its upload. *)
LEMMA ApplyPushStep ==
  ASSUME SyncInv, NEW m \in Machines, ApplyPush(m)
  PROVE  SyncInv'
  <1> DEFINE p == proc[m]
             conflict == [p EXCEPT !.pc = "closing", !.err = TRUE, !.conflict = TRUE]
             upload == [p EXCEPT !.pc = "export", !.writers = Closers(p.cmd),
                                 !.sent = [run |-> p.run, by |-> m, pass |-> p.cmd.pass, tools |-> 0, meta |-> FALSE, whole |-> FALSE]]
  <1>0. /\ p.pc = "apply" /\ p.cmd.pass \in Secrets \cup {Plain} /\ p \in Proc
        /\ proc \in [Machines -> Proc] /\ UNCHANGED shared
        /\ ProcInv(m, p) /\ LogInv /\ remote \in Archive \cup {None} /\ Len(log) \in Nat
    BY CommandFields DEF SyncInv, TypeOK, shared, ApplyPush, Proc
  <1>1. CASE proc' = [proc EXCEPT ![m] = conflict]
    <2>1. conflict \in Proc
      BY <1>0, <1>1 DEF Proc
    <2>2. /\ conflict.pc = "closing" /\ conflict.err = TRUE /\ conflict.conflict = TRUE
          /\ conflict.cmd = p.cmd
          /\ conflict.run = p.run /\ conflict.view = p.view /\ conflict.read = p.read
          /\ conflict.open = p.open
          /\ conflict.sent = p.sent /\ conflict.writers = p.writers /\ conflict.lost = p.lost
          /\ conflict.shown = p.shown
          /\ conflict.imported = p.imported /\ conflict.outcome = p.outcome
      BY <1>0 DEF Proc
    <2> HIDE DEF conflict
    <2>3. Quiet(conflict) /\ Started(conflict) /\ OnCommand(conflict) /\ Released(conflict)
      BY <1>0, <1>1, <2>2 DEF ProcInv, Quiet, Started, OnCommand, Released
    <2>4. OwnArchive(m, conflict) /\ PriorRead(m, conflict) /\ Imports(conflict)
      BY <1>0, <1>1, <2>2 DEF ProcInv, Quiet, OwnArchive, PriorRead, Imports
    <2>5. Writers(conflict) /\ Parts(conflict)
      BY <1>0, <1>1, <2>2 DEF ProcInv, Quiet, Writers, Parts
    <2>6. Published(m, conflict)
      BY <1>0, <1>1, <2>2 DEF ProcInv, Quiet, Started, Published, Unpublished
    <2> QED
      BY <1>0, <1>1, <2>1, <2>2, <2>3, <2>4, <2>5, <2>6, LocalStep DEF ProcInv
  <1>2. CASE proc' = [proc EXCEPT ![m] = upload] /\ (~CrossMachine(m) \/ p.cmd.force)
    <2> DEFINE a == [run |-> p.run, by |-> m, pass |-> p.cmd.pass, tools |-> 0, meta |-> FALSE, whole |-> FALSE]
    <2>0. a \in Archive /\ a # None
      <3>1. p.run \in 0 .. MaxRuns /\ 0 \in 0 .. N
        BY <1>0, NAssumption DEF Proc
      <3>2. a \in Archive
        BY <1>0, <3>1 DEF Archive
      <3> QED
        BY <3>2, NoneAssumption
    <2>7. /\ a.run = p.run /\ a.by = m /\ a.pass = p.cmd.pass
          /\ a.tools = 0 /\ ~a.meta /\ ~a.whole
      OBVIOUS
    <2> HIDE DEF a
    <2>8. upload = [p EXCEPT !.pc = "export", !.writers = Closers(p.cmd), !.sent = a]
      BY <1>0 DEF a, Proc
    <2> HIDE DEF upload
    <2>1. upload \in Proc
      BY CloserKinds, <2>0, <2>7, <2>8, <1>0, <1>2 DEF Proc
    <2>2. /\ upload.pc = "export" /\ upload.writers = Closers(p.cmd) /\ upload.sent = a
          /\ upload.cmd = p.cmd
          /\ upload.run = p.run /\ upload.view = p.view /\ upload.read = p.read
          /\ upload.open = p.open
          /\ upload.lost = p.lost /\ upload.conflict = p.conflict /\ upload.err = p.err
          /\ upload.shown = p.shown
          /\ upload.imported = p.imported /\ upload.outcome = p.outcome
      BY <2>0, <2>7, <2>8, <1>0 DEF Proc
    <2>9. /\ Closers(p.cmd) \in {<<"sink">>, <<"encrypt", "sink">>} /\ Closers(p.cmd) # <<>>
          /\ p.cmd.pass # Plain => Closers(p.cmd) \notin {<<>>, <<"sink">>}
      BY CloserKinds
    <2>3. Quiet(upload) /\ Started(upload) /\ OnCommand(upload) /\ Released(upload)
      BY <2>0, <2>7, <2>8, <2>9, <1>0, <1>2, <2>2 DEF ProcInv, Quiet, Started, OnCommand,
         Released
    <2>10. OwnArchive(m, upload) /\ Imports(upload)
      BY <2>0, <2>7, <2>8, <2>9, <1>0, <1>2, <2>2 DEF ProcInv, Quiet, OwnArchive, OnCommand,
         Imports, Sound
    <2>11. PriorRead(m, upload)
      BY <2>0, <2>7, <2>8, <2>9, <1>0, <1>2, <2>2 DEF ProcInv, PriorRead, OnCommand,
         CrossMachine
    <2>4. OwnArchive(m, upload) /\ PriorRead(m, upload) /\ Imports(upload)
      BY <2>10, <2>11
    <2>5. Writers(upload) /\ Parts(upload)
      BY <2>0, <2>7, <2>8, <2>9, <1>0, <1>2, <2>2 DEF ProcInv, Quiet, Writers, Parts
    <2>6. Published(m, upload)
      BY <2>0, <2>7, <2>8, <2>9, <1>0, <1>2, <2>2 DEF ProcInv, Quiet, Started, Published,
         Unpublished
    <2> QED
      BY <1>0, <1>2, <2>1, <2>2, <2>3, <2>4, <2>5, <2>6, LocalStep DEF ProcInv
  <1>3. CASE Fails(m)
    BY <1>0, <1>3, FailsStep
  <1> QED
    BY <1>0, <1>1, <1>2, <1>3 DEF ApplyPush, shared, Conflict, Upload

(* The tools' parts. *)
LEMMA ExportStep ==
  ASSUME SyncInv, NEW m \in Machines, Export(m)
  PROVE  SyncInv'
  <1> DEFINE p == proc[m]
             more == [p EXCEPT !.sent.tools = @ + 1]
             all == [p EXCEPT !.pc = "metadata"]
             broken == [p EXCEPT !.pc = "zip", !.err = TRUE]
  <1>0. /\ p.pc = "export" /\ p.sent \in Archive /\ p.sent # None /\ p \in Proc
        /\ proc \in [Machines -> Proc] /\ UNCHANGED shared
        /\ ProcInv(m, p) /\ LogInv /\ remote \in Archive \cup {None} /\ Len(log) \in Nat
    BY DEF SyncInv, TypeOK, shared, Export, ProcInv, Writers, Proc
  <1>1. CASE proc' = [proc EXCEPT ![m] = more] /\ TargetsLeft(p)
    <2> DEFINE a == [p.sent EXCEPT !.tools = @ + 1]
    <2>0. a \in Archive /\ a # None
      BY <1>0, <1>1, NoneAssumption, NAssumption DEF Archive, TargetsLeft
    <2>7. /\ a.tools = p.sent.tools + 1
          /\ a.run = p.sent.run /\ a.by = p.sent.by /\ a.pass = p.sent.pass
          /\ a.meta = p.sent.meta /\ a.whole = p.sent.whole
      BY <1>0 DEF Archive
    <2> HIDE DEF a
    <2>8. more = [p EXCEPT !.sent = a]
      BY <1>0 DEF a, Proc
    <2> HIDE DEF more
    <2>1. more \in Proc
      BY <2>0, <2>7, <2>8, <1>0, <1>1 DEF Proc, Archive, TargetsLeft
    <2>2. /\ more.sent = a /\ more.pc = p.pc /\ more.cmd = p.cmd /\ more.run = p.run
          /\ more.view = p.view /\ more.read = p.read /\ more.open = p.open
          /\ more.writers = p.writers
          /\ more.lost = p.lost /\ more.conflict = p.conflict /\ more.err = p.err
          /\ more.shown = p.shown
          /\ more.imported = p.imported /\ more.outcome = p.outcome
      BY <2>0, <2>7, <2>8, <1>0 DEF Proc
    <2>3. Quiet(more) /\ Started(more) /\ OnCommand(more) /\ Released(more)
      BY <2>0, <2>7, <2>8, <1>0, <1>1, <2>2 DEF ProcInv, Quiet, Started, OnCommand, Released
    <2>4. OwnArchive(m, more) /\ PriorRead(m, more) /\ Imports(more)
      BY <2>0, <2>7, <2>8, <1>0, <1>1, <2>2, NAssumption DEF ProcInv, Quiet, OwnArchive,
         PriorRead, Imports, Sound, TargetsLeft
    <2>5. Writers(more) /\ Parts(more)
      BY <2>0, <2>7, <2>8, <1>0, <1>1, <2>2 DEF ProcInv, Quiet, Writers, Parts
    <2>6. Published(m, more)
      BY <2>0, <2>7, <2>8, <1>0, <1>1, <2>2 DEF ProcInv, Quiet, Started, Published,
         Unpublished
    <2> QED
      BY <1>0, <1>1, <2>1, <2>2, <2>3, <2>4, <2>5, <2>6, LocalStep DEF ProcInv
  <1>2. CASE proc' = [proc EXCEPT ![m] = all] /\ ~TargetsLeft(p)
    <2>1. all \in Proc
      BY <1>0, <1>2, NoneAssumption DEF Proc
    <2>2. /\ all.pc = "metadata" /\ all.cmd = p.cmd /\ all.run = p.run /\ all.view = p.view
          /\ all.read = p.read /\ all.open = p.open /\ all.sent = p.sent
          /\ all.writers = p.writers
          /\ all.lost = p.lost /\ all.conflict = p.conflict /\ all.err = p.err
          /\ all.shown = p.shown
          /\ all.imported = p.imported /\ all.outcome = p.outcome
      BY <1>0 DEF Proc
    <2> HIDE DEF all
    <2>3. Quiet(all) /\ Started(all) /\ OnCommand(all) /\ Released(all)
      BY <1>0, <1>2, <2>2 DEF ProcInv, Quiet, Started, OnCommand, Released
    <2>4. OwnArchive(m, all) /\ PriorRead(m, all) /\ Imports(all)
      BY <1>0, <1>2, <2>2 DEF ProcInv, Quiet, OwnArchive, PriorRead, Imports
    <2>5. Writers(all) /\ Parts(all)
      BY NAssumption, <1>0, <1>2, <2>2 DEF ProcInv, Quiet, Writers, Parts, Archive,
         TargetsLeft
    <2>6. Published(m, all)
      BY <1>0, <1>2, <2>2 DEF ProcInv, Quiet, Started, Published, Unpublished
    <2> QED
      BY <1>0, <1>2, <2>1, <2>2, <2>3, <2>4, <2>5, <2>6, LocalStep DEF ProcInv
  <1>3. CASE proc' = [proc EXCEPT ![m] = broken]
    <2>1. broken \in Proc
      BY <1>0, <1>3 DEF Proc
    <2>2. /\ broken.pc = "zip" /\ broken.err = TRUE /\ broken.cmd = p.cmd
          /\ broken.run = p.run
          /\ broken.view = p.view /\ broken.read = p.read /\ broken.open = p.open
          /\ broken.sent = p.sent
          /\ broken.writers = p.writers /\ broken.lost = p.lost
          /\ broken.conflict = p.conflict /\ broken.shown = p.shown
          /\ broken.imported = p.imported /\ broken.outcome = p.outcome
      BY <1>0 DEF Proc
    <2> HIDE DEF broken
    <2>3. Quiet(broken) /\ Started(broken) /\ OnCommand(broken) /\ Released(broken)
      BY <1>0, <1>3, <2>2 DEF ProcInv, Quiet, Started, OnCommand, Released
    <2>4. OwnArchive(m, broken) /\ PriorRead(m, broken) /\ Imports(broken)
      BY <1>0, <1>3, <2>2 DEF ProcInv, Quiet, OwnArchive, PriorRead, Imports
    <2>5. Writers(broken) /\ Parts(broken)
      BY <1>0, <1>3, <2>2 DEF ProcInv, Quiet, Writers, Parts
    <2>6. Published(m, broken)
      BY <1>0, <1>3, <2>2 DEF ProcInv, Quiet, Started, Published, Unpublished
    <2> QED
      BY <1>0, <1>3, <2>1, <2>2, <2>3, <2>4, <2>5, <2>6, LocalStep DEF ProcInv
  <1> QED
    BY <1>0, <1>1, <1>2, <1>3 DEF Export, shared

(* The metadata comes last. *)
LEMMA WriteMetadataStep ==
  ASSUME SyncInv, NEW m \in Machines, WriteMetadata(m)
  PROVE  SyncInv'
  <1> DEFINE p == proc[m]
             named == [p EXCEPT !.pc = "zip", !.sent.meta = TRUE]
             broken == [p EXCEPT !.pc = "zip", !.err = TRUE]
  <1>0. /\ p.pc = "metadata" /\ p.sent \in Archive /\ p.sent # None /\ p \in Proc
        /\ proc \in [Machines -> Proc] /\ UNCHANGED shared
        /\ ProcInv(m, p) /\ LogInv /\ remote \in Archive \cup {None} /\ Len(log) \in Nat
    BY DEF SyncInv, TypeOK, shared, WriteMetadata, ProcInv, Writers, Proc
  <1>1. CASE proc' = [proc EXCEPT ![m] = named]
    <2> DEFINE a == [p.sent EXCEPT !.meta = TRUE]
    <2>0. a \in Archive /\ a # None
      BY <1>0, <1>1, NoneAssumption, NAssumption DEF Archive, TargetsLeft
    <2>7. /\ a.meta = TRUE
          /\ a.run = p.sent.run /\ a.by = p.sent.by /\ a.pass = p.sent.pass
          /\ a.tools = p.sent.tools /\ a.whole = p.sent.whole
      BY <1>0 DEF Archive
    <2> HIDE DEF a
    <2>8. named = [p EXCEPT !.pc = "zip", !.sent = a]
      BY <1>0 DEF a, Proc
    <2> HIDE DEF named
    <2>1. named \in Proc
      BY <2>0, <2>7, <2>8, <1>0, <1>1 DEF Proc, Archive
    <2>2. /\ named.pc = "zip" /\ named.sent = a /\ named.cmd = p.cmd /\ named.run = p.run
          /\ named.view = p.view /\ named.read = p.read /\ named.open = p.open
          /\ named.writers = p.writers
          /\ named.lost = p.lost /\ named.conflict = p.conflict /\ named.err = p.err
          /\ named.shown = p.shown
          /\ named.imported = p.imported /\ named.outcome = p.outcome
      BY <2>0, <2>7, <2>8, <1>0 DEF Proc
    <2>3. Quiet(named) /\ Started(named) /\ OnCommand(named) /\ Released(named)
      BY <2>0, <2>7, <2>8, <1>0, <1>1, <2>2 DEF ProcInv, Quiet, Started, OnCommand, Released
    <2>4. OwnArchive(m, named) /\ PriorRead(m, named) /\ Imports(named)
      BY <2>0, <2>7, <2>8, <1>0, <1>1, <2>2, NAssumption DEF ProcInv, Quiet, OwnArchive,
         PriorRead, Imports, Sound, Parts
    <2>5. Writers(named) /\ Parts(named)
      BY <2>0, <2>7, <2>8, <1>0, <1>1, <2>2 DEF ProcInv, Quiet, Writers, Parts, Archive
    <2>6. Published(m, named)
      BY <2>0, <2>7, <2>8, <1>0, <1>1, <2>2 DEF ProcInv, Quiet, Started, Published,
         Unpublished
    <2> QED
      BY <1>0, <1>1, <2>1, <2>2, <2>3, <2>4, <2>5, <2>6, LocalStep DEF ProcInv
  <1>2. CASE proc' = [proc EXCEPT ![m] = broken]
    <2>1. broken \in Proc
      BY <1>0, <1>2 DEF Proc
    <2>2. /\ broken.pc = "zip" /\ broken.err = TRUE /\ broken.cmd = p.cmd
          /\ broken.run = p.run
          /\ broken.view = p.view /\ broken.read = p.read /\ broken.open = p.open
          /\ broken.sent = p.sent
          /\ broken.writers = p.writers /\ broken.lost = p.lost
          /\ broken.conflict = p.conflict /\ broken.shown = p.shown
          /\ broken.imported = p.imported /\ broken.outcome = p.outcome
      BY <1>0 DEF Proc
    <2> HIDE DEF broken
    <2>3. Quiet(broken) /\ Started(broken) /\ OnCommand(broken) /\ Released(broken)
      BY <1>0, <1>2, <2>2 DEF ProcInv, Quiet, Started, OnCommand, Released
    <2>4. OwnArchive(m, broken) /\ PriorRead(m, broken) /\ Imports(broken)
      BY <1>0, <1>2, <2>2 DEF ProcInv, Quiet, OwnArchive, PriorRead, Imports
    <2>5. Writers(broken) /\ Parts(broken)
      BY <1>0, <1>2, <2>2 DEF ProcInv, Quiet, Writers, Parts
    <2>6. Published(m, broken)
      BY <1>0, <1>2, <2>2 DEF ProcInv, Quiet, Started, Published, Unpublished
    <2> QED
      BY <1>0, <1>2, <2>1, <2>2, <2>3, <2>4, <2>5, <2>6, LocalStep DEF ProcInv
  <1> QED
    BY <1>0, <1>1, <1>2 DEF WriteMetadata, shared

(* The end of the zip. *)
LEMMA FinishZipStep ==
  ASSUME SyncInv, NEW m \in Machines, FinishZip(m)
  PROVE  SyncInv'
  <1> DEFINE p == proc[m]
             finished == [p EXCEPT !.pc = "close", !.sent.whole = (p.cmd.pass = Plain)]
             broken == [p EXCEPT !.pc = "close", !.err = TRUE]
  <1>0. /\ p.pc = "zip" /\ p.sent \in Archive /\ p.sent # None /\ p \in Proc
        /\ proc \in [Machines -> Proc] /\ UNCHANGED shared
        /\ ProcInv(m, p) /\ LogInv /\ remote \in Archive \cup {None} /\ Len(log) \in Nat
    BY DEF SyncInv, TypeOK, shared, FinishZip, ProcInv, Writers, Proc
  <1>1. CASE proc' = [proc EXCEPT ![m] = finished]
    <2> DEFINE a == [p.sent EXCEPT !.whole = (p.cmd.pass = Plain)]
    <2>0. a \in Archive /\ a # None
      BY <1>0, <1>1, NoneAssumption, NAssumption DEF Archive, TargetsLeft
    <2>7. /\ a.whole = (p.cmd.pass = Plain)
          /\ a.run = p.sent.run /\ a.by = p.sent.by /\ a.pass = p.sent.pass
          /\ a.tools = p.sent.tools /\ a.meta = p.sent.meta
      BY <1>0 DEF Archive
    <2> HIDE DEF a
    <2>8. finished = [p EXCEPT !.pc = "close", !.sent = a]
      BY <1>0 DEF a, Proc
    <2> HIDE DEF finished
    <2>1. finished \in Proc
      BY CloserKinds, <2>0, <2>7, <2>8, <1>0, <1>1 DEF Proc, Archive
    <2>2. /\ finished.pc = "close" /\ finished.sent = a /\ finished.cmd = p.cmd
          /\ finished.run = p.run
          /\ finished.view = p.view /\ finished.read = p.read /\ finished.open = p.open
          /\ finished.writers = p.writers
          /\ finished.lost = p.lost /\ finished.conflict = p.conflict /\ finished.err = p.err
          /\ finished.shown = p.shown
          /\ finished.imported = p.imported /\ finished.outcome = p.outcome
      BY <2>0, <2>7, <2>8, <1>0 DEF Proc
    <2>9. /\ Closers(p.cmd) \in {<<"sink">>, <<"encrypt", "sink">>} /\ Closers(p.cmd) # <<>>
          /\ p.cmd.pass # Plain => Closers(p.cmd) \notin {<<>>, <<"sink">>}
      BY CloserKinds
    <2>3. Quiet(finished) /\ Started(finished) /\ OnCommand(finished) /\ Released(finished)
      BY <2>0, <2>7, <2>8, <2>9, <1>0, <1>1, <2>2 DEF ProcInv, Quiet, Started, OnCommand,
         Released
    <2>4. OwnArchive(m, finished) /\ PriorRead(m, finished) /\ Imports(finished)
      BY <2>0, <2>7, <2>8, <2>9, <1>0, <1>1, <2>2, NAssumption DEF ProcInv, Quiet,
         OwnArchive, PriorRead, Imports, Sound
    <2>5. Writers(finished) /\ Parts(finished)
      BY <2>0, <2>7, <2>8, <2>9, <1>0, <1>1, <2>2 DEF ProcInv, Quiet, Writers, Parts
    <2>6. Published(m, finished)
      BY <2>0, <2>7, <2>8, <2>9, <1>0, <1>1, <2>2 DEF ProcInv, Quiet, Started, Published,
         Unpublished, Writers
    <2> QED
      BY <1>0, <1>1, <2>1, <2>2, <2>3, <2>4, <2>5, <2>6, LocalStep DEF ProcInv
  <1>2. CASE proc' = [proc EXCEPT ![m] = broken]
    <2>1. broken \in Proc
      BY <1>0, <1>2 DEF Proc
    <2>2. /\ broken.pc = "close" /\ broken.err = TRUE /\ broken.cmd = p.cmd
          /\ broken.run = p.run
          /\ broken.view = p.view /\ broken.read = p.read /\ broken.open = p.open
          /\ broken.sent = p.sent
          /\ broken.writers = p.writers /\ broken.lost = p.lost
          /\ broken.conflict = p.conflict /\ broken.shown = p.shown
          /\ broken.imported = p.imported /\ broken.outcome = p.outcome
      BY <1>0 DEF Proc
    <2> HIDE DEF broken
    <2>3. Quiet(broken) /\ Started(broken) /\ OnCommand(broken) /\ Released(broken)
      BY <1>0, <1>2, <2>2 DEF ProcInv, Quiet, Started, OnCommand, Released
    <2>4. OwnArchive(m, broken) /\ PriorRead(m, broken) /\ Imports(broken)
      BY <1>0, <1>2, <2>2 DEF ProcInv, Quiet, OwnArchive, PriorRead, Imports
    <2>5. Writers(broken) /\ Parts(broken)
      BY <1>0, <1>2, <2>2 DEF ProcInv, Quiet, Writers, Parts
    <2>6. Published(m, broken)
      BY <1>0, <1>2, <2>2 DEF ProcInv, Quiet, Started, Published, Unpublished
    <2> QED
      BY <1>0, <1>2, <2>1, <2>2, <2>3, <2>4, <2>5, <2>6, LocalStep DEF ProcInv
  <1> QED
    BY <1>0, <1>1, <1>2 DEF FinishZip, shared

(* The import. *)
LEMMA ImportStep ==
  ASSUME SyncInv, NEW m \in Machines, Import(m)
  PROVE  SyncInv'
  <1> DEFINE p == proc[m]
             imported == [p EXCEPT !.pc = "closing", !.imported = p.view]
  <1>0. /\ p.pc = "import" /\ p \in Proc /\ proc \in [Machines -> Proc] /\ UNCHANGED shared
        /\ ProcInv(m, p) /\ LogInv /\ remote \in Archive \cup {None} /\ Len(log) \in Nat
    BY DEF SyncInv, TypeOK, shared, Import
  <1>1. CASE proc' = [proc EXCEPT ![m] = imported]
    <2>1. imported \in Proc
      BY <1>0, <1>1 DEF Proc
    <2>2. /\ imported.pc = "closing" /\ imported.imported = p.view /\ imported.cmd = p.cmd
          /\ imported.run = p.run
          /\ imported.view = p.view /\ imported.read = p.read /\ imported.open = p.open
          /\ imported.sent = p.sent
          /\ imported.writers = p.writers /\ imported.lost = p.lost
          /\ imported.conflict = p.conflict /\ imported.err = p.err
          /\ imported.shown = p.shown /\ imported.outcome = p.outcome
      BY <1>0 DEF Proc
    <2> HIDE DEF imported
    <2>3. Quiet(imported) /\ Started(imported) /\ OnCommand(imported) /\ Released(imported)
      BY <1>0, <1>1, <2>2 DEF ProcInv, Quiet, Started, OnCommand, Released
    <2>4. OwnArchive(m, imported) /\ PriorRead(m, imported) /\ Imports(imported)
      BY <1>0, <1>1, <2>2 DEF ProcInv, Quiet, OwnArchive, PriorRead, Imports
    <2>5. Writers(imported) /\ Parts(imported)
      BY <1>0, <1>1, <2>2 DEF ProcInv, Quiet, Writers, Parts, OnCommand
    <2>6. Published(m, imported)
      BY <1>0, <1>1, <2>2 DEF ProcInv, Quiet, Started, Published, Unpublished
    <2> QED
      BY <1>0, <1>1, <2>1, <2>2, <2>3, <2>4, <2>5, <2>6, LocalStep DEF ProcInv
  <1>2. CASE Fails(m)
    BY <1>0, <1>2, FailsStep
  <1> QED
    BY <1>0, <1>1, <1>2 DEF Import, shared, SourceOf

(* An upload that will not be committed. *)
LEMMA LoseStep ==
  ASSUME SyncInv, NEW m \in Machines, Lose(m)
  PROVE  SyncInv'
  <1> DEFINE p == proc[m]
             lost == [p EXCEPT !.lost = TRUE]
  <1>0. /\ p.pc \in Uploading /\ p \in Proc /\ proc \in [Machines -> Proc] /\ UNCHANGED shared
        /\ ProcInv(m, p) /\ LogInv /\ remote \in Archive \cup {None} /\ Len(log) \in Nat
    BY DEF SyncInv, TypeOK, shared, Lose
  <1>1. CASE proc' = [proc EXCEPT ![m] = lost]
    <2>1. lost \in Proc
      BY <1>0, <1>1 DEF Proc
    <2>2. /\ lost.lost = TRUE /\ lost.pc = p.pc /\ lost.cmd = p.cmd /\ lost.run = p.run
          /\ lost.view = p.view /\ lost.read = p.read /\ lost.open = p.open
          /\ lost.sent = p.sent
          /\ lost.writers = p.writers /\ lost.conflict = p.conflict /\ lost.err = p.err
          /\ lost.shown = p.shown
          /\ lost.imported = p.imported /\ lost.outcome = p.outcome
      BY <1>0 DEF Proc
    <2> HIDE DEF lost
    <2>3. Quiet(lost) /\ Started(lost) /\ OnCommand(lost) /\ Released(lost)
      BY <1>0, <1>1, <2>2 DEF ProcInv, Quiet, Started, OnCommand, Released
    <2>4. OwnArchive(m, lost) /\ PriorRead(m, lost) /\ Imports(lost)
      BY <1>0, <1>1, <2>2 DEF ProcInv, Quiet, OwnArchive, PriorRead, Imports
    <2>5. Writers(lost) /\ Parts(lost)
      BY <1>0, <1>1, <2>2 DEF ProcInv, Quiet, Writers, Parts
    <2>6. Published(m, lost)
      BY <1>0, <1>1, <2>2 DEF ProcInv, Quiet, Started, Published, Unpublished,
         PublishedOnce, Visible
    <2> QED
      BY <1>0, <1>1, <2>1, <2>2, <2>3, <2>4, <2>5, <2>6, LocalStep DEF ProcInv
  <1> QED
    BY <1>0, <1>1 DEF Lose, shared

(* A kill. *)
LEMMA KillStep ==
  ASSUME SyncInv, NEW m \in Machines, Kill(m)
  PROVE  SyncInv'
  <1> DEFINE p == proc[m]
             killed == [p EXCEPT !.pc = "over", !.outcome = "killed",
                                 !.open = p.open \ {"reader"}, !.writers = <<>>]
  <1>0. /\ p.pc # "over" /\ p \in Proc /\ proc \in [Machines -> Proc] /\ UNCHANGED shared
        /\ ProcInv(m, p) /\ LogInv /\ remote \in Archive \cup {None} /\ Len(log) \in Nat
    BY DEF SyncInv, TypeOK, shared, Kill
  <1>1. CASE proc' = [proc EXCEPT ![m] = killed]
    <2>1. killed \in Proc
      BY <1>0, <1>1 DEF Proc
    <2>2. /\ killed.pc = "over" /\ killed.outcome = "killed"
          /\ killed.open = p.open \ {"reader"} /\ killed.writers = <<>>
          /\ killed.cmd = p.cmd /\ killed.run = p.run /\ killed.view = p.view
          /\ killed.read = p.read
          /\ killed.sent = p.sent /\ killed.lost = p.lost /\ killed.conflict = p.conflict
          /\ killed.err = p.err
          /\ killed.shown = p.shown /\ killed.imported = p.imported
      BY <1>0 DEF Proc
    <2> HIDE DEF killed
    <2>3. Quiet(killed) /\ Started(killed) /\ OnCommand(killed) /\ Released(killed)
      BY <1>0, <1>1, <2>2 DEF ProcInv, Quiet, Started, OnCommand, Released
    <2>4. OwnArchive(m, killed) /\ PriorRead(m, killed) /\ Imports(killed)
      BY <1>0, <1>1, <2>2 DEF ProcInv, Quiet, OwnArchive, PriorRead, Imports
    <2>5. Writers(killed) /\ Parts(killed)
      BY <1>0, <1>1, <2>2 DEF ProcInv, Quiet, Writers, Parts
    <2>6. Published(m, killed)
      BY <1>0, <1>1, <2>2 DEF ProcInv, Quiet, Started, Published, Unpublished
    <2> QED
      BY <1>0, <1>1, <2>1, <2>2, <2>3, <2>4, <2>5, <2>6, LocalStep DEF ProcInv
  <1> QED
    BY <1>0, <1>1 DEF Kill, shared

(* Closing the last writer makes what was sent visible, once. *)
LEMMA CommitStep ==
  ASSUME SyncInv, NEW m \in Machines, proc[m].pc = "close", proc[m].writers = <<"sink">>,
         remote' = proc[m].sent, log' = Append(log, proc[m].sent), runs' = runs,
         proc' = [proc EXCEPT ![m] = [proc[m] EXCEPT !.writers = <<>>]]
  PROVE  SyncInv'
  <1> DEFINE p == proc[m]
             q == [p EXCEPT !.writers = <<>>]
             new == Len(log) + 1
  <1>0. /\ TypeOK /\ LogInv /\ RunsApart /\ ProcInv(m, p) /\ p \in Proc
        /\ \A n \in Machines : ProcInv(n, proc[n])
    BY DEF SyncInv, TypeOK
  <1>1. q \in Proc
    BY <1>0 DEF Proc
  <1>2. /\ q.pc = "close" /\ q.writers = <<>> /\ q.cmd = p.cmd /\ q.run = p.run
        /\ q.view = p.view
        /\ q.read = p.read /\ q.open = p.open /\ q.sent = p.sent /\ q.lost = p.lost
        /\ q.conflict = p.conflict /\ q.err = p.err /\ q.shown = p.shown
        /\ q.imported = p.imported /\ q.outcome = p.outcome
    BY <1>0 DEF Proc
  <1>3. proc'[m] = q /\ proc' = [proc EXCEPT ![m] = q] /\ \A n \in Machines \ {m} : proc'[n] = proc[n]
    BY <1>0 DEF TypeOK
  <1> HIDE DEF q
  <1>4. p.sent # None /\ p.sent \in Archive /\ p.run > 0 /\ p.outcome = "none" /\ Unpublished(p)
    <2>1. <<"sink">> # <<>>
      <3>1. Len(<<"sink">>) = 1 /\ Len(<<>>) = 0
        OBVIOUS
      <3> QED
        BY <3>1
    <2> QED
      BY <1>0, <2>1 DEF ProcInv, Writers, Started, Published, Proc
  <1>5. /\ log' \in Seq(Archive) /\ Len(log) \in Nat /\ Len(log') = new
        /\ DOMAIN log' = 1 .. new /\ DOMAIN log = 1 .. Len(log)
        /\ \A i \in DOMAIN log : log'[i] = log[i]
        /\ log'[new] = p.sent
    BY <1>0, <1>4 DEF TypeOK
  <1>6. TypeOK'
    BY <1>0, <1>1, <1>3, <1>4, <1>5 DEF TypeOK
  <1>7. p.sent.run = p.run /\ p.sent.by = m /\ Sound(p.sent)
    BY <1>0, <1>4 DEF ProcInv, OwnArchive
  <1>8. LogInv'
    <2>1. p.run \in 1 .. runs
      BY <1>0, <1>4 DEF RunsApart, Proc, TypeOK
    <2>2. \A i \in DOMAIN log' : i \in DOMAIN log \/ i = new
      BY <1>5
    <2>3. \A i \in DOMAIN log' : log'[i].run \in 1 .. runs /\ log'[i].by \in Machines
      BY <1>0, <1>5, <1>7, <2>1, <2>2 DEF LogInv
    <2> QED
      BY <1>7, <2>3 DEF LogInv, Sound
  <1>9. RunsApart'
    BY <1>0, <1>2, <1>3 DEF RunsApart
  <1>10. ASSUME NEW n \in Machines \ {m} PROVE ProcInv(n, proc[n])'
    <2> DEFINE r == proc[n]
    <2>1. proc'[n] = r /\ ProcInv(n, r) /\ r \in Proc /\ r.run # p.run
      BY <1>0, <1>3, <1>4 DEF RunsApart, TypeOK
    <2>2. Unpublished(r) => Unpublished(r)'
      BY <1>3, <1>5, <1>7, <2>1 DEF Unpublished
    <2>3. PublishedOnce(r) => PublishedOnce(r)'
      <3>1. Visible(r)' = Visible(r)
        BY <1>3, <1>5, <1>7, <2>1 DEF Visible
      <3> QED
        BY <1>3, <1>5, <2>1, <3>1 DEF PublishedOnce
    <2>4. Published(n, r)'
      BY <1>3, <2>1, <2>2, <2>3 DEF ProcInv, Published, Complete
    <2>5. PriorRead(n, r)'
      BY <1>3, <1>5, <2>1 DEF ProcInv, PriorRead, Proc
    <2> QED
      BY <1>3, <2>1, <2>4, <2>5 DEF ProcInv, Quiet, Started, OnCommand, OwnArchive,
         Imports, Writers, Parts, Released, Sound, Complete, Closers
  <1>11. ProcInv(m, proc[m])'
    <2>1. Visible(proc[m])' = {new}
      BY <1>2, <1>3, <1>4, <1>5, <1>7 DEF Visible, Unpublished
    <2>2. PublishedOnce(proc[m])'
      BY <1>2, <1>3, <1>5, <2>1 DEF PublishedOnce
    <2>3. Published(m, proc[m])'
      BY <1>2, <1>3, <1>4, <2>2 DEF Published
    <2>4. PriorRead(m, proc[m])'
      BY <1>0, <1>2, <1>3, <1>5 DEF ProcInv, PriorRead, Proc
    <2>5. (Quiet(proc[m]) /\ Started(proc[m]) /\ OnCommand(proc[m]) /\ Released(proc[m]))'
      BY <1>0, <1>2, <1>3 DEF ProcInv, Quiet, Started, OnCommand, Released
    <2>6. (OwnArchive(m, proc[m]) /\ Imports(proc[m]))'
      BY <1>0, <1>2, <1>3 DEF ProcInv, OwnArchive, Imports, Sound, Complete
    <2>7. (Writers(proc[m]) /\ Parts(proc[m]))'
      BY <1>0, <1>2, <1>3 DEF ProcInv, Writers, Parts, Closers
    <2> QED
      BY <2>3, <2>4, <2>5, <2>6, <2>7 DEF ProcInv
  <1> QED
    BY <1>6, <1>8, <1>9, <1>10, <1>11 DEF SyncInv

(* A writer is closed. *)
LEMMA CloseWriterStep ==
  ASSUME SyncInv, NEW m \in Machines, CloseWriter(m)
  PROVE  SyncInv'
  <1> DEFINE p == proc[m]
             closed == [p EXCEPT !.pc = "closing"]
             ended == [p EXCEPT !.writers = <<"sink">>, !.sent.whole = TRUE]
             failed == [p EXCEPT !.writers = <<>>, !.err = TRUE]
             broken == [p EXCEPT !.writers = <<"sink">>, !.err = TRUE]
  <1>0. /\ p.pc = "close" /\ p.sent \in Archive /\ p.sent # None /\ p \in Proc
        /\ proc \in [Machines -> Proc]
        /\ ProcInv(m, p) /\ LogInv /\ remote \in Archive \cup {None} /\ Len(log) \in Nat
    BY DEF SyncInv, TypeOK, shared, CloseWriter, ProcInv, Writers, Proc
  <1>1. CASE proc' = [proc EXCEPT ![m] = closed] /\ p.writers = <<>> /\ UNCHANGED shared
    <2>1. closed \in Proc
      BY <1>0, <1>1 DEF Proc
    <2>2. /\ closed.pc = "closing" /\ closed.cmd = p.cmd /\ closed.run = p.run
          /\ closed.view = p.view
          /\ closed.read = p.read /\ closed.open = p.open /\ closed.sent = p.sent
          /\ closed.writers = p.writers
          /\ closed.lost = p.lost /\ closed.conflict = p.conflict /\ closed.err = p.err
          /\ closed.shown = p.shown
          /\ closed.imported = p.imported /\ closed.outcome = p.outcome
      BY <1>0 DEF Proc
    <2> HIDE DEF closed
    <2>3. Quiet(closed) /\ Started(closed) /\ OnCommand(closed) /\ Released(closed)
      BY <1>0, <1>1, <2>2 DEF ProcInv, Quiet, Started, OnCommand, Released
    <2>4. OwnArchive(m, closed) /\ PriorRead(m, closed) /\ Imports(closed)
      BY <1>0, <1>1, <2>2 DEF ProcInv, Quiet, OwnArchive, PriorRead, Imports
    <2>5. Writers(closed) /\ Parts(closed)
      BY <1>0, <1>1, <2>2 DEF ProcInv, Quiet, Writers, Parts
    <2>6. Published(m, closed)
      BY <1>0, <1>1, <2>2 DEF ProcInv, Quiet, Started, Published, Unpublished,
         PublishedOnce, Visible
    <2> QED
      BY <1>0, <1>1, <2>1, <2>2, <2>3, <2>4, <2>5, <2>6, LocalStep DEF ProcInv
  <1>2. CASE proc' = [proc EXCEPT ![m] = ended] /\ p.writers = <<"encrypt", "sink">> /\ UNCHANGED shared
    <2> DEFINE a == [p.sent EXCEPT !.whole = TRUE]
    <2>0. a \in Archive /\ a # None
      BY <1>0, <1>2, NoneAssumption, NAssumption DEF Archive, TargetsLeft
    <2>7. /\ a.whole = TRUE
          /\ a.run = p.sent.run /\ a.by = p.sent.by /\ a.pass = p.sent.pass
          /\ a.tools = p.sent.tools /\ a.meta = p.sent.meta
      BY <1>0 DEF Archive
    <2> HIDE DEF a
    <2>8. ended = [p EXCEPT !.writers = <<"sink">>, !.sent = a]
      BY <1>0 DEF a, Proc
    <2> HIDE DEF ended
    <2>1. ended \in Proc
      BY CloserKinds, <2>0, <2>7, <2>8, <1>0, <1>2 DEF Proc
    <2>2. /\ ended.writers = <<"sink">> /\ ended.sent = a /\ ended.pc = p.pc
          /\ ended.cmd = p.cmd
          /\ ended.run = p.run /\ ended.view = p.view /\ ended.read = p.read
          /\ ended.open = p.open
          /\ ended.lost = p.lost /\ ended.conflict = p.conflict /\ ended.err = p.err
          /\ ended.shown = p.shown
          /\ ended.imported = p.imported /\ ended.outcome = p.outcome
      BY <2>0, <2>7, <2>8, <1>0 DEF Proc
    <2>9. /\ Closers(p.cmd) \in {<<"sink">>, <<"encrypt", "sink">>} /\ Closers(p.cmd) # <<>>
          /\ p.cmd.pass # Plain => Closers(p.cmd) \notin {<<>>, <<"sink">>}
      BY CloserKinds
    <2>3. Quiet(ended) /\ Started(ended) /\ OnCommand(ended) /\ Released(ended)
      BY <2>0, <2>7, <2>8, <2>9, <1>0, <1>2, <2>2 DEF ProcInv, Quiet, Started, OnCommand,
         Released
    <2>4. OwnArchive(m, ended) /\ PriorRead(m, ended) /\ Imports(ended)
      BY <2>0, <2>7, <2>8, <2>9, <1>0, <1>2, <2>2, NAssumption DEF ProcInv, Quiet,
         OwnArchive, PriorRead, Imports, Sound
    <2>5. Writers(ended) /\ Parts(ended)
      BY <2>0, <2>7, <2>8, <2>9, <1>0, <1>2, <2>2 DEF ProcInv, Quiet, Writers, Parts
    <2>6. Published(m, ended)
      BY <2>0, <2>7, <2>8, <2>9, <1>0, <1>2, <2>2 DEF ProcInv, Quiet, Started, Published,
         Unpublished
    <2> QED
      BY <1>0, <1>2, <2>1, <2>2, <2>3, <2>4, <2>5, <2>6, LocalStep DEF ProcInv
  <1>3. CASE proc' = [proc EXCEPT ![m] = failed] /\ p.writers = <<"sink">> /\ UNCHANGED shared
    <2>1. failed \in Proc
      BY <1>0, <1>3 DEF Proc
    <2>2. /\ failed.writers = <<>> /\ failed.err = TRUE /\ failed.pc = p.pc
          /\ failed.cmd = p.cmd
          /\ failed.run = p.run /\ failed.view = p.view /\ failed.read = p.read
          /\ failed.open = p.open
          /\ failed.sent = p.sent /\ failed.lost = p.lost /\ failed.conflict = p.conflict
          /\ failed.shown = p.shown
          /\ failed.imported = p.imported /\ failed.outcome = p.outcome
      BY <1>0 DEF Proc
    <2> HIDE DEF failed
    <2>3. Quiet(failed) /\ Started(failed) /\ OnCommand(failed) /\ Released(failed)
      BY <1>0, <1>3, <2>2 DEF ProcInv, Quiet, Started, OnCommand, Released
    <2>4. OwnArchive(m, failed) /\ PriorRead(m, failed) /\ Imports(failed)
      BY <1>0, <1>3, <2>2 DEF ProcInv, Quiet, OwnArchive, PriorRead, Imports
    <2>5. Writers(failed) /\ Parts(failed)
      BY <1>0, <1>3, <2>2 DEF ProcInv, Quiet, Writers, Parts
    <2>6. Published(m, failed)
      BY <1>0, <1>3, <2>2 DEF ProcInv, Quiet, Started, Published, Unpublished
    <2> QED
      BY <1>0, <1>3, <2>1, <2>2, <2>3, <2>4, <2>5, <2>6, LocalStep DEF ProcInv
  <1>4. CASE proc' = [proc EXCEPT ![m] = broken] /\ p.writers = <<"encrypt", "sink">> /\ UNCHANGED shared
    <2>1. broken \in Proc
      BY <1>0, <1>4 DEF Proc
    <2>2. /\ broken.writers = <<"sink">> /\ broken.err = TRUE /\ broken.pc = p.pc
          /\ broken.cmd = p.cmd
          /\ broken.run = p.run /\ broken.view = p.view /\ broken.read = p.read
          /\ broken.open = p.open
          /\ broken.sent = p.sent /\ broken.lost = p.lost /\ broken.conflict = p.conflict
          /\ broken.shown = p.shown
          /\ broken.imported = p.imported /\ broken.outcome = p.outcome
      BY <1>0 DEF Proc
    <2> HIDE DEF broken
    <2>3. Quiet(broken) /\ Started(broken) /\ OnCommand(broken) /\ Released(broken)
      BY <1>0, <1>4, <2>2 DEF ProcInv, Quiet, Started, OnCommand, Released
    <2>4. OwnArchive(m, broken) /\ PriorRead(m, broken) /\ Imports(broken)
      BY <1>0, <1>4, <2>2 DEF ProcInv, Quiet, OwnArchive, PriorRead, Imports
    <2>5. Writers(broken) /\ Parts(broken)
      BY <1>0, <1>4, <2>2 DEF ProcInv, Quiet, Writers, Parts
    <2>6. Published(m, broken)
      BY <1>0, <1>4, <2>2 DEF ProcInv, Quiet, Started, Published, Unpublished
    <2> QED
      BY <1>0, <1>4, <2>1, <2>2, <2>3, <2>4, <2>5, <2>6, LocalStep DEF ProcInv
  <1>5. CASE p.writers = <<>>
    BY <1>0, <1>1, <1>5 DEF CloseWriter, shared
  <1>6. CASE p.writers = <<"sink">>
    <2>1. Head(p.writers) = "sink" /\ Tail(p.writers) = <<>> /\ p.writers # <<>>
      <3>1. Len(<<"sink">>) = 1 /\ Len(<<>>) = 0
        OBVIOUS
      <3> QED
        BY <1>6, <3>1
    <2>2. CASE p.lost
      <3>1. proc' = [proc EXCEPT ![m] = failed] /\ UNCHANGED shared
        BY <1>0, <2>1, <2>2 DEF CloseWriter, shared
      <3> QED
        BY <1>3, <1>6, <3>1
    <2>3. CASE ~p.lost
      <3>1. /\ remote' = p.sent /\ log' = Append(log, p.sent) /\ runs' = runs
            /\ proc' = [proc EXCEPT ![m] = [p EXCEPT !.writers = <<>>]]
        BY <1>0, <2>1, <2>3 DEF CloseWriter
      <3> QED
        BY <1>0, <1>6, <3>1, CommitStep
    <2> QED
      BY <2>2, <2>3
  <1>7. CASE p.writers = <<"encrypt", "sink">>
    <2>1. /\ Head(p.writers) = "encrypt" /\ Tail(p.writers) = <<"sink">> /\ p.writers # <<>>
      <3>1. Len(<<"encrypt", "sink">>) = 2 /\ Len(<<>>) = 0
        OBVIOUS
      <3>2. Head(<<"encrypt", "sink">>) = "encrypt" /\ Tail(<<"encrypt", "sink">>) = <<"sink">>
        OBVIOUS
      <3> QED
        BY <1>7, <3>1, <3>2
    <2>2. UNCHANGED shared
      BY <2>1 DEF CloseWriter, shared
    <2>3. \/ proc' = [proc EXCEPT ![m] = ended]
          \/ proc' = [proc EXCEPT ![m] = broken]
      BY <1>0, <2>1 DEF CloseWriter
    <2> QED
      BY <1>2, <1>4, <1>7, <2>2, <2>3
  <1> QED
    BY <1>0, <1>5, <1>6, <1>7 DEF Proc

(* The end of a run, whichever way it went. *)
LEMMA CloseStep ==
  ASSUME SyncInv, NEW m \in Machines, Close(m)
  PROVE  SyncInv'
  <1> DEFINE p == proc[m]
  <1>0. /\ p.pc = "closing" /\ p \in Proc /\ proc \in [Machines -> Proc] /\ UNCHANGED shared
        /\ ProcInv(m, p) /\ p.err \in BOOLEAN /\ p.cmd.verb \in {"push", "pull"}
    BY CommandFields DEF SyncInv, TypeOK, Close, Proc
  <1>1. PICK err \in {p.err, TRUE} :
          proc' = [proc EXCEPT ![m].pc = "over", ![m].open = {}, ![m].err = err,
                               ![m].outcome = Outcome([p EXCEPT !.err = err])]
    BY DEF Close
  <1> DEFINE outcome == Outcome([p EXCEPT !.err = err])
             q == [p EXCEPT !.pc = "over", !.open = {}, !.err = err, !.outcome = outcome]
  <1>2. /\ err = TRUE => outcome = IF p.sent = None \/ p.conflict THEN "refused" ELSE "failed"
        /\ err = FALSE => outcome = IF ~p.cmd.apply THEN "planned"
                                    ELSE IF p.cmd.verb = "push" THEN "pushed" ELSE "pulled"
    <2> DEFINE e == [p EXCEPT !.err = err]
    <2>2. e.err = err /\ e.sent = p.sent /\ e.conflict = p.conflict /\ e.cmd = p.cmd
      BY <1>0 DEF Proc
    <2> HIDE DEF e
    <2> QED
      BY <2>2 DEF Outcome
  <1>3. err \in BOOLEAN
    BY <1>0
  <1>4. outcome \in {"planned", "pushed", "pulled", "refused", "failed"}
    <2> HIDE DEF outcome
    <2>1. CASE err = TRUE
      BY <1>2, <2>1
    <2>2. CASE err = FALSE
      BY <1>2, <2>2
    <2> QED
      BY <1>3, <2>1, <2>2
  <1> HIDE DEF outcome
  <1>5. proc' = [proc EXCEPT ![m] = q]
    BY <1>0, <1>1 DEF outcome
  <1>6. q \in Proc
    BY <1>0, <1>3, <1>4 DEF Proc
  <1>7. /\ q.pc = "over" /\ q.open = {} /\ q.err = err /\ q.outcome = outcome
        /\ q.cmd = p.cmd /\ q.run = p.run /\ q.view = p.view /\ q.read = p.read
        /\ q.sent = p.sent /\ q.writers = p.writers /\ q.lost = p.lost
        /\ q.conflict = p.conflict /\ q.shown = p.shown /\ q.imported = p.imported
    BY <1>0 DEF Proc
  <1> HIDE DEF q
  <1>8. Quiet(q) /\ Started(q) /\ OnCommand(q) /\ Released(q)
    BY <1>7 DEF Quiet, Started, OnCommand, Released
  <1>9. OwnArchive(m, q) /\ PriorRead(m, q) /\ Imports(q) /\ Writers(q) /\ Parts(q)
    BY <1>0, <1>7 DEF ProcInv, OwnArchive, PriorRead, Imports, Writers, Parts
  <1>10. p.sent = None => Unpublished(p)
    BY <1>0 DEF ProcInv, Published
  <1>11. CASE err = TRUE
    <2>1. outcome = "refused" => p.sent = None
      BY <1>0, <1>2, <1>11 DEF ProcInv, OwnArchive
    <2>2. outcome \in {"refused", "failed"}
      BY <1>2, <1>11
    <2>3. Published(m, q)
      BY <1>7, <1>10, <1>11, <2>1, <2>2 DEF Published, Unpublished
    <2> QED
      BY <1>0, <1>5, <1>6, <1>7, <1>8, <1>9, <2>3, LocalStep DEF ProcInv
  <1>12. CASE err = FALSE
    <2>1. ~p.err
      BY <1>12
    <2>2. outcome = "planned" => p.sent = None
      <3>1. outcome = "planned" => ~p.cmd.apply
        BY <1>2, <1>12
      <3>2. p.sent # None => p.cmd.apply
        BY <1>0 DEF ProcInv, OwnArchive
      <3> QED
        BY <3>1, <3>2
    <2>3. outcome = "pushed" => PublishedOnce(p) /\ p.sent # None /\ Complete(p.sent)
      <3>1. outcome = "pushed" => p.cmd.apply /\ p.cmd.verb = "push"
        BY <1>2, <1>12
      <3>2. Parts(p) /\ p.pc = "closing"
        BY <1>0 DEF ProcInv
      <3>3. p.cmd.apply /\ p.cmd.verb = "push" => p.sent # None
        BY <2>1, <3>2 DEF Parts
      <3>4. p.sent # None => p.sent.tools = N /\ p.sent.meta
        BY <2>1, <3>2 DEF Parts
      <3>5. p.sent # None => p.sent.whole
        BY <2>1, <3>2 DEF Parts
      <3>6. p.sent # None => PublishedOnce(p)
        <4>1. Published(m, p) /\ p.pc = "closing"
          BY <1>0 DEF ProcInv
        <4> QED
          BY <2>1, <4>1 DEF Published
      <3>7. p.sent # None => Complete(p.sent)
        BY <3>4, <3>5 DEF Complete
      <3> HIDE DEF p
      <3> QED
        BY <3>1, <3>3, <3>6, <3>7
    <2>4. outcome # "refused"
      BY <1>2, <1>12
    <2>5. Published(m, q)
      BY <1>7, <1>10, <2>2, <2>3, <2>4 DEF Published, Unpublished, PublishedOnce, Visible
    <2> QED
      BY <1>0, <1>5, <1>6, <1>7, <1>8, <1>9, <2>5, LocalStep DEF ProcInv
  <1> QED
    BY <1>3, <1>11, <1>12

(* A new run has a number of its own. *)
LEMMA BeginStep ==
  ASSUME SyncInv, NEW m \in Machines, NEW c \in Commands, Begin(m, c)
  PROVE  SyncInv'
  <1> DEFINE q == Fresh(c, runs + 1)
  <1>0. /\ TypeOK /\ LogInv /\ RunsApart /\ runs \in Nat /\ runs < MaxRuns
        /\ \A n \in Machines : ProcInv(n, proc[n])
    BY MaxRunsAssumption DEF SyncInv, TypeOK, Begin
  <1>1. q \in Proc
    BY <1>0, MaxRunsAssumption DEF Proc, Fresh
  <1>2. proc' = [proc EXCEPT ![m] = q] /\ proc'[m] = q
    BY <1>0 DEF Begin, TypeOK
  <1>3. \A n \in Machines \ {m} : proc'[n] = proc[n]
    BY <1>0, <1>2 DEF TypeOK
  <1>4. /\ q.pc = "source" /\ q.run = runs + 1 /\ q.view = None /\ q.read = 0 /\ q.open = {}
        /\ q.sent = None /\ q.writers = <<>> /\ ~q.lost /\ ~q.conflict /\ ~q.err
        /\ q.imported = None /\ q.outcome = "none"
    BY DEF Fresh
  <1> HIDE DEF q
  <1>5. runs' = runs + 1 /\ remote' = remote /\ log' = log
    BY DEF Begin
  <1>6. TypeOK'
    <2>1. runs' \in 0 .. MaxRuns
      BY <1>0, <1>5, MaxRunsAssumption
    <2> QED
      BY <1>0, <1>1, <1>2, <1>5, <2>1 DEF TypeOK
  <1>7. LogInv'
    BY <1>0, <1>5 DEF LogInv, Sound
  <1>8. RunsApart'
    <2>1. \A n \in Machines : proc[n].run <= runs /\ proc[n].run \in Nat
      BY <1>0 DEF RunsApart, TypeOK, Proc
    <2>2. \A n \in Machines : proc'[n].run <= runs'
      BY <1>0, <1>2, <1>3, <1>4, <1>5, <2>1
    <2>3. ASSUME NEW a \in Machines, NEW b \in Machines, a # b
          PROVE  proc'[a].run = 0 \/ proc'[a].run # proc'[b].run
      BY <1>0, <1>2, <1>3, <1>4, <2>1, <2>3 DEF RunsApart
    <2> QED
      BY <2>2, <2>3 DEF RunsApart
  <1>9. ASSUME NEW n \in Machines \ {m} PROVE ProcInv(n, proc[n])'
    BY <1>0, <1>3, <1>5 DEF ProcInv, Quiet, Started, OnCommand, OwnArchive, PriorRead,
       Imports,
       Writers, Parts, Published, Released, Unpublished, PublishedOnce, Visible, Sound,
       Complete, Closers
  <1>10. ProcInv(m, proc[m])'
    <2>1. Len(log) \in Nat
      BY <1>0 DEF TypeOK
    <2>2. Unpublished(proc[m])'
      <3>1. \A i \in DOMAIN log : log[i].run # runs + 1
        BY <1>0 DEF LogInv
      <3> QED
        BY <1>2, <1>4, <1>5, <3>1 DEF Unpublished
    <2>3. Published(m, proc[m])'
      BY <1>2, <1>4, <2>2 DEF Published
    <2>4. (Quiet(proc[m]) /\ Started(proc[m]) /\ OnCommand(proc[m]) /\ Released(proc[m]))'
      BY <1>0, <1>2, <1>4 DEF Quiet, Started, OnCommand, Released
    <2>5. (OwnArchive(m, proc[m]) /\ Imports(proc[m]) /\ PriorRead(m, proc[m]))'
      BY <1>2, <1>4, <1>5, <2>1 DEF OwnArchive, Imports, PriorRead
    <2>6. (Writers(proc[m]) /\ Parts(proc[m]))'
      BY <1>2, <1>4 DEF Writers, Parts
    <2> QED
      BY <2>3, <2>4, <2>5, <2>6 DEF ProcInv
  <1> QED
    BY <1>6, <1>7, <1>8, <1>9, <1>10 DEF SyncInv

(* Every step keeps the invariant: one lemma per action, above. *)
LEMMA Inductive == SyncInv /\ [Next]_vars => SyncInv'
  <1> SUFFICES ASSUME SyncInv, [Next]_vars PROVE SyncInv'
    OBVIOUS
  <1>1. CASE UNCHANGED vars
    BY <1>1 DEF vars, SyncInv, TypeOK, LogInv, RunsApart, ProcInv, Quiet, Started, OnCommand,
       OwnArchive, PriorRead, Imports, Writers, Parts, Published, Released, Unpublished,
       PublishedOnce, Visible, Sound, Complete, Closers
  <1>2. ASSUME NEW m \in Machines, NEW c \in Commands, Begin(m, c) PROVE SyncInv'
    BY <1>2, BeginStep
  <1>3. ASSUME NEW m \in Machines, Step(m) PROVE SyncInv'
    BY <1>3, OpenSourceStep, DecryptStep, MaterializeStep, PlanStep, ApplyPushStep,
       ExportStep,
       WriteMetadataStep, FinishZipStep, CloseWriterStep, ImportStep, CloseStep DEF Step
  <1>4. ASSUME NEW m \in Machines, Lose(m) \/ Kill(m) PROVE SyncInv'
    BY <1>4, LoseStep, KillStep
  <1> QED
    BY <1>1, <1>2, <1>3, <1>4 DEF Next

(* The invariant holds of whatever archive was there before. *)
LEMMA Initial == Init => SyncInv
  <1> SUFFICES ASSUME Init PROVE SyncInv
    OBVIOUS
  <1> DEFINE c == CHOOSE c \in Commands : TRUE
             q == [Fresh(c, 0) EXCEPT !.pc = "over"]
  <1>1. c \in Commands
    BY CommandsGiven
  <1> HIDE DEF c
  <1>2. q \in Proc
    <2>1. Fresh(c, 0) \in Proc
      BY <1>1, MaxRunsAssumption DEF Proc, Fresh
    <2> QED
      BY <2>1 DEF Proc
  <1>3. /\ q.pc = "over" /\ q.run = 0 /\ q.view = None /\ q.read = 0 /\ q.open = {}
        /\ q.sent = None /\ q.writers = <<>> /\ ~q.lost /\ ~q.conflict /\ ~q.err
        /\ q.imported = None /\ q.outcome = "none"
    BY DEF Fresh
  <1>4. proc = [m \in Machines |-> q] /\ log = <<>> /\ runs = 0
    BY DEF Init, c
  <1> HIDE DEF q
  <1>5. /\ log \in Seq(Archive) /\ Len(log) = 0 /\ DOMAIN log = {}
        /\ runs \in 0 .. MaxRuns
    BY <1>4, MaxRunsAssumption
  <1>6. remote \in Archive \cup {None} /\ (remote # None => Sound(remote))
    <2>1. CASE remote = None
      BY <2>1
    <2>2. ASSUME NEW k \in Secrets \cup {Plain}, NEW b \in Machines \cup {None},
                 remote = [run |-> 0, by |-> b, pass |-> k, tools |-> N, meta |-> TRUE,
                           whole |-> TRUE]
          PROVE  remote \in Archive /\ remote.tools = N
      <3>1. 0 \in 0 .. MaxRuns /\ N \in 0 .. N
        BY NAssumption, MaxRunsAssumption
      <3> QED
        BY <2>2, <3>1 DEF Archive
    <2> QED
      BY <2>1, <2>2 DEF Init, Sound
  <1>7. TypeOK
    BY <1>2, <1>4, <1>5, <1>6 DEF TypeOK
  <1>8. LogInv /\ RunsApart
    BY <1>3, <1>4, <1>5, <1>6 DEF LogInv, RunsApart
  <1>9. ASSUME NEW m \in Machines PROVE ProcInv(m, q)
    <2>1. Unpublished(q)
      BY <1>5 DEF Unpublished
    <2>2. Quiet(q) /\ Started(q) /\ OnCommand(q) /\ Released(q) /\ OwnArchive(m, q)
      BY <1>3 DEF Quiet, Started, OnCommand, Released, OwnArchive
    <2>3. PriorRead(m, q) /\ Imports(q) /\ Writers(q) /\ Parts(q)
      BY <1>3, <1>5 DEF PriorRead, Imports, Writers, Parts
    <2>4. Published(m, q)
      BY <1>3, <2>1 DEF Published
    <2> QED
      BY <2>2, <2>3, <2>4 DEF ProcInv
  <1> QED
    BY <1>4, <1>7, <1>8, <1>9 DEF SyncInv

(* The invariant, and with it the types, hold of every behaviour. *)
THEOREM Uploads == Spec => []SyncInv
  BY Initial, Inductive, PTL DEF Spec

(* A push that reports success has published one complete archive, its own
   (applyPush, RunWriter). *)
THEOREM Successes == Spec => []SuccessPublishes
  <1>1. SyncInv => SuccessPublishes
    <2> SUFFICES ASSUME SyncInv, NEW m \in Machines, proc[m].outcome = "pushed"
        PROVE  \E i \in DOMAIN log :
                 /\ Visible(proc[m]) = {i} /\ Complete(log[i])
                 /\ log[i].by = m /\ log[i].pass = proc[m].cmd.pass
      BY DEF SuccessPublishes
    <2>1. PublishedOnce(proc[m]) /\ proc[m].sent # None /\ Complete(proc[m].sent)
      BY DEF SyncInv, ProcInv, Published
    <2>2. proc[m].sent.by = m /\ proc[m].sent.pass = proc[m].cmd.pass
      BY <2>1 DEF SyncInv, ProcInv, OwnArchive
    <2> QED
      BY <2>1, <2>2 DEF PublishedOnce
  <1> QED
    BY <1>1, Uploads, PTL

(* A push or pull that was only planned or was refused published nothing
   (applyPush). *)
THEOREM Refusals == Spec => []RefusalPublishesNothing
  <1>1. SyncInv => RefusalPublishesNothing
    BY DEF SyncInv, ProcInv, Published, Unpublished, Visible, RefusalPublishesNothing
  <1> QED
    BY <1>1, Uploads, PTL

(* A pull imports the complete archive that it showed (runPullCmd). *)
THEOREM Pulls == Spec => []PullImportsWhatItShowed
  <1>1. SyncInv => PullImportsWhatItShowed
    BY DEF SyncInv, ProcInv, Imports, PullImportsWhatItShowed
  <1> QED
    BY <1>1, Uploads, PTL

(* A run that ends by itself has nothing open (RunReader). *)
THEOREM Readers == Spec => []NothingLeftOpen
  <1>1. SyncInv => NothingLeftOpen
    BY DEF SyncInv, ProcInv, Released, NothingLeftOpen
  <1> QED
    BY <1>1, Uploads, PTL

NotBlind ==
  \A m \in Machines :
    (Len(log') > Len(log) /\ log'[Len(log')].run = proc[m].run /\ ~proc[m].cmd.force) =>
      \/ remote = None \/ remote.by \in {None, m}
      \/ Len(log) > proc[m].read

(* Only the close of the last writer publishes, and its process compared the
   archive it read with itself before it opened that writer. *)
LEMMA ReplacesKnowingly == SyncInv /\ [Next]_vars => NotBlind
  <1> SUFFICES ASSUME SyncInv, [Next]_vars, NEW m \in Machines,
                      Len(log') > Len(log), log'[Len(log')].run = proc[m].run,
                      ~proc[m].cmd.force
      PROVE  remote = None \/ remote.by \in {None, m} \/ Len(log) > proc[m].read
    BY DEF NotBlind
  <1>1. PICK n \in Machines : /\ proc[n].pc = "close" /\ proc[n].writers # <<>>
                              /\ log' = Append(log, proc[n].sent)
    <2>1. log' # log
      <3>1. Len(log) \in Nat
        BY DEF SyncInv, TypeOK
      <3> QED
        BY <3>1
    <2> QED
      BY <2>1 DEF Next, vars, Begin, Step, Lose, Kill, OpenSource, Decrypt, Materialize, Plan,
         ApplyPush, Export, WriteMetadata, FinishZip, CloseWriter, Import, Close, shared
  <1>2. /\ proc[n].sent # None /\ proc[n].sent \in Archive /\ proc[n].sent.run = proc[n].run
        /\ proc[n].run > 0 /\ proc[n].cmd.verb = "push"
    BY <1>1 DEF SyncInv, TypeOK, ProcInv, Writers, OwnArchive, Started, Proc
  <1>3. Len(log') = Len(log) + 1 /\ log'[Len(log')] = proc[n].sent
    BY <1>1, <1>2 DEF SyncInv, TypeOK
  <1>4. n = m
    BY <1>2, <1>3 DEF SyncInv, RunsApart
  <1>5. /\ proc[m].read <= Len(log) /\ Len(log) \in Nat /\ proc[m].read \in Nat
        /\ proc[m].read = Len(log) => proc[m].view = remote
        /\ proc[m].view = None \/ proc[m].view.by \in {None, m}
    BY <1>1, <1>2, <1>4 DEF SyncInv, TypeOK, ProcInv, PriorRead, Proc
  <1> QED
    BY <1>5

(* Without --force no push replaces another machine's archive that it could
   see (openPriorRead, applyPush). *)
THEOREM Replacements == Spec => NoBlindReplacement
  <1>1. SyncInv /\ [Next]_vars => [NotBlind]_vars
    BY ReplacesKnowingly
  <1>2. NoBlindReplacement <=> [][NotBlind]_vars
    BY DEF NoBlindReplacement, NotBlind
  <1> QED
    BY <1>1, <1>2, Uploads, PTL DEF Spec
=============================================================================
