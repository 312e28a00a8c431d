----------------------------- MODULE Experiment -----------------------------
(***************************************************************************)
(* The experiment runner over its result directories, and the aggregator   *)
(* that reads them.  A session of the runner picks an output directory,    *)
(* works out which cases are pending by looking for their files, and       *)
(* writes one file per case; it may die anywhere.  The aggregator may be   *)
(* run at any time, over all the directories.                              *)
(***************************************************************************)
EXTENDS Integers, Sequences, FiniteSets, SequencesExt, Lists, Results

CONSTANTS
  Case,           \* (model, domain, corruption)
  Cases,          \* all of them in the order of enumerate_cases
  Hopeless,       \* those that raise every time, on this machine
  Matrix,         \* those the aggregator's tables have a cell for
  Kind,           \* case -> which kind of repairer it is for
  Dir,            \* output directories
  Arrays,         \* directory -> cases an earlier remeasurement left an array for
  Limits,         \* the values of --limit tried (Len(Cases) for none)
  MaxSessions, MaxCrashes      \* bounds

ASSUME ExperimentAssumption ==
  /\ Cases \in Seq(Case) /\ ToSet(Cases) = Case /\ IsInjective(Cases)
  /\ Hopeless \subseteq Case /\ Matrix \subseteq Case
  /\ Kind \in [Case -> {"rules", "ar", "diffusion"}]
  /\ Arrays \in [Dir -> SUBSET Case]
  /\ Limits \subseteq Nat
  /\ IsFiniteSet(Dir)

VARIABLES
  disk,       \* directory -> case -> what its result file holds
  session,    \* the arguments of the session
  queue,      \* the pending cases it has not started
  writing,    \* the result being written to Head(queue)'s file
  failed,     \* cases of this session that raised
  pc,         \* "idle", "running", "writing"
  exit,       \* what main returned last, -1 when it did not return
  sessions, crashes
vars == <<disk, session, queue, writing, failed, pc, exit, sessions, crashes>>

\* What a file can hold: nothing or half a result, which is no JSON (torn), half a
\* result cut inside a character, which is no text either (cut), or a result.
NoFile == [state |-> "absent"]
Torn   == [state |-> "torn"]
Cut    == [state |-> "cut"]
Written(snap, r) == [state |-> "written", snap |-> snap, answer |-> r.answer, record |-> r.record]

Exists(d, c) == disk[d][c] # NoFile

Init ==
  /\ disk = [d \in Dir |-> [c \in Case |-> NoFile]]
  /\ session = <<>> /\ queue = <<>> /\ writing = <<>>
  /\ failed = 0 /\ pc = "idle" /\ exit = -1
  /\ sessions = 0 /\ crashes = 0

\* The cases a list slice keeps.
FirstOf(cases, limit) == SubSeq(cases, 1, IF limit < Len(cases) THEN limit ELSE Len(cases))

\* Mutant: cases with a file are run again.
PendingAll(s) == FirstOf(Sublist(Cases, {i \in DOMAIN Cases : Cases[i] \in s.chosen}), s.limit)

\* pending: without --force, the cases whose file does not exist; the first ones.
Wanted(s) ==
  {i \in DOMAIN Cases : Cases[i] \in s.chosen /\ (s.force \/ ~Exists(s.out, Cases[i]))}
Pending(s) == FirstOf(Sublist(Cases, Wanted(s)), s.limit)

\* main, up to the loop.
StartSession ==
  /\ pc = "idle" /\ sessions < MaxSessions
  /\ session' \in [out : Dir, chosen : SUBSET Case, force : BOOLEAN, snap : BOOLEAN, limit : Limits]
  /\ queue' = Pending(session')
  /\ failed' = 0 /\ exit' = -1
  /\ pc' = "running"
  /\ sessions' = sessions + 1
  /\ UNCHANGED <<disk, writing, crashes>>

\* Mutant: a case that raised is put back at the end of the queue.
RaiseAndRetry ==
  /\ pc = "running" /\ queue # <<>>
  /\ failed' = 1
  /\ queue' = Append(Tail(queue), Head(queue))
  /\ UNCHANGED <<disk, session, writing, pc, exit, sessions, crashes>>

\* Mutant: a case that raised is not counted.
RaiseQuietly ==
  /\ pc = "running" /\ queue # <<>>
  /\ queue' = Tail(queue)
  /\ UNCHANGED <<disk, session, writing, failed, pc, exit, sessions, crashes>>

\* Mutant: the file is opened before the case is run.
RaiseAfterOpening ==
  /\ pc = "running" /\ queue # <<>>
  /\ disk' = [disk EXCEPT ![session.out][Head(queue)] = Torn]
  /\ failed' = failed + 1
  /\ queue' = Tail(queue)
  /\ UNCHANGED <<session, writing, pc, exit, sessions, crashes>>

\* run_case raises: the batch goes on, and no file is touched.
Raise ==
  /\ pc = "running" /\ queue # <<>>
  /\ failed' = failed + 1
  /\ queue' = Tail(queue)
  /\ UNCHANGED <<disk, session, writing, pc, exit, sessions, crashes>>

\* run_case returns and write_text opens the file, which empties it ...
OpenResult ==
  /\ pc = "running" /\ queue # <<>> /\ Head(queue) \notin Hopeless
  /\ \E r \in Recorded(Kind[Head(queue)]) : writing' = Written(session.snap, r)
  /\ disk' = [disk EXCEPT ![session.out][Head(queue)] = Torn]
  /\ pc' = "writing"
  /\ UNCHANGED <<session, queue, failed, exit, sessions, crashes>>

\* ... and closes it.
CloseResult ==
  /\ pc = "writing"
  /\ disk' = [disk EXCEPT ![session.out][Head(queue)] = writing]
  /\ queue' = Tail(queue)
  /\ writing' = <<>>
  /\ pc' = "running"
  /\ UNCHANGED <<session, failed, exit, sessions, crashes>>

\* report_diagnostics reads back every file of the directory, and skips what is no
\* JSON; what is no text, or holds several results, ends the session instead.
Reportable(d) == Arrays[d] = {} /\ \A c \in Case : disk[d][c] # Cut

EndSession ==
  /\ pc = "running" /\ queue = <<>>
  /\ exit' = IF ~Reportable(session.out) THEN -1 ELSE IF failed > 0 THEN 1 ELSE 0
  /\ pc' = "idle"
  /\ UNCHANGED <<disk, session, queue, writing, failed, sessions, crashes>>

\* "A session that dies halfway": the machine, or a write that fails; what the file it
\* was writing got to hold may end anywhere.
Crash ==
  /\ pc # "idle" /\ crashes < MaxCrashes
  /\ \/ UNCHANGED disk
     \/ pc = "writing" /\ disk' = [disk EXCEPT ![session.out][Head(queue)] = Cut]
  /\ queue' = <<>> /\ writing' = <<>>
  /\ pc' = "idle" /\ exit' = -1
  /\ crashes' = crashes + 1
  /\ UNCHANGED <<session, failed, sessions>>

Next == StartSession \/ Raise \/ OpenResult \/ CloseResult \/ EndSession \/ Crash

Spec == Init /\ [][Next]_vars

-----------------------------------------------------------------------------
(***************************************************************************)
(* The aggregator over the directories: the runner's files, one result     *)
(* each, and the arrays of earlier remeasurements.                         *)
(***************************************************************************)
Readable(d, c) == disk[d][c].state = "written"

\* It ends at the first file that is no text.
Aggregates == \A d \in Dir : \A c \in Case : disk[d][c] # Cut

Remeasured == [answer |-> "plan", record |-> Record({}, TRUE, "none", TRUE)]

Found(c) ==
  {[source |-> <<d, "file">>, kind |-> Kind[c], answer |-> disk[d][c].answer, record |-> disk[d][c].record]
     : d \in {e \in Dir : Readable(e, c)}}
  \cup {[source |-> <<d, "array">>, kind |-> Kind[c], answer |-> Remeasured.answer, record |-> Remeasured.record]
     : d \in {e \in Dir : c \in Arrays[e]}}

\* Without --force a session is a step of the batch, whatever its files hold.
Runner == INSTANCE Batch WITH
  finished <- [d \in Dir |-> {c \in Case : Exists(d, c)}],
  session  <- [f \in DOMAIN session \ {"snap"} |-> session[f]],
  todo     <- IF pc = "writing" THEN Tail(queue) ELSE queue,
  running  <- pc # "idle"

-----------------------------------------------------------------------------
\* "A rerun skips whatever is already on disk": without --force no session, however
\* often restarted, opens a file that exists.
ResultsChangeOnlyByForce ==
  [][\A d \in Dir : \A c \in Case :
       (disk'[d][c] # disk[d][c] /\ Exists(d, c)) => session.force \/ pc = "writing"]_vars

\* "A session that dies halfway costs only the case it was in the middle of": over
\* all directories no more files are torn or cut than sessions died.
TornFilesAreCrashes ==
  Cardinality({dc \in Dir \X Case : disk[dc[1]][dc[2]] \in {Torn, Cut}})
    <= crashes + (IF pc = "writing" THEN 1 ELSE 0)

\* A session that exits with 0 and had no limit leaves a file for every case it was
\* asked for, and if it was forced, one taken with its own settings.
CleanSessionSkipsNothing ==
  (pc = "idle" /\ exit = 0 /\ session.limit >= Cardinality(Case)) =>
    \A c \in session.chosen :
      /\ Exists(session.out, c)
      /\ session.force => Readable(session.out, c) /\ disk[session.out][c].snap = session.snap

\* "A file is not always a measurement": a cell counts as measured only if its
\* repairer answered something, and only if no other result claims the cell.
MeasuredMeansAnswered ==
  \A c \in Matrix : (Aggregates /\ Outcome(Found(c)) \in MEASURED) =>
    \A m \in Found(c) : m.answer # "nothing" /\ Found(c) = {m}

\* Whatever its files hold, the runner keeps a batch as Batch promises it: what a
\* session takes up, what it finishes and what a death costs.
ImplementsBatch == Runner!SafeSpec
=============================================================================
