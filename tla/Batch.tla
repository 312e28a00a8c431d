-------------------------------- MODULE Batch --------------------------------
(***************************************************************************)
(* What the experiment runner promises of a batch, without what its files  *)
(* hold: which cases have one.  Sessions come and go, some die; a case     *)
(* that has a file is not taken up again unless the session is forced.     *)
(* Experiment is the runner that implements this.                          *)
(***************************************************************************)
EXTENDS Integers, Sequences, FiniteSets, SequencesExt, Lists

CONSTANTS
  Case,           \* (model, domain, corruption)
  Cases,          \* all of them in the order of enumerate_cases
  Hopeless,       \* the cases that raise every time, on this machine
  Dir,            \* output directories
  Limits,         \* the values of --limit tried (Len(Cases) for none)
  MaxCrashes      \* bound: sessions that die

ASSUME BatchAssumption ==
  /\ Cases \in Seq(Case) /\ ToSet(Cases) = Case /\ IsInjective(Cases)
  /\ Hopeless \subseteq Case
  /\ Limits \subseteq Nat

VARIABLES
  finished,   \* directory -> the cases that have a file there
  session,    \* the arguments of the last session
  todo,       \* the cases it has not settled
  running,
  crashes
vars == <<finished, session, todo, running, crashes>>

Arguments == [out : Dir, chosen : SUBSET Case, force : BOOLEAN, limit : Limits]

\* The cases a list slice keeps.
FirstOf(cases, limit) == SubSeq(cases, 1, IF limit < Len(cases) THEN limit ELSE Len(cases))

\* Mutant: --limit is taken off the list before the finished cases are.
SkippedAfterLimit(s, done) ==
  LET first == FirstOf(Sublist(Cases, {i \in DOMAIN Cases : Cases[i] \in s.chosen}), s.limit)
  IN  Sublist(first, {i \in DOMAIN first : s.force \/ first[i] \notin done})

\* pending: without --force, the cases that have no file; the first ones.
Wanted(s, done) == {i \in DOMAIN Cases : Cases[i] \in s.chosen /\ (s.force \/ Cases[i] \notin done)}
Pending(s, done) == FirstOf(Sublist(Cases, Wanted(s, done)), s.limit)

Init ==
  /\ finished = [d \in Dir |-> {}]
  /\ session = <<>> /\ todo = <<>>
  /\ running = FALSE /\ crashes = 0

Start(s) ==
  /\ ~running
  /\ session' = s
  /\ todo' = Pending(s, finished[s.out])
  /\ running' = TRUE
  /\ UNCHANGED <<finished, crashes>>

\* The next case leaves a file.
Finish(c) ==
  /\ running /\ todo # <<>> /\ c = Head(todo) /\ c \notin Hopeless
  /\ finished' = [finished EXCEPT ![session.out] = @ \cup {c}]
  /\ todo' = Tail(todo)
  /\ UNCHANGED <<session, running, crashes>>

\* The next case raises: the batch goes on.
Fail ==
  /\ running /\ todo # <<>>
  /\ todo' = Tail(todo)
  /\ UNCHANGED <<finished, session, running, crashes>>

End ==
  /\ running /\ todo = <<>>
  /\ running' = FALSE
  /\ UNCHANGED <<finished, session, todo, crashes>>

Die ==
  /\ running /\ crashes < MaxCrashes
  /\ todo' = <<>> /\ running' = FALSE
  /\ crashes' = crashes + 1
  /\ UNCHANGED <<finished, session>>

Next ==
  \/ \E s \in Arguments : Start(s)
  \/ \E c \in Case : Finish(c)
  \/ Fail \/ End \/ Die

\* What a batch may do.
SafeSpec == Init /\ [][Next]_vars

\* A running session goes on, and no case that can be done is unlucky forever in a
\* directory: whatever made it raise there passes.
Fairness ==
  /\ WF_vars((\E c \in Case : Finish(c)) \/ Fail \/ End)
  /\ \A c \in Case \ Hopeless : \A d \in Dir : SF_vars(Finish(c) /\ session.out = d)

Spec == SafeSpec /\ Fairness

-----------------------------------------------------------------------------
\* "A rerun skips whatever is already on disk", and so comes to the rest: a user who
\* keeps rerunning with a --limit above the number of cases that always raise gets
\* every other case, whatever other sessions come in between.
RerunsReachEveryCase ==
  \A d \in Dir : \A l \in {n \in Limits : n > Cardinality(Hopeless)} :
    ([]<><<Start([out |-> d, chosen |-> Case, force |-> FALSE, limit |-> l])>>_vars)
      => <>(Case \ Hopeless \subseteq finished[d])
=============================================================================
