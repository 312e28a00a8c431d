----------------------------- MODULE Aggregate -----------------------------
(***************************************************************************)
(* The aggregator: it reads a tree of result files one by one, keeps every *)
(* result in them as a measurement or says why not, and fills the cells of *)
(* the matrix.  Files come from several directories and several versions   *)
(* of the runner: half written, holding one result or a list of them, with *)
(* or without a case, of a case that lacks a name or that the matrix does  *)
(* not know.                                                               *)
(***************************************************************************)
EXTENDS Integers, Sequences, SequencesExt, Lists, Results

CONSTANTS
  REPAIRERS, DOMAINS, CORRUPTIONS,   \* what the matrix knows
  Kind,                              \* repairer -> which kind it is
  Payload,                           \* the results a file may hold
  MaxFiles, MaxEntries               \* bounds

Names == {"model", "domain", "corruption"}
NoCase == <<>>

ASSUME AggregateAssumption ==
  /\ MaxFiles \in Nat /\ MaxEntries \in Nat
  /\ \A p \in Payload : DOMAIN p.case \subseteq Names /\ p.case = [n \in DOMAIN p.case |-> p.case[n]]

VARIABLES
  files,          \* the tree, sorted by path
  read,           \* how many of them have been read
  measurements,   \* the results that name a case, each with its source
  without_case,   \* the sources of those that do not
  unreadable,     \* the files that are no JSON
  cells,          \* the matrix, once built: the measurements of each cell
  phase           \* "loading", "reported", "crashed"
aggregateVars == <<files, read, measurements, without_case, unreadable, cells, phase>>

\* One result is written bare, several as a list; no JSON is torn, no text is cut.
File ==
  [state : {"torn", "cut"}, entries : {<<>>}]
  \cup [state : {"one"}, entries : {<<p>> : p \in Payload}]
  \cup [state : {"list"}, entries : BoundedSeq(Payload, MaxEntries)]

Tree ==
  /\ files \in BoundedSeq(File, MaxFiles)
  /\ read = 0
  /\ measurements = <<>> /\ without_case = <<>> /\ unreadable = {}
  /\ cells = <<>>
  /\ phase = "loading"

\* The entries of a file, each with the place it was read from.
Entries(i) == [j \in DOMAIN files[i].entries |-> [source |-> <<i, j>>, payload |-> files[i].entries[j]]]
HasCase(p) == p.case # NoCase
Complete(p) == HasCase(p) => DOMAIN p.case = Names
Named(i) == {j \in DOMAIN files[i].entries : HasCase(files[i].entries[j])}

\* A file that is no text, or a result whose case lacks a name.
Unloadable(file) == file.state = "cut" \/ \E j \in DOMAIN file.entries : ~Complete(file.entries[j])

\* load_results, one file further.
ReadFile ==
  /\ phase = "loading" /\ read < Len(files)
  /\ ~Unloadable(files[read + 1])
  /\ read' = read + 1
  /\ IF files[read'].state = "torn"
     THEN unreadable' = unreadable \cup {read'} /\ UNCHANGED <<measurements, without_case>>
     ELSE /\ measurements' = measurements \o Sublist(Entries(read'), Named(read'))
          /\ without_case' = without_case \o Sublist(Entries(read'), DOMAIN Entries(read') \ Named(read'))
          /\ UNCHANGED unreadable
  /\ UNCHANGED <<files, cells, phase>>

\* read_text raises on the one and case[...] on the other, and nothing catches either.
ReadUnloadable ==
  /\ phase = "loading" /\ read < Len(files)
  /\ Unloadable(files[read + 1])
  /\ phase' = "crashed"
  /\ UNCHANGED <<files, read, measurements, without_case, unreadable, cells>>

Claiming(cell) == {k \in DOMAIN measurements : measurements[k].payload.case = cell}
Matrix == [model : REPAIRERS, domain : DOMAINS, corruption : CORRUPTIONS]

\* Mutant: of the measurements of a cell, the one read last is kept.
LastOnly(cell) ==
  LET all == Sublist(measurements, Claiming(cell))
  IN  IF all = <<>> THEN all ELSE <<Last(all)>>

\* build_cells: every measurement that claims the cell.
FoundFor(cell) == Sublist(measurements, Claiming(cell))

BuildCells ==
  /\ phase = "loading" /\ read = Len(files)
  /\ cells' = [cell \in Matrix |-> FoundFor(cell)]
  /\ phase' = "reported"
  /\ UNCHANGED <<files, read, measurements, without_case, unreadable>>

AggregateNext == ReadFile \/ ReadUnloadable \/ BuildCells
AggregateSpec == Tree /\ [][AggregateNext]_aggregateVars

-----------------------------------------------------------------------------
KNOWN == [model |-> REPAIRERS, domain |-> DOMAINS, corruption |-> CORRUPTIONS]

\* Mutant: only the corruption is looked up.
UnknownCorruption(case) == {n \in {"corruption"} : case[n] \notin KNOWN[n]}

\* unplaced: which names of a measurement the matrix does not know.
Unknown(case) == {n \in Names : case[n] \notin KNOWN[n]}

Unplaced == Sublist(measurements, {k \in DOMAIN measurements : Unknown(measurements[k].payload.case) # {}})

OutcomeOf(cell) ==
  Outcome({[source |-> cells[cell][i].source, kind |-> Kind[cell.model],
            record |-> cells[cell][i].payload.record] : i \in DOMAIN cells[cell]})

-----------------------------------------------------------------------------
\* Where a result was read from: its file and its place in it.
Places(n) == UNION {{i} \X DOMAIN files[i].entries : i \in 1 .. n}
At(place) == files[place[1]].entries[place[2]]
From(list, place) == {k \in DOMAIN list : list[k].source = place}

\* "Nothing is dropped in silence": every result of every file read is placed in one
\* cell, or named as one the matrix has no cell for, or as one without a case.
NothingIsDropped ==
  phase = "reported" =>
    LET unplaced == Unplaced
    IN  \A place \in Places(Len(files)) :
          Cardinality(From(unplaced, place)) + Cardinality(From(without_case, place))
            + Cardinality({cell \in Matrix : From(cells[cell], place) # {}}) = 1

\* "This script does not guess which of those is the one that counts": a cell that is
\* reported as measured stands on the only result of its case in the whole tree.
MeasuredStandsAlone ==
  phase = "reported" =>
    \A cell \in Matrix : OutcomeOf(cell) \in MEASURED =>
      Cardinality({place \in Places(Len(files)) : At(place).case = cell}) = 1
=============================================================================
