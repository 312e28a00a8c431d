---------------------------- MODULE MCDiffusion ----------------------------
(* Every valid plan of up to three steps over two tools, among them one in which
   a field of a step is answered under the name of another, corrupted once or
   twice; a model is asked after one corruption, and answers up to two spans;
   names in paths have up to two pieces, one of which means nothing to a path. *)
EXTENDS Diffusion

MCUnknownNames == [id \in StepId |-> SelectSeq(<<id \o "_x", id \o "_x2">>, LAMBDA n : n \in StepId)]
MCCopyNames == [id \in StepId |-> SelectSeq(<<id \o "_dup", id \o "_dup2">>, LAMBDA n : n \in StepId)]
MCTokenLength == [t \in Tool |-> IF t = "odd" THEN 2 ELSE 1]

\* "t1_db" completes t1, "t" neither tool, and "odd" both equally well.
MCRatio ==
  [pair \in Tool \X Available |->
     IF pair[1] = pair[2] \/ pair = <<"t1_db", "t1">> \/ pair[1] = "odd" THEN 100 ELSE 50]

MCFieldKey == [place \in StepId \X {TOOL_FIELD, DEPENDENCY_FIELD} |-> place[1] \o "." \o place[2]]

(* Into a step: itself, itself and a second one, a blank, another tool and other tags,
   or the step under any of three names with another reference.  Into a field: any tool,
   or up to two references, with further keys for the fields before it or without. *)
MCGuesses(steps, span) ==
  LET step == steps[LastAt(steps, span[1])]
  IN  {Junk, Reaching(<<>>), Reaching(<<[step EXCEPT !.produces = Tag]>>)} \cup
      (CASE span[2] = Whole ->
              {Dropped} \cup {Steps(ss) : ss \in {<<>>, <<step>>, <<step, [step EXCEPT !.id = "a"]>>,
                                                 <<[step EXCEPT !.tool = "gone", !.produces = {"op"}]>>}}
              \cup {Steps(<<[step EXCEPT !.input_from = {d}, !.id = i]>>) :
                      d \in KnownIds(steps), i \in {step.id, "a", "ev"}}
         [] span[2] = TOOL_FIELD -> {Value(t) : t \in Tool} \cup {Naming("t1", [id |-> i]) : i \in {"a", "ev"}}
         [] OTHER ->
              {Value({})} \cup {Value({d, x}) : d \in KnownIds(steps) \cup Tag, x \in {"ev", Blank}}
              \cup {Value({d}) : d \in KnownIds(steps)}
              \cup {Naming(step.input_from, also) :
                      also \in {[id |-> "ev"], [tool |-> "gone"], [tool |-> "t2", arguments |-> "blank"]}})

Names == {<<"a", "b", "c">>, <<"a", "a.tool">>}

\* The first step does "op", the last has "ev", and either may be claimed in between.
StepsAt(names, i, n) ==
  {[id |-> names[i], tool |-> t, arguments |-> "full", input_from |-> deps,
    produces |-> tags \cup (IF i = 1 THEN {"op"} ELSE {}) \cup (IF i = n THEN {"ev"} ELSE {})] :
     t \in IF i = 2 THEN {"t1", "t2"} ELSE {IF i = 1 THEN "t1" ELSE "t2"}, deps \in SUBSET {names[k] : k \in 1 .. i - 1},
     tags \in IF i = 2 /\ n = 3 THEN {{}, {"op"}} ELSE {{}}}

Lists(names) ==
  (StepsAt(names, 1, 2) \X StepsAt(names, 2, 2))
    \cup IF Len(names) = 2 THEN {} ELSE StepsAt(names, 1, 3) \X StepsAt(names, 2, 3) \X StepsAt(names, 3, 3)

References ==
  {p \in {[steps |-> ss, stop_condition |-> "stated"] : ss \in UNION {Lists(names) : names \in Names}} : Valid(p)}

MCSpec == (\E p \in References : Measure(p)) /\ [][DiffusionNext]_diffusionVars
=============================================================================
