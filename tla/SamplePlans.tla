---------------------------- MODULE SamplePlans ----------------------------
(***************************************************************************)
(* The plans TLC runs: every wiring of up to three steps, under every      *)
(* pattern of shared names, with at most one step that fails on its own:   *)
(* by its tool, by an argument, or by a reference to "g", a name no step   *)
(* carries.  Each place has a tool of its own, so two steps never do the   *)
(* same work here (Repair's inputs are the ones that do).                  *)
(***************************************************************************)
EXTENDS PlanModel

NamePatterns ==
  {<<>>, <<"a">>, <<"a", "b">>, <<"a", "a">>,
   <<"a", "b", "c">>, <<"a", "a", "b">>, <<"a", "b", "a">>, <<"a", "b", "b">>}

\* What can stand at place i of a plan whose steps have these names.
StepsAt(names, i) ==
  {[id |-> names[i], tool |-> <<"t1", "t2", "t3">>[i], arguments |-> "full",
    input_from |-> deps, produces |-> IF i = Len(names) THEN {"ev"} ELSE {}] :
     deps \in SUBSET {names[k] : k \in DOMAIN names}}

Wirings(names) ==
  CASE Len(names) = 0 -> {<<>>}
    [] Len(names) = 1 -> {<<s>> : s \in StepsAt(names, 1)}
    [] Len(names) = 2 -> StepsAt(names, 1) \X StepsAt(names, 2)
    [] Len(names) = 3 -> StepsAt(names, 1) \X StepsAt(names, 2) \X StepsAt(names, 3)

Faulty(s) == {[s EXCEPT !.tool = "gone"], [s EXCEPT !.arguments = "blank"],
              [s EXCEPT !.input_from = @ \cup {"g"}]}

WithOneFault(ss) == UNION {{[ss EXCEPT ![i] = s] : s \in Faulty(ss[i])} : i \in DOMAIN ss}

RunPlans ==
  {[steps |-> ss, stop_condition |-> "stated"] :
     ss \in UNION {UNION {{w} \cup WithOneFault(w) : w \in Wirings(p)} : p \in NamePatterns}}

(***************************************************************************)
(* Plans to repair: steps share a tool, so that equally wired ones do the  *)
(* same work; one fault at most, or no stop condition; and four-step plans *)
(* in which a step consumes at most one other, with clear names, two steps *)
(* of one name, or two steps with the same unknown tool.                   *)
(***************************************************************************)
Retooled(ss, tools) == [i \in DOMAIN ss |-> [ss[i] EXCEPT !.tool = tools[i], !.produces = {"ev"}]]

OneDependencyEach(names, tools) ==
  {[steps |-> [i \in 1 .. 4 |-> [id |-> names[i], tool |-> tools[i], arguments |-> "full",
                                 input_from |-> deps[i] \ {""}, produces |-> {"ev"}]],
    stop_condition |-> "stated"] :
     deps \in [1 .. 4 -> {{""}} \cup {{names[k]} : k \in 1 .. 4}]}

RepairPlans ==
  OneDependencyEach(<<"a", "b", "c", "d">>, <<"t1", "t2", "t1", "t1">>) \cup
  OneDependencyEach(<<"a", "b", "b", "d">>, <<"t1", "t1", "t1", "t1">>) \cup
  OneDependencyEach(<<"a", "b", "c", "d">>, <<"t1", "gone", "gone", "t1">>) \cup
  UNION {UNION {LET plain == Retooled(w, tools)
                IN  {[steps |-> ss, stop_condition |-> "stated"] :
                       ss \in {plain} \cup {f \in WithOneFault(plain) :
                                              \A i \in DOMAIN f : f[i].arguments = "full"}}
                    \cup {[steps |-> plain, stop_condition |-> "none"]} :
                w \in Wirings(p), tools \in {<<"t1", "t1", "t1">>, <<"t1", "t2", "t1">>}} :
         p \in NamePatterns}
=============================================================================
