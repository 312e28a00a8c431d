--------------------------- MODULE Autoregressive ---------------------------
(***************************************************************************)
(* An autoregressive repairer and the API client behind it, over several   *)
(* repairs with one object: the budget passed to the constructor or read   *)
(* from the environment, the SDK client built on first use and kept, one   *)
(* request per repair, the record kept of each response, and what becomes  *)
(* of the answer.                                                          *)
(***************************************************************************)
EXTENDS Integers, Sequences

CONSTANTS
  DEFAULT_MAX_OUTPUT_TOKENS, MAX_OUTPUT_TOKENS_CEILING,
  Budgets,       \* what the environment may say of the budget
  Arguments,     \* and what a caller may pass for it, Unset for nothing
  Shapes,        \* the shapes of response the API is tried with
  MaxAsked     \* bound

Unset == [set |-> FALSE]          \* absent or blank
Words == [set |-> TRUE, number |-> FALSE]
Number(n) == [set |-> TRUE, number |-> TRUE, value |-> n]

ASSUME AutoregressiveAssumption ==
  /\ MAX_OUTPUT_TOKENS_CEILING \in Nat
  /\ DEFAULT_MAX_OUTPUT_TOKENS \in 1 .. MAX_OUTPUT_TOKENS_CEILING
  /\ \A b \in Budgets : b = Unset \/ b = Words \/ (b.value \in Int /\ b = Number(b.value))
  /\ \A a \in Arguments : a = Unset \/ (a.value \in Int /\ a = Number(a.value))
  /\ Shapes \subseteq {"plan", "text", "empty", "no_choices"}
  /\ MaxAsked \in Nat

VARIABLES
  environment,  \* [package, key, budget]: what the process was started with
  argument,     \* max_output_tokens, as passed to the constructor
  budget,       \* max_output_tokens
  connected,    \* the SDK client has been built
  last_call,    \* which repair the record of the last response is of, 0 for none
  repairs,      \* how many repairs have been asked for
  requests,     \* the budgets sent with requests
  answer,       \* the text that complete returned
  failures,     \* what _give_up recorded
  returned,     \* what the last repair returned, "raised" if it did not
  stage
autoregressiveVars == <<environment, argument, budget, connected, last_call, repairs, requests, answer, failures, returned, stage>>

AutoregressiveInit ==
  /\ environment \in [package : BOOLEAN, key : BOOLEAN, budget : Budgets]
  /\ argument \in Arguments
  /\ budget = 0 /\ connected = FALSE
  /\ last_call = 0 /\ repairs = 0 /\ requests = {}
  /\ answer = "none" /\ failures = <<>> /\ returned = "nothing"
  /\ stage = "new"

\* Mutant: nothing bounds the budget from above.
AcceptableUnbounded(b) == b.set => b.number /\ b.value >= 1

\* budget_from_environment refuses what it cannot read and what is out of range.
Acceptable(b) ==
  b.set => b.number /\ b.value >= 1 /\ b.value <= MAX_OUTPUT_TOKENS_CEILING

Asked(b) == IF b.set THEN b.value ELSE DEFAULT_MAX_OUTPUT_TOKENS

\* A budget that is passed is taken as it is, unchecked.
Construct ==
  /\ stage = "new"
  /\ \/ argument.set /\ budget' = argument.value /\ stage' = "idle"
     \/ ~argument.set /\ Acceptable(environment.budget)
        /\ budget' = Asked(environment.budget) /\ stage' = "idle"
     \/ ~argument.set /\ ~Acceptable(environment.budget)
        /\ stage' = "unbuildable" /\ UNCHANGED budget
  /\ UNCHANGED <<environment, argument, connected, last_call, repairs, requests, answer, failures, returned>>

Repair ==
  /\ stage = "idle" /\ repairs < MaxAsked
  /\ repairs' = repairs + 1
  /\ returned' = "nothing" /\ answer' = "none"
  /\ stage' = "connect"
  /\ UNCHANGED <<environment, argument, budget, connected, last_call, requests, failures>>

\* Mutant: an answer that could not be used is not put on record.
GiveUpQuietly(kind, record) ==
  /\ returned' = "given"
  /\ stage' = "idle"
  /\ UNCHANGED failures

\* The broken plan comes back; an empty answer is explained by the record of a call.
GiveUp(kind, record) ==
  /\ failures' = Append(failures, [kind |-> kind, repair |-> repairs, record |-> record])
  /\ returned' = "given"
  /\ stage' = "idle"

\* _ensure_client: kept once built.
Connect ==
  /\ stage = "connect"
  /\ IF connected \/ (environment.package /\ environment.key)
     THEN connected' = TRUE /\ stage' = "request" /\ UNCHANGED <<failures, returned>>
     ELSE GiveUp("api", 0) /\ UNCHANGED connected
  /\ UNCHANGED <<environment, argument, budget, last_call, repairs, requests, answer>>

\* The SDK's own constructor is called outside the try: what it raises is no LLMError.
ConnectRaises ==
  /\ stage = "connect" /\ ~connected /\ environment.package /\ environment.key
  /\ returned' = "raised"
  /\ stage' = "idle"
  /\ UNCHANGED <<environment, argument, budget, connected, last_call, repairs, requests, answer, failures>>

\* The request is made with the budget, and either fails or is answered.
Request ==
  /\ stage = "request"
  /\ requests' = requests \cup {budget}
  /\ \/ GiveUp("api", 0) /\ UNCHANGED answer
     \/ answer' \in Shapes /\ stage' = "read" /\ UNCHANGED <<failures, returned>>
  /\ UNCHANGED <<environment, argument, budget, connected, last_call, repairs>>

\* A response without choices is indexed before anything is recorded: no LLMError.
ReadNoChoices ==
  /\ stage = "read" /\ answer = "no_choices"
  /\ returned' = "raised"
  /\ stage' = "idle"
  /\ UNCHANGED <<environment, argument, budget, connected, last_call, repairs, requests, answer, failures>>

\* Mutant: the answer is judged before its own record is taken.
ReadBeforeRecording ==
  /\ stage = "read" /\ answer # "no_choices"
  /\ IF answer = "empty" THEN GiveUp("api", last_call)
     ELSE stage' = "parse" /\ UNCHANGED <<failures, returned>>
  /\ last_call' = repairs
  /\ UNCHANGED <<environment, argument, budget, connected, repairs, requests, answer>>

\* The response is recorded first; an empty one is then an LLMError that says so.
Read ==
  /\ stage = "read" /\ answer # "no_choices"
  /\ last_call' = repairs
  /\ IF answer = "empty" THEN GiveUp("api", last_call')
     ELSE stage' = "parse" /\ UNCHANGED <<failures, returned>>
  /\ UNCHANGED <<environment, argument, budget, connected, repairs, requests, answer>>

Parse ==
  /\ stage = "parse"
  /\ IF answer = "text" THEN GiveUp("parse", 0)
     ELSE returned' = "answer" /\ stage' = "idle" /\ UNCHANGED failures
  /\ UNCHANGED <<environment, argument, budget, connected, last_call, repairs, requests, answer>>

AutoregressiveNext == Construct \/ Repair \/ Connect \/ ConnectRaises \/ Request \/ ReadNoChoices \/ Read \/ Parse
AutoregressiveSpec == AutoregressiveInit /\ [][AutoregressiveNext]_autoregressiveVars

-----------------------------------------------------------------------------
Busy == stage \in {"connect", "request", "read", "parse"}

\* To the caller a call that raised is one that never came back.
Contract == INSTANCE RepairContract WITH
  asked <- Busy \/ returned = "raised",
  recorded <- Len(failures),
  returned <- IF returned = "raised" THEN "nothing" ELSE returned

\* "Failure is an outcome, not a crash": every repair that comes back, with one object
\* used again and again, comes back with an answer, or with the given plan and one more
\* failure recorded; only an SDK client that cannot be built and a response without
\* choices are raised instead.
ImplementsContract == Contract!Spec

\* "A budget that was asked for and quietly not applied": every request carries the
\* budget the object was built with; if none was passed, the one the environment asked
\* for, or the default, and never one above the ceiling.
BudgetIsAsAsked ==
  \A sent \in requests :
    /\ argument.set => sent = argument.value
    /\ ~argument.set => /\ sent \in 1 .. MAX_OUTPUT_TOKENS_CEILING
                        /\ environment.budget.set => sent = environment.budget.value

\* "The error raised for an empty answer carries that record in its message": its own,
\* not that of an earlier call.
EmptyIsExplained ==
  \A i \in DOMAIN failures :
    LET f == failures[i] IN f.record # 0 => f.record = f.repair
=============================================================================
